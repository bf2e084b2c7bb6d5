----------------------------- MODULE Gpioset ------------------------------------
(***************************************************************************)
(* gpioset (tools/gpioset.c): finds the lines, requests them chip by chip  *)
(* with the values given, then toggles them on a schedule, takes commands, *)
(* or waits.  Composes LineResolver with the kernel's lines.               *)
(*                                                                         *)
(* Commands that change neither lines nor values (get, help, sleep, what   *)
(* does not parse, end of input, which the loop reads for ever) leave      *)
(* every variable alone and have no action.                                *)
(***************************************************************************)
EXTENDS LineResolver

CONSTANTS
  StartValues,  \* values of a command line as given, one for each id and more
  Schedules,    \* periods of the toggle option; <<>> without it
  Holds         \* hold periods

ASSUME GpiosetAssumption ==
  /\ \A v \in StartValues : \A ids \in IdLists :
       v \in Seq(STRING) /\ Len(v) >= Len(ids)
  /\ Schedules \subseteq Seq(Nat)
  /\ Holds \subseteq Nat

VARIABLES
  value,       \* the values of resolver->lines
  req,         \* the requests, chip by chip: live, or dead (the device is gone)
  driven,      \* the kernel: the value of each line of each device, or Free
  mode,        \* the options that matter once the lines are requested
  idx,         \* toggle_sequence's index
  since,       \* history: time slept since values were last applied
  kept,        \* history: what since was when they were replaced or released
  flips        \* history: times all lines were toggled, modulo 2

svars == <<value, req, driven, mode, idx, since, kept, flips>>
vars  == <<rvars, svars>>

Free      == 2
Never     == -1
FreeLines(layout) == [o \in 0 .. Len(layout) - 1 |-> Free]
AllFree   == [p \in Paths |-> FreeLines(dev[p])]
NoMode    == [interactive |-> FALSE, periods |-> <<>>, hold |-> 0]

Init ==
  /\ ResolverInit
  /\ value = <<>> /\ req = <<>> /\ driven = AllFree
  /\ mode = NoMode /\ idx = 0 /\ since = 0 /\ kept = Never /\ flips = 0

\* the options parse_config lets through
Configs ==
  {c \in [interactive : BOOLEAN, periods : Schedules, hold : Holds] :
     c.interactive => c.periods = <<>>}

\* every way the process ends gives its lines back; a signal would do no more
Exit(reason) ==
  /\ Die(reason)
  /\ req' = <<>> /\ driven' = AllFree

-----------------------------------------------------------------------------
(* Looking lines up *)

Lookup ==
  /\ \/ \E ids \in IdLists, c \in Paths \cup {NoChip}, s, b \in BOOLEAN :
          Start(ids, c, s, b)
     \/ \E c \in Paths : StartNoChip(c)
     \/ OpenChip \/ OpenDenied \/ OpenGone
     \/ ReadLine \/ ReadLineNotUnique \/ ReadLineFails \/ CloseChip
     \/ Validate \/ Invalid
  /\ UNCHANGED svars

-----------------------------------------------------------------------------
(* Requesting them *)

\* parse_value
BadValue == -1
ParseValue(word) ==
  IF word \in {"0", "inactive", "off", "false"} THEN 0
  ELSE IF word \in {"1", "active", "on", "true"} THEN 1
  ELSE BadValue

\* parse_line_values_or_die, before any chip is opened
BadValues(v) ==
  /\ pc = "start"
  /\ \E k \in DOMAIN v : ParseValue(v[k]) = BadValue
  /\ Die("values")
  /\ UNCHANGED <<dev, moves, LookupState, svars>>

Values(v) ==
  /\ pc = "values"
  /\ \A k \in DOMAIN v : ParseValue(v[k]) # BadValue
  /\ value' = [k \in DOMAIN lines |-> ParseValue(v[k])]
  /\ pc' = "request"
  /\ UNCHANGED <<dev, moves, why, LookupState, req, driven, mode, idx, since, kept,
                 flips>>

\* the kernel's side of set_values, for the lines of one device: the j-th value goes to
\* the j-th line of the request, whose lines are in the order of the ids too
Drive(d, c, vs) ==
  LET ls     == LinesOf(c)
      Idx(o) == {j \in DOMAIN ls : lines[ls[j]].offset = o}
  IN  [o \in DOMAIN d |-> IF Idx(o) = {} THEN d[o] ELSE vs[CHOOSE j \in Idx(o) : TRUE]]

\* Mutant: the scratch values are filled without regard to the chip.
ValuesFront(v, c) == SubSeq(v, 1, Len(LinesOf(c)))

\* get_line_offsets_and_values: the values that go with LinesOf
ValuesOf(v, c) == LET ls == LinesOf(c) IN [j \in DOMAIN ls |-> v[ls[j]]]

NextChip == Len(req)
NextPath == chips[NextChip + 1]

RequestChip ==
  /\ pc = "request" /\ NextChip < Len(chips)
  /\ \A k \in Range(LinesOf(NextChip)) : lines[k].offset < Len(dev[NextPath])
  /\ driven' = [driven EXCEPT ![NextPath] =
                  Drive(@, NextChip, ValuesOf(value, NextChip))]
  /\ req' = Append(req, "live")
  /\ UNCHANGED <<rvars, value, mode, idx, since, kept, flips>>

\* the device is gone or has no such line, the kernel refuses, a line is busy
RequestFails ==
  /\ pc = "request" /\ NextChip < Len(chips)
  /\ Exit("request")
  /\ UNCHANGED <<dev, moves, LookupState, value, mode, idx, since, kept, flips>>

\* Mutants: a last period of 0 is raised too; the last period never is.
AdjustedAll(periods, hold) ==
  [k \in DOMAIN periods |-> IF hold > periods[k] THEN hold ELSE periods[k]]
AdjustedButLast(periods, hold) ==
  [k \in DOMAIN periods |->
     IF hold > periods[k] /\ k # Len(periods) THEN hold ELSE periods[k]]

\* the hold period is the least of the periods, but for a last period of 0
Adjusted(periods, hold) ==
  [k \in DOMAIN periods |->
     IF hold > periods[k] /\ (k # Len(periods) \/ periods[k] # 0)
       THEN hold ELSE periods[k]]

\* a sole period of 0 toggles nothing
Configure(config) ==
  /\ pc = "request" /\ NextChip = Len(chips)
  /\ mode' = config
  /\ pc' = IF Adjusted(config.periods, config.hold) \in {<<>>, <<0>>}
             THEN "hold" ELSE "toggle"
  /\ UNCHANGED <<dev, moves, why, LookupState, value, req, driven, idx, since, kept,
                 flips>>

-----------------------------------------------------------------------------
(* Values *)

\* apply_values: each chip gets its values; one that is gone is reported, and the others
\* follow
Living(p) == {c \in DOMAIN req : chips[c] = p /\ req[c] = "live"}
Applied(v) ==
  [p \in Paths |->
     IF Living(p) = {} THEN driven[p]
     ELSE LET c == CHOOSE c \in Living(p) : TRUE
          IN  Drive(driven[p], c - 1, ValuesOf(v, c - 1))]

Apply(v, slept) ==
  /\ value' = v
  /\ driven' = Applied(v)
  /\ kept' = slept /\ since' = 0

ToggledAll == [k \in DOMAIN value |-> 1 - value[k]]

\* Mutant: a period of 0 anywhere ends the sequence.
AfterPeriodAny(periods, j) ==
  IF j < Len(periods) /\ periods[j + 1] = 0 THEN "hold" ELSE "toggle"

\* one round of toggle_sequence: sleep, toggle, apply, move on
AfterPeriod(periods, j) ==
  IF j = Len(periods) - 1 /\ periods[j + 1] = 0 THEN "hold" ELSE "toggle"

Wrapped(periods, j) == IF j = Len(periods) THEN 0 ELSE j

ToggleStep ==
  /\ pc = "toggle"
  /\ LET periods == Adjusted(mode.periods, mode.hold)
         next    == idx + 1
     IN  /\ Apply(ToggledAll, since + periods[next])
         /\ pc' = AfterPeriod(periods, next)
         /\ idx' = Wrapped(periods, next)
  /\ flips' = 1 - flips
  /\ UNCHANGED <<dev, moves, why, LookupState, req, mode>>

Hold ==
  /\ pc = "hold"
  /\ since' = since + mode.hold
  /\ pc' = IF mode.interactive THEN "prompt"
           ELSE IF mode.periods # <<>> THEN "release" ELSE "wait"
  /\ UNCHANGED <<dev, moves, why, LookupState, value, req, driven, mode, idx, kept,
                 flips>>

\* wait_fd: only the first request is watched
WaitEnds ==
  /\ pc = "wait" /\ req[1] = "dead"
  /\ pc' = "release"
  /\ UNCHANGED <<dev, moves, why, LookupState, svars>>

Release ==
  /\ pc = "release"
  /\ kept' = since
  /\ Exit("ok")
  /\ UNCHANGED <<dev, moves, LookupState, value, mode, idx, since, flips>>

-----------------------------------------------------------------------------
(* The prompt *)

\* valid_lines; and no more parameters than there are lines
KnownLines(ids) == Range(ids) \subseteq Range(args.ids)
Fits(ids)       == Len(ids) <= Len(lines)
LineOf(id)      == SelectInSeq(args.ids, LAMBDA named : named = id)

\* set_line_values_subset: a line named twice gets the value given last
SetLineValuesSubset(ids, new) ==
  FoldLeft(LAMBDA v, l : [v EXCEPT ![LineOf(ids[l])] = new[l]],
           value, [l \in DOMAIN ids |-> l])

\* toggle_lines: a line named twice is toggled twice
ToggleLines(ids) ==
  FoldLeft(LAMBDA v, id : [v EXCEPT ![LineOf(id)] = 1 - @], value, ids)

PromptSet(ids, new) ==
  /\ pc = "prompt"
  /\ Fits(ids) /\ KnownLines(ids)
  /\ Apply(SetLineValuesSubset(ids, new), since)
  /\ UNCHANGED <<dev, moves, pc, why, LookupState, req, mode, idx, flips>>

\* the lines named, or all without a name; the values are applied again when a name
\* is wrong too
PromptToggle(ids) ==
  /\ pc = "prompt"
  /\ Fits(ids)
  /\ Apply(IF ids = <<>> THEN ToggledAll
           ELSE IF KnownLines(ids) THEN ToggleLines(ids) ELSE value, since)
  /\ UNCHANGED <<dev, moves, pc, why, LookupState, req, mode, idx, flips>>

PromptExit ==
  /\ pc = "prompt"
  /\ pc' = "release"
  /\ UNCHANGED <<dev, moves, why, LookupState, svars>>

\* a line of blanks has no first word: the pointer compared is null, or the freed
\* word of the command before, which may read as anything (apply and exit are among
\* the other actions of the prompt)
PromptBlank ==
  /\ pc = "prompt"
  /\ Exit("blank")
  /\ UNCHANGED <<dev, moves, LookupState, value, mode, idx, since, kept, flips>>

Prompt ==
  \/ \E ids \in IdLists : \E new \in [DOMAIN ids -> {0, 1}] : PromptSet(ids, new)
  \/ \E ids \in IdLists \cup {<<>>} : PromptToggle(ids)
  \/ PromptExit
  \/ PromptBlank

-----------------------------------------------------------------------------
(* The world *)

DeviceChanges(p, layout) ==
  /\ Move(p, layout)
  /\ req' = [c \in DOMAIN req |-> IF chips[c] = p THEN "dead" ELSE req[c]]
  /\ driven' = [driven EXCEPT ![p] = FreeLines(layout)]
  /\ UNCHANGED <<value, mode, idx, since, kept, flips>>

-----------------------------------------------------------------------------

Next ==
  \/ Lookup
  \/ \E v \in StartValues : BadValues(v) \/ Values(v)
  \/ RequestChip \/ RequestFails
  \/ \E config \in Configs : Configure(config)
  \/ ToggleStep \/ Hold \/ WaitEnds \/ Release
  \/ Prompt
  \/ \E p \in Paths, layout \in Replacements \cup {Gone} : DeviceChanges(p, layout)

\* sleeps end, and the program goes on when they do
Fairness == WF_vars(ToggleStep) /\ WF_vars(Hold) /\ WF_vars(Release)

Spec == Init /\ [][Next]_vars /\ Fairness

-----------------------------------------------------------------------------
(* Properties *)

\* The state has its types (struct line_resolver, struct config, main's locals).
TypeOK ==
  /\ dev \in [Paths -> Layouts \cup {Gone}] /\ seen \in [Paths -> Layouts \cup {Gone}]
  /\ moves \in 0 .. MaxMoves
  /\ args.ids \in IdLists \cup {<<>>} /\ args.chip \in Paths \cup {NoChip}
  /\ args.strict \in BOOLEAN /\ args.byName \in BOOLEAN
  /\ pc \in {"start", "chip", "line", "values", "request", "toggle", "hold", "prompt",
            "wait", "release", "exit"}
  /\ why \in Reasons /\ (why = "running" <=> pc # "exit")
  /\ Range(paths) \subseteq Paths /\ i \in 0 .. Len(paths)
  /\ at \in Nat /\ fd \in {"none", "live", "dead"}
  /\ \A k \in DOMAIN lines :
       lines[k] \in [resolved : BOOLEAN, chip : -1 .. NumPaths - 1, offset : Nat]
  /\ Range(chips) \subseteq Range(paths) /\ found \in Nat /\ used \in BOOLEAN
  /\ Range(value) \subseteq {0, 1} /\ Range(req) \subseteq {"live", "dead"}
  /\ \A p \in Paths : driven[p] \in [0 .. Len(dev[p]) - 1 -> {0, 1, Free}]
  /\ mode \in [interactive : BOOLEAN, periods : Schedules \cup {<<>>}, hold : Holds \cup {0}]
  /\ idx \in 0 .. Len(mode.periods) /\ (idx > 0 => idx < Len(mode.periods))
  /\ since \in Nat /\ kept \in Nat \cup {Never} /\ flips \in {0, 1}

LinePath(k) == chips[lines[k].chip + 1]
Place(k)    == <<LinePath(k), lines[k].offset>>

\* the lines of a name on the chips that were opened, and those an id can mean
Places   == UNION {{p} \X (0 .. Len(seen[p]) - 1) : p \in Paths}
Named(n) == {q \in Places : seen[q[1]][q[2] + 1] = n}
ByOffsetId(k) ==
  ~args.byName /\ AsOffset[args.ids[k]] \in 0 .. Len(seen[args.chip]) - 1
AtOffset(k) == <<args.chip, AsOffset[args.ids[k]]>>
Meant(k) == IF ByOffsetId(k) THEN {AtOffset(k)} ELSE Named(args.ids[k])
Before(a, b) == a[1] < b[1] \/ (a[1] = b[1] /\ a[2] <= b[2])

\* Whatever chips are passed over or unused in between, a program that goes on has for
\* each id the line at that offset, or else the first line of that name and with the
\* strict option the only one, and no line twice: the numbers the lines keep lead to
\* the chips they were found on (resolve_lines, validate_resolution).
ResolvedRight ==
  pc \notin {"start", "chip", "line", "exit"} =>
    /\ \A k \in DOMAIN lines :
         /\ lines[k].chip + 1 \in DOMAIN chips
         /\ Place(k) \in Meant(k)
         /\ \A other \in Meant(k) : Before(Place(k), other)
         /\ args.strict => Cardinality(Meant(k)) = 1
    /\ \A k, l \in DOMAIN lines : k # l => Place(k) # Place(l)

\* What the tool holds and shows as a line's value is what the kernel drives that line
\* to, on every requested chip that is still there, whatever commands or toggles came,
\* for lines of several chips in any order (apply_values, get_line_offsets_and_values).
ShownIsDriven ==
  \A c \in DOMAIN req : \A k \in DOMAIN lines :
    req[c] = "live" /\ lines[k].chip = c - 1
      => driven[chips[c]][lines[k].offset] = value[k]

\* The toggle sequence is left only if its last period is 0, and then each period
\* before it was used once: "If the last period is 0 then gpioset exits else the
\* sequence repeats" (toggle_sequence).
SequencePlayedOnce ==
  (pc \in {"hold", "release"} \/ (pc = "exit" /\ why = "ok")) /\ mode.periods # <<>> =>
    /\ Last(mode.periods) = 0
    /\ flips = (Len(mode.periods) - 1) % 2

\* Outside the prompt, no value is replaced or given up before the hold period is over,
\* also around the wrap of the sequence and after its last toggle (main, toggle_sequence).
HoldRespected ==
  kept # Never /\ ~mode.interactive => kept >= mode.hold

\* A sequence that ends in 0 ends the program, whatever the hold period and whatever
\* chips go away (toggle_sequence, main).
ToggleEnds ==
  (pc = "toggle" /\ Last(mode.periods) = 0) ~> (pc = "exit")

=================================================================================
