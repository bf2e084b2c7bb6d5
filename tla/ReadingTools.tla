----------------------------- MODULE ReadingTools -------------------------------
(***************************************************************************)
(* gpioget and gpioinfo (tools/gpioget.c, tools/gpioinfo.c).  gpioget      *)
(* requests the lines it found chip by chip, reads them and prints all     *)
(* values at the end.  gpioinfo has a search of its own: it prints lines   *)
(* as it finds them, goes on after a chip it cannot open, and finds out at *)
(* the end whether it found what it was asked for.                         *)
(***************************************************************************)
EXTENDS LineResolver

VARIABLES
  reading,     \* the program: none, gpioget or gpioinfo
  done,         \* gpioget: chips that were read
  req,         \* ... the request of the next one: none, live or dead
  value,       \* ... resolver->lines[].value; NoValue before it is read
  level,       \* history: what was read of each line of each chip
  listed,      \* gpioinfo: the lines printed
  failed       \* ... ret: some chip could not be opened

gvars == <<reading, done, req, value, level, listed, failed>>

NoValue == 2
Unread  == [p \in Paths |-> <<>>]

ReadingInit ==
  /\ reading = "none" /\ done = 0 /\ req = "none" /\ value = <<>> /\ level = Unread
  /\ listed = <<>> /\ failed = FALSE

-----------------------------------------------------------------------------
(* gpioget *)

GetStart ==
  /\ pc = "values"
  /\ reading' = "gpioget"
  /\ value' = [k \in DOMAIN lines |-> NoValue]
  /\ pc' = "get"
  /\ UNCHANGED <<StayedOn, done, req, level, listed, failed>>

GetPath == chips[done + 1]
GetSize == Len(dev[GetPath])

GetRequest ==
  /\ pc = "get" /\ req = "none" /\ done < Len(chips)
  /\ \A k \in Range(LinesOf(done)) : lines[k].offset < Len(dev[GetPath])
  /\ req' = "live"
  /\ UNCHANGED <<rvars, reading, done, value, level, listed, failed>>

GetRequestFails ==
  /\ pc = "get" /\ req = "none" /\ done < Len(chips)
  /\ Die("request")
  /\ UNCHANGED <<dev, moves, LookupState, gvars>>

\* Mutant: values are stored from the first line on, whatever its chip.
SetLineValuesFront(vs, c) ==
  [k \in DOMAIN lines |-> IF k <= Len(vs) THEN vs[k] ELSE value[k]]

\* set_line_values: the values of a request go to the lines of its chip in turn
SetLineValues(vs, c) ==
  [k \in DOMAIN lines |->
     IF lines[k].chip = c
       THEN vs[CHOOSE j \in DOMAIN vs : LinesOf(c)[j] = k]
       ELSE value[k]]

\* after the hold period: the levels are what they are at this moment
GetValues ==
  /\ pc = "get" /\ req = "live"
  /\ \E levels \in [1 .. GetSize -> {0, 1}] :
       /\ level' = [level EXCEPT ![GetPath] = levels]
       /\ value' = SetLineValues([j \in DOMAIN LinesOf(done) |->
                                    levels[lines[LinesOf(done)[j]].offset + 1]], done)
  /\ req' = "none" /\ done' = done + 1
  /\ UNCHANGED <<rvars, reading, listed, failed>>

GetValuesFails ==
  /\ pc = "get" /\ req = "dead"
  /\ Die("io")
  /\ UNCHANGED <<dev, moves, LookupState, gvars>>

GetPrint ==
  /\ pc = "get" /\ done = Len(chips)
  /\ Die("ok")
  /\ UNCHANGED <<dev, moves, LookupState, gvars>>

-----------------------------------------------------------------------------
(* gpioinfo *)

\* without ids every line is printed
InfoStart(ids, chip, strict, byName) ==
  /\ pc = "start"
  /\ chip # NoChip => IsGpiochip(chip)
  /\ args' = [ids |-> ids, chip |-> chip, strict |-> strict,
              byName |-> byName \/ chip = NoChip]
  /\ paths' = Scanned(chip)
  /\ lines' = [k \in DOMAIN ids |-> Unresolved]
  /\ reading' = "gpioinfo" /\ pc' = "info"
  /\ UNCHANGED <<dev, moves, why, i, at, fd, chips, found, used, seen, done, req, value,
                 level, listed, failed>>

InfoDone == lines # <<>> /\ Done

InfoOpen ==
  /\ pc = "info" /\ fd = "none" /\ i < Len(paths)
  /\ IsGpiochip(Path)
  /\ seen' = [seen EXCEPT ![Path] = dev[Path]]
  /\ lines' = IF i = 0 /\ ~args.byName THEN ByOffset(Len(dev[Path])) ELSE lines
  /\ at' = 0 /\ fd' = "live"
  /\ UNCHANGED <<dev, moves, args, pc, why, paths, i, chips, found, used, gvars>>

\* gone, or no permission: the others are listed all the same
InfoOpenFails ==
  /\ pc = "info" /\ fd = "none" /\ i < Len(paths)
  /\ IF args.chip = NoChip
       THEN i' = i + 1 /\ failed' = TRUE /\ UNCHANGED <<pc, why>>
       ELSE Die("failed") /\ UNCHANGED <<i, failed>>
  /\ UNCHANGED <<dev, moves, args, paths, at, fd, lines, chips, found, used, seen,
                 reading, done, req, value, level, listed>>

\* gpioinfo's resolve_line: a line found is found again in strict mode
InfoByName(k) == HasName(k) /\ (~lines[k].resolved \/ args.strict)
InfoResolved ==
  [k \in DOMAIN lines |->
     IF InfoByName(k) THEN [resolved |-> TRUE, chip |-> i, offset |-> at] ELSE lines[k]]
InfoMatches == lines = <<>> \/ \E k \in DOMAIN lines : FoundByOffset(k) \/ InfoByName(k)

InfoLine ==
  /\ pc = "info" /\ fd = "live" /\ at < NumLines /\ ~InfoDone
  /\ lines' = InfoResolved
  /\ IF InfoMatches
       THEN listed' = Append(listed, <<Path, at>>) /\ found' = found + 1
       ELSE UNCHANGED <<listed, found>>
  /\ at' = at + 1
  /\ UNCHANGED <<dev, moves, args, pc, why, paths, i, fd, chips, used, seen, reading,
                 done, req, value, level, failed>>

InfoLineFails ==
  /\ pc = "info" /\ fd = "dead" /\ at < NumLines /\ ~InfoDone
  /\ Die("io")
  /\ UNCHANGED <<dev, moves, LookupState, gvars>>

InfoClose ==
  /\ pc = "info" /\ fd # "none" /\ (at = NumLines \/ InfoDone)
  /\ i' = i + 1 /\ fd' = "none"
  /\ UNCHANGED <<dev, moves, args, pc, why, paths, at, lines, chips, found, used, seen,
                 gvars>>

\* Mutant: too many lines pass.
AllFoundOrMore == args.ids # <<>> => found >= Len(args.ids)
AllFound == args.ids # <<>> => found = Len(args.ids)

InfoEnd ==
  /\ pc = "info" /\ fd = "none" /\ i = Len(paths)
  /\ Die(IF ~ValidLines THEN "invalid"
         ELSE IF failed \/ ~AllFound THEN "failed" ELSE "ok")
  /\ UNCHANGED <<dev, moves, LookupState, gvars>>

-----------------------------------------------------------------------------
(* gpiodetect *)

WholeChip == -1            \* listed in place of an offset

\* the chips found, or those given, of which one that is not there is a failure
DetectStart(given) ==
  /\ pc = "start"
  /\ paths' = IF given = <<>> THEN Scanned(NoChip)
                              ELSE SelectSeq(given, IsGpiochip)
  /\ failed' = \E p \in Range(given) : ~IsGpiochip(p)
  /\ reading' = "gpiodetect" /\ pc' = "detect"
  /\ UNCHANGED <<dev, moves, why, args, i, at, fd, lines, chips, found, used, seen,
                 done, req, value, level, listed>>

DetectChip ==
  /\ pc = "detect" /\ i < Len(paths)
  /\ \/ IsGpiochip(Path) /\ listed' = Append(listed, <<Path, WholeChip>>)
                         /\ UNCHANGED failed
     \/ failed' = TRUE /\ UNCHANGED listed
  /\ i' = i + 1
  /\ UNCHANGED <<dev, moves, args, pc, why, paths, at, fd, lines, chips, found, used,
                 seen, reading, done, req, value, level>>

DetectEnd ==
  /\ pc = "detect" /\ i = Len(paths)
  /\ Die(IF failed THEN "failed" ELSE "ok")
  /\ UNCHANGED <<dev, moves, LookupState, gvars>>

-----------------------------------------------------------------------------

RequestDies(p) ==
  req' = IF req = "live" /\ GetPath = p THEN "dead" ELSE req

GetNext ==
  \/ GetStart \/ GetRequest \/ GetRequestFails
  \/ GetValues \/ GetValuesFails \/ GetPrint

InfoNext ==
  \/ \E ids \in IdLists \cup {<<>>}, c \in Paths \cup {NoChip}, s, b \in BOOLEAN :
       InfoStart(ids, c, s, b)
  \/ InfoOpen \/ InfoOpenFails \/ InfoLine \/ InfoLineFails \/ InfoClose \/ InfoEnd

DetectNext ==
  \/ \E given \in {<<>>, [p \in 1 .. NumPaths |-> NumPaths - p]} : DetectStart(given)
  \/ DetectChip \/ DetectEnd

ReadingNext == GetNext \/ InfoNext \/ DetectNext

-----------------------------------------------------------------------------
(* Properties *)

\* gpioget prints for each id the level that was read of the line it was resolved to,
\* for ids that alternate between chips and requests made and released one after the
\* other, and prints nothing unless all were read (main, set_line_values).
ReadIsTold ==
  why = "ok" /\ reading = "gpioget" =>
    \A k \in DOMAIN lines :
      value[k] = level[chips[lines[k].chip + 1]][lines[k].offset + 1]

LinesSeen(P) == UNION {{p} \X (0 .. Len(seen[p]) - 1) : p \in P}
LinesNamed(n) == {q \in LinesSeen(Paths) : seen[q[1]][q[2] + 1] = n}
GivenOffset(n) ==
  IF ~args.byName /\ AsOffset[n] \in 0 .. Len(seen[args.chip]) - 1
    THEN {<<args.chip, AsOffset[n]>>} ELSE {}

\* gpioinfo ends well only if it printed one line for each id, the line at that offset
\* or of that name, no line twice and no other; with the strict option no other line of
\* any chip has the name; and only if it could read every chip it had to.  Its search
\* prints lines before it knows the rest (resolve_line, list_lines, main of gpioinfo).
InfoListsNamed ==
  why = "ok" /\ reading = "gpioinfo" =>
    /\ \A j, k \in DOMAIN listed : j # k => listed[j] # listed[k]
    /\ args.ids # <<>> =>
         /\ Len(listed) = Len(args.ids)
         /\ \A k \in DOMAIN args.ids : \E q \in Range(listed) :
              q \in LinesNamed(args.ids[k]) \cup GivenOffset(args.ids[k])
         /\ args.strict =>
              \A id \in Range(args.ids) : LinesNamed(id) \subseteq Range(listed)
    /\ args.ids = <<>> \/ args.strict => \A p \in Range(paths) : seen[p] # Gone
    /\ args.ids = <<>> => Range(listed) = LinesSeen(Range(paths))

=================================================================================
