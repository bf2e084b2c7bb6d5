--------------------------- MODULE GpiosetProofs --------------------------------
(***************************************************************************)
(* Proofs about gpioset, for any chips, ids, values, schedules and hold    *)
(* periods, and chips removed and replaced at any time.  The schedule: the *)
(* hold period is kept, and a sequence is left only before a last period   *)
(* of 0, each period before it used once.  The lines: each id has the line *)
(* it means, and what the tool shows of a line is what drives it.          *)
(***************************************************************************)
EXTENDS Gpioset, FiniteSetTheorems, TLAPS

\* what main leaves alone until the lines are requested
Before0 == {"start", "chip", "line", "values", "request"}

Schedule == mode.periods
N        == Len(mode.periods)

\* The inductive invariant of the schedule.
SInv ==
  /\ mode \in [interactive : BOOLEAN, periods : Seq(Nat), hold : Nat]
  /\ since \in Nat /\ idx \in Nat /\ flips \in {0, 1}
  /\ kept \in Nat \cup {Never}
  /\ pc \in Before0 =>
       kept = Never /\ since = 0 /\ idx = 0 /\ flips = 0 /\ mode.periods = <<>>
  \* while toggling, the next period is there and is not a last period of 0
  /\ pc = "toggle" =>
       /\ ~mode.interactive /\ idx < N
       /\ idx = N - 1 => Schedule[N] # 0
       /\ Schedule[N] = 0 => flips = idx % 2
  /\ pc \in {"wait", "release"} => mode.interactive \/ since >= mode.hold
  /\ pc = "prompt" => mode.interactive
  /\ HoldRespected
  /\ pc \in {"hold", "prompt", "wait", "release"} \/ (pc = "exit" /\ why = "ok") =>
       (Schedule # <<>> => Schedule[N] = 0 /\ flips = (N - 1) % 2)

\* It holds before anything is done (main).
LEMMA InitInv == ASSUME GpiosetAssumption PROVE Init => SInv
<1>1. Never = -1  BY DEF Never
<1> QED  BY <1>1 DEF Init, ResolverInit, SInv, NoMode, HoldRespected, Before0, Schedule, N

-----------------------------------------------------------------------------
(* What the program does before it toggles *)

\* Looking lines up is over before the options of the schedule are read.
LEMMA LookupEarly ==
  ASSUME Lookup
  PROVE  pc \in Before0 /\ pc' \in Before0 \cup {"exit"} /\ UNCHANGED svars
<1>1. UNCHANGED svars  BY DEF Lookup
<1>2. CASE \E ids \in IdLists, c \in Paths \cup {NoChip}, s, b \in BOOLEAN :
             Start(ids, c, s, b)
  BY <1>1, <1>2 DEF Start, Before0
<1>3. CASE \E c \in Paths : StartNoChip(c)
  BY <1>1, <1>3 DEF StartNoChip, Die, Before0
<1>4. CASE OpenChip \/ OpenDenied \/ OpenGone
  BY <1>1, <1>4 DEF OpenChip, OpenDenied, OpenGone, Die, Before0
<1>5. CASE ReadLine \/ ReadLineNotUnique \/ ReadLineFails \/ CloseChip
  BY <1>1, <1>5 DEF ReadLine, ReadLineNotUnique, ReadLineFails, CloseChip, Die, Before0
<1>6. CASE Validate \/ Invalid
  BY <1>1, <1>6 DEF Validate, Invalid, LookedUp, Die, Before0
<1> QED  BY <1>2, <1>3, <1>4, <1>5, <1>6 DEF Lookup

\* The steps before the schedule is chosen keep the invariant.
LEMMA EarlyInv ==
  ASSUME SInv, pc \in Before0, pc' \in Before0 \cup {"exit"},
         UNCHANGED <<mode, since, idx, flips, kept>>
  PROVE  SInv'
BY DEF SInv, Before0, HoldRespected, Schedule, N, Never

-----------------------------------------------------------------------------
(* The schedule *)

\* Periods keep their number; each is at least the hold period, but for a last one of 0,
\* which stays 0 as no other last period does.
LEMMA AdjustedPeriods ==
  ASSUME NEW periods \in Seq(Nat), NEW hold \in Nat
  PROVE  /\ Adjusted(periods, hold) \in Seq(Nat)
         /\ Len(Adjusted(periods, hold)) = Len(periods)
         /\ \A k \in 1 .. Len(periods) :
              /\ k # Len(periods) \/ periods[k] # 0 => Adjusted(periods, hold)[k] >= hold
              /\ k = Len(periods) => (Adjusted(periods, hold)[k] = 0 <=> periods[k] = 0)
<1> DEFINE A == Adjusted(periods, hold)
<1>1. A = [k \in 1 .. Len(periods) |->
             IF hold > periods[k] /\ (k # Len(periods) \/ periods[k] # 0)
               THEN hold ELSE periods[k]]
  BY DEF Adjusted
<1>2. A \in Seq(Nat) /\ Len(A) = Len(periods)  BY <1>1
<1>3. ASSUME NEW k \in 1 .. Len(periods)
      PROVE  /\ k # Len(periods) \/ periods[k] # 0 => A[k] >= hold
             /\ k = Len(periods) => (A[k] = 0 <=> periods[k] = 0)
  <2>1. periods[k] \in Nat  BY <1>3
  <2>2. A[k] = IF hold > periods[k] /\ (k # Len(periods) \/ periods[k] # 0)
                 THEN hold ELSE periods[k]
    BY <1>1, <1>3
  <2> QED  BY <2>1, <2>2
<1> QED  BY <1>2, <1>3

\* The options are taken over, and a sole period of 0 toggles nothing (main).
LEMMA ConfigureInv ==
  ASSUME GpiosetAssumption, SInv,
         NEW config \in Configs, Configure(config)
  PROVE  SInv'
<1> DEFINE interactive == config.interactive
           periods     == config.periods
           hold        == config.hold
<1>1. /\ config \in [interactive : BOOLEAN, periods : Seq(Nat), hold : Nat]
      /\ interactive => periods = <<>>
  BY DEF GpiosetAssumption, Configs
<1>2. /\ kept = Never /\ since = 0 /\ idx = 0 /\ flips = 0
      /\ kept' = kept /\ since' = since /\ idx' = idx /\ flips' = flips
      /\ mode' = config
      /\ pc' = IF Adjusted(periods, hold) \in {<<>>, <<0>>} THEN "hold" ELSE "toggle"
      /\ why' = why
  BY DEF Configure, SInv, Before0
<1> DEFINE A == Adjusted(periods, hold)
           n == Len(periods)
<1>3. A \in Seq(Nat) /\ Len(A) = n /\ n \in Nat  BY <1>1, AdjustedPeriods
<1>4. CASE pc' = "hold"
  <2>1. periods = <<>> \/ (n = 1 /\ periods[1] = 0)
    <3>1. CASE A = <<>>
      BY <3>1, <1>1, <1>3
    <3>2. CASE A = <<0>>
      <4>1. n = 1 /\ A[1] = 0  BY <3>2, <1>3
      <4> QED  BY <4>1, <1>1, AdjustedPeriods
    <3> QED  BY <3>1, <3>2, <1>2, <1>4
  <2>2. periods # <<>> => periods[n] = 0 /\ 0 = (n - 1) % 2
    <3> SUFFICES ASSUME n = 1, periods[1] = 0 PROVE periods[n] = 0 /\ 0 = (n - 1) % 2
      BY <2>1
    <3> QED  OBVIOUS
  <2> QED  BY <2>2, <1>1, <1>2, <1>4 DEF SInv, Before0, HoldRespected, Schedule, N, Never
<1>5. CASE pc' = "toggle"
  <2>1. A # <<>> /\ A # <<0>>  BY <1>2, <1>5
  <2>2. n > 0  BY <2>1, <1>3
  <2>3. n = 1 => periods[1] # 0
    <3> SUFFICES ASSUME n = 1, periods[1] = 0 PROVE FALSE  OBVIOUS
    <3>1. A[1] = 0  BY <1>1, AdjustedPeriods
    <3>2. A = <<0>>  BY <3>1, <1>3
    <3> QED  BY <3>2, <2>1
  <2> QED  BY <2>2, <2>3, <1>1, <1>2, <1>5
           DEF SInv, Before0, HoldRespected, Schedule, N, Never
<1> QED  BY <1>2, <1>4, <1>5

\* Each round flips the parity of the rounds.
LEMMA Parity == \A n \in Nat : (n + 1) % 2 = 1 - (n % 2)
OBVIOUS

\* A round sleeps the hold period at least, as its period is not a last one of 0, and the
\* sequence is left when the next one is.
LEMMA ToggleInv ==
  ASSUME SInv, ToggleStep
  PROVE  SInv'
<1> DEFINE A    == Adjusted(mode.periods, mode.hold)
           next == idx + 1
<1>1. /\ mode.periods \in Seq(Nat) /\ mode.hold \in Nat /\ N \in Nat
      /\ since \in Nat /\ idx \in Nat /\ flips \in {0, 1}
      /\ ~mode.interactive /\ idx < N
      /\ idx = N - 1 => Schedule[N] # 0
      /\ Schedule[N] = 0 => flips = idx % 2
  BY DEF SInv, ToggleStep, N
<1>2. /\ mode' = mode /\ flips' = 1 - flips /\ why' = why
      /\ kept' = since + A[next] /\ since' = 0
      /\ pc' = AfterPeriod(A, next)
      /\ idx' = Wrapped(A, next)
  BY DEF ToggleStep, Apply
<1>3. /\ A \in Seq(Nat) /\ Len(A) = N
      /\ \A k \in 1 .. N :
           /\ k # N \/ Schedule[k] # 0 => A[k] >= mode.hold
           /\ k = N => (A[k] = 0 <=> Schedule[k] = 0)
  BY <1>1, AdjustedPeriods DEF N, Schedule
<1>4. next \in 1 .. N  BY <1>1
<1>5. A[next] \in Nat /\ A[next] >= mode.hold  BY <1>1, <1>3, <1>4
<1>6. kept' \in Nat /\ kept' >= mode.hold  BY <1>1, <1>2, <1>5
<1>7. Schedule[N] = 0 => flips' = next % 2  BY <1>1, <1>2, Parity
<1>8. Schedule' = Schedule /\ N' = N  BY <1>2 DEF Schedule, N
<1>9. CASE pc' = "hold"
  <2>1. next = N - 1 /\ A[next + 1] = 0  BY <1>2, <1>3, <1>9 DEF AfterPeriod
  <2>2. Schedule[N] = 0 /\ flips' = (N - 1) % 2  BY <2>1, <1>1, <1>3, <1>7, SMTT(30)
  <2>3. idx' \in Nat  BY <2>1, <1>1, <1>2, <1>3 DEF Wrapped
  <2> QED  BY <2>2, <2>3, <1>1, <1>2, <1>6, <1>8, <1>9 DEF SInv, HoldRespected, Before0
<1>10. CASE pc' = "toggle"
  <2>1. next = N - 1 => Schedule[N] # 0
    BY <1>1, <1>2, <1>3, <1>10 DEF AfterPeriod
  <2>2. /\ idx' \in Nat /\ idx' < N
        /\ idx' = N - 1 => Schedule[N] # 0
        /\ Schedule[N] = 0 => flips' = idx' % 2
    <3>1. CASE next = N
      <4>1. idx' = 0  BY <3>1, <1>2, <1>3 DEF Wrapped
      <4>2. Schedule[N] # 0  BY <3>1, <1>1
      <4> QED  BY <4>1, <4>2, <1>1
    <3>2. CASE next # N
      <4>1. idx' = next  BY <3>2, <1>2, <1>3 DEF Wrapped
      <4> QED  BY <4>1, <3>2, <2>1, <1>1, <1>4, <1>7
    <3> QED  BY <3>1, <3>2
  <2> QED  BY <2>2, <1>1, <1>2, <1>6, <1>8, <1>10, SMTT(30) DEF SInv, HoldRespected, Before0
<1> QED  BY <1>2, <1>9, <1>10 DEF AfterPeriod

\* The hold period is slept once more when the sequence is over, or there is none.
LEMMA HoldInv ==
  ASSUME SInv, Hold
  PROVE  SInv'
<1>1. since' \in Nat /\ since' >= mode.hold  BY DEF Hold, SInv
<1>2. /\ pc = "hold" /\ pc' \in {"prompt", "release", "wait"}
      /\ pc' = "prompt" => mode.interactive
      /\ UNCHANGED <<mode, idx, kept, flips, why>>
  BY DEF Hold
<1> QED  BY <1>1, <1>2 DEF SInv, Before0, HoldRespected, Schedule, N

-----------------------------------------------------------------------------
(* The rest *)

\* Steps that leave schedule and times alone and do not go back keep the invariant.
LEMMA OnwardInv ==
  ASSUME SInv, UNCHANGED <<mode, since, idx, flips, kept>>,
         \/ pc' = pc /\ why' = why
         \/ pc = "wait" /\ pc' = "release"
         \/ pc = "prompt" /\ pc' = "release"
         \/ pc \in Before0 \cup {"prompt"} /\ pc' = "exit"
  PROVE  SInv'
BY DEF SInv, Before0, HoldRespected, Schedule, N

\* Commands at the prompt apply values at any time.
LEMMA PromptApplies ==
  ASSUME SInv, pc = "prompt", pc' = pc, UNCHANGED <<mode, idx, flips>>,
         kept' = since, since' = 0
  PROVE  SInv'
BY DEF SInv, Before0, HoldRespected, Schedule, N

\* The lines are released after the last hold period (main).
LEMMA ReleaseInv ==
  ASSUME SInv, Release
  PROVE  SInv'
<1>1. /\ pc = "release" /\ pc' = "exit" /\ kept' = since
      /\ UNCHANGED <<mode, idx, since, flips>>
  BY DEF Release, Exit, Die
<1> QED  BY <1>1 DEF SInv, Before0, HoldRespected, Schedule, N

\* Every step of the program and of the world keeps the invariant.
LEMMA NextInv ==
  ASSUME GpiosetAssumption, SInv, [Next]_vars
  PROVE  SInv'
<1>1. CASE Lookup
  BY <1>1, LookupEarly, EarlyInv DEF svars
<1>2. CASE \E v \in StartValues : BadValues(v) \/ Values(v)
  <2>1. pc \in Before0 /\ pc' \in Before0 \cup {"exit"}
    BY <1>2 DEF Values, BadValues, Die, Before0
  <2>2. UNCHANGED <<mode, since, idx, flips, kept>>
    BY <1>2 DEF Values, BadValues, svars
  <2> QED  BY <2>1, <2>2, EarlyInv
<1>3. CASE RequestChip
  BY <1>3, OnwardInv DEF RequestChip, rvars
<1>4. CASE RequestFails
  BY <1>4, OnwardInv DEF RequestFails, Exit, Die, Before0
<1>5. CASE \E config \in Configs : Configure(config)
  BY <1>5, ConfigureInv
<1>6. CASE ToggleStep  BY <1>6, ToggleInv
<1>7. CASE Hold  BY <1>7, HoldInv
<1>8. CASE WaitEnds
  BY <1>8, OnwardInv DEF WaitEnds, svars
<1>9. CASE Release  BY <1>9, ReleaseInv
<1>10. CASE Prompt
  <2>1. CASE \E ids \in IdLists : \E new \in [DOMAIN ids -> {0, 1}] : PromptSet(ids, new)
    BY <2>1, PromptApplies DEF PromptSet, Apply
  <2>2. CASE \E ids \in IdLists \cup {<<>>} : PromptToggle(ids)
    BY <2>2, PromptApplies DEF PromptToggle, Apply
  <2>3. CASE PromptExit
    BY <2>3, OnwardInv DEF PromptExit, svars
  <2>4. CASE PromptBlank
    BY <2>4, OnwardInv DEF PromptBlank, Exit, Die
  <2> QED  BY <1>10, <2>1, <2>2, <2>3, <2>4 DEF Prompt
<1>11. CASE \E p \in Paths, layout \in Replacements \cup {Gone} : DeviceChanges(p, layout)
  BY <1>11, OnwardInv DEF DeviceChanges, Move
<1>12. CASE UNCHANGED vars
  BY <1>12, OnwardInv DEF vars, rvars, svars
<1> QED
  BY <1>1, <1>2, <1>3, <1>4, <1>5, <1>6, <1>7, <1>8, <1>9, <1>10, <1>11, <1>12 DEF Next

-----------------------------------------------------------------------------
(* The invariant of the search *)

Sorted(s) == \A j, k \in DOMAIN s : j < k => s[j] < s[k]

LineRec == [resolved : BOOLEAN, chip : Int, offset : Nat]

SearchShape ==
  /\ dev \in [Paths -> Layouts \cup {Gone}] /\ seen \in [Paths -> Layouts \cup {Gone}]
  /\ args.ids \in Seq(Names) /\ args.chip \in Paths \cup {NoChip}
  /\ args.strict \in BOOLEAN /\ args.byName \in BOOLEAN
  /\ lines \in Seq(LineRec) /\ Len(lines) = Len(args.ids)
  /\ i \in Nat /\ at \in Nat /\ used \in BOOLEAN /\ chips \in Seq(Paths)

\* The paths ascend, and there is only the one given if one is.
PathsSorted ==
  /\ paths \in Seq(Paths) /\ Sorted(paths)
  /\ args.chip # NoChip => paths = <<args.chip>>
  /\ ~args.byName => args.chip # NoChip

Fresh ==
  pc = "start" => /\ args.byName /\ lines = <<>> /\ chips = <<>> /\ i = 0
                  /\ \A p \in Paths : seen[p] = Gone

\* The chips used are some of those that were read, in their order.
ChipsRead ==
  /\ \A c \in DOMAIN chips : \E j \in 1 .. i : j \in DOMAIN paths /\ chips[c] = paths[j]
  /\ Sorted(chips)

\* No path was opened but those before the one the search is at, and that one if it is
\* being read.
SeenRead ==
  \A p \in Paths : seen[p] # Gone =>
    \/ \E j \in 1 .. i : j \in DOMAIN paths /\ p = paths[j]
    \/ pc = "line" /\ p = Path

\* The lines found are on the chips used, or on the one that is being read.
LinesPlaced ==
  /\ pc = "chip" => /\ i <= Len(paths)
                    /\ \A k \in DOMAIN lines : lines[k].resolved =>
                         lines[k].chip \in 0 .. Len(chips) - 1
  /\ pc = "line" => /\ i < Len(paths)
                    /\ \A k \in DOMAIN lines : lines[k].resolved =>
                         \/ lines[k].chip \in 0 .. Len(chips) - 1
                         \/ used /\ lines[k].chip = Len(chips)

\* A program that goes on has found every line, and none of them twice.
LookingUp == {"start", "chip", "line"}
LinesChosen ==
  pc \notin LookingUp =>
    \A k \in DOMAIN lines :
      /\ lines[k].resolved /\ lines[k].chip \in 0 .. Len(chips) - 1
      /\ \A l \in DOMAIN lines : SameLine(k, l) => k = l

\* Where line k was found; a line of the chip that was read, by name; and one that is
\* still to be read.
Where(k)     == IF lines[k].chip = Len(chips) THEN Path ELSE chips[lines[k].chip + 1]
Has(p, o, n) == o < Len(seen[p]) /\ seen[p][o + 1] = n
Unread(p, o) == pc = "line" /\ p = Path /\ o >= at

\* A line found is at the offset that was asked for, or is the first of its name, and
\* with the strict option the only one so far.
FoundFirst(k) ==
  /\ ByOffsetId(k) => Where(k) = args.chip /\ lines[k].offset = AsOffset[args.ids[k]]
  /\ ~ByOffsetId(k) =>
       /\ Has(Where(k), lines[k].offset, args.ids[k])
       /\ \A p \in Paths, o \in Nat : Has(p, o, args.ids[k]) =>
            /\ Where(k) < p \/ (Where(k) = p /\ lines[k].offset <= o)
            /\ args.strict => (Where(k) = p /\ lines[k].offset = o) \/ Unread(p, o)

\* Of a line not found, no line of its name has been read.
NotFound(k) ==
  /\ ~ByOffsetId(k)
  /\ ~Done => \A p \in Paths, o \in Nat : Has(p, o, args.ids[k]) => Unread(p, o)

Searched == \A k \in DOMAIN lines : IF lines[k].resolved THEN FoundFirst(k) ELSE NotFound(k)

LInv ==
  /\ SearchShape
  /\ pc # "exit" => PathsSorted /\ Fresh /\ ChipsRead /\ SeenRead /\ LinesPlaced
                    /\ LinesChosen /\ Searched

-----------------------------------------------------------------------------
(* The invariant of the requests *)

\* Each request is of a chip used; the lines of a live one are there, with the values
\* the tool holds.
DInv ==
  /\ req \in Seq({"live", "dead"})
  /\ req # <<>> => pc \notin LookingUp \cup {"values", "exit"} /\ Len(req) <= Len(chips)
  /\ DOMAIN driven = Paths
  /\ \A p \in Paths : DOMAIN driven[p] = 0 .. Len(dev[p]) - 1
  /\ \A c \in DOMAIN req : \A k \in DOMAIN lines :
       req[c] = "live" /\ lines[k].chip = c - 1 =>
         lines[k].offset \in DOMAIN driven[chips[c]]
  /\ ShownIsDriven

-----------------------------------------------------------------------------
(* Sequences *)

\* A sequence of a set is one of a larger set.
LEMMA SeqMono == ASSUME NEW S, NEW T, S \subseteq T, NEW s \in Seq(S) PROVE s \in Seq(T)
OBVIOUS

\* A sequence changed element by element.
LEMMA SameLength ==
  ASSUME NEW S, NEW s \in Seq(S), NEW t, t = [k \in DOMAIN s |-> t[k]],
         \A k \in DOMAIN s : t[k] \in S
  PROVE  t \in Seq(S) /\ Len(t) = Len(s) /\ DOMAIN t = DOMAIN s
<1>1. DOMAIN s = 1 .. Len(s) /\ Len(s) \in Nat
  OBVIOUS
<1>2. t = [k \in 1 .. Len(s) |-> t[k]] /\ \A k \in 1 .. Len(s) : t[k] \in S
  BY <1>1
<1>3. t \in [1 .. Len(s) -> S]
  BY <1>2
<1> QED BY <1>1, <1>3

\* Ascending lists the members of the set in their order.
LEMMA AscendingSorts ==
  ASSUME NEW S \in SUBSET Nat, IsFiniteSet(S)
  PROVE  /\ Ascending(S) \in Seq(S) /\ Sorted(Ascending(S))
         /\ \A x \in S : \E k \in DOMAIN Ascending(S) : Ascending(S)[k] = x
<1> DEFINE n == Cardinality(S)
           Upto(x) == {y \in S : y <= x}
           rank == [x \in S |-> Cardinality(Upto(x))]
<1>1. n \in Nat
  BY FS_CardinalityType
<1>2. \A x \in S : IsFiniteSet(Upto(x)) /\ rank[x] \in 1..n
  <2> TAKE x \in S
  <2>1. Upto(x) \in SUBSET S /\ x \in Upto(x)
    OBVIOUS
  <2>2. IsFiniteSet(Upto(x)) /\ Cardinality(Upto(x)) <= n
    BY <2>1, FS_Subset
  <2>3. Cardinality(Upto(x)) \in Nat /\ Cardinality(Upto(x)) # 0
    BY <2>1, <2>2, FS_CardinalityType, FS_EmptySet
  <2> QED BY <1>1, <2>2, <2>3
<1>3. \A x, y \in S : x < y => rank[x] < rank[y]
  <2> SUFFICES ASSUME NEW x \in S, NEW y \in S, x < y PROVE rank[x] < rank[y]
    OBVIOUS
  <2>1. Upto(x) \in SUBSET Upto(y) /\ y \in Upto(y) /\ y \notin Upto(x)
    <3>1. x \in Nat /\ y \in Nat /\ \A z \in S : z \in Nat
      OBVIOUS
    <3>2. \A z \in S : z <= x => z <= y
      BY <3>1
    <3>3. y <= y /\ ~(y <= x)
      BY <3>1
    <3> QED BY <3>2, <3>3
  <2>2. Cardinality(Upto(x)) <= Cardinality(Upto(y)) /\ Cardinality(Upto(x)) # Cardinality(Upto(y))
    BY <2>1, <1>2, FS_Subset
  <2> QED BY <2>2, <1>2
<1>4. \A x, y \in S : rank[x] = rank[y] => x = y
  <2> SUFFICES ASSUME NEW x \in S, NEW y \in S, rank[x] = rank[y], x # y PROVE FALSE
    OBVIOUS
  <2>1. x < y \/ y < x
    OBVIOUS
  <2>2. rank[x] < rank[y] \/ rank[y] < rank[x]
    BY <2>1, <1>3
  <2>3. rank[x] \in Int /\ rank[y] \in Int
    BY <1>2
  <2> HIDE DEF rank
  <2> QED BY <2>2, <2>3
<1>5. \A k \in 1..n : \E x \in S : rank[x] = k
  <2>1. rank \in [S -> 1..n]
    BY <1>2
  <2>2. rank \in Injection(S, 1..n)
    <3> HIDE DEF rank
    <3> QED BY <2>1, <1>4 DEF Injection, IsInjective
  <2>3. IsFiniteSet(1..n) /\ Cardinality(1..n) = n
    BY <1>1, FS_Interval
  <2>4. rank \in Surjection(S, 1..n)
    <3> HIDE DEF rank
    <3> QED BY <2>2, <2>3, FS_Injection
  <2> HIDE DEF rank
  <2> QED BY <2>4 DEF Surjection
<1>6. \A k \in 1..n : Ascending(S)[k] \in S /\ rank[Ascending(S)[k]] = k
  <2> TAKE k \in 1..n
  <2>1. PICK x \in S : rank[x] = k
    BY <1>5
  <2>2. Ascending(S)[k] = CHOOSE z \in S : Cardinality(Upto(z)) = k
    BY DEF Ascending
  <2>3. Cardinality(Upto(x)) = k
    BY <2>1
  <2> HIDE DEF Upto
  <2> QED BY <2>2, <2>3
<1>7. Ascending(S) \in [1..n -> S]
  <2>1. \A k \in 1..n : (CHOOSE z \in S : Cardinality({y \in S : y <= z}) = k) \in S
    BY <1>6 DEF Ascending
  <2> QED BY <2>1 DEF Ascending
<1>8. \A x \in S : \E k \in 1..n : Ascending(S)[k] = x
  <2> TAKE x \in S
  <2> DEFINE k == rank[x]
  <2>1. k \in 1..n
    BY <1>2
  <2>2. Ascending(S)[k] \in S /\ rank[Ascending(S)[k]] = rank[x]
    BY <2>1, <1>6
  <2>3. Ascending(S)[k] = x
    <3> HIDE DEF rank
    <3> QED BY <2>2, <1>4
  <2> QED BY <2>1, <2>3
<1>9. \A j, k \in 1..n : j < k => Ascending(S)[j] < Ascending(S)[k]
  <2> SUFFICES ASSUME NEW j \in 1..n, NEW k \in 1..n, j < k
               PROVE  Ascending(S)[j] < Ascending(S)[k]
    OBVIOUS
  <2>1. PICK x : x = Ascending(S)[j] /\ x \in S /\ rank[x] = j
    BY <1>6
  <2>2. PICK y : y = Ascending(S)[k] /\ y \in S /\ rank[y] = k
    BY <1>6
  <2>3. x \in Nat /\ y \in Nat
    BY <2>1, <2>2
  <2>4. ~(y < x)
    <3> HIDE DEF rank
    <3> QED BY <1>1, <1>3, <2>1, <2>2
  <2>5. x # y
    <3> HIDE DEF rank
    <3> QED BY <1>1, <2>1, <2>2
  <2> QED BY <2>1, <2>2, <2>3, <2>4, <2>5
<1> HIDE DEF n
<1> QED BY <1>1, <1>7, <1>8, <1>9 DEF Sorted

\* The members of a sorted sequence of numbers differ.
LEMMA SortedOnce ==
  ASSUME NEW s \in Seq(Nat), Sorted(s)
  PROVE  \A j, k \in DOMAIN s : s[j] = s[k] => j = k
<1> SUFFICES ASSUME NEW j \in DOMAIN s, NEW k \in DOMAIN s, s[j] = s[k], j # k PROVE FALSE
  OBVIOUS
<1>1. s[j] \in Nat /\ j \in Nat /\ k \in Nat
  OBVIOUS
<1>2. s[j] < s[k] \/ s[k] < s[j]
  BY <1>1 DEF Sorted
<1> QED BY <1>1, <1>2

\* The paths scanned are chips, in their order.
LEMMA ScannedSorted ==
  ASSUME NEW c \in Paths \cup {NoChip}
  PROVE  /\ Scanned(c) \in Seq(Paths) /\ Sorted(Scanned(c))
         /\ c # NoChip => Scanned(c) = <<c>>
<1>1. CASE c = NoChip
  <2> DEFINE S == {p \in Paths : IsGpiochip(p)}
  <2>1. S \in SUBSET Paths /\ Paths \subseteq Nat
    BY ResolverAssumption DEF Paths, ResolverAssumption
  <2>2. IsFiniteSet(S)
    <3>1. IsFiniteSet(0 .. NumPaths - 1)
      BY FS_Interval, ResolverAssumption DEF ResolverAssumption
    <3> QED BY <2>1, <3>1, FS_Subset DEF Paths
  <2> HIDE DEF S
  <2>3. S \in SUBSET Nat
    BY <2>1
  <2>4. Ascending(S) \in Seq(S) /\ Sorted(Ascending(S))
    BY <2>2, <2>3, AscendingSorts
  <2>5. Scanned(c) = Ascending(S)
    BY <1>1 DEF Scanned, S
  <2>6. Ascending(S) \in Seq(Paths)
    BY <2>1, <2>4, SeqMono
  <2> QED BY <1>1, <2>4, <2>5, <2>6
<1>2. CASE c # NoChip
  <2>1. Scanned(c) = <<c>> /\ c \in Paths
    BY <1>2 DEF Scanned
  <2>2. Sorted(<<c>>)
    BY DEF Sorted
  <2> QED BY <2>1, <2>2
<1> QED BY <1>1, <1>2
-----------------------------------------------------------------------------
(* The search *)

\* Paths are numbers.
LEMMA PathsAreNumbers == Paths \subseteq Nat
BY ResolverAssumption DEF Paths, ResolverAssumption

\* Nothing has been found or read before the search.
LEMMA NothingRead ==
  ASSUME lines \in Seq(LineRec), \A k \in DOMAIN lines : ~lines[k].resolved,
         \A p \in Paths : seen[p] = Gone, args.byName \/ args.chip \in Paths
  PROVE  SeenRead /\ Searched
<1>1. SeenRead
  BY DEF SeenRead
<1>2. \A n : \A p \in Paths, o \in Nat : ~Has(p, o, n)
  BY DEF Has, Gone
<1>3. \A k : ~ByOffsetId(k)
  BY DEF ByOffsetId, Gone
<1>4. Searched
  BY <1>2, <1>3 DEF Searched, NotFound
<1> QED BY <1>1, <1>4

\* The search has not begun.
LEMMA SearchInit == Init => LInv
<1> SUFFICES ASSUME Init PROVE LInv
  OBVIOUS
<1>0. /\ dev \in [Paths -> Layouts \cup {Gone}] /\ seen = [p \in Paths |-> Gone]
      /\ args = [ids |-> <<>>, chip |-> NoChip, strict |-> FALSE, byName |-> TRUE]
      /\ lines = <<>> /\ chips = <<>> /\ paths = <<>> /\ i = 0 /\ at = 0 /\ used = FALSE
      /\ pc = "start"
  BY DEF Init, ResolverInit
<1>1. args.ids = <<>> /\ args.chip = NoChip /\ args.strict = FALSE /\ args.byName = TRUE
  BY <1>0
<1>2. SearchShape
  <2>1. <<>> \in Seq(Names) /\ <<>> \in Seq(LineRec) /\ <<>> \in Seq(Paths)
    OBVIOUS
  <2>2. seen \in [Paths -> Layouts \cup {Gone}]
    BY <1>0
  <2> QED BY <1>0, <1>1, <2>1, <2>2 DEF SearchShape
<1>3. PathsSorted /\ Fresh /\ ChipsRead /\ LinesPlaced /\ LinesChosen
  BY <1>0, <1>1 DEF PathsSorted, Fresh, ChipsRead, LinesPlaced, LinesChosen, Sorted, LookingUp
<1>4. SeenRead /\ Searched
  BY <1>0, <1>1, <1>2, NothingRead DEF SearchShape
<1> QED BY <1>2, <1>3, <1>4 DEF LInv

\* The state of the search stays as it is, wherever the program goes on.
LEMMA QuietSearch ==
  ASSUME LInv, UNCHANGED <<args, paths, i, at, lines, chips, found, used, seen>>,
         dev' \in [Paths -> Layouts \cup {Gone}],
         \/ pc' = "exit" \/ pc' = pc
         \/ pc \notin LookingUp \cup {"exit"} /\ pc' \notin LookingUp \cup {"exit"}
  PROVE  LInv'
<1>1. SearchShape'
  BY DEF LInv, SearchShape
<1> SUFFICES ASSUME pc' # "exit"
             PROVE  (/\ PathsSorted /\ Fresh /\ ChipsRead /\ SeenRead /\ LinesPlaced
                     /\ LinesChosen /\ Searched)'
  BY <1>1 DEF LInv
<1>2. /\ pc # "exit" /\ (pc' = "line" <=> pc = "line") /\ (pc' = "chip" <=> pc = "chip")
      /\ (pc' = "start" <=> pc = "start") /\ (pc' \in LookingUp <=> pc \in LookingUp)
  BY DEF LookingUp
<1>3. /\ PathsSorted /\ Fresh /\ ChipsRead /\ SeenRead /\ LinesPlaced /\ LinesChosen
      /\ Searched
  BY <1>2 DEF LInv
<1>4. PathsSorted' /\ Fresh' /\ ChipsRead' /\ LinesPlaced'
  BY <1>2, <1>3 DEF PathsSorted, Fresh, ChipsRead, LinesPlaced
<1>5. LinesChosen'
  BY <1>2, <1>3 DEF LinesChosen, SameLine
<1>6. SeenRead'
  BY <1>2, <1>3 DEF SeenRead, Path
<1>7. /\ \A k : Where(k)' = Where(k)
      /\ \A p, o, n : Has(p, o, n)' <=> Has(p, o, n)
      /\ \A p, o : Unread(p, o)' <=> Unread(p, o)
      /\ \A k : ByOffsetId(k)' <=> ByOffsetId(k)
      /\ Done' <=> Done
  BY <1>2 DEF Where, Has, Unread, ByOffsetId, Path, Done
<1>8. \A k : FoundFirst(k)' <=> FoundFirst(k)
  BY <1>7 DEF FoundFirst
<1>9. \A k : NotFound(k)' <=> NotFound(k)
  BY <1>7 DEF NotFound
<1>10. Searched'
  BY <1>3, <1>8, <1>9 DEF Searched
<1> QED BY <1>4, <1>5, <1>6, <1>10

\* A search begins, with the ids and options of the command line.
LEMMA BeginSearch ==
  ASSUME LInv, NEW ids \in Seq(Names), NEW c \in Paths \cup {NoChip},
         NEW s \in BOOLEAN, NEW b \in BOOLEAN, Start(ids, c, s, b)
  PROVE  LInv'
<1>0. /\ pc = "start" /\ pc' = "chip"
      /\ args' = [ids |-> ids, chip |-> c, strict |-> s, byName |-> b \/ c = NoChip]
      /\ paths' = Scanned(c) /\ lines' = [k \in DOMAIN ids |-> Unresolved]
      /\ UNCHANGED <<dev, i, at, chips, found, used, seen>>
  BY DEF Start
<1>1. /\ args'.ids = ids /\ args'.chip = c /\ args'.strict = s
      /\ args'.byName = (b \/ c = NoChip)
  BY <1>0
<1>2. /\ lines' \in Seq(LineRec) /\ Len(lines') = Len(ids) /\ DOMAIN lines' = DOMAIN ids
      /\ \A k \in DOMAIN lines' : ~lines'[k].resolved
  <2>1. Unresolved \in LineRec /\ ~Unresolved.resolved
    BY DEF Unresolved, LineRec
  <2>2. DOMAIN ids = 1 .. Len(ids) /\ Len(ids) \in Nat
    OBVIOUS
  <2>3. lines' \in [1 .. Len(ids) -> LineRec]
    BY <1>0, <2>1, <2>2
  <2>4. \A k \in DOMAIN ids : lines'[k] = Unresolved
    BY <1>0
  <2> QED BY <1>0, <2>1, <2>2, <2>3, <2>4
<1>3. SearchShape'
  BY <1>0, <1>1, <1>2 DEF LInv, SearchShape
<1>4. PathsSorted'
  BY <1>0, <1>1, ScannedSorted DEF PathsSorted
<1>5. chips' = <<>> /\ i' = 0 /\ \A p \in Paths : seen'[p] = Gone
  BY <1>0 DEF LInv, Fresh
<1>6. Fresh' /\ ChipsRead' /\ LinesChosen'
  BY <1>0, <1>5 DEF Fresh, ChipsRead, Sorted, LinesChosen, LookingUp
<1>7. LinesPlaced'
  <2>1. paths' \in Seq(Paths)
    BY <1>4 DEF PathsSorted
  <2>2. i' <= Len(paths')
    BY <1>5, <2>1
  <2> QED BY <1>0, <1>2, <2>2 DEF LinesPlaced
<1>8. SeenRead' /\ Searched'
  <2>1. args'.byName \/ args'.chip \in Paths
    BY <1>1
  <2>2. SeenRead'
    BY <1>5 DEF SeenRead
  <2>3. \A n : \A p \in Paths, o \in Nat : ~Has(p, o, n)'
    BY <1>5 DEF Has, Gone
  <2>4. \A k : ~ByOffsetId(k)'
    BY <1>5, <2>1 DEF ByOffsetId, Gone
  <2>5. Searched'
    BY <1>2, <2>3, <2>4 DEF Searched, NotFound
  <2> QED BY <2>2, <2>5
<1> QED BY <1>3, <1>4, <1>6, <1>7, <1>8 DEF LInv

\* The path the search is at comes after those that were opened, and none of the chips
\* used is of that path.
LEMMA PathNext ==
  ASSUME LInv, pc # "exit", i < Len(paths)
  PROVE  /\ i + 1 \in DOMAIN paths /\ Path \in Paths /\ Path = paths[i + 1]
         /\ \A j \in 1 .. i : j \in DOMAIN paths /\ paths[j] < Path
         /\ \A c \in DOMAIN chips : chips[c] < Path
<1>1. paths \in Seq(Paths) /\ Sorted(paths) /\ i \in Nat
  BY DEF LInv, PathsSorted, SearchShape
<1>2. i + 1 \in DOMAIN paths /\ Path = paths[i + 1] /\ Path \in Paths
  BY <1>1 DEF Path
<1>3. \A j \in 1 .. i : j \in DOMAIN paths /\ paths[j] < Path
  BY <1>1, <1>2 DEF Sorted
<1>4. ASSUME NEW c \in DOMAIN chips PROVE chips[c] < Path
  <2>1. PICK j \in 1 .. i : j \in DOMAIN paths /\ chips[c] = paths[j]
    BY DEF LInv, ChipsRead
  <2> QED BY <1>3, <2>1
<1> QED BY <1>2, <1>3, <1>4

\* The chips found are on paths.
LEMMA WherePath ==
  ASSUME LInv, pc \in {"chip", "line"}, NEW k \in DOMAIN lines, lines[k].resolved
  PROVE  /\ Where(k) \in Paths
         /\ \/ /\ lines[k].chip \in 0 .. Len(chips) - 1
               /\ lines[k].chip + 1 \in DOMAIN chips
               /\ Where(k) = chips[lines[k].chip + 1]
            \/ pc = "line" /\ used /\ lines[k].chip = Len(chips) /\ Where(k) = Path
<1>1. chips \in Seq(Paths) /\ Len(chips) \in Nat
  BY DEF LInv, SearchShape
<1>2. LinesPlaced
  BY DEF LInv
<1>3. CASE lines[k].chip \in 0 .. Len(chips) - 1
  <2>1. lines[k].chip + 1 \in DOMAIN chips /\ lines[k].chip # Len(chips)
    BY <1>1, <1>3
  <2> QED BY <1>1, <1>3, <2>1 DEF Where
<1>4. CASE lines[k].chip \notin 0 .. Len(chips) - 1
  <2>1. pc = "line" /\ i < Len(paths) /\ used /\ lines[k].chip = Len(chips)
    BY <1>2, <1>4 DEF LinesPlaced
  <2>2. Path \in Paths
    BY <2>1, PathNext
  <2> QED BY <2>1, <2>2 DEF Where
<1> QED BY <1>3, <1>4

\* What there is on a path that leads to a chip is read when it is opened.
LEMMA SeenShape ==
  ASSUME LInv, NEW p \in Paths, IsGpiochip(p), seen' = [seen EXCEPT ![p] = dev[p]]
  PROVE  /\ seen' \in [Paths -> Layouts \cup {Gone}]
         /\ seen'[p] = dev[p] /\ dev[p] \in Seq(Names \cup {NoName})
         /\ \A q \in Paths \ {p} : seen'[q] = seen[q]
<1>1. dev[p] \in Layouts \cup {Gone} /\ dev[p] # Gone
  BY DEF LInv, SearchShape, IsGpiochip
<1>2. Layouts \subseteq Seq(Names \cup {NoName})
  BY ResolverAssumption DEF ResolverAssumption
<1> QED BY <1>1, <1>2 DEF LInv, SearchShape

\* The ids that are offsets on a chip of n lines.
LEMMA OffsetLines ==
  ASSUME LInv, NEW n \in Nat, lines' = ByOffset(n)
  PROVE  /\ lines' \in Seq(LineRec) /\ Len(lines') = Len(lines) /\ DOMAIN lines' = DOMAIN lines
         /\ \A k \in DOMAIN lines : args.ids[k] \in Names
         /\ \A k \in DOMAIN lines :
              IF IsOffset(args.ids[k], n)
                THEN /\ lines'[k].resolved /\ lines'[k].chip = 0
                     /\ lines'[k].offset = AsOffset[args.ids[k]]
                ELSE lines'[k] = lines[k]
<1> DEFINE rec(k) == [resolved |-> TRUE, chip |-> 0, offset |-> AsOffset[args.ids[k]]]
<1>1. lines \in Seq(LineRec) /\ Len(lines) = Len(args.ids) /\ args.ids \in Seq(Names)
  BY DEF LInv, SearchShape
<1>2. \A k \in DOMAIN lines : args.ids[k] \in Names
  BY <1>1
<1>3. lines' = [k \in DOMAIN lines |-> lines'[k]] /\ DOMAIN lines' = DOMAIN lines
  BY DEF ByOffset
<1>4. ASSUME NEW k \in DOMAIN lines
      PROVE  /\ IsOffset(args.ids[k], n) => lines'[k] = rec(k)
             /\ ~IsOffset(args.ids[k], n) => lines'[k] = lines[k]
  BY DEF ByOffset
<1>4a. ASSUME NEW k \in DOMAIN lines
       PROVE  rec(k).resolved /\ rec(k).chip = 0 /\ rec(k).offset = AsOffset[args.ids[k]]
  OBVIOUS
<1>4b. ASSUME NEW k \in DOMAIN lines, IsOffset(args.ids[k], n) PROVE rec(k) \in LineRec
  <2>1. AsOffset[args.ids[k]] \in Nat \cup {-1}
    BY <1>2, ResolverAssumption DEF ResolverAssumption
  <2>2. AsOffset[args.ids[k]] \in Nat
    BY <1>4b, <2>1 DEF IsOffset
  <2> QED BY <2>2 DEF LineRec
<1> HIDE DEF rec
<1>5. ASSUME NEW k \in DOMAIN lines PROVE lines'[k] \in LineRec
  <2>1. lines[k] \in LineRec
    BY <1>1
  <2> QED BY <1>4, <1>4b, <2>1
<1>6. lines' \in Seq(LineRec) /\ Len(lines') = Len(lines)
  BY <1>1, <1>3, <1>5, SameLength
<1>7. \A k \in DOMAIN lines :
        IF IsOffset(args.ids[k], n)
          THEN /\ lines'[k].resolved /\ lines'[k].chip = 0
               /\ lines'[k].offset = AsOffset[args.ids[k]]
          ELSE lines'[k] = lines[k]
  BY <1>4, <1>4a
<1> QED BY <1>2, <1>3, <1>6, <1>7

\* A chip is opened that comes after those that were read; without offsets no line is
\* found by it yet.
LEMMA OpenByName ==
  ASSUME LInv, OpenChip, args.byName
  PROVE  LInv'
<1>1. /\ pc = "chip" /\ pc' = "line" /\ i < Len(paths) /\ IsGpiochip(Path) /\ at' = 0 /\ ~Done
      /\ seen' = [seen EXCEPT ![Path] = dev[Path]] /\ lines' = lines /\ used' = FALSE
      /\ UNCHANGED <<dev, args, paths, i, chips, found>>
  BY DEF OpenChip
<1>2. /\ Path \in Paths /\ i \in Nat /\ \A c \in DOMAIN chips : chips[c] < Path
      /\ \A j \in 1 .. i : j \in DOMAIN paths /\ paths[j] < Path
  BY <1>1, PathNext DEF LInv, SearchShape
<1>3. /\ seen' \in [Paths -> Layouts \cup {Gone}] /\ dev[Path] \in Seq(Names \cup {NoName})
      /\ \A q \in Paths \ {Path} : seen'[q] = seen[q]
  BY <1>1, <1>2, SeenShape
<1>4. /\ PathsSorted /\ Fresh /\ ChipsRead /\ SeenRead /\ LinesPlaced /\ Searched
  BY <1>1 DEF LInv
<1>5. SearchShape' /\ PathsSorted' /\ Fresh' /\ ChipsRead' /\ LinesPlaced' /\ LinesChosen'
  <2>1. SearchShape' /\ PathsSorted' /\ Fresh' /\ ChipsRead' /\ LinesChosen'
    BY <1>1, <1>3, <1>4
    DEF LInv, SearchShape, PathsSorted, Fresh, ChipsRead, LinesChosen, LookingUp
  <2>2. LinesPlaced'
    BY <1>1, <1>4 DEF LinesPlaced
  <2> QED BY <2>1, <2>2
<1>6. Path' = Path
  BY <1>1 DEF Path
<1>7. SeenRead'
  <2> SUFFICES ASSUME NEW p \in Paths, seen'[p] # Gone, p # Path
               PROVE  \E j \in 1 .. i : j \in DOMAIN paths /\ p = paths[j]
    BY <1>1, <1>6 DEF SeenRead
  <2>1. seen[p] # Gone
    BY <1>3
  <2> QED BY <1>1, <1>4, <2>1 DEF SeenRead
<1>8. \A k : ~ByOffsetId(k) /\ ~ByOffsetId(k)'
  BY <1>1 DEF ByOffsetId
<1>9. ASSUME NEW p \in Paths, NEW o \in Nat, NEW n, Has(p, o, n)'
      PROVE  (p = Path /\ Unread(p, o)') \/ Has(p, o, n)
  <2>1. CASE p = Path
    BY <1>1, <1>6, <2>1 DEF Unread
  <2>2. CASE p # Path
    BY <1>3, <1>9, <2>2 DEF Has
  <2> QED BY <2>1, <2>2
<1>10. ASSUME NEW k \in DOMAIN lines, lines[k].resolved PROVE FoundFirst(k)'
  <2>1. /\ Where(k) \in Paths /\ lines[k].chip + 1 \in DOMAIN chips
        /\ Where(k) = chips[lines[k].chip + 1] /\ lines[k].chip \in 0 .. Len(chips) - 1
    BY <1>1, <1>10, WherePath
  <2>2. Where(k) < Path /\ Where(k) # Path
    BY <1>2, <2>1, PathsAreNumbers
  <2>3. Where(k)' = Where(k)
    BY <1>1, <1>6 DEF Where
  <2>4. FoundFirst(k)
    BY <1>4, <1>10 DEF Searched
  <2>5. Has(Where(k), lines[k].offset, args.ids[k])'
    <3>1. Has(Where(k), lines[k].offset, args.ids[k])
      BY <1>8, <2>4 DEF FoundFirst
    <3>2. seen'[Where(k)] = seen[Where(k)]
      BY <1>3, <2>1, <2>2
    <3> QED BY <1>1, <2>3, <3>1, <3>2 DEF Has
  <2>6. ASSUME NEW p \in Paths, NEW o \in Nat, Has(p, o, args.ids[k])'
        PROVE  /\ Where(k) < p \/ (Where(k) = p /\ lines[k].offset <= o)
               /\ args.strict => (Where(k) = p /\ lines[k].offset = o) \/ Unread(p, o)'
    <3>1. CASE p = Path /\ Unread(p, o)'
      BY <2>2, <3>1
    <3>2. CASE Has(p, o, args.ids[k])
      <4>1. ~Unread(p, o)
        BY <1>1 DEF Unread
      <4> QED BY <1>8, <2>4, <3>2, <4>1 DEF FoundFirst
    <3> QED BY <1>1, <1>9, <2>6, <3>1, <3>2
  <2> QED BY <1>1, <1>8, <2>3, <2>5, <2>6 DEF FoundFirst
<1>11. ASSUME NEW k \in DOMAIN lines, ~lines[k].resolved PROVE NotFound(k)'
  <2>1. ASSUME NEW p \in Paths, NEW o \in Nat, Has(p, o, args.ids[k])'
        PROVE  Unread(p, o)'
    <3>1. \A n : ~Unread(p, o)
      BY <1>1 DEF Unread
    <3>2. ~Has(p, o, args.ids[k])
      BY <1>1, <1>4, <1>11, <3>1 DEF Searched, NotFound
    <3> QED BY <1>1, <1>9, <2>1, <3>2
  <2> QED BY <1>1, <1>8, <2>1 DEF NotFound
<1>12. Searched'
  BY <1>1, <1>10, <1>11 DEF Searched
<1> QED BY <1>5, <1>7, <1>12 DEF LInv

\* The chip given is opened: the ids that are offsets on it are found at once.
LEMMA OpenByOffset ==
  ASSUME LInv, OpenChip, ~args.byName
  PROVE  LInv'
<1> DEFINE n == Len(dev[Path])
<1>1. /\ pc = "chip" /\ pc' = "line" /\ i < Len(paths) /\ IsGpiochip(Path) /\ at' = 0 /\ ~Done
      /\ seen' = [seen EXCEPT ![Path] = dev[Path]] /\ lines' = ByOffset(n)
      /\ used' = (\E id \in Range(args.ids) : IsOffset(id, n))
      /\ UNCHANGED <<dev, args, paths, i, chips, found>>
  BY DEF OpenChip
<1>2. Path \in Paths /\ i \in Nat
  BY <1>1, PathNext DEF LInv, SearchShape
<1>3. /\ seen' \in [Paths -> Layouts \cup {Gone}] /\ dev[Path] \in Seq(Names \cup {NoName})
      /\ \A q \in Paths \ {Path} : seen'[q] = seen[q]
      /\ seen'[Path] = dev[Path]
  BY <1>1, <1>2, SeenShape
<1>4. n \in Nat
  BY <1>3
<1>5. Len(seen'[Path]) = n
  BY <1>3
<1>6. /\ PathsSorted /\ Fresh /\ ChipsRead /\ SeenRead /\ LinesPlaced
  BY <1>1 DEF LInv
<1> HIDE DEF n
<1>7. /\ lines' \in Seq(LineRec) /\ Len(lines') = Len(lines) /\ DOMAIN lines' = DOMAIN lines
      /\ \A k \in DOMAIN lines : args.ids[k] \in Names
      /\ \A k \in DOMAIN lines :
           IF IsOffset(args.ids[k], n)
             THEN /\ lines'[k].resolved /\ lines'[k].chip = 0
                  /\ lines'[k].offset = AsOffset[args.ids[k]]
             ELSE lines'[k] = lines[k]
  BY <1>1, <1>4, OffsetLines
<1>8. paths = <<args.chip>> /\ args.chip \in Paths
  BY <1>6 DEF PathsSorted, LInv, SearchShape
<1>9. i = 0 /\ Path = args.chip /\ Path' = Path
  <2>1. i = 0
    BY <1>1, <1>2, <1>8
  <2> QED BY <1>1, <1>8, <2>1 DEF Path
<1>10. chips \in Seq(Paths) /\ \A c \in DOMAIN chips : FALSE
  BY <1>6, <1>9 DEF ChipsRead, LInv, SearchShape
<1>11. Len(chips) = 0
  <2>1. DOMAIN chips = 1 .. Len(chips) /\ Len(chips) \in Nat
    BY <1>10
  <2>2. Len(chips) > 0 => 1 \in DOMAIN chips
    BY <2>1
  <2> QED BY <1>10, <2>1, <2>2
<1>12. \A k \in DOMAIN lines : ~lines[k].resolved
  BY <1>1, <1>6, <1>11 DEF LinesPlaced
<1>13. \A k \in DOMAIN lines : lines'[k].resolved <=> IsOffset(args.ids[k], n)
  BY <1>7, <1>12
<1>14. /\ SearchShape' /\ PathsSorted' /\ Fresh' /\ ChipsRead' /\ LinesChosen'
  <2>1. used' \in BOOLEAN
    BY <1>1
  <2>2. SearchShape'
    BY <1>1, <1>3, <1>7, <2>1 DEF LInv, SearchShape
  <2> QED BY <1>1, <1>6, <2>2 DEF PathsSorted, Fresh, ChipsRead, LinesChosen, LookingUp
<1>15. LinesPlaced'
  <2> SUFFICES ASSUME NEW k \in DOMAIN lines, lines'[k].resolved
               PROVE  used' /\ lines'[k].chip = Len(chips)
    BY <1>1, <1>7 DEF LinesPlaced
  <2>1. IsOffset(args.ids[k], n)
    BY <1>13
  <2>2. args.ids[k] \in Range(args.ids)
    BY DEF Range, LInv, SearchShape
  <2> QED BY <1>1, <1>7, <1>11, <2>1, <2>2
<1>16. \A p \in Paths \ {Path} : seen'[p] = Gone
  BY <1>1, <1>3, <1>6, <1>9 DEF SeenRead
<1>17. SeenRead'
  BY <1>1, <1>9, <1>16 DEF SeenRead
<1>18. \A k \in DOMAIN lines : ByOffsetId(k)' <=> IsOffset(args.ids[k], n)
  <2> SUFFICES ASSUME NEW k \in DOMAIN lines
               PROVE  AsOffset[args.ids[k]] \in 0 .. n - 1 <=> IsOffset(args.ids[k], n)
    BY <1>1, <1>5, <1>9 DEF ByOffsetId
  <2>1. AsOffset[args.ids[k]] \in Nat \cup {-1}
    BY <1>7, ResolverAssumption DEF ResolverAssumption
  <2> QED BY <1>4, <2>1 DEF IsOffset
<1>19. \A name : \A p \in Paths, o \in Nat : Has(p, o, name)' => Unread(p, o)'
  <2> SUFFICES ASSUME NEW p \in Paths, NEW o \in Nat, NEW name, Has(p, o, name)'
               PROVE  p = Path
    BY <1>1, <1>9 DEF Unread
  <2> QED BY <1>16 DEF Has, Gone
<1>20. ASSUME NEW k \in DOMAIN lines, lines'[k].resolved PROVE FoundFirst(k)'
  <2>1. ByOffsetId(k)' /\ lines'[k].chip = 0 /\ lines'[k].offset = AsOffset[args.ids[k]]
    BY <1>7, <1>13, <1>18, <1>20
  <2>2. Where(k)' = args.chip
    BY <1>1, <1>9, <1>11, <2>1 DEF Where
  <2> QED BY <1>1, <2>1, <2>2 DEF FoundFirst
<1>21. ASSUME NEW k \in DOMAIN lines, ~lines'[k].resolved PROVE NotFound(k)'
  BY <1>13, <1>18, <1>19, <1>21 DEF NotFound
<1>22. Searched'
  BY <1>7, <1>20, <1>21 DEF Searched
<1> QED BY <1>14, <1>15, <1>17, <1>22 DEF LInv

\* Opening a chip keeps the invariant.
LEMMA OpenChipSearch ==
  ASSUME LInv, OpenChip
  PROVE  LInv'
BY OpenByName, OpenByOffset

\* A chip that cannot be opened is passed over.
LEMMA DeniedSearch ==
  ASSUME LInv, OpenDenied
  PROVE  LInv'
<1>1. /\ pc = "chip" /\ i < Len(paths)
      /\ (i' = i + 1 /\ pc' = "chip") \/ (i' = i /\ pc' = "exit")
      /\ UNCHANGED <<dev, args, paths, at, lines, chips, found, used, seen>>
  BY DEF OpenDenied, Die
<1>2. i \in Nat /\ i' \in Nat /\ i' >= i /\ SearchShape'
  BY <1>1 DEF LInv, SearchShape
<1> SUFFICES ASSUME i' = i + 1, pc' = "chip"
             PROVE  (/\ PathsSorted /\ Fresh /\ ChipsRead /\ SeenRead /\ LinesPlaced
                     /\ LinesChosen /\ Searched)'
  BY <1>1, <1>2 DEF LInv
<1>3. /\ PathsSorted /\ Fresh /\ ChipsRead /\ SeenRead /\ LinesPlaced /\ Searched
  BY <1>1 DEF LInv
<1>4. PathsSorted' /\ Fresh' /\ LinesChosen'
  BY <1>1, <1>3 DEF PathsSorted, Fresh, LinesChosen, LookingUp
<1>5. \A j \in 1 .. i : j \in 1 .. i'
  BY <1>2
<1>6. ChipsRead'
  BY <1>1, <1>3, <1>5 DEF ChipsRead
<1>7. SeenRead'
  BY <1>1, <1>3, <1>5 DEF SeenRead
<1>8. LinesPlaced'
  <2>1. paths \in Seq(Paths) /\ i' <= Len(paths)
    BY <1>1, <1>2, <1>3 DEF PathsSorted
  <2> QED BY <1>1, <1>3, <2>1 DEF LinesPlaced
<1>9. /\ \A p, o, n : Has(p, o, n)' <=> Has(p, o, n)
      /\ \A p, o : ~Unread(p, o)' /\ ~Unread(p, o)
      /\ \A k : ByOffsetId(k)' <=> ByOffsetId(k)
      /\ Done' <=> Done
  BY <1>1 DEF Has, Unread, ByOffsetId, Done
<1>10. ASSUME NEW k \in DOMAIN lines, lines[k].resolved PROVE FoundFirst(k)'
  <2>1. Where(k)' = Where(k)
    <3>1. lines[k].chip # Len(chips)
      <4>1. lines[k].chip \in 0 .. Len(chips) - 1 /\ Len(chips) \in Nat
        BY <1>1, <1>3, <1>10 DEF LinesPlaced, LInv, SearchShape
      <4> QED BY <4>1
    <3> QED BY <1>1, <3>1 DEF Where
  <2>2. FoundFirst(k)
    BY <1>3, <1>10 DEF Searched
  <2> QED BY <1>1, <1>9, <2>1, <2>2 DEF FoundFirst
<1>11. ASSUME NEW k \in DOMAIN lines, ~lines[k].resolved PROVE NotFound(k)'
  <2>1. NotFound(k)
    BY <1>3, <1>11 DEF Searched
  <2> QED BY <1>1, <1>9, <2>1 DEF NotFound
<1>12. Searched'
  BY <1>1, <1>10, <1>11 DEF Searched
<1> QED BY <1>4, <1>6, <1>7, <1>8, <1>12

\* What stays when a line is read: the lines that are found are on the chip being read.
LEMMA ReadLineShape ==
  ASSUME LInv, ReadLine
  PROVE  /\ SearchShape' /\ PathsSorted' /\ Fresh' /\ ChipsRead' /\ SeenRead'
         /\ LinesPlaced' /\ LinesChosen'
<1>1. /\ pc = "line" /\ pc' = "line" /\ at' = at + 1 /\ ResolveLine
      /\ UNCHANGED <<dev, args, paths, i, chips, seen>>
  BY DEF ReadLine
<1> DEFINE rec == [resolved |-> TRUE, chip |-> Len(chips), offset |-> at]
<1>2. /\ lines' = [k \in DOMAIN lines |-> IF FoundByName(k) THEN rec ELSE lines[k]]
      /\ used' = (used \/ \E k \in DOMAIN lines : FoundByOffset(k) \/ FoundByName(k))
  BY <1>1 DEF ResolveLine, ChipNumber
<1>3. lines \in Seq(LineRec) /\ at \in Nat /\ chips \in Seq(Paths) /\ Len(chips) \in Nat
  BY DEF LInv, SearchShape
<1>4. rec \in LineRec
  BY <1>3 DEF LineRec
<1>5. \A k \in DOMAIN lines : lines'[k] \in LineRec
  BY <1>2, <1>3, <1>4
<1>6. lines' \in Seq(LineRec) /\ Len(lines') = Len(lines) /\ DOMAIN lines' = DOMAIN lines
  <2>1. lines' = [k \in DOMAIN lines |-> lines'[k]]
    BY <1>2
  <2> QED BY <1>3, <1>5, <2>1, SameLength
<1>7. used' \in BOOLEAN
  BY <1>2
<1>8. SearchShape'
  BY <1>1, <1>3, <1>6, <1>7 DEF LInv, SearchShape
<1>9. LinesPlaced'
  <2> SUFFICES ASSUME NEW k \in DOMAIN lines, lines'[k].resolved
               PROVE  \/ lines'[k].chip \in 0 .. Len(chips) - 1
                      \/ used' /\ lines'[k].chip = Len(chips)
    BY <1>1, <1>6 DEF LInv, LinesPlaced
  <2>1. CASE FoundByName(k)
    BY <1>2, <2>1
  <2>2. CASE ~FoundByName(k)
    <3>1. lines'[k] = lines[k]
      BY <1>2, <2>2
    <3> QED BY <1>1, <1>2, <3>1 DEF LInv, LinesPlaced
  <2> QED BY <2>1, <2>2
<1>10. PathsSorted' /\ Fresh' /\ ChipsRead' /\ SeenRead' /\ LinesChosen'
  BY <1>1 DEF LInv, PathsSorted, Fresh, ChipsRead, SeenRead, LinesChosen, LookingUp, Path
<1> QED BY <1>8, <1>9, <1>10

\* The line that is read is the first of its name for the ids that have found none.
LEMMA ReadLineSearch ==
  ASSUME LInv, ReadLine
  PROVE  LInv'
<1>1. /\ pc = "line" /\ pc' = "line" /\ at' = at + 1 /\ ResolveLine /\ ~Done
      /\ at < Len(seen[Path]) /\ \A k \in DOMAIN lines : ~NotUnique(k)
      /\ UNCHANGED <<dev, args, paths, i, chips, seen>>
  BY DEF ReadLine, NumLines
<1>2. /\ at \in Nat /\ Path \in Paths /\ Path' = Path /\ Searched
      /\ \A c \in DOMAIN chips : chips[c] < Path
      /\ \A j \in 1 .. i : j \in DOMAIN paths /\ paths[j] < Path
  BY <1>1, PathNext DEF LInv, SearchShape, LinesPlaced, Path
<1>3. ASSUME NEW k \in DOMAIN lines
      PROVE  /\ FoundByName(k) => /\ lines'[k].resolved /\ lines'[k].chip = Len(chips)
                                  /\ lines'[k].offset = at
             /\ ~FoundByName(k) => lines'[k] = lines[k]
  BY <1>1 DEF ResolveLine, ChipNumber
<1>4. DOMAIN lines' = DOMAIN lines
  BY <1>1 DEF ResolveLine
<1>5. /\ \A p, o, n : Has(p, o, n)' <=> Has(p, o, n)
      /\ \A k : ByOffsetId(k)' <=> ByOffsetId(k)
  BY <1>1 DEF Has, ByOffsetId
<1>6. \A p \in Paths, o \in Nat : Unread(p, o) => Unread(p, o)' \/ (p = Path /\ o = at)
  BY <1>1, <1>2 DEF Unread
<1>7. \A k \in DOMAIN lines : Has(Path, at, args.ids[k]) <=> HasName(k)
  BY <1>1 DEF Has, HasName
<1>8. ASSUME NEW k \in DOMAIN lines, FoundByName(k) PROVE FoundFirst(k)'
  <2>1. ~lines[k].resolved /\ HasName(k)
    BY <1>8 DEF FoundByName
  <2>2. ~ByOffsetId(k) /\ \A p \in Paths, o \in Nat : Has(p, o, args.ids[k]) => Unread(p, o)
    BY <1>1, <1>2, <2>1 DEF Searched, NotFound
  <2>3. Where(k)' = Path /\ lines'[k].offset = at
    BY <1>1, <1>2, <1>3, <1>8 DEF Where
  <2>4. Has(Path, at, args.ids[k])
    BY <1>7, <2>1
  <2>5. ASSUME NEW p \in Paths, NEW o \in Nat, Has(p, o, args.ids[k])
        PROVE  Path = p /\ at <= o /\ (at = o \/ Unread(p, o)')
    <3>1. Unread(p, o)
      BY <2>2, <2>5
    <3> QED BY <1>2, <1>6, <3>1 DEF Unread
  <2> QED BY <1>1, <1>5, <2>2, <2>3, <2>4, <2>5 DEF FoundFirst
<1>9. ASSUME NEW k \in DOMAIN lines, ~FoundByName(k), lines[k].resolved PROVE FoundFirst(k)'
  <2>1. Where(k)' = Where(k) /\ lines'[k].offset = lines[k].offset
    BY <1>1, <1>2, <1>3, <1>9 DEF Where
  <2>2. FoundFirst(k)
    BY <1>2, <1>9 DEF Searched
  <2>3. ASSUME NEW p \in Paths, NEW o \in Nat, Has(p, o, args.ids[k]), args.strict,
               Unread(p, o)
        PROVE  Unread(p, o)'
    <3>1. ~(p = Path /\ o = at)
      BY <1>1, <1>7, <1>9, <2>3 DEF NotUnique
    <3> QED BY <1>6, <2>3, <3>1
  <2> QED BY <1>1, <1>5, <2>1, <2>2, <2>3 DEF FoundFirst
<1>10. ASSUME NEW k \in DOMAIN lines, ~FoundByName(k), ~lines[k].resolved
       PROVE  NotFound(k)'
  <2>1. ~ByOffsetId(k) /\ \A p \in Paths, o \in Nat : Has(p, o, args.ids[k]) => Unread(p, o)
    BY <1>1, <1>2, <1>10 DEF Searched, NotFound
  <2>2. ~HasName(k)
    BY <1>10 DEF FoundByName
  <2>3. ASSUME NEW p \in Paths, NEW o \in Nat, Has(p, o, args.ids[k]) PROVE Unread(p, o)'
    BY <1>6, <1>7, <2>1, <2>2, <2>3
  <2> QED BY <1>1, <1>5, <2>1, <2>3 DEF NotFound
<1>11. Searched'
  <2>1. ASSUME NEW k \in DOMAIN lines
        PROVE  IF lines'[k].resolved THEN FoundFirst(k)' ELSE NotFound(k)'
    BY <1>3, <1>8, <1>9, <1>10
  <2> QED BY <1>4, <2>1 DEF Searched
<1> QED BY <1>11, ReadLineShape DEF LInv

\* A chip on which a line was found is used from now on.
LEMMA CloseChipShape ==
  ASSUME LInv, CloseChip
  PROVE  /\ SearchShape' /\ PathsSorted' /\ Fresh' /\ ChipsRead' /\ SeenRead'
         /\ LinesPlaced' /\ LinesChosen'
         /\ Len(chips') = (IF used THEN Len(chips) + 1 ELSE Len(chips))
         /\ \A c \in DOMAIN chips : c \in DOMAIN chips' /\ chips'[c] = chips[c]
         /\ used => chips'[Len(chips) + 1] = Path
<1>1. /\ pc = "line" /\ pc' = "chip" /\ i' = i + 1
      /\ chips' = IF used THEN Append(chips, Path) ELSE chips
      /\ UNCHANGED <<dev, args, paths, at, lines, used, seen>>
  BY DEF CloseChip
<1>2. /\ PathsSorted /\ ChipsRead /\ SeenRead /\ LinesPlaced
  BY <1>1 DEF LInv
<1>3. /\ paths \in Seq(Paths) /\ i \in Nat /\ chips \in Seq(Paths) /\ i < Len(paths)
      /\ i + 1 \in DOMAIN paths /\ Path \in Paths /\ Path = paths[i + 1]
      /\ \A c \in DOMAIN chips : chips[c] < Path
  BY <1>1, <1>2, PathNext DEF PathsSorted, LinesPlaced, LInv, SearchShape
<1>4. /\ chips' \in Seq(Paths)
      /\ Len(chips') = IF used THEN Len(chips) + 1 ELSE Len(chips)
      /\ \A c \in DOMAIN chips : c \in DOMAIN chips' /\ chips'[c] = chips[c]
      /\ \A c \in DOMAIN chips' : \/ c \in DOMAIN chips
                                  \/ used /\ c = Len(chips) + 1 /\ chips'[c] = Path
      /\ used => chips'[Len(chips) + 1] = Path
  BY <1>1, <1>3
<1>5. SearchShape'
  BY <1>1, <1>3, <1>4 DEF LInv, SearchShape
<1>6. \A j \in 1 .. i : j \in 1 .. i + 1
  BY <1>3
<1>7. ChipsRead'
  <2>1. ASSUME NEW c \in DOMAIN chips'
        PROVE  \E j \in 1 .. i + 1 : j \in DOMAIN paths /\ chips'[c] = paths[j]
    <3>1. CASE c \in DOMAIN chips
      <4>1. PICK j \in 1 .. i : j \in DOMAIN paths /\ chips[c] = paths[j]
        BY <1>2, <3>1 DEF ChipsRead
      <4> QED BY <1>4, <1>6, <3>1, <4>1
    <3>2. CASE c \notin DOMAIN chips
      <4>1. i + 1 \in 1 .. i + 1
        BY <1>3
      <4> QED BY <1>3, <1>4, <3>2, <4>1
    <3> QED BY <3>1, <3>2
  <2>2. ASSUME NEW c \in DOMAIN chips', NEW d \in DOMAIN chips', c < d
        PROVE  chips'[c] < chips'[d]
    <3>1. DOMAIN chips = 1 .. Len(chips) /\ Len(chips) \in Nat /\ c \in Nat /\ d \in Nat
      <4>1. chips \in Seq(Paths) /\ chips' \in Seq(Paths)
        BY <1>3, <1>4
      <4> QED BY <4>1
    <3>2. CASE d \in DOMAIN chips
      <4>1. c \in DOMAIN chips
        BY <1>4, <2>2, <3>1, <3>2
      <4> QED BY <1>2, <1>4, <2>2, <3>2, <4>1 DEF ChipsRead, Sorted
    <3>3. CASE d \notin DOMAIN chips
      <4>1. c \in DOMAIN chips /\ chips'[d] = Path
        BY <1>4, <2>2, <3>1, <3>3
      <4> QED BY <1>3, <1>4, <4>1
    <3> QED BY <3>2, <3>3
  <2> QED BY <1>1, <2>1, <2>2 DEF ChipsRead, Sorted
<1>8. LinesPlaced'
  <2>1. i' <= Len(paths')
    BY <1>1, <1>3
  <2>2. ASSUME NEW k \in DOMAIN lines, lines[k].resolved
        PROVE  lines[k].chip \in 0 .. Len(chips') - 1
    <3>1. lines[k].chip \in 0 .. Len(chips) - 1 \/ (used /\ lines[k].chip = Len(chips))
      BY <1>1, <1>2, <2>2 DEF LinesPlaced
    <3> QED BY <1>3, <1>4, <3>1
  <2> QED BY <1>1, <2>1, <2>2 DEF LinesPlaced
<1>9. SeenRead'
  <2> SUFFICES ASSUME NEW p \in Paths, seen[p] # Gone
               PROVE  \E j \in 1 .. i + 1 : j \in DOMAIN paths /\ p = paths[j]
    BY <1>1 DEF SeenRead
  <2>1. i + 1 \in 1 .. i + 1
    BY <1>3
  <2> QED BY <1>2, <1>3, <1>6, <2>1 DEF SeenRead
<1>10. PathsSorted' /\ Fresh' /\ LinesChosen'
  BY <1>1, <1>2 DEF PathsSorted, Fresh, LinesChosen, LookingUp
<1> QED BY <1>4, <1>5, <1>7, <1>8, <1>9, <1>10

\* The lines found keep their places when the chip is closed, and none of its lines is
\* left to be read unless the search is done.
LEMMA CloseChipSearch ==
  ASSUME LInv, CloseChip
  PROVE  LInv'
<1>1. /\ pc = "line" /\ pc' = "chip" /\ (at = Len(seen[Path]) \/ Done)
      /\ UNCHANGED <<dev, args, lines, found, seen>> /\ at \in Nat /\ Searched
  BY DEF CloseChip, NumLines, LInv, SearchShape
<1>2. /\ \A p, o, n : Has(p, o, n)' <=> Has(p, o, n)
      /\ \A p, o : ~Unread(p, o)'
      /\ \A k : ByOffsetId(k)' <=> ByOffsetId(k)
      /\ Done' <=> Done
  BY <1>1 DEF Has, Unread, ByOffsetId, Done
<1>3. \A n : \A p \in Paths, o \in Nat : ~Done /\ Has(p, o, n) => ~Unread(p, o)
  BY <1>1 DEF Has, Unread
<1>4. ASSUME NEW k \in DOMAIN lines, lines[k].resolved PROVE FoundFirst(k)'
  <2>1. Len(chips) \in Nat /\ chips \in Seq(Paths)
    BY DEF LInv, SearchShape
  <2>2. CASE lines[k].chip \in 0 .. Len(chips) - 1
    <3>1. /\ lines[k].chip # Len(chips) /\ lines[k].chip # Len(chips')
          /\ lines[k].chip + 1 \in DOMAIN chips
      BY <2>1, <2>2, CloseChipShape
    <3>2. chips'[lines[k].chip + 1] = chips[lines[k].chip + 1]
      BY <3>1, CloseChipShape
    <3>3. Where(k)' = Where(k)
      BY <1>1, <3>1, <3>2 DEF Where
    <3> QED BY <1>1, <1>2, <1>3, <1>4, <3>3 DEF Searched, FoundFirst, Done
  <2>3. CASE used /\ lines[k].chip = Len(chips)
    <3>1. chips'[lines[k].chip + 1] = Path /\ lines[k].chip # Len(chips')
      BY <2>1, <2>3, CloseChipShape
    <3>2. Where(k)' = Where(k)
      BY <1>1, <2>3, <3>1 DEF Where
    <3> QED BY <1>1, <1>2, <1>3, <1>4, <3>2 DEF Searched, FoundFirst, Done
  <2> QED BY <1>1, <1>4, <2>2, <2>3 DEF LInv, LinesPlaced
<1>5. ASSUME NEW k \in DOMAIN lines, ~lines[k].resolved PROVE NotFound(k)'
  BY <1>1, <1>2, <1>3, <1>5 DEF Searched, NotFound
<1>6. Searched'
  BY <1>1, <1>4, <1>5 DEF Searched
<1> QED BY <1>6, CloseChipShape DEF LInv

\* All ids have been found, and no line by two of them.
LEMMA ValidSearch ==
  ASSUME LInv, Validate
  PROVE  LInv'
<1>1. /\ pc = "chip" /\ pc' = "values" /\ ValidLines
      /\ UNCHANGED <<dev, args, paths, i, at, lines, chips, found, used, seen>>
  BY DEF Validate, LookedUp, LookupState
<1>2. /\ SearchShape /\ PathsSorted /\ ChipsRead /\ SeenRead /\ LinesPlaced /\ Searched
  BY <1>1 DEF LInv
<1>3. SearchShape' /\ PathsSorted' /\ Fresh' /\ ChipsRead' /\ LinesPlaced'
  BY <1>1, <1>2 DEF SearchShape, PathsSorted, Fresh, ChipsRead, LinesPlaced
<1>4. SeenRead'
  BY <1>1, <1>2 DEF SeenRead
<1>5. LinesChosen'
  <2>1. ASSUME NEW k \in DOMAIN lines, NEW l \in DOMAIN lines, SameLine(k, l), k # l
        PROVE  FALSE
    <3>1. k \in Nat /\ l \in Nat /\ k > 0 /\ l > 0
      BY <1>2 DEF SearchShape
    <3>2. k \in 1 .. l - 1 \/ l \in 1 .. k - 1
      BY <2>1, <3>1
    <3>3. SameLine(l, k)
      BY <2>1 DEF SameLine
    <3> QED BY <1>1, <2>1, <3>2, <3>3 DEF ValidLines
  <2>2. \A k \in DOMAIN lines : lines[k].resolved /\ lines[k].chip \in 0 .. Len(chips) - 1
    BY <1>1, <1>2 DEF ValidLines, LinesPlaced
  <2>3. \A k, l : SameLine(k, l)' <=> SameLine(k, l)
    BY <1>1 DEF SameLine
  <2> QED BY <1>1, <2>1, <2>2, <2>3 DEF LinesChosen
<1>6. ASSUME NEW k \in DOMAIN lines PROVE lines[k].resolved /\ FoundFirst(k)'
  <2>1. lines[k].resolved /\ FoundFirst(k)
    BY <1>1, <1>2 DEF ValidLines, Searched
  <2>2. Where(k)' = Where(k)
    <3>1. lines[k].chip \in 0 .. Len(chips) - 1 /\ Len(chips) \in Nat
      BY <1>1, <1>2, <2>1 DEF LinesPlaced, SearchShape
    <3>2. lines[k].chip # Len(chips)
      BY <3>1
    <3> QED BY <1>1, <3>2 DEF Where
  <2>3. /\ \A p, o, n : Has(p, o, n)' <=> Has(p, o, n)
        /\ \A p, o : ~Unread(p, o)
        /\ ByOffsetId(k)' <=> ByOffsetId(k)
    BY <1>1 DEF Has, Unread, ByOffsetId
  <2> QED BY <1>1, <2>1, <2>2, <2>3 DEF FoundFirst
<1>7. Searched'
  BY <1>1, <1>6 DEF Searched
<1> QED BY <1>3, <1>4, <1>5, <1>7 DEF LInv

\* Every step of the search keeps the invariant.
LEMMA LookupSearch ==
  ASSUME LInv, Lookup
  PROVE  LInv'
<1>1. ASSUME NEW ids \in IdLists, NEW c \in Paths \cup {NoChip}, NEW s \in BOOLEAN,
             NEW b \in BOOLEAN, Start(ids, c, s, b)
      PROVE  LInv'
  <2>1. ids \in Seq(Names)
    BY ResolverAssumption DEF ResolverAssumption
  <2> QED BY <1>1, <2>1, BeginSearch
<1>2. CASE OpenChip
  BY <1>2, OpenChipSearch
<1>3. CASE OpenDenied
  BY <1>3, DeniedSearch
<1>4. CASE ReadLine
  BY <1>4, ReadLineSearch
<1>5. CASE CloseChip
  BY <1>5, CloseChipSearch
<1>6. CASE Validate
  BY <1>6, ValidSearch
<1>7. CASE (\E c \in Paths : StartNoChip(c)) \/ OpenGone \/ ReadLineNotUnique \/ ReadLineFails
           \/ Invalid
  <2>1. pc' = "exit"
        /\ UNCHANGED <<dev, args, paths, i, at, lines, chips, found, used, seen>>
    BY <1>7 DEF StartNoChip, OpenGone, ReadLineNotUnique, ReadLineFails, Invalid, Die, LookupState
  <2>2. dev \in [Paths -> Layouts \cup {Gone}]
    BY DEF LInv, SearchShape
  <2> QED BY <2>1, <2>2, QuietSearch
<1> QED BY <1>1, <1>2, <1>3, <1>4, <1>5, <1>6, <1>7 DEF Lookup

\* What follows leaves the lines that were found as they are.
LEMMA NextSearch ==
  ASSUME LInv, [Next]_vars
  PROVE  LInv'
<1>0. dev \in [Paths -> Layouts \cup {Gone}]
  BY DEF LInv, SearchShape
<1>1. CASE Lookup
  BY <1>1, LookupSearch
<1>2. ASSUME NEW v, BadValues(v) \/ Values(v) PROVE LInv'
  <2>1. /\ UNCHANGED <<dev, args, paths, i, at, lines, chips, found, used, seen>>
        /\ pc' = "exit" \/ (pc = "values" /\ pc' = "request")
    BY <1>2 DEF BadValues, Values, Die, LookupState
  <2> QED BY <1>0, <2>1, QuietSearch DEF LookingUp
<1>3. CASE RequestChip \/ RequestFails
  <2>1. /\ UNCHANGED <<dev, args, paths, i, at, lines, chips, found, used, seen>>
        /\ pc' = "exit" \/ pc' = pc
    BY <1>3 DEF RequestChip, RequestFails, Exit, Die, LookupState, rvars
  <2> QED BY <1>0, <2>1, QuietSearch
<1>4. ASSUME NEW config, Configure(config) PROVE LInv'
  <2>1. /\ UNCHANGED <<dev, args, paths, i, at, lines, chips, found, used, seen>>
        /\ pc = "request" /\ pc' \in {"hold", "toggle"}
    BY <1>4 DEF Configure, LookupState
  <2> QED BY <1>0, <2>1, QuietSearch DEF LookingUp
<1>5. CASE ToggleStep \/ Hold \/ WaitEnds \/ Release
  <2>1. /\ UNCHANGED <<dev, args, paths, i, at, lines, chips, found, used, seen>>
        /\ pc \in {"toggle", "hold", "wait", "release"}
        /\ pc' \in {"toggle", "hold", "prompt", "wait", "release", "exit"}
    BY <1>5 DEF ToggleStep, AfterPeriod, Hold, WaitEnds, Release, Exit, Die, LookupState
  <2> QED BY <1>0, <2>1, QuietSearch DEF LookingUp
<1>6. CASE Prompt
  <2>1. /\ UNCHANGED <<dev, args, paths, i, at, lines, chips, found, used, seen>>
        /\ pc = "prompt" /\ pc' \in {"prompt", "release", "exit"}
    BY <1>6 DEF Prompt, PromptSet, PromptToggle, PromptExit, PromptBlank, Exit, Die, LookupState
  <2> QED BY <1>0, <2>1, QuietSearch DEF LookingUp
<1>7. ASSUME NEW p \in Paths, NEW layout \in Replacements \cup {Gone}, DeviceChanges(p, layout)
      PROVE  LInv'
  <2>1. /\ UNCHANGED <<args, pc, paths, i, at, lines, chips, found, used, seen>>
        /\ dev' = [dev EXCEPT ![p] = layout]
    BY <1>7 DEF DeviceChanges, Move
  <2>2. layout \in Layouts \cup {Gone}
    BY ResolverAssumption DEF ResolverAssumption
  <2>3. dev' \in [Paths -> Layouts \cup {Gone}]
    BY <1>0, <2>1, <2>2
  <2> QED BY <2>1, <2>3, QuietSearch
<1>8. CASE UNCHANGED vars
  BY <1>0, <1>8, QuietSearch DEF vars, rvars
<1> QED BY <1>1, <1>2, <1>3, <1>4, <1>5, <1>6, <1>7, <1>8 DEF Next

-----------------------------------------------------------------------------
(* The lines found *)

\* The lines of a name, as places and one by one.
LEMMA NamedPlaces ==
  ASSUME NEW n
  PROVE  /\ \A q \in Named(n) : /\ q[1] \in Paths /\ q[2] \in Nat /\ q = <<q[1], q[2]>>
                                /\ Has(q[1], q[2], n)
         /\ \A p \in Paths, o \in Nat :
              Has(p, o, n) /\ Len(seen[p]) \in Nat => <<p, o>> \in Named(n)
<1>1. ASSUME NEW q \in Named(n)
      PROVE  q[1] \in Paths /\ q[2] \in Nat /\ q = <<q[1], q[2]>> /\ Has(q[1], q[2], n)
  <2>1. q \in Places /\ seen[q[1]][q[2] + 1] = n
    BY DEF Named
  <2>2. PICK p \in Paths : q \in {p} \X (0 .. Len(seen[p]) - 1)
    BY <2>1 DEF Places
  <2>3. q[1] = p /\ q[2] \in 0 .. Len(seen[p]) - 1 /\ q = <<q[1], q[2]>>
    BY <2>2
  <2>4. q[2] \in Nat /\ q[2] < Len(seen[p])
    BY <2>3
  <2> QED BY <2>1, <2>3, <2>4 DEF Has
<1>2. ASSUME NEW p \in Paths, NEW o \in Nat, Has(p, o, n), Len(seen[p]) \in Nat
      PROVE  <<p, o>> \in Named(n)
  <2>1. o \in 0 .. Len(seen[p]) - 1 /\ seen[p][o + 1] = n
    BY <1>2 DEF Has
  <2>2. <<p, o>> \in {p} \X (0 .. Len(seen[p]) - 1)
    BY <2>1
  <2>3. <<p, o>> \in Places
    BY <2>2 DEF Places
  <2> QED BY <2>1, <2>3 DEF Named
<1> QED BY <1>1, <1>2

\* Whatever was read of a chip has a length.
LEMMA SeenLengths == ASSUME LInv PROVE \A p \in Paths : Len(seen[p]) \in Nat
<1> SUFFICES ASSUME NEW p \in Paths PROVE Len(seen[p]) \in Nat
  OBVIOUS
<1>1. seen[p] \in Layouts \cup {Gone}
  BY DEF LInv, SearchShape
<1>2. seen[p] \in Seq(Names \cup {NoName})
  <2>1. CASE seen[p] = Gone
    BY <2>1 DEF Gone
  <2>2. CASE seen[p] \in Layouts
    BY <2>2, ResolverAssumption DEF ResolverAssumption
  <2> QED BY <1>1, <2>1, <2>2
<1> QED BY <1>2

\* The lines of a program that goes on are those that were meant.
LEMMA RightLines ==
  ASSUME LInv
  PROVE  ResolvedRight
<1> SUFFICES ASSUME pc \notin LookingUp \cup {"exit"}
             PROVE  /\ \A k \in DOMAIN lines :
                         /\ lines[k].chip + 1 \in DOMAIN chips
                         /\ Place(k) \in Meant(k)
                         /\ \A other \in Meant(k) : Before(Place(k), other)
                         /\ args.strict => Cardinality(Meant(k)) = 1
                    /\ \A k, l \in DOMAIN lines : k # l => Place(k) # Place(l)
  BY DEF ResolvedRight, LookingUp
<1>1. /\ SearchShape /\ ChipsRead /\ LinesChosen /\ Searched
  BY DEF LInv
<1>2. chips \in Seq(Paths) /\ Len(chips) \in Nat /\ chips \in Seq(Nat)
  <2>1. chips \in Seq(Paths)
    BY <1>1 DEF SearchShape
  <2>2. chips \in Seq(Nat)
    BY <2>1, PathsAreNumbers, SeqMono
  <2> QED BY <2>1, <2>2
<1>3. ASSUME NEW k \in DOMAIN lines
      PROVE  /\ lines[k].chip \in Int /\ lines[k].offset \in Nat
             /\ lines[k].chip + 1 \in DOMAIN chips
             /\ Where(k) \in Paths /\ Where(k) = LinePath(k) /\ FoundFirst(k)
  <2>1. lines[k].resolved /\ lines[k].chip \in 0 .. Len(chips) - 1
    BY <1>1 DEF LinesChosen
  <2>2. lines[k].chip + 1 \in DOMAIN chips /\ lines[k].chip # Len(chips)
    BY <1>2, <2>1
  <2>3. lines[k] \in LineRec
    BY <1>1 DEF SearchShape
  <2> QED BY <1>1, <1>2, <2>1, <2>2, <2>3 DEF Where, LinePath, Searched, LineRec
<1>4. ASSUME NEW k \in DOMAIN lines
      PROVE  /\ Place(k) \in Meant(k)
             /\ \A other \in Meant(k) : Before(Place(k), other)
             /\ args.strict => Cardinality(Meant(k)) = 1
  <2>1. Place(k) = <<Where(k), lines[k].offset>>
    BY <1>3 DEF Place
  <2>2. Place(k)[1] = Where(k) /\ Place(k)[2] = lines[k].offset
    BY <2>1
  <2>3. Place(k)[1] \in Nat /\ Place(k)[2] \in Nat
    BY <1>3, <2>2, PathsAreNumbers
  <2>4. CASE ByOffsetId(k)
    <3>1. Meant(k) = {Place(k)}
      BY <1>3, <2>1, <2>4 DEF FoundFirst, Meant, AtOffset
    <3>2. Before(Place(k), Place(k))
      BY <2>3 DEF Before
    <3>3. Cardinality({Place(k)}) = 1
      BY FS_Singleton
    <3> QED BY <3>1, <3>2, <3>3
  <2>5. CASE ~ByOffsetId(k)
    <3>1. Meant(k) = Named(args.ids[k])
      BY <2>5 DEF Meant
    <3>2. /\ Has(Where(k), lines[k].offset, args.ids[k])
          /\ \A p \in Paths, o \in Nat : Has(p, o, args.ids[k]) =>
               /\ Where(k) < p \/ (Where(k) = p /\ lines[k].offset <= o)
               /\ args.strict => Where(k) = p /\ lines[k].offset = o
      BY <1>3, <2>5 DEF FoundFirst, Unread, LookingUp
    <3>3. Place(k) \in Meant(k)
      BY <1>3, <2>1, <3>1, <3>2, NamedPlaces, SeenLengths
    <3>4. ASSUME NEW other \in Meant(k)
          PROVE  Before(Place(k), other) /\ (args.strict => other = Place(k))
      <4>1. /\ other[1] \in Paths /\ other[2] \in Nat /\ other = <<other[1], other[2]>>
            /\ Has(other[1], other[2], args.ids[k])
        BY <3>1, <3>4, NamedPlaces
      <4>2. Before(Place(k), other)
        BY <2>2, <3>2, <4>1 DEF Before
      <4>3. args.strict => other = Place(k)
        BY <2>1, <3>2, <4>1
      <4> QED BY <4>2, <4>3
    <3>5. args.strict => Meant(k) = {Place(k)}
      BY <3>3, <3>4
    <3>6. Cardinality({Place(k)}) = 1
      BY FS_Singleton
    <3> QED BY <3>3, <3>4, <3>5, <3>6
  <2> QED BY <2>4, <2>5
<1>5. ASSUME NEW k \in DOMAIN lines, NEW l \in DOMAIN lines, Place(k) = Place(l)
      PROVE  k = l
  <2>1. LinePath(k) = LinePath(l) /\ lines[k].offset = lines[l].offset
    BY <1>5 DEF Place
  <2>2. lines[k].chip + 1 = lines[l].chip + 1
    BY <1>1, <1>2, <1>3, <2>1, SortedOnce DEF LinePath, ChipsRead
  <2>3. lines[k].chip = lines[l].chip
    BY <1>3, <2>2
  <2>4. SameLine(k, l)
    BY <1>1, <2>1, <2>3 DEF SameLine, LinesChosen
  <2> QED BY <1>1, <2>4 DEF LinesChosen
<1> QED BY <1>3, <1>4, <1>5

-----------------------------------------------------------------------------
(* Values *)

\* The lines of a chip are listed, and no others.
LEMMA LinesOfChip ==
  ASSUME LInv, NEW c
  PROVE  /\ \A j \in DOMAIN LinesOf(c) :
              LinesOf(c)[j] \in DOMAIN lines /\ lines[LinesOf(c)[j]].chip = c
         /\ \A k \in DOMAIN lines : lines[k].chip = c =>
              \E j \in DOMAIN LinesOf(c) : LinesOf(c)[j] = k
<1> DEFINE S == {k \in DOMAIN lines : lines[k].chip = c}
<1>1. DOMAIN lines = 1 .. Len(lines) /\ Len(lines) \in Nat
  BY DEF LInv, SearchShape
<1>2. S \in SUBSET Nat /\ IsFiniteSet(S)
  <2>1. IsFiniteSet(1 .. Len(lines))
    BY <1>1, FS_Interval
  <2>2. S \in SUBSET (1 .. Len(lines))
    BY <1>1
  <2> QED BY <2>1, <2>2, FS_Subset
<1>3. LinesOf(c) = Ascending(S)
  BY DEF LinesOf
<1>4. \A k \in S : k \in DOMAIN lines /\ lines[k].chip = c
  OBVIOUS
<1>5. \A k \in DOMAIN lines : lines[k].chip = c => k \in S
  OBVIOUS
<1> HIDE DEF S
<1>6. LinesOf(c) \in Seq(S) /\ \A k \in S : \E j \in DOMAIN LinesOf(c) : LinesOf(c)[j] = k
  BY <1>2, <1>3, AscendingSorts
<1> QED BY <1>4, <1>5, <1>6

\* Each line of a chip is driven to the value with its number.
LEMMA DrivenTo ==
  ASSUME LInv, pc \notin LookingUp \cup {"exit"}, NEW c, NEW d, NEW v
  PROVE  /\ DOMAIN Drive(d, c, ValuesOf(v, c)) = DOMAIN d
         /\ \A k \in DOMAIN lines : lines[k].chip = c /\ lines[k].offset \in DOMAIN d =>
              Drive(d, c, ValuesOf(v, c))[lines[k].offset] = v[k]
<1> DEFINE ls     == LinesOf(c)
           Idx(o) == {j \in DOMAIN ls : lines[ls[j]].offset = o}
           vs     == ValuesOf(v, c)
<1>1. Drive(d, c, vs) =
        [o \in DOMAIN d |-> IF Idx(o) = {} THEN d[o] ELSE vs[CHOOSE j \in Idx(o) : TRUE]]
  BY DEF Drive
<1>2. ASSUME NEW k \in DOMAIN lines, lines[k].chip = c, lines[k].offset \in DOMAIN d
      PROVE  Drive(d, c, vs)[lines[k].offset] = v[k]
  <2> DEFINE j == CHOOSE j \in Idx(lines[k].offset) : TRUE
  <2>1. Idx(lines[k].offset) # {}
    BY <1>2, LinesOfChip
  <2>2. j \in Idx(lines[k].offset)
    BY <2>1
  <2>3. Drive(d, c, vs)[lines[k].offset] = vs[j]
    BY <1>1, <1>2, <2>1
  <2> HIDE DEF j
  <2>4. j \in DOMAIN ls /\ lines[ls[j]].offset = lines[k].offset
    BY <2>2
  <2>5. ls[j] \in DOMAIN lines /\ lines[ls[j]].chip = c
    BY <2>4, LinesOfChip
  <2>6. SameLine(k, ls[j])
    BY <1>2, <2>4, <2>5 DEF SameLine, LInv, LinesChosen
  <2>7. ls[j] = k
    BY <1>2, <2>5, <2>6 DEF LInv, LinesChosen
  <2>8. vs[j] = v[ls[j]]
    BY <2>4 DEF ValuesOf
  <2> QED BY <2>3, <2>7, <2>8
<1>3. DOMAIN Drive(d, c, vs) = DOMAIN d
  BY <1>1
<1> QED BY <1>2, <1>3

\* No chip is requested twice.
LEMMA ChipsDiffer ==
  ASSUME LInv, pc # "exit"
  PROVE  /\ chips \in Seq(Paths) /\ Len(chips) \in Nat
         /\ \A c, d \in DOMAIN chips : chips[c] = chips[d] => c = d
<1>1. chips \in Seq(Paths) /\ chips \in Seq(Nat) /\ Sorted(chips)
  BY PathsAreNumbers, SeqMono DEF LInv, SearchShape, ChipsRead
<1> QED BY <1>1, SortedOnce

\* Nothing is requested at first.
LEMMA DrivenInit == Init => DInv
<1> SUFFICES ASSUME Init PROVE DInv
  OBVIOUS
<1>1. req = <<>> /\ driven = [p \in Paths |-> FreeLines(dev[p])]
  BY DEF Init, AllFree
<1>2. \A p \in Paths : DOMAIN driven[p] = 0 .. Len(dev[p]) - 1
  BY <1>1 DEF FreeLines
<1> QED BY <1>1, <1>2 DEF DInv, ShownIsDriven

\* Steps that change neither values nor requests.
LEMMA QuietDriven ==
  ASSUME DInv, UNCHANGED <<dev, value, req, driven>>,
         \/ req = <<>>
         \/ UNCHANGED <<lines, chips>> /\ pc' \notin LookingUp \cup {"values", "exit"}
  PROVE  DInv'
<1>1. CASE req = <<>>
  BY <1>1 DEF DInv, ShownIsDriven
<1>2. CASE UNCHANGED <<lines, chips>> /\ pc' \notin LookingUp \cup {"values", "exit"}
  BY <1>2 DEF DInv, ShownIsDriven
<1> QED BY <1>1, <1>2

\* All lines are given back at the end.
LEMMA ExitDriven ==
  ASSUME DInv, NEW reason, Exit(reason), UNCHANGED dev
  PROVE  DInv'
<1>1. req' = <<>> /\ driven' = [p \in Paths |-> FreeLines(dev[p])]
  BY DEF Exit, AllFree
<1>2. \A p \in Paths : DOMAIN driven'[p] = 0 .. Len(dev[p]) - 1
  BY <1>1 DEF FreeLines
<1> QED BY <1>1, <1>2 DEF DInv, ShownIsDriven

\* The lines of the next chip are requested with their values.
LEMMA RequestDriven ==
  ASSUME LInv, DInv, RequestChip
  PROVE  DInv'
<1> DEFINE c0 == NextChip + 1
           vs == ValuesOf(value, NextChip)
<1>1. /\ pc = "request" /\ NextChip < Len(chips) /\ req' = Append(req, "live")
      /\ \A k \in Range(LinesOf(NextChip)) : lines[k].offset < Len(dev[NextPath])
      /\ driven' = [driven EXCEPT ![NextPath] = Drive(driven[NextPath], NextChip, vs)]
      /\ UNCHANGED <<dev, pc, lines, chips, value>>
  BY DEF RequestChip, rvars
<1>2. /\ chips \in Seq(Paths) /\ Len(chips) \in Nat
      /\ \A c, d \in DOMAIN chips : chips[c] = chips[d] => c = d
  BY <1>1, ChipsDiffer
<1>3. /\ req \in Seq({"live", "dead"}) /\ NextChip = Len(req) /\ NextChip \in Nat
      /\ DOMAIN driven = Paths /\ \A p \in Paths : DOMAIN driven[p] = 0 .. Len(dev[p]) - 1
  BY DEF DInv, NextChip
<1>4. c0 \in DOMAIN chips /\ NextPath = chips[c0] /\ NextPath \in Paths
  BY <1>1, <1>2, <1>3 DEF NextPath
<1>5. /\ req' \in Seq({"live", "dead"}) /\ Len(req') = c0 /\ DOMAIN req' = 1 .. c0
      /\ \A c \in DOMAIN req' : c # c0 => c \in DOMAIN req /\ req'[c] = req[c]
  BY <1>1, <1>3
<1>6. /\ DOMAIN driven' = Paths
      /\ driven'[NextPath] = Drive(driven[NextPath], NextChip, vs)
      /\ \A p \in Paths : p # NextPath => driven'[p] = driven[p]
  BY <1>1, <1>3, <1>4
<1>7. pc \notin LookingUp \cup {"values", "exit"}
  BY <1>1 DEF LookingUp
<1>8. /\ DOMAIN driven'[NextPath] = DOMAIN driven[NextPath]
      /\ \A k \in DOMAIN lines :
           lines[k].chip = NextChip /\ lines[k].offset \in DOMAIN driven[NextPath] =>
             driven'[NextPath][lines[k].offset] = value[k]
  BY <1>6, <1>7, DrivenTo
<1>9. \A p \in Paths : DOMAIN driven'[p] = 0 .. Len(dev[p]) - 1
  BY <1>3, <1>6, <1>8
<1>10. ASSUME NEW c \in DOMAIN req', NEW k \in DOMAIN lines,
              req'[c] = "live", lines[k].chip = c - 1
       PROVE  /\ lines[k].offset \in DOMAIN driven'[chips[c]]
              /\ driven'[chips[c]][lines[k].offset] = value[k]
  <2>1. CASE c = c0
    <3>1. lines[k].chip = NextChip
      BY <1>3, <1>10, <2>1
    <3>2. PICK j \in DOMAIN LinesOf(NextChip) : LinesOf(NextChip)[j] = k
      BY <3>1, LinesOfChip
    <3>3. lines[k].offset < Len(dev[NextPath])
      BY <1>1, <3>2 DEF Range
    <3>4. lines[k].offset \in Nat
      <4>1. lines[k] \in LineRec
        BY DEF LInv, SearchShape
      <4> QED BY <4>1 DEF LineRec
    <3>5. lines[k].offset \in DOMAIN driven[NextPath]
      <4>1. dev[NextPath] \in Layouts \cup {Gone}
        BY <1>4 DEF LInv, SearchShape
      <4>2. Len(dev[NextPath]) \in Nat
        BY <4>1, ResolverAssumption DEF ResolverAssumption, Gone
      <4> QED BY <1>3, <1>4, <3>3, <3>4, <4>2
    <3> QED BY <1>4, <1>8, <2>1, <3>1, <3>5
  <2>2. CASE c # c0
    <3>1. c \in DOMAIN req /\ req[c] = "live"
      BY <1>5, <1>10, <2>2
    <3>2. c \in DOMAIN chips
      BY <1>1, <1>2, <1>3, <3>1
    <3>3. chips[c] \in Paths /\ chips[c] # NextPath
      BY <1>2, <1>4, <2>2, <3>2
    <3> QED BY <1>6, <1>10, <3>1, <3>3 DEF DInv, ShownIsDriven
  <2> QED BY <2>1, <2>2
<1>11. c0 <= Len(chips)
  BY <1>1, <1>2, <1>3
<1> HIDE DEF c0
<1> QED BY <1>1, <1>5, <1>6, <1>7, <1>9, <1>10, <1>11 DEF DInv, ShownIsDriven

\* Values are applied: each request that is live gets those of its lines.
LEMMA AppliedDriven ==
  ASSUME LInv, DInv, NEW v, NEW slept, Apply(v, slept), pc \notin LookingUp \cup {"values", "exit"},
         pc' \notin LookingUp \cup {"values", "exit"}, UNCHANGED <<dev, lines, chips, req>>
  PROVE  DInv'
<1>1. value' = v /\ driven' = Applied(v)
  BY DEF Apply
<1>2. /\ chips \in Seq(Paths) /\ Len(chips) \in Nat
      /\ \A c, d \in DOMAIN chips : chips[c] = chips[d] => c = d
  BY ChipsDiffer
<1>3. /\ req \in Seq({"live", "dead"}) /\ DOMAIN driven = Paths
      /\ \A c \in DOMAIN req : c \in DOMAIN chips /\ c \in Int
  <2>1. req # <<>> => Len(req) <= Len(chips)
    BY DEF DInv
  <2> QED BY <1>2, <2>1 DEF DInv
<1>4. DOMAIN driven' = Paths
  BY <1>1 DEF Applied
<1>5. ASSUME NEW p \in Paths
      PROVE  /\ Living(p) = {} => driven'[p] = driven[p]
             /\ Living(p) # {} => \E c \in Living(p) :
                  driven'[p] = Drive(driven[p], c - 1, ValuesOf(v, c - 1))
  <2> DEFINE c == CHOOSE c \in Living(p) : TRUE
  <2>1. driven'[p] = IF Living(p) = {} THEN driven[p]
                     ELSE Drive(driven[p], c - 1, ValuesOf(v, c - 1))
    BY <1>1 DEF Applied
  <2>2. Living(p) # {} => c \in Living(p)
    OBVIOUS
  <2> HIDE DEF c
  <2> QED BY <2>1, <2>2
<1>6. \A p \in Paths : DOMAIN driven'[p] = DOMAIN driven[p]
  BY <1>5, DrivenTo
<1>7. ASSUME NEW c \in DOMAIN req, NEW k \in DOMAIN lines,
             req[c] = "live", lines[k].chip = c - 1
      PROVE  /\ lines[k].offset \in DOMAIN driven[chips[c]]
             /\ driven'[chips[c]][lines[k].offset] = v[k]
  <2>1. lines[k].offset \in DOMAIN driven[chips[c]]
    BY <1>7 DEF DInv
  <2>2. chips[c] \in Paths /\ c \in Living(chips[c])
    BY <1>2, <1>3, <1>7 DEF Living
  <2>3. Living(chips[c]) # {} /\ \A d \in Living(chips[c]) : d = c
    BY <1>2, <1>3, <2>2 DEF Living
  <2>4. driven'[chips[c]] = Drive(driven[chips[c]], c - 1, ValuesOf(v, c - 1))
    BY <1>5, <2>2, <2>3
  <2> QED BY <1>7, <2>1, <2>4, DrivenTo
<1>8. \A p \in Paths : DOMAIN driven'[p] = 0 .. Len(dev'[p]) - 1
  BY <1>6 DEF DInv
<1>9. \A c \in DOMAIN req : chips[c] \in Paths
  BY <1>2, <1>3
<1>10. ASSUME NEW c \in DOMAIN req, NEW k \in DOMAIN lines,
              req[c] = "live", lines[k].chip = c - 1
       PROVE  lines[k].offset \in DOMAIN driven'[chips[c]]
  BY <1>6, <1>7, <1>9, <1>10
<1>11. ShownIsDriven'
  BY <1>1, <1>7 DEF ShownIsDriven
<1>12. req' # <<>> =>
         pc' \notin LookingUp \cup {"values", "exit"} /\ Len(req') <= Len(chips')
  BY DEF DInv
<1> QED BY <1>3, <1>4, <1>8, <1>10, <1>11, <1>12 DEF DInv

\* A device that is gone takes its requests with it.
LEMMA DeviceDriven ==
  ASSUME LInv, DInv, NEW p \in Paths, NEW layout, DeviceChanges(p, layout)
  PROVE  DInv'
<1>1. /\ req' = [c \in DOMAIN req |-> IF chips[c] = p THEN "dead" ELSE req[c]]
      /\ driven' = [driven EXCEPT ![p] = FreeLines(layout)]
      /\ dev' = [dev EXCEPT ![p] = layout]
      /\ UNCHANGED <<pc, lines, chips, value>> /\ pc # "exit"
  BY DEF DeviceChanges, Move
<1>2. /\ req \in Seq({"live", "dead"}) /\ DOMAIN driven = Paths /\ DOMAIN dev = Paths
      /\ \A q \in Paths : DOMAIN driven[q] = 0 .. Len(dev[q]) - 1
  BY DEF DInv, LInv, SearchShape
<1>3. /\ req' \in Seq({"live", "dead"}) /\ Len(req') = Len(req) /\ DOMAIN req' = DOMAIN req
  <2>1. req' = [c \in DOMAIN req |-> req'[c]]
    BY <1>1
  <2>2. \A c \in DOMAIN req : req'[c] \in {"live", "dead"}
    BY <1>1, <1>2
  <2> QED BY <1>2, <2>1, <2>2, SameLength
<1>4. /\ DOMAIN driven' = Paths /\ driven'[p] = FreeLines(layout) /\ dev'[p] = layout
      /\ \A q \in Paths : q # p => driven'[q] = driven[q] /\ dev'[q] = dev[q]
  BY <1>1, <1>2
<1>5. \A q \in Paths : DOMAIN driven'[q] = 0 .. Len(dev'[q]) - 1
  BY <1>2, <1>4 DEF FreeLines
<1>6. ASSUME NEW c \in DOMAIN req, NEW k \in DOMAIN lines,
             req'[c] = "live", lines[k].chip = c - 1
      PROVE  /\ lines[k].offset \in DOMAIN driven'[chips[c]]
             /\ driven'[chips[c]][lines[k].offset] = value[k]
  <2>1. chips[c] # p /\ req[c] = "live"
    BY <1>1, <1>6
  <2>2. chips[c] \in Paths
    <3>1. chips \in Seq(Paths) /\ Len(req) <= Len(chips)
      BY DEF DInv, LInv, SearchShape
    <3>2. c \in DOMAIN chips
      BY <1>2, <3>1
    <3> QED BY <3>1, <3>2
  <2> QED BY <1>4, <1>6, <2>1, <2>2 DEF DInv, ShownIsDriven
<1>7. req' # <<>> => req # <<>>
  BY <1>2, <1>3
<1> QED BY <1>1, <1>3, <1>4, <1>5, <1>6, <1>7 DEF DInv, ShownIsDriven

\* Every step of the program and of the world keeps the values driven.
LEMMA NextDriven ==
  ASSUME LInv, DInv, [Next]_vars
  PROVE  DInv'
<1>1. CASE Lookup
  <2>1. UNCHANGED <<dev, value, req, driven>> /\ pc \in LookingUp
    BY <1>1 DEF Lookup, svars, LookingUp, Start, StartNoChip, OpenChip, OpenDenied, OpenGone,
                ReadLine, ReadLineNotUnique, ReadLineFails, CloseChip, Validate, Invalid, LookedUp
  <2>2. req = <<>>
    BY <2>1 DEF DInv
  <2> QED BY <2>1, <2>2, QuietDriven
<1>2. ASSUME NEW v, BadValues(v) PROVE DInv'
  <2>1. UNCHANGED <<dev, value, req, driven>> /\ pc = "start"
    BY <1>2 DEF BadValues, svars
  <2> QED BY <2>1, QuietDriven DEF DInv, LookingUp
<1>3. ASSUME NEW v, Values(v) PROVE DInv'
  <2>1. UNCHANGED <<dev, req, driven>> /\ pc = "values"
    BY <1>3 DEF Values
  <2>2. req = <<>>
    BY <2>1 DEF DInv
  <2> QED BY <2>1, <2>2 DEF DInv, ShownIsDriven
<1>4. CASE RequestChip
  BY <1>4, RequestDriven
<1>5. CASE RequestFails \/ Release \/ PromptBlank
  BY <1>5, ExitDriven DEF RequestFails, Release, PromptBlank
<1>6. ASSUME NEW config, Configure(config) PROVE DInv'
  <2>1. /\ UNCHANGED <<dev, value, req, driven, lines, chips>>
        /\ pc' \notin LookingUp \cup {"values", "exit"}
    BY <1>6 DEF Configure, LookupState, LookingUp
  <2> QED BY <2>1, QuietDriven
<1>7. CASE Hold \/ WaitEnds \/ PromptExit
  <2>1. /\ UNCHANGED <<dev, value, req, driven, lines, chips>>
        /\ pc' \notin LookingUp \cup {"values", "exit"}
    BY <1>7 DEF Hold, WaitEnds, PromptExit, LookupState, svars, LookingUp
  <2> QED BY <2>1, QuietDriven
<1>8. CASE ToggleStep
  <2>1. /\ \E slept : Apply(ToggledAll, slept)
        /\ UNCHANGED <<dev, req, lines, chips>> /\ pc = "toggle"
        /\ pc' \in {"hold", "toggle"}
    BY <1>8 DEF ToggleStep, LookupState, AfterPeriod
  <2> QED BY <2>1, AppliedDriven DEF LookingUp
<1>9. ASSUME NEW ids, NEW new, PromptSet(ids, new) PROVE DInv'
  <2>1. /\ Apply(SetLineValuesSubset(ids, new), since)
        /\ UNCHANGED <<dev, req, lines, chips>> /\ pc = "prompt" /\ pc' = pc
    BY <1>9 DEF PromptSet, LookupState
  <2> QED BY <2>1, AppliedDriven DEF LookingUp
<1>10. ASSUME NEW ids, PromptToggle(ids) PROVE DInv'
  <2>1. PICK v : Apply(v, since)
    BY <1>10 DEF PromptToggle
  <2>2. UNCHANGED <<dev, req, lines, chips>> /\ pc = "prompt" /\ pc' = pc
    BY <1>10 DEF PromptToggle, LookupState
  <2> QED BY <2>1, <2>2, AppliedDriven DEF LookingUp
<1>11. ASSUME NEW p \in Paths, NEW layout, DeviceChanges(p, layout) PROVE DInv'
  BY <1>11, DeviceDriven
<1>12. CASE UNCHANGED vars
  BY <1>12, QuietDriven DEF vars, rvars, svars, DInv
<1> QED BY <1>1, <1>2, <1>3, <1>4, <1>5, <1>6, <1>7, <1>8, <1>9, <1>10, <1>11, <1>12
        DEF Next, Prompt

-----------------------------------------------------------------------------
(* Theorems *)

\* The schedule, the times slept and the place in the program agree in every state.
THEOREM Invariance == Spec => []SInv
<1>1. Init => SInv  BY InitInv, GpiosetAssumption
<1>2. SInv /\ [Next]_vars => SInv'  BY NextInv, GpiosetAssumption
<1> QED  BY <1>1, <1>2, PTL DEF Spec

\* Outside the prompt no value is replaced or given up before the hold period is over,
\* for any schedule and hold period (main, toggle_sequence).
THEOREM HoldKept == Spec => []HoldRespected
<1>1. SInv => HoldRespected  BY DEF SInv
<1> QED  BY <1>1, Invariance, PTL

\* The toggle sequence is left only before a last period of 0, after each period before
\* it was used once, for any schedule and hold period (toggle_sequence).
THEOREM PlayedOnce == Spec => []SequencePlayedOnce
<1>1. SInv => SequencePlayedOnce
  <2> SUFFICES ASSUME SInv,
                      pc \in {"hold", "release"} \/ (pc = "exit" /\ why = "ok"),
                      mode.periods # <<>>
               PROVE  Last(mode.periods) = 0 /\ flips = (Len(mode.periods) - 1) % 2
    BY DEF SequencePlayedOnce
  <2> QED  BY DEF SInv, Schedule, N, Last
<1> QED  BY <1>1, Invariance, PTL

\* Where the lines were found and what they are driven to agree with the search and the
\* values in every state.
THEOREM LinesInvariance == Spec => [](LInv /\ DInv)
<1>1. Init => LInv /\ DInv
  BY SearchInit, DrivenInit
<1>2. LInv /\ DInv /\ [Next]_vars => (LInv /\ DInv)'
  BY NextSearch, NextDriven
<1> QED BY <1>1, <1>2, PTL DEF Spec

\* A program that goes on has for each id the line at its offset or the first of its
\* name, the only one with the strict option, and no line twice, for any chips, names
\* and ids, and chips removed and replaced at any time (resolve_lines,
\* validate_resolution).
THEOREM LinesRight == Spec => []ResolvedRight
<1>1. LInv => ResolvedRight
  BY RightLines
<1> QED BY <1>1, LinesInvariance, PTL

\* What the tool shows as a line's value is what the kernel drives it to, on every
\* requested chip that is still there, for lines of any number of chips in any order
\* (apply_values, get_line_offsets_and_values).
THEOREM ShownDriven == Spec => []ShownIsDriven
<1>1. DInv => ShownIsDriven
  BY DEF DInv
<1> QED BY <1>1, LinesInvariance, PTL
=================================================================================
