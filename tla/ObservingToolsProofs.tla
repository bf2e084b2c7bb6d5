-------------------------- MODULE ObservingToolsProofs --------------------------
(***************************************************************************)
(* Proofs about the tools that only look, for chips, ids and lines of any  *)
(* number, removed and replaced at any time, and queues, batches and       *)
(* counts of events of any size: gpiomon and gpionotify print each event   *)
(* once, in order, and end for a cause; gpioget prints what it read of the *)
(* lines it found, gpioinfo the lines that were named and no others.       *)
(***************************************************************************)
EXTENDS ObservingTools, FiniteSetTheorems, TLAPS

-----------------------------------------------------------------------------
(* The programs *)

Polling == {"open", "poll", "round", "print", "done"}
Searching == {"start", "chip", "line", "values"}

\* The program that runs, by where it is.
Program ==
  /\ pc \in Searching \cup Polling \cup {"get", "info", "detect", "exit"}
  /\ pc # "exit" => why = "running"
  /\ pc \in Searching => reading = "none" /\ tool = "none"
  /\ pc \in Polling => reading = "none" /\ tool \in EventTool
  /\ pc = "get" => reading = "gpioget"
  /\ pc = "info" => reading = "gpioinfo"
  /\ pc = "detect" => reading = "gpiodetect"
  /\ reading = "none" \/ tool = "none"

-----------------------------------------------------------------------------
(* The invariant of the search *)

Once(s) == \A j, k \in DOMAIN s : s[j] = s[k] => j = k

LineRec == [resolved : BOOLEAN, chip : Int, offset : Nat]

SearchShape ==
  /\ dev \in [Paths -> Layouts \cup {Gone}] /\ seen \in [Paths -> Layouts \cup {Gone}]
  /\ args.ids \in Seq(Names) /\ args.chip \in Paths \cup {NoChip}
  /\ args.strict \in BOOLEAN /\ args.byName \in BOOLEAN
  /\ lines \in Seq(LineRec) /\ Len(lines) = Len(args.ids)
  /\ i \in Nat /\ at \in Nat /\ used \in BOOLEAN /\ chips \in Seq(Paths)

\* The paths are each there once, and only the one given if one is.
PathsOnce ==
  /\ reading # "gpiodetect" => paths \in Seq(Paths) /\ Once(paths)
  /\ reading # "gpiodetect" /\ args.chip # NoChip => paths = <<args.chip>>
  /\ ~args.byName => args.chip # NoChip

Fresh ==
  /\ pc = "start" => /\ lines = <<>> /\ chips = <<>> /\ listed = <<>> /\ i = 0 /\ found = 0
                     /\ fd = "none" /\ ~failed /\ \A p \in Paths : seen[p] = Gone
  /\ pc \in Searching => done = 0

\* The chips used are some of those that were read, each once.
ChipsRead ==
  /\ \A c \in DOMAIN chips : \E j \in 1 .. i : j \in DOMAIN paths /\ chips[c] = paths[j]
  /\ Once(chips)

\* Line k was found on chip number c.
OnChip(k, c) == lines[k].resolved => lines[k].chip = c

\* The lines found are on the chips used, or on the one that is being read.
LinesPlaced ==
  /\ pc = "chip" => /\ i <= Len(paths)
                    /\ \A k \in DOMAIN lines : lines[k].resolved =>
                         lines[k].chip \in 0 .. Len(chips) - 1
  /\ pc = "line" => /\ i < Len(paths)
                    /\ \A k \in DOMAIN lines : lines[k].resolved =>
                         \/ lines[k].chip \in 0 .. Len(chips) - 1
                         \/ used /\ lines[k].chip = Len(chips)
  /\ pc \in {"values", "get"} => \A k \in DOMAIN lines :
       lines[k].chip \in 0 .. Len(chips) - 1

LInv == SearchShape /\ PathsOnce /\ Fresh /\ ChipsRead /\ LinesPlaced

-----------------------------------------------------------------------------
(* The invariant of gpioget *)

\* The level that was read of line k.
Level(k) == level[chips[lines[k].chip + 1]][lines[k].offset + 1]

GInv ==
  /\ DOMAIN level = Paths /\ done \in Nat
  /\ req # "none" => pc = "exit" \/ (pc = "get" /\ done < Len(chips))
  /\ pc = "get" => /\ done <= Len(chips)
                   /\ \A k \in DOMAIN lines : lines[k].chip < done => value[k] = Level(k)
  /\ ReadIsTold

-----------------------------------------------------------------------------
(* The invariant of gpioinfo *)

\* Where line k was found.
Place(k) == <<paths[lines[k].chip + 1], lines[k].offset>>

\* gpioinfo has opened path j (from 0), and read the line at offset o of it.
Opened(j)     == j < i \/ (j = i /\ fd # "none")
WasRead(j, o) == j < i \/ (j = i /\ fd # "none" /\ o < at)

Listed(q) == \E x \in DOMAIN listed : listed[x] = q

\* The offsets of the lines seen on path j.
Offsets(j) == 0 .. Len(seen[paths[j + 1]]) - 1
Indices    == 0 .. Len(paths) - 1

\* No path is left before all its lines are read.
ReadsAll == args.strict \/ args.ids = <<>>

\* The chips that were opened.
OpenedChips ==
  /\ i <= Len(paths) /\ fd \in {"none", "live", "dead"}
  /\ fd # "none" => i < Len(paths) /\ at <= Len(seen[paths[i + 1]])
  /\ \A p \in Paths : seen[p] # Gone => \E j \in Indices : p = paths[j + 1] /\ Opened(j)
  /\ ~failed => \A j \in Indices : Opened(j) => seen[paths[j + 1]] # Gone

\* The lines printed were read, each once.
ListedOnce ==
  /\ (\E S : listed \in Seq(S)) /\ found = Len(listed) /\ Once(listed)
  /\ \A x \in DOMAIN listed : \E j \in Indices : \E o \in Offsets(j) :
       WasRead(j, o) /\ listed[x] = <<paths[j + 1], o>>

\* Offset o of path j, that was opened, is a line that id n stands for.
StandsFor(n, j, o) ==
  /\ j \in Indices /\ Opened(j) /\ o \in Offsets(j)
  /\ \/ seen[paths[j + 1]][o + 1] = n
     \/ ~args.byName /\ paths[j + 1] = args.chip /\ AsOffset[n] = o

FoundAsNamed ==
  \A k \in DOMAIN lines :
    lines[k].resolved => StandsFor(args.ids[k], lines[k].chip, lines[k].offset)

\* A line is printed because it was found.  It stays so: one id finds one line.
ListedFound ==
  ~args.strict /\ args.ids # <<>> => \A x \in DOMAIN listed : \E k \in DOMAIN lines :
    lines[k].resolved /\ listed[x] = Place(k)

\* With all lines read, those found were printed when they were read.
FoundListed ==
  args.strict => \A k \in DOMAIN lines :
    lines[k].resolved /\ WasRead(lines[k].chip, lines[k].offset) => Listed(Place(k))

\* With all lines read, those that have a name asked for were printed.
ReadListed ==
  ReadsAll => \A j \in Indices : \A o \in Offsets(j) :
    /\ WasRead(j, o)
    /\ args.ids = <<>> \/ \E k \in DOMAIN args.ids : seen[paths[j + 1]][o + 1] = args.ids[k]
    => Listed(<<paths[j + 1], o>>)

Infos == OpenedChips /\ ListedOnce /\ FoundAsNamed /\ ListedFound /\ FoundListed /\ ReadListed

IInv == (pc = "info" => Infos) /\ InfoListsNamed

-----------------------------------------------------------------------------
(* The invariant of gpiomon and gpionotify *)

Event == [n : Nat, offset : Nat, type : {"edge", "requested", "released"}]

EventShape ==
  /\ files \in Seq({"live", "dead"}) /\ queue \in Seq(Seq(Event)) /\ made \in Seq(Nat)
  /\ passed \in Seq(SUBSET Nat) /\ lost \in Seq(SUBSET Nat)
  /\ Len(queue) = Len(files) /\ Len(made) = Len(files)
  /\ Len(passed) = Len(files) /\ Len(lost) = Len(files)
  /\ batch \in Seq(Event) /\ turn \in Nat
  /\ \E S : told \in Seq(S)
  /\ \A j \in DOMAIN told : told[j].file \in DOMAIN files /\ told[j].n \in Nat

Options ==
  /\ opts.wanted \in Nat
  /\ opts.type # AnyType => tool = "gpionotify"
  /\ tool = "none" => opts = NoOpts /\ told = <<>> /\ files = <<>>
  /\ pc = "open" => told = <<>>

\* What was read is printed before anything else is read.
BatchInv ==
  /\ pc = "print" => batch # <<>> /\ turn \in DOMAIN files
                     /\ (tool = "gpionotify" => Len(batch) = 1)
  /\ pc \notin {"print", "done", "exit"} => batch = <<>>

\* A file that poll found ready still is when the loop comes to it.
FlagsInv ==
  /\ pc \in {"round", "print"} => flagged \subseteq DOMAIN files
  /\ \A f \in flagged : (pc = "round" /\ f >= turn) \/ (pc = "print" /\ f > turn) =>
       queue[f] # <<>> \/ files[f] = "dead"

\* The events printed, against the number wanted.
CountInv ==
  /\ pc \in Polling \ {"done"} /\ opts.wanted > 0 => Len(told) < opts.wanted
  /\ pc = "done" => opts.idle \/ (opts.wanted > 0 /\ Len(told) = opts.wanted)
  /\ StopsForCause

\* The events of file f that were read and not printed.
BatchOf(f) == IF f = turn THEN batch ELSE <<>>

Sorted(s)    == \A j, k \in DOMAIN s : j < k => s[j].n < s[k].n
Less(m, s)   == \A k \in DOMAIN s : m < s[k].n
Before(s, t) == \A j \in DOMAIN s : Less(s[j].n, t)
Among(x, s)  == \E j \in DOMAIN s : s[j].n = x

\* InOrder, without a list of all that is to come.
Ordered(f) ==
  /\ Sorted(queue[f]) /\ Sorted(BatchOf(f)) /\ Before(BatchOf(f), queue[f])
  /\ \A j \in DOMAIN told : told[j].file = f =>
       Less(told[j].n, queue[f]) /\ Less(told[j].n, BatchOf(f))
  /\ \A j, k \in DOMAIN told :
       told[j].file = f /\ told[k].file = f /\ j < k => told[j].n < told[k].n

Tallied(f) ==
  \A x : x \in 1 .. made[f] <=>
    \/ \E j \in DOMAIN told : told[j].file = f /\ told[j].n = x
    \/ x \in passed[f] \/ x \in lost[f] \/ Among(x, queue[f]) \/ Among(x, BatchOf(f))

Accounted(f) == Ordered(f) /\ Tallied(f) /\ (opts.type = AnyType => passed[f] = {})

EInv ==
  /\ EventShape /\ Options /\ BatchInv /\ FlagsInv /\ CountInv
  /\ \A f \in DOMAIN files : Accounted(f)

-----------------------------------------------------------------------------
(* Which program runs *)

LEMMA ProgramInit == Init => Program
BY DEF Init, ResolverInit, EventInit, ReadingInit, Program, Searching, Polling, EventTool

\* A search keeps to itself, and says at its end only whether it failed.
LEMMA LookupProgram ==
  ASSUME Program, Lookup
  PROVE  /\ pc \in Searching /\ pc' \in Searching \cup {"exit"}
         /\ pc' # "exit" => why' = "running"
         /\ pc' = "exit" => why' # "ok"
         /\ UNCHANGED <<evars, gvars>>
<1>1. UNCHANGED <<evars, gvars>>
  BY DEF Lookup
<1>2. pc \in Searching
  BY DEF Lookup, Searching, Start, StartNoChip, OpenChip, OpenDenied, OpenGone, ReadLine,
         ReadLineNotUnique, ReadLineFails, CloseChip, Validate, Invalid, LookedUp
<1>3. pc # "exit" /\ why = "running"
  BY <1>2 DEF Program, Searching
<1>4. CASE StartNoChip(args.chip) \/ \E c \in Paths : StartNoChip(c)
  BY <1>1, <1>2, <1>4 DEF StartNoChip, Die
<1>5. CASE OpenGone \/ ReadLineNotUnique \/ ReadLineFails \/ Invalid
  BY <1>1, <1>2, <1>5 DEF OpenGone, ReadLineNotUnique, ReadLineFails, Invalid, Die
<1>6. CASE OpenDenied
  BY <1>1, <1>2, <1>3, <1>6 DEF OpenDenied, Die
<1>7. CASE \E ids \in IdLists, c \in Paths \cup {NoChip}, search \in Searches :
             Start(ids, c, search[1], search[2])
  BY <1>1, <1>2, <1>3, <1>7 DEF Start, Searching
<1>8. CASE OpenChip \/ ReadLine \/ CloseChip \/ Validate
  BY <1>1, <1>2, <1>3, <1>8 DEF OpenChip, ReadLine, CloseChip, Validate, StayedOn, Searching
<1> QED BY <1>4, <1>5, <1>6, <1>7, <1>8 DEF Lookup

\* The programs that wait for events run from the options to their end.
LEMMA EventProgram ==
  ASSUME Program, EventNext
  PROVE  /\ pc \in {"values"} \cup Polling \/ (UNCHANGED <<pc, why>> /\ pc # "exit")
         /\ pc' # "exit" => why' = why
         /\ UNCHANGED <<dev, moves, LookupState>>
         /\ pc = "values" => \/ pc' = "open" /\ tool' \in EventTool
                             \/ UNCHANGED <<pc, tool>>
         /\ pc # "values" => UNCHANGED <<tool, opts>>
         /\ pc \in Polling => pc' \in Polling \cup {"exit"}
         /\ pc' = "exit" /\ why' = "ok" => pc = "done"
<1>1. ASSUME NEW o, EventOptions("gpiomon", o) \/ EventOptions("gpionotify", o)
      PROVE  /\ pc = "values" /\ pc' = "open" /\ tool' \in EventTool
             /\ UNCHANGED <<dev, moves, why, LookupState>>
  BY <1>1 DEF EventOptions, StayedOn, EventTool
<1>2. CASE EventStep
  <2>1. CASE OpenRequest \/ OpenWatch \/ WatchLine
    BY <2>1 DEF OpenRequest, OpenWatch, WatchLine, rvars, LookupState, Polling
  <2>2. CASE OpenFails \/ ReadBatchFails \/ EventsDone
    BY <2>2 DEF OpenFails, ReadBatchFails, EventsDone, Die, evars, Polling
  <2>3. CASE StartPolling \/ IdleTimeout
    BY <2>3 DEF StartPolling, IdleTimeout, StayedOn, evars, Polling
  <2>4. CASE Poll \/ EndRound \/ ReadBatch \/ PassOver
    BY <2>4 DEF Poll, EndRound, ReadBatch, PassOver, StayedOn, Polling
  <2>5. CASE SkipFile
    BY <2>5 DEF SkipFile, rvars, LookupState, Polling
  <2>6. CASE PrintEvent
    BY <2>6 DEF PrintEvent, AfterPrint, StayedOn, Polling
  <2> QED BY <1>2, <2>1, <2>2, <2>3, <2>4, <2>5, <2>6 DEF EventStep
<1>3. ASSUME NEW f, NEW k, NEW type, Happens(f, k, type)
      PROVE  pc # "exit" /\ UNCHANGED <<pc, why, tool, opts, dev, moves, LookupState>>
  BY <1>3 DEF Happens, rvars, LookupState
<1>4. CASE Forget
  BY <1>4 DEF Forget, rvars, LookupState
<1> QED BY <1>1, <1>2, <1>3, <1>4 DEF EventNext, Polling

\* gpioget, gpioinfo and gpiodetect.
LEMMA ReadingProgram ==
  ASSUME Program, ReadingNext
  PROVE  /\ pc \in {"start", "values", "get", "info", "detect"}
         /\ pc' # "exit" => why' = why
         /\ pc = "values" => pc' = "get" /\ reading' = "gpioget"
         /\ pc = "start" => \/ pc' = "info" /\ reading' = "gpioinfo"
                            \/ pc' = "detect" /\ reading' = "gpiodetect"
         /\ pc \in {"get", "info", "detect"} => pc' \in {pc, "exit"} /\ UNCHANGED reading
<1>1. CASE GetNext
  BY <1>1 DEF GetNext, GetStart, GetRequest, GetRequestFails, GetValues, GetValuesFails,
              GetPrint, Die, StayedOn, gvars, rvars
<1>2. ASSUME NEW ids, NEW c, NEW s, NEW b, InfoStart(ids, c, s, b)
      PROVE  pc = "start" /\ pc' = "info" /\ reading' = "gpioinfo" /\ UNCHANGED why
  BY <1>2 DEF InfoStart
<1>3. CASE InfoOpen \/ InfoOpenFails \/ InfoLine \/ InfoLineFails \/ InfoClose \/ InfoEnd
  BY <1>3 DEF InfoOpen, InfoOpenFails, InfoLine, InfoLineFails, InfoClose, InfoEnd, Die, gvars
<1>4. ASSUME NEW given, DetectStart(given)
      PROVE  pc = "start" /\ pc' = "detect" /\ reading' = "gpiodetect" /\ UNCHANGED why
  BY <1>4 DEF DetectStart
<1>5. CASE DetectChip \/ DetectEnd
  BY <1>5 DEF DetectChip, DetectEnd, Die, gvars
<1> QED BY <1>1, <1>2, <1>3, <1>4, <1>5 DEF ReadingNext, InfoNext, DetectNext

LEMMA DeviceProgram ==
  ASSUME NEW p, NEW layout, DeviceChanges(p, layout)
  PROVE  /\ pc \notin {"start", "exit"} /\ dev' = [dev EXCEPT ![p] = layout]
         /\ UNCHANGED <<args, pc, why, paths, i, at, lines, chips, found, used, seen>>
         /\ UNCHANGED <<tool, opts, watched, queue, made, flagged, turn, batch, told, passed,
                        lost>>
         /\ UNCHANGED <<reading, done, value, level, listed, failed>>
BY DEF DeviceChanges, Move

LEMMA ProgramStep ==
  ASSUME Program, [Next]_vars
  PROVE  Program'
<1>1. CASE UNCHANGED vars
  BY <1>1 DEF vars, rvars, evars, gvars, Program
<1>2. CASE Lookup
  BY <1>2, LookupProgram DEF Program, Searching, Polling, evars, gvars
<1>3. CASE EventNext /\ UNCHANGED gvars
  BY <1>3, EventProgram DEF Program, Searching, Polling, gvars, EventTool
<1>4. CASE ReadingNext /\ UNCHANGED evars
  BY <1>4, ReadingProgram DEF Program, Searching, Polling, evars, EventTool
<1>5. ASSUME NEW p \in Paths, NEW layout, DeviceChanges(p, layout) PROVE Program'
  <2>1. UNCHANGED <<pc, why, reading, tool>>
    BY <1>5, DeviceProgram
  <2> QED BY <2>1 DEF Program
<1> QED BY <1>1, <1>2, <1>3, <1>4, <1>5 DEF Next

-----------------------------------------------------------------------------
(* Sequences *)

LEMMA SeqMono == ASSUME NEW S, NEW T, S \subseteq T, NEW s \in Seq(S) PROVE s \in Seq(T)
OBVIOUS

\* A sequence changed element by element.
LEMMA SameLength ==
  ASSUME NEW S, NEW s \in Seq(S), NEW t, t = [k \in DOMAIN s |-> t[k]],
         \A k \in DOMAIN s : t[k] \in S
  PROVE  t \in Seq(S) /\ Len(t) = Len(s) /\ DOMAIN t = DOMAIN s
<1>1. DOMAIN s = 1 .. Len(s) /\ Len(s) \in Nat
  OBVIOUS
<1>2. t = [k \in 1 .. Len(s) |-> t[k]] /\ \A k \in 1 .. Len(s) : t[k] \in S
  BY <1>1
<1>3. t \in [1 .. Len(s) -> S]
  BY <1>2
<1> QED BY <1>1, <1>3

\* Ascending lists the members of the set, each once.
LEMMA AscendingSorts ==
  ASSUME NEW S \in SUBSET Nat, IsFiniteSet(S)
  PROVE  /\ Ascending(S) \in Seq(S) /\ Once(Ascending(S))
         /\ \A x \in S : \E k \in DOMAIN Ascending(S) : Ascending(S)[k] = x
<1> DEFINE n == Cardinality(S)
           Upto(x) == {y \in S : y <= x}
           rank == [x \in S |-> Cardinality(Upto(x))]
<1>1. n \in Nat
  BY FS_CardinalityType
<1>2. \A x \in S : IsFiniteSet(Upto(x)) /\ rank[x] \in 1..n
  <2> TAKE x \in S
  <2>1. Upto(x) \in SUBSET S /\ x \in Upto(x)
    OBVIOUS
  <2>2. IsFiniteSet(Upto(x)) /\ Cardinality(Upto(x)) <= n
    BY <2>1, FS_Subset
  <2>3. Cardinality(Upto(x)) \in Nat /\ Cardinality(Upto(x)) # 0
    BY <2>1, <2>2, FS_CardinalityType, FS_EmptySet
  <2> QED BY <1>1, <2>2, <2>3
<1>3. \A x, y \in S : x < y => rank[x] < rank[y]
  <2> SUFFICES ASSUME NEW x \in S, NEW y \in S, x < y PROVE rank[x] < rank[y]
    OBVIOUS
  <2>1. Upto(x) \in SUBSET Upto(y) /\ y \in Upto(y) /\ y \notin Upto(x)
    <3>1. x \in Nat /\ y \in Nat /\ \A z \in S : z \in Nat
      OBVIOUS
    <3>2. \A z \in S : z <= x => z <= y
      BY <3>1
    <3>3. y <= y /\ ~(y <= x)
      BY <3>1
    <3> QED BY <3>2, <3>3
  <2>2. Cardinality(Upto(x)) <= Cardinality(Upto(y)) /\ Cardinality(Upto(x)) # Cardinality(Upto(y))
    BY <2>1, <1>2, FS_Subset
  <2> QED BY <2>2, <1>2
<1>4. \A x, y \in S : rank[x] = rank[y] => x = y
  <2> SUFFICES ASSUME NEW x \in S, NEW y \in S, rank[x] = rank[y], x # y PROVE FALSE
    OBVIOUS
  <2>1. x < y \/ y < x
    OBVIOUS
  <2>2. rank[x] < rank[y] \/ rank[y] < rank[x]
    BY <2>1, <1>3
  <2>3. rank[x] \in Int /\ rank[y] \in Int
    BY <1>2
  <2> HIDE DEF rank
  <2> QED BY <2>2, <2>3
<1>5. \A k \in 1..n : \E x \in S : rank[x] = k
  <2>1. rank \in [S -> 1..n]
    BY <1>2
  <2>2. rank \in Injection(S, 1..n)
    <3> HIDE DEF rank
    <3> QED BY <2>1, <1>4 DEF Injection, IsInjective
  <2>3. IsFiniteSet(1..n) /\ Cardinality(1..n) = n
    BY <1>1, FS_Interval
  <2>4. rank \in Surjection(S, 1..n)
    <3> HIDE DEF rank
    <3> QED BY <2>2, <2>3, FS_Injection
  <2> HIDE DEF rank
  <2> QED BY <2>4 DEF Surjection
<1>6. \A k \in 1..n : Ascending(S)[k] \in S /\ rank[Ascending(S)[k]] = k
  <2> TAKE k \in 1..n
  <2>1. PICK x \in S : rank[x] = k
    BY <1>5
  <2>2. Ascending(S)[k] = CHOOSE z \in S : Cardinality(Upto(z)) = k
    BY DEF Ascending
  <2>3. Cardinality(Upto(x)) = k
    BY <2>1
  <2> HIDE DEF Upto
  <2> QED BY <2>2, <2>3
<1>7. Ascending(S) \in [1..n -> S]
  <2>1. \A k \in 1..n : (CHOOSE z \in S : Cardinality({y \in S : y <= z}) = k) \in S
    BY <1>6 DEF Ascending
  <2> QED BY <2>1 DEF Ascending
<1>8. \A x \in S : \E k \in 1..n : Ascending(S)[k] = x
  <2> TAKE x \in S
  <2> DEFINE k == rank[x]
  <2>1. k \in 1..n
    BY <1>2
  <2>2. Ascending(S)[k] \in S /\ rank[Ascending(S)[k]] = rank[x]
    BY <2>1, <1>6
  <2>3. Ascending(S)[k] = x
    <3> HIDE DEF rank
    <3> QED BY <2>2, <1>4
  <2> QED BY <2>1, <2>3
<1>9. \A j, k \in 1..n : Ascending(S)[j] = Ascending(S)[k] => j = k
  BY <1>6
<1> HIDE DEF n
<1> QED BY <1>1, <1>7, <1>8, <1>9 DEF Once

\* The paths scanned are chips, each once.
LEMMA ScannedOnce ==
  ASSUME NEW c \in Paths \cup {NoChip}
  PROVE  /\ Scanned(c) \in Seq(Paths) /\ Once(Scanned(c))
         /\ c # NoChip => Scanned(c) = <<c>>
<1>1. CASE c = NoChip
  <2> DEFINE S == {p \in Paths : IsGpiochip(p)}
  <2>1. S \in SUBSET Paths /\ Paths \subseteq Nat
    BY ResolverAssumption DEF Paths, ResolverAssumption
  <2>2. IsFiniteSet(S)
    <3>1. IsFiniteSet(0 .. NumPaths - 1)
      BY FS_Interval, ResolverAssumption DEF ResolverAssumption
    <3> QED BY <2>1, <3>1, FS_Subset DEF Paths
  <2> HIDE DEF S
  <2>3. S \in SUBSET Nat
    BY <2>1
  <2>4. Ascending(S) \in Seq(S) /\ Once(Ascending(S))
    BY <2>2, <2>3, AscendingSorts
  <2>5. Scanned(c) = Ascending(S)
    BY <1>1 DEF Scanned, S
  <2>6. Ascending(S) \in Seq(Paths)
    BY <2>1, <2>4, SeqMono
  <2> QED BY <1>1, <2>4, <2>5, <2>6
<1>2. CASE c # NoChip
  BY <1>2 DEF Scanned, Once
<1> QED BY <1>1, <1>2

-----------------------------------------------------------------------------
(* The search *)

LEMMA SearchInit == Init => LInv
<1> SUFFICES ASSUME Init PROVE LInv
  OBVIOUS
<1>1. SearchShape
  <2>1. /\ dev \in [Paths -> Layouts \cup {Gone}] /\ seen = [p \in Paths |-> Gone]
        /\ args = [ids |-> <<>>, chip |-> NoChip, strict |-> FALSE, byName |-> TRUE]
        /\ lines = <<>> /\ chips = <<>> /\ i = 0 /\ at = 0 /\ used = FALSE
    BY DEF Init, ResolverInit
  <2>2. args.ids = <<>> /\ args.chip = NoChip /\ args.strict = FALSE /\ args.byName = TRUE
    BY <2>1
  <2>3. <<>> \in Seq(Names) /\ <<>> \in Seq(LineRec) /\ <<>> \in Seq(Paths)
    OBVIOUS
  <2>4. seen \in [Paths -> Layouts \cup {Gone}]
    BY <2>1
  <2> QED BY <2>1, <2>2, <2>3, <2>4 DEF SearchShape
<1>2. PathsOnce
  BY DEF Init, ResolverInit, PathsOnce, Once, NoChip
<1>3. Fresh
  BY DEF Init, ResolverInit, ReadingInit, Fresh, Paths, Gone
<1>4. ChipsRead
  BY DEF Init, ResolverInit, ChipsRead, Once
<1>5. LinesPlaced
  BY DEF Init, ResolverInit, LinesPlaced
<1> QED BY <1>1, <1>2, <1>3, <1>4, <1>5 DEF LInv

\* The state of the search stays as it is, wherever the program goes on.
LEMMA QuietSearch ==
  ASSUME LInv, UNCHANGED <<args, paths, i, at, lines, chips, found, used, seen>>,
         dev' \in [Paths -> Layouts \cup {Gone}],
         reading = "gpiodetect" => reading' = "gpiodetect",
         pc' = "start" => pc = "start" /\ UNCHANGED <<listed, fd, failed>>,
         pc' \in Searching => pc \in Searching /\ UNCHANGED done,
         pc' = "chip" => pc = "chip", pc' = "line" => pc = "line",
         pc' \in {"values", "get"} => pc \in {"values", "get"}
  PROVE  LInv'
<1>1. SearchShape'
  BY DEF LInv, SearchShape
<1>2. PathsOnce'
  BY DEF LInv, PathsOnce
<1>3. Fresh'
  BY DEF LInv, Fresh
<1>4. ChipsRead'
  BY DEF LInv, ChipsRead
<1>5. LinesPlaced'
  BY DEF LInv, LinesPlaced
<1> QED BY <1>1, <1>2, <1>3, <1>4, <1>5 DEF LInv

\* What a program that has no use for chips does with the paths.
LEMMA OwnSearch ==
  ASSUME LInv, SearchShape', UNCHANGED <<args, paths, chips, reading>>, i' >= i,
         pc' \in {"info", "detect", "exit"}
  PROVE  LInv'
<1>1. PathsOnce'
  BY DEF LInv, PathsOnce
<1>2. Fresh' /\ LinesPlaced'
  BY DEF Fresh, LinesPlaced, Searching
<1>3. ChipsRead'
  <2>1. i \in Nat /\ i' \in Nat
    BY DEF LInv, SearchShape
  <2>2. ASSUME NEW c \in DOMAIN chips 
        PROVE  \E j \in 1 .. i' : j \in DOMAIN paths /\ chips[c] = paths[j]
    <3>1. PICK j \in 1 .. i : j \in DOMAIN paths /\ chips[c] = paths[j]
      BY DEF LInv, ChipsRead
    <3>2. j \in 1 .. i'
      BY <2>1
    <3> QED BY <3>1, <3>2
  <2> QED BY <2>2 DEF LInv, ChipsRead
<1> QED BY <1>1, <1>2, <1>3 DEF LInv

\* A search begins, with the ids and options of the command line.
LEMMA BeginSearch ==
  ASSUME LInv, pc = "start", NEW ids \in Seq(Names), NEW c \in Paths \cup {NoChip},
         NEW s \in BOOLEAN, NEW b \in BOOLEAN,
         args' = [ids |-> ids, chip |-> c, strict |-> s, byName |-> b \/ c = NoChip],
         paths' = Scanned(c), lines' = [k \in DOMAIN ids |-> Unresolved],
         UNCHANGED <<dev, i, at, chips, found, used, seen, done>>,
         reading' # "gpiodetect", pc' \in {"chip", "info"}
  PROVE  LInv'
<1>1. /\ args'.ids = ids /\ args'.chip = c /\ args'.strict = s
      /\ args'.byName = (b \/ c = NoChip)
  OBVIOUS
<1>2. /\ lines' \in Seq(LineRec) /\ Len(lines') = Len(ids) /\ DOMAIN lines' = DOMAIN ids
      /\ \A k \in DOMAIN lines' : ~lines'[k].resolved
  <2>1. Unresolved \in LineRec /\ ~Unresolved.resolved
    BY DEF Unresolved, LineRec
  <2>2. DOMAIN ids = 1 .. Len(ids) /\ Len(ids) \in Nat
    OBVIOUS
  <2>3. lines' \in [1 .. Len(ids) -> LineRec]
    BY <2>1, <2>2
  <2>4. \A k \in DOMAIN ids : lines'[k] = Unresolved
    OBVIOUS
  <2> QED BY <2>1, <2>2, <2>3, <2>4
<1>3. SearchShape'
  BY <1>1, <1>2 DEF LInv, SearchShape
<1>4. PathsOnce'
  BY <1>1, ScannedOnce DEF PathsOnce
<1>5. Fresh'
  BY DEF LInv, Fresh, Searching
<1>6. chips' = <<>> /\ i' = 0
  BY DEF LInv, Fresh
<1>7. ChipsRead'
  BY <1>6 DEF ChipsRead, Once
<1>8. LinesPlaced'
  <2>1. paths' \in Seq(Paths)
    BY ScannedOnce
  <2>2. i' <= Len(paths')
    BY <1>6, <2>1
  <2> QED BY <1>2, <2>2 DEF LinesPlaced
<1> QED BY <1>3, <1>4, <1>5, <1>7, <1>8 DEF LInv

\* The path the search is at is of a chip, and no chip used is of that path.
LEMMA PathNext ==
  ASSUME LInv, reading # "gpiodetect", i < Len(paths)
  PROVE  /\ i + 1 \in DOMAIN paths /\ Path \in Paths /\ Path = paths[i + 1]
         /\ \A c \in DOMAIN chips : chips[c] # Path
<1>1. paths \in Seq(Paths) /\ Once(paths) /\ i \in Nat
  BY DEF LInv, PathsOnce, SearchShape
<1>2. i + 1 \in DOMAIN paths /\ Path = paths[i + 1] /\ Path \in Paths
  BY <1>1 DEF Path
<1>3. ASSUME NEW c \in DOMAIN chips, chips[c] = Path PROVE FALSE
  <2>1. PICK j \in 1 .. i : j \in DOMAIN paths /\ chips[c] = paths[j]
    BY DEF LInv, ChipsRead
  <2>2. j = i + 1
    BY <1>1, <1>2, <1>3, <2>1 DEF Once
  <2> QED BY <1>1, <2>1, <2>2
<1> QED BY <1>2, <1>3

\* What there is on a path that leads to a chip is read when it is opened.
LEMMA SeenShape ==
  ASSUME LInv, NEW p \in Paths, IsGpiochip(p), seen' = [seen EXCEPT ![p] = dev[p]]
  PROVE  /\ seen' \in [Paths -> Layouts \cup {Gone}]
         /\ seen'[p] = dev[p] /\ seen'[p] # Gone /\ dev[p] \in Seq(Names \cup {NoName})
         /\ \A q \in Paths \ {p} : seen'[q] = seen[q]
<1>1. dev[p] \in Layouts \cup {Gone} /\ dev[p] # Gone
  BY DEF LInv, SearchShape, IsGpiochip
<1>2. Layouts \subseteq Seq(Names \cup {NoName})
  BY ResolverAssumption DEF ResolverAssumption
<1> QED BY <1>1, <1>2 DEF LInv, SearchShape

\* The ids that are offsets on a chip of n lines.
LEMMA OffsetLines ==
  ASSUME LInv, NEW n \in Nat, lines' = ByOffset(n)
  PROVE  /\ lines' \in Seq(LineRec) /\ Len(lines') = Len(lines) /\ DOMAIN lines' = DOMAIN lines
         /\ \A k \in DOMAIN lines : args.ids[k] \in Names
         /\ \A k \in DOMAIN lines :
              IF IsOffset(args.ids[k], n)
                THEN /\ lines'[k].resolved /\ lines'[k].chip = 0
                     /\ lines'[k].offset = AsOffset[args.ids[k]]
                ELSE lines'[k] = lines[k]
<1> DEFINE rec(k) == [resolved |-> TRUE, chip |-> 0, offset |-> AsOffset[args.ids[k]]]
<1>1. lines \in Seq(LineRec) /\ Len(lines) = Len(args.ids) /\ args.ids \in Seq(Names)
  BY DEF LInv, SearchShape
<1>2. \A k \in DOMAIN lines : args.ids[k] \in Names
  BY <1>1
<1>3. lines' = [k \in DOMAIN lines |-> lines'[k]] /\ DOMAIN lines' = DOMAIN lines
  BY DEF ByOffset
<1>4. ASSUME NEW k \in DOMAIN lines
      PROVE  /\ IsOffset(args.ids[k], n) => lines'[k] = rec(k)
             /\ ~IsOffset(args.ids[k], n) => lines'[k] = lines[k]
  BY DEF ByOffset
<1>4a. ASSUME NEW k \in DOMAIN lines
       PROVE  rec(k).resolved /\ rec(k).chip = 0 /\ rec(k).offset = AsOffset[args.ids[k]]
  OBVIOUS
<1>4b. ASSUME NEW k \in DOMAIN lines, IsOffset(args.ids[k], n) PROVE rec(k) \in LineRec
  <2>1. AsOffset[args.ids[k]] \in Nat \cup {-1}
    BY <1>2, ResolverAssumption DEF ResolverAssumption
  <2>2. AsOffset[args.ids[k]] \in Nat
    BY <1>4b, <2>1 DEF IsOffset
  <2> QED BY <2>2 DEF LineRec
<1> HIDE DEF rec
<1>5. ASSUME NEW k \in DOMAIN lines PROVE lines'[k] \in LineRec
  <2>1. lines[k] \in LineRec
    BY <1>1
  <2> QED BY <1>4, <1>4b, <2>1
<1>6. lines' \in Seq(LineRec) /\ Len(lines') = Len(lines)
  BY <1>1, <1>3, <1>5, SameLength
<1>7. \A k \in DOMAIN lines :
        IF IsOffset(args.ids[k], n)
          THEN /\ lines'[k].resolved /\ lines'[k].chip = 0
               /\ lines'[k].offset = AsOffset[args.ids[k]]
          ELSE lines'[k] = lines[k]
  BY <1>4, <1>4a
<1> QED BY <1>2, <1>3, <1>6, <1>7

LEMMA OpenChipSearch ==
  ASSUME LInv, Program, OpenChip, UNCHANGED <<reading, done>>
  PROVE  LInv'
<1>1. /\ pc = "chip" /\ pc' = "line" /\ i < Len(paths) /\ IsGpiochip(Path) /\ at' = 0
      /\ seen' = [seen EXCEPT ![Path] = dev[Path]]
      /\ lines' = IF args.byName THEN lines ELSE ByOffset(Len(dev[Path]))
      /\ used' = (~args.byName /\ \E id \in Range(args.ids) : IsOffset(id, Len(dev[Path])))
      /\ UNCHANGED <<dev, args, paths, i, chips, found>>
  BY DEF OpenChip
<1>2. reading = "none"
  BY <1>1 DEF Program, Searching
<1>3. Path \in Paths /\ i \in Nat /\ paths \in Seq(Paths)
  BY <1>1, <1>2, PathNext DEF LInv, SearchShape, PathsOnce
<1>4. seen' \in [Paths -> Layouts \cup {Gone}] /\ dev[Path] \in Seq(Names \cup {NoName})
  BY <1>1, <1>3, SeenShape
<1>5. CASE args.byName
  <2>1. SearchShape'
    BY <1>1, <1>4, <1>5 DEF LInv, SearchShape
  <2>2. LinesPlaced'
    BY <1>1, <1>5 DEF LInv, LinesPlaced
  <2> QED BY <1>1, <1>2, <2>1, <2>2 DEF LInv, PathsOnce, Fresh, ChipsRead, Searching
<1>6. CASE ~args.byName
  <2> DEFINE n == Len(dev[Path])
  <2>0. n \in Nat
    BY <1>4
  <2> HIDE DEF n
  <2>1. lines' = ByOffset(n)
    BY <1>1, <1>6 DEF n
  <2>2. /\ lines' \in Seq(LineRec) /\ Len(lines') = Len(lines) /\ DOMAIN lines' = DOMAIN lines
        /\ \A k \in DOMAIN lines :
             IF IsOffset(args.ids[k], n) THEN lines'[k].resolved /\ lines'[k].chip = 0
                                         ELSE lines'[k] = lines[k]
    BY <2>0, <2>1, OffsetLines
  <2>3. paths = <<args.chip>>
    BY <1>2, <1>6 DEF LInv, PathsOnce
  <2>4. i = 0
    BY <1>1, <1>3, <2>3
  <2>5. chips \in Seq(Paths) /\ \A c \in DOMAIN chips : FALSE
    BY <2>4 DEF LInv, ChipsRead, SearchShape
  <2>6. Len(chips) = 0
    <3>1. DOMAIN chips = 1 .. Len(chips) /\ Len(chips) \in Nat
      BY <2>5
    <3>2. Len(chips) > 0 => 1 \in DOMAIN chips
      BY <3>1
    <3> QED BY <2>5, <3>1, <3>2
  <2>7. SearchShape'
    BY <1>1, <1>4, <2>2 DEF LInv, SearchShape
  <2>8. ASSUME NEW k \in DOMAIN lines', lines'[k].resolved
        PROVE  used' /\ lines'[k].chip = Len(chips)
    <3>1. CASE IsOffset(args.ids[k], n)
      <4>1. args.ids[k] \in Range(args.ids)
        BY <2>2 DEF Range, LInv, SearchShape
      <4> QED BY <1>1, <1>6, <2>2, <2>6, <3>1, <4>1 DEF n
    <3>2. CASE ~IsOffset(args.ids[k], n)
      <4>1. lines[k].resolved /\ k \in DOMAIN lines
        BY <2>2, <2>8, <3>2
      <4> QED BY <1>1, <2>6, <4>1 DEF LInv, LinesPlaced
    <3> QED BY <3>1, <3>2
  <2>9. LinesPlaced'
    BY <1>1, <2>8 DEF LinesPlaced
  <2> QED BY <1>1, <1>2, <2>7, <2>9 DEF LInv, PathsOnce, Fresh, ChipsRead, Searching
<1> QED BY <1>5, <1>6

\* A chip that cannot be opened is passed over.
LEMMA DeniedSearch ==
  ASSUME LInv, OpenDenied, UNCHANGED <<reading, done>>
  PROVE  LInv'
<1>1. /\ pc = "chip" /\ i < Len(paths)
      /\ (i' = i + 1 /\ pc' = "chip") \/ (i' = i /\ pc' = "exit")
      /\ UNCHANGED <<dev, args, paths, at, lines, chips, found, used, seen, fd>>
  BY DEF OpenDenied, Die
<1>2. i \in Nat /\ i' \in Nat /\ i' >= i /\ SearchShape'
  BY <1>1 DEF LInv, SearchShape
<1>3. ChipsRead'
  <2>1. ASSUME NEW c \in DOMAIN chips
        PROVE  \E j \in 1 .. i' : j \in DOMAIN paths /\ chips[c] = paths[j]
    <3>1. PICK j \in 1 .. i : j \in DOMAIN paths /\ chips[c] = paths[j]
      BY DEF LInv, ChipsRead
    <3>2. j \in 1 .. i'
      BY <1>2
    <3> QED BY <3>1, <3>2
  <2> QED BY <1>1, <2>1 DEF LInv, ChipsRead
<1>4. LinesPlaced'
  <2>1. pc' = "chip" => i' <= Len(paths)
    <3>1. CASE i = 0 /\ i' = 1
      BY <1>1, <3>1
    <3> QED BY <1>1, <1>2 DEF LInv, LinesPlaced
  <2> QED BY <1>1, <2>1 DEF LInv, LinesPlaced
<1> QED BY <1>1, <1>2, <1>3, <1>4 DEF LInv, PathsOnce, Fresh, Searching

\* The lines that are found by name are on the chip that is being read.
LEMMA ReadLineSearch ==
  ASSUME LInv, ReadLine, UNCHANGED <<reading, done>>
  PROVE  LInv'
<1>1. /\ pc = "line" /\ pc' = "line" /\ at' = at + 1 /\ ResolveLine
      /\ UNCHANGED <<dev, args, paths, i, chips, seen>>
  BY DEF ReadLine
<1> DEFINE rec == [resolved |-> TRUE, chip |-> Len(chips), offset |-> at]
<1>2. /\ lines' = [k \in DOMAIN lines |-> IF FoundByName(k) THEN rec ELSE lines[k]]
      /\ used' = (used \/ \E k \in DOMAIN lines : FoundByOffset(k) \/ FoundByName(k))
  BY <1>1 DEF ResolveLine, ChipNumber
<1>3. lines \in Seq(LineRec) /\ at \in Nat /\ chips \in Seq(Paths) /\ Len(chips) \in Nat
  BY DEF LInv, SearchShape
<1>4. rec \in LineRec
  BY <1>3 DEF LineRec
<1>5. \A k \in DOMAIN lines : lines'[k] \in LineRec
  BY <1>2, <1>3, <1>4
<1>6. lines' \in Seq(LineRec) /\ Len(lines') = Len(lines) /\ DOMAIN lines' = DOMAIN lines
  <2>1. lines' = [k \in DOMAIN lines |-> lines'[k]]
    BY <1>2
  <2> QED BY <1>3, <1>5, <2>1, SameLength
<1>6a. used' \in BOOLEAN
  BY <1>2
<1>7. SearchShape'
  BY <1>1, <1>3, <1>6, <1>6a DEF LInv, SearchShape
<1>8. LinesPlaced'
  <2> SUFFICES ASSUME NEW k \in DOMAIN lines, lines'[k].resolved
               PROVE  \/ lines'[k].chip \in 0 .. Len(chips) - 1
                      \/ used' /\ lines'[k].chip = Len(chips)
    BY <1>1, <1>6 DEF LInv, LinesPlaced
  <2>1. CASE FoundByName(k)
    BY <1>2, <2>1
  <2>2. CASE ~FoundByName(k)
    <3>1. lines'[k] = lines[k]
      BY <1>2, <2>2
    <3> QED BY <1>1, <1>2, <3>1 DEF LInv, LinesPlaced
  <2> QED BY <2>1, <2>2
<1> QED BY <1>1, <1>7, <1>8 DEF LInv, PathsOnce, Fresh, ChipsRead, Searching

\* A chip on which a line was found is used from now on.
LEMMA CloseChipSearch ==
  ASSUME LInv, Program, CloseChip, UNCHANGED <<reading, done>>
  PROVE  LInv'
<1>1. /\ pc = "line" /\ pc' = "chip" /\ i' = i + 1
      /\ chips' = IF used THEN Append(chips, Path) ELSE chips
      /\ UNCHANGED <<dev, args, paths, at, lines, used, seen>>
  BY DEF CloseChip
<1>2. reading = "none" /\ i < Len(paths)
  BY <1>1 DEF Program, Searching, LInv, LinesPlaced
<1>3. /\ paths \in Seq(Paths) /\ Once(paths) /\ i \in Nat /\ chips \in Seq(Paths)
      /\ i + 1 \in DOMAIN paths /\ Path \in Paths /\ Path = paths[i + 1]
  BY <1>2, PathNext DEF LInv, PathsOnce, SearchShape
<1>3a. \A c \in DOMAIN chips : chips[c] # Path
  BY <1>2, PathNext
<1>4. /\ chips' \in Seq(Paths)
      /\ Len(chips') = IF used THEN Len(chips) + 1 ELSE Len(chips)
      /\ \A c \in DOMAIN chips : c \in DOMAIN chips' /\ chips'[c] = chips[c]
      /\ \A c \in DOMAIN chips' : c \in DOMAIN chips \/ (used /\ chips'[c] = Path)
      /\ \A c, d \in DOMAIN chips' : c \notin DOMAIN chips /\ d \notin DOMAIN chips => c = d
  BY <1>1, <1>3
<1>5. SearchShape'
  BY <1>1, <1>3, <1>4 DEF LInv, SearchShape
<1>6. ChipsRead'
  <2>1. ASSUME NEW c \in DOMAIN chips'
        PROVE  \E j \in 1 .. i + 1 : j \in DOMAIN paths /\ chips'[c] = paths[j]
    <3>1. CASE c \in DOMAIN chips
      <4>1. PICK j \in 1 .. i : j \in DOMAIN paths /\ chips[c] = paths[j]
        BY <3>1 DEF LInv, ChipsRead
      <4>2. j \in 1 .. i + 1
        BY <1>3
      <4> QED BY <1>4, <3>1, <4>1, <4>2
    <3>2. CASE c \notin DOMAIN chips
      <4>1. i + 1 \in 1 .. i + 1
        BY <1>3
      <4> QED BY <1>3, <1>4, <3>2, <4>1
    <3> QED BY <3>1, <3>2
  <2>2. ASSUME NEW c \in DOMAIN chips', NEW d \in DOMAIN chips', chips'[c] = chips'[d]
        PROVE  c = d
    <3>1. CASE c \in DOMAIN chips /\ d \in DOMAIN chips
      BY <1>4, <2>2, <3>1 DEF LInv, ChipsRead, Once
    <3>2. CASE c \in DOMAIN chips /\ d \notin DOMAIN chips
      BY <1>3a, <1>4, <2>2, <3>2
    <3>3. CASE c \notin DOMAIN chips /\ d \in DOMAIN chips
      BY <1>3a, <1>4, <2>2, <3>3
    <3>4. CASE c \notin DOMAIN chips /\ d \notin DOMAIN chips
      BY <1>4, <3>4
    <3> QED BY <3>1, <3>2, <3>3, <3>4
  <2> QED BY <1>1, <2>1, <2>2 DEF ChipsRead, Once
<1>7. LinesPlaced'
  <2>1. i' <= Len(paths')
    BY <1>1, <1>2, <1>3
  <2>2. ASSUME NEW k \in DOMAIN lines, lines[k].resolved
        PROVE  lines[k].chip \in 0 .. Len(chips') - 1
    <3>1. lines[k].chip \in 0 .. Len(chips) - 1 \/ (used /\ lines[k].chip = Len(chips))
      BY <1>1, <2>2 DEF LInv, LinesPlaced
    <3> QED BY <1>3, <1>4, <3>1
  <2> QED BY <1>1, <2>1, <2>2 DEF LinesPlaced
<1> QED BY <1>1, <1>2, <1>5, <1>6, <1>7 DEF LInv, PathsOnce, Fresh, Searching

\* All ids have been found.
LEMMA ValidSearch ==
  ASSUME LInv, Validate, UNCHANGED <<reading, done>>
  PROVE  LInv'
<1>1. /\ pc = "chip" /\ pc' = "values" /\ \A k \in DOMAIN lines : lines[k].resolved
      /\ UNCHANGED <<dev, args, paths, i, at, lines, chips, found, used, seen>>
  BY DEF Validate, LookedUp, ValidLines, StayedOn, LookupState
<1>2. LinesPlaced'
  BY <1>1 DEF LInv, LinesPlaced
<1> QED BY <1>1, <1>2 DEF LInv, SearchShape, PathsOnce, Fresh, ChipsRead, Searching

LEMMA LookupSearch ==
  ASSUME LInv, Program, Lookup
  PROVE  LInv'
<1>0. UNCHANGED <<reading, done, listed, failed>>
  BY DEF Lookup, gvars
<1>0a. dev \in [Paths -> Layouts \cup {Gone}]
  BY DEF LInv, SearchShape
<1>1. ASSUME NEW ids \in IdLists, NEW c \in Paths \cup {NoChip}, NEW search \in Searches,
             Start(ids, c, search[1], search[2])
      PROVE  LInv'
  <2>1. ids \in Seq(Names) /\ search[1] \in BOOLEAN /\ search[2] \in BOOLEAN
    BY ResolverAssumption, SearchesAssumption DEF ResolverAssumption, SearchesAssumption
  <2>2. pc = "start" /\ pc' = "chip" /\ reading = "none"
    BY <1>1 DEF Start, Program, Searching
  <2>3. PICK s \in BOOLEAN, b \in BOOLEAN : Start(ids, c, s, b)
    BY <1>1, <2>1
  <2> QED BY <1>0, <2>1, <2>2, <2>3, BeginSearch DEF Start
<1>2. CASE OpenChip
  BY <1>0, <1>2, OpenChipSearch
<1>3. CASE OpenDenied
  BY <1>0, <1>3, DeniedSearch
<1>4. CASE ReadLine
  BY <1>0, <1>4, ReadLineSearch
<1>5. CASE CloseChip
  BY <1>0, <1>5, CloseChipSearch
<1>6. CASE Validate
  BY <1>0, <1>6, ValidSearch
<1>7. CASE (\E c \in Paths : StartNoChip(c)) \/ OpenGone \/ ReadLineNotUnique \/ ReadLineFails
           \/ Invalid
  <2>1. pc' = "exit"
        /\ UNCHANGED <<dev, args, paths, i, at, lines, chips, found, used, seen>>
    BY <1>7 DEF StartNoChip, OpenGone, ReadLineNotUnique, ReadLineFails, Invalid, Die, LookupState
  <2> QED BY <1>0, <1>0a, <2>1, QuietSearch DEF Searching
<1> QED BY <1>1, <1>2, <1>3, <1>4, <1>5, <1>6, <1>7 DEF Lookup

\* gpioget goes on with what was found; gpioinfo and gpiodetect have a search of their own.
LEMMA ReadingSearch ==
  ASSUME LInv, Program, ReadingNext
  PROVE  LInv'
<1>0. SearchShape /\ dev \in [Paths -> Layouts \cup {Gone}] /\ i \in Nat
  BY DEF LInv, SearchShape
<1>1. CASE GetStart
  <2>1. /\ pc' = "get" /\ pc = "values" /\ reading' # "gpiodetect" /\ reading = "none"
        /\ UNCHANGED <<dev, args, paths, i, at, lines, chips, found, used, seen, done>>
    BY <1>1 DEF GetStart, StayedOn, LookupState, Program, Searching
  <2> QED BY <1>0, <2>1, QuietSearch DEF Searching
<1>2. CASE GetRequest \/ GetRequestFails \/ GetValues \/ GetValuesFails \/ GetPrint
  <2>1. /\ pc' \in {"get", "exit"} /\ pc = "get" /\ UNCHANGED reading
        /\ UNCHANGED <<dev, args, paths, i, at, lines, chips, found, used, seen>>
    BY <1>2 DEF GetRequest, GetRequestFails, GetValues, GetValuesFails, GetPrint, Die,
                LookupState, gvars, rvars
  <2> QED BY <1>0, <2>1, QuietSearch DEF Searching
<1>3. ASSUME NEW ids \in IdLists \cup {<<>>}, NEW c \in Paths \cup {NoChip},
             NEW s \in BOOLEAN, NEW b \in BOOLEAN, InfoStart(ids, c, s, b)
      PROVE  LInv'
  <2>1. ids \in Seq(Names)
    <3>1. IdLists \subseteq Seq(Names)
      BY ResolverAssumption DEF ResolverAssumption
    <3>2. <<>> \in Seq(Names)
      OBVIOUS
    <3> QED BY <3>1, <3>2
  <2>2. /\ pc = "start" /\ reading' # "gpiodetect" /\ pc' \in {"chip", "info"}
        /\ args' = [ids |-> ids, chip |-> c, strict |-> s, byName |-> b \/ c = NoChip]
        /\ paths' = Scanned(c) /\ lines' = [k \in DOMAIN ids |-> Unresolved]
        /\ UNCHANGED <<dev, i, at, chips, found, used, seen, done>>
    BY <1>3 DEF InfoStart
  <2> QED BY <2>1, <2>2, BeginSearch
<1>4. CASE InfoOpen
  <2>1. /\ pc = "info" /\ pc' = "info" /\ i < Len(paths) /\ IsGpiochip(Path) /\ at' = 0
        /\ seen' = [seen EXCEPT ![Path] = dev[Path]]
        /\ lines' = IF i = 0 /\ ~args.byName THEN ByOffset(Len(dev[Path])) ELSE lines
        /\ UNCHANGED <<dev, args, paths, i, chips, used, reading>>
    BY <1>4 DEF InfoOpen, gvars
  <2>2. reading = "gpioinfo"
    BY <2>1 DEF Program, Searching, Polling
  <2>3. Path \in Paths
    BY <2>1, <2>2, PathNext
  <2>4. seen' \in [Paths -> Layouts \cup {Gone}] /\ dev[Path] \in Seq(Names \cup {NoName})
    BY <2>1, <2>3, SeenShape
  <2>5. lines' \in Seq(LineRec) /\ Len(lines') = Len(lines)
    <3>1. CASE i = 0 /\ ~args.byName
      <4>1. Len(dev[Path]) \in Nat
        BY <2>4
      <4>2. lines' = ByOffset(Len(dev[Path]))
        BY <2>1, <3>1
      <4> QED BY <4>1, <4>2, OffsetLines
    <3>2. CASE ~(i = 0 /\ ~args.byName)
      BY <2>1, <3>2 DEF LInv, SearchShape
    <3> QED BY <3>1, <3>2
  <2>6. SearchShape'
    BY <2>1, <2>4, <2>5 DEF LInv, SearchShape
  <2> QED BY <1>0, <2>1, <2>6, OwnSearch
<1>5. CASE InfoLine
  <2>1. /\ pc' = "info" /\ lines' = InfoResolved /\ at' = at + 1
        /\ UNCHANGED <<dev, args, paths, i, chips, used, seen, reading>>
    BY <1>5 DEF InfoLine
  <2>2. lines \in Seq(LineRec) /\ at \in Nat /\ at' \in Nat
    BY <1>0, <2>1 DEF SearchShape
  <2> DEFINE rec == [resolved |-> TRUE, chip |-> i, offset |-> at]
  <2>3. rec \in LineRec
    BY <1>0, <2>2 DEF LineRec
  <2>4. /\ lines' = [k \in DOMAIN lines |-> lines'[k]]
        /\ \A k \in DOMAIN lines : lines'[k] = rec \/ lines'[k] = lines[k]
    BY <2>1 DEF InfoResolved
  <2> HIDE DEF rec
  <2>5. \A k \in DOMAIN lines : lines'[k] \in LineRec
    BY <2>2, <2>3, <2>4
  <2>6. lines' \in Seq(LineRec) /\ Len(lines') = Len(lines)
    BY <2>2, <2>4, <2>5, SameLength
  <2>7. SearchShape'
    BY <2>1, <2>2, <2>6 DEF LInv, SearchShape
  <2> QED BY <1>0, <2>1, <2>7, OwnSearch
<1>6. CASE InfoOpenFails \/ InfoLineFails \/ InfoClose \/ InfoEnd
  <2>1. /\ pc' \in {"info", "exit"} /\ i' \in {i, i + 1}
        /\ UNCHANGED <<dev, args, paths, at, lines, chips, used, seen, reading>>
    BY <1>6 DEF InfoOpenFails, InfoLineFails, InfoClose, InfoEnd, Die, LookupState, gvars
  <2>2. i' \in Nat /\ i' >= i
    BY <1>0, <2>1
  <2>3. SearchShape'
    BY <2>1, <2>2 DEF LInv, SearchShape
  <2> QED BY <2>1, <2>2, <2>3, OwnSearch
<1>7. ASSUME NEW given, DetectStart(given) PROVE LInv'
  <2>1. /\ pc = "start" /\ pc' = "detect" /\ reading' = "gpiodetect"
        /\ UNCHANGED <<dev, args, i, at, lines, chips, found, used, seen>>
    BY <1>7 DEF DetectStart
  <2>2. SearchShape'
    BY <2>1 DEF LInv, SearchShape
  <2>3. ChipsRead'
    <3>1. chips' = <<>>
      BY <2>1 DEF LInv, Fresh
    <3> QED BY <3>1 DEF ChipsRead, Once
  <2> QED BY <2>1, <2>2, <2>3 DEF LInv, PathsOnce, Fresh, LinesPlaced, Searching
<1>8. CASE DetectChip
  <2>1. /\ pc' = pc /\ pc = "detect" /\ i' = i + 1
        /\ UNCHANGED <<dev, args, paths, at, lines, chips, used, seen, reading>>
    BY <1>8 DEF DetectChip
  <2>2. i' \in Nat /\ i' >= i
    BY <1>0, <2>1
  <2>3. SearchShape'
    BY <2>1, <2>2 DEF LInv, SearchShape
  <2> QED BY <2>1, <2>2, <2>3, OwnSearch
<1>9. CASE DetectEnd
  <2>1. /\ pc' = "exit" /\ UNCHANGED reading
        /\ UNCHANGED <<dev, args, paths, i, at, lines, chips, found, used, seen>>
    BY <1>9 DEF DetectEnd, Die, LookupState, gvars
  <2> QED BY <1>0, <2>1, QuietSearch DEF Searching
<1> QED BY <1>1, <1>2, <1>3, <1>4, <1>5, <1>6, <1>7, <1>8, <1>9
        DEF ReadingNext, GetNext, InfoNext, DetectNext

\* The search finds its way whatever the program, and whatever becomes of the chips.
LEMMA SearchStep ==
  ASSUME LInv, Program, [Next]_vars
  PROVE  LInv'
<1>0. dev \in [Paths -> Layouts \cup {Gone}]
  BY DEF LInv, SearchShape
<1>1. CASE UNCHANGED vars
  <2>1. UNCHANGED <<dev, args, paths, i, at, lines, chips, found, used, seen>>
        /\ UNCHANGED <<pc, reading, listed, fd, failed, done>>
    BY <1>1 DEF vars, rvars, gvars
  <2> QED BY <1>0, <2>1, QuietSearch
<1>2. CASE Lookup
  BY <1>2, LookupSearch
<1>3. CASE EventNext /\ UNCHANGED gvars
  <2>1. UNCHANGED <<dev, args, paths, i, at, lines, chips, found, used, seen>>
        /\ UNCHANGED <<reading, listed, fd, failed, done>>
    BY <1>3, EventProgram DEF gvars, LookupState
  <2>2. UNCHANGED pc \/ (pc = "values" /\ pc' = "open") \/ pc' \in Polling \cup {"exit"}
    BY <1>3, EventProgram
  <2> QED BY <1>0, <2>1, <2>2, QuietSearch DEF Polling, Searching
<1>4. CASE ReadingNext
  BY <1>4, ReadingSearch
<1>5. ASSUME NEW p \in Paths, NEW layout \in Replacements \cup {Gone}, DeviceChanges(p, layout)
      PROVE  LInv'
  <2>1. /\ UNCHANGED <<args, paths, i, at, lines, chips, found, used, seen>>
        /\ UNCHANGED <<pc, reading, listed, failed, done>> /\ pc # "start"
        /\ dev' = [dev EXCEPT ![p] = layout]
    BY <1>5, DeviceProgram
  <2>2. layout \in Layouts \cup {Gone}
    BY ResolverAssumption DEF ResolverAssumption
  <2>3. dev' \in [Paths -> Layouts \cup {Gone}]
    BY <1>0, <2>1, <2>2
  <2> QED BY <2>1, <2>3, QuietSearch
<1> QED BY <1>1, <1>2, <1>3, <1>4, <1>5 DEF Next

-----------------------------------------------------------------------------
(* gpioget *)

\* The lines of a chip are listed, each once.
LEMMA LinesOfChip ==
  ASSUME LInv, NEW c
  PROVE  /\ \A j \in DOMAIN LinesOf(c) : LinesOf(c)[j] \in DOMAIN lines
         /\ \A k \in DOMAIN lines : lines[k].chip = c =>
              \E j \in DOMAIN LinesOf(c) : LinesOf(c)[j] = k
<1> DEFINE S == {k \in DOMAIN lines : lines[k].chip = c}
<1>1. DOMAIN lines = 1 .. Len(lines) /\ Len(lines) \in Nat
  BY DEF LInv, SearchShape
<1>2. S \in SUBSET Nat /\ IsFiniteSet(S)
  <2>1. IsFiniteSet(1 .. Len(lines))
    BY <1>1, FS_Interval
  <2>2. S \in SUBSET (1 .. Len(lines))
    BY <1>1
  <2> QED BY <2>1, <2>2, FS_Subset
<1>3. LinesOf(c) = Ascending(S)
  BY DEF LinesOf
<1>4. \A k \in S : k \in DOMAIN lines
  OBVIOUS
<1>5. \A k \in DOMAIN lines : lines[k].chip = c => k \in S
  OBVIOUS
<1> HIDE DEF S
<1>6. LinesOf(c) \in Seq(S) /\ \A k \in S : \E j \in DOMAIN LinesOf(c) : LinesOf(c)[j] = k
  BY <1>2, <1>3, AscendingSorts
<1> QED BY <1>4, <1>5, <1>6

\* Nothing of it changes but perhaps the end.
LEMMA QuietGet ==
  ASSUME LInv, GInv, UNCHANGED <<lines, chips, value, level, done, reading>>,
         req' # "none" => req # "none", pc' \in {pc, "exit"},
         why' = "ok" /\ reading = "gpioget" => why = "ok" \/ (pc = "get" /\ done = Len(chips))
  PROVE  GInv'
<1>1. \A k : Level(k)' = Level(k)
  BY DEF Level
<1>2. ReadIsTold'
  <2> SUFFICES ASSUME why' = "ok", reading = "gpioget", NEW k \in DOMAIN lines
               PROVE  value[k] = Level(k)
    BY <1>1 DEF ReadIsTold, Level
  <2>1. CASE why = "ok"
    BY <2>1 DEF GInv, ReadIsTold, Level
  <2>2. CASE pc = "get" /\ done = Len(chips)
    <3>1. lines[k].chip \in 0 .. Len(chips) - 1 /\ Len(chips) \in Nat
      BY <2>2 DEF LInv, LinesPlaced, SearchShape
    <3>2. lines[k].chip < done
      BY <2>2, <3>1
    <3> QED BY <2>2, <3>2 DEF GInv
  <2> QED BY <2>1, <2>2
<1>3. pc' = "get" => /\ done <= Len(chips)
                     /\ \A k \in DOMAIN lines : lines[k].chip < done => value[k] = Level(k)'
  BY <1>1 DEF GInv
<1> QED BY <1>2, <1>3 DEF GInv

\* Another program runs.
LEMMA OtherGet ==
  ASSUME GInv, UNCHANGED <<level, done>>, pc # "get", pc # "exit", UNCHANGED req,
         pc' # "get", reading' = "gpioget" => why' # "ok"
  PROVE  GInv'
BY DEF GInv, ReadIsTold

\* The values that were read of a request are those of its lines, and of no others.
LEMMA GetValuesTold ==
  ASSUME LInv, GInv, Program, GetValues
  PROVE  GInv'
<1>1. /\ pc = "get" /\ pc' = "get" /\ req = "live" /\ req' = "none" /\ done' = done + 1
      /\ UNCHANGED <<lines, chips, why>>
  BY DEF GetValues, rvars
<1>2. done \in Nat /\ done < Len(chips) /\ DOMAIN level = Paths /\ done' \in Nat
  BY <1>1 DEF GInv
<1>3. chips \in Seq(Paths) /\ Once(chips)
  BY DEF LInv, SearchShape, ChipsRead
<1>4. done + 1 \in DOMAIN chips /\ GetPath = chips[done + 1] /\ GetPath \in Paths
  BY <1>2, <1>3 DEF GetPath
<1> DEFINE vs(v) == [j \in DOMAIN LinesOf(done) |-> v[lines[LinesOf(done)[j]].offset + 1]]
<1>5. PICK levels : /\ level' = [level EXCEPT ![GetPath] = levels]
                    /\ value' = SetLineValues(vs(levels), done)
  BY DEF GetValues
<1>6. DOMAIN level' = Paths /\ level'[GetPath] = levels
      /\ \A p \in Paths : p # GetPath => level'[p] = level[p]
  BY <1>2, <1>4, <1>5
<1>7. ASSUME NEW k \in DOMAIN lines, lines[k].chip < done'
      PROVE  value'[k] = Level(k)'
  <2>1. lines[k].chip \in 0 .. Len(chips) - 1
    BY <1>1 DEF LInv, LinesPlaced
  <2>2. Level(k)' = level'[chips[lines[k].chip + 1]][lines[k].offset + 1]
    BY <1>1 DEF Level
  <2>3. CASE lines[k].chip = done
    <3> DEFINE j == CHOOSE j \in DOMAIN vs(levels) : LinesOf(done)[j] = k
    <3>1. DOMAIN vs(levels) = DOMAIN LinesOf(done)
      OBVIOUS
    <3>2. \E l \in DOMAIN LinesOf(done) : LinesOf(done)[l] = k
      BY <2>3, LinesOfChip
    <3>3. j \in DOMAIN LinesOf(done) /\ LinesOf(done)[j] = k
      BY <3>1, <3>2
    <3>4. value'[k] = vs(levels)[j]
      BY <1>5, <2>3 DEF SetLineValues
    <3> HIDE DEF j
    <3>5. value'[k] = levels[lines[k].offset + 1]
      BY <3>3, <3>4
    <3> QED BY <1>4, <1>6, <2>2, <2>3, <3>5
  <2>4. CASE lines[k].chip # done
    <3>1. lines[k].chip < done
      BY <1>1, <1>2, <1>7, <2>1, <2>4
    <3>2. value'[k] = value[k]
      BY <1>5, <2>4 DEF SetLineValues
    <3>3. value[k] = level[chips[lines[k].chip + 1]][lines[k].offset + 1]
      BY <1>1, <3>1 DEF GInv, Level
    <3>4. lines[k].chip + 1 \in DOMAIN chips /\ chips[lines[k].chip + 1] \in Paths
      BY <1>3, <2>1
    <3>5. chips[lines[k].chip + 1] # GetPath
      BY <1>2, <1>3, <1>4, <2>1, <2>4, <3>4 DEF Once
    <3> QED BY <1>6, <2>2, <3>2, <3>3, <3>4, <3>5
  <2> QED BY <2>3, <2>4
<1>8. why' # "ok"
  BY <1>1 DEF Program
<1>9. done' <= Len(chips)
  BY <1>1, <1>2, <1>3
<1> QED BY <1>1, <1>2, <1>6, <1>7, <1>8, <1>9 DEF GInv, ReadIsTold

LEMMA GetStep ==
  ASSUME LInv, GInv, Program, [Next]_vars
  PROVE  GInv'
<1>1. CASE UNCHANGED vars
  BY <1>1, QuietGet DEF vars, rvars, gvars
<1>2. CASE Lookup
  <2>1. pc \in Searching /\ pc' \in Searching \cup {"exit"} /\ UNCHANGED <<level, done, req>>
    BY <1>2, LookupProgram DEF gvars
  <2>2. why' # "ok"
    BY <1>2, LookupProgram
  <2> QED BY <2>1, <2>2, OtherGet DEF Searching
<1>3. CASE EventNext /\ UNCHANGED gvars
  <2>1. UNCHANGED <<lines, chips, value, level, done, reading, req>>
    BY <1>3, EventProgram DEF gvars, LookupState
  <2>2. CASE UNCHANGED <<pc, why>>
    BY <2>1, <2>2, QuietGet
  <2>3. CASE pc \in {"values"} \cup Polling
    <3>1. pc' # "get"
      BY <1>3, <2>3, EventProgram DEF Polling
    <3>2. pc \in Polling => reading # "gpioget"
      BY DEF Program
    <3>3. pc = "values" => why' # "ok"
      BY <1>3, EventProgram DEF Program
    <3> QED BY <2>1, <2>3, <3>1, <3>2, <3>3, OtherGet DEF Polling
  <2> QED BY <1>3, <2>2, <2>3, EventProgram
<1>4. CASE GetStart
  <2>1. /\ pc = "values" /\ pc' = "get" /\ UNCHANGED <<why, lines, chips, done, req, level>>
    BY <1>4 DEF GetStart, StayedOn, LookupState
  <2>2. why' = "running" /\ req = "none" /\ done = 0
    BY <2>1 DEF Program, GInv, LInv, Fresh, Searching
  <2>3. Len(chips) \in Nat /\ \A k \in DOMAIN lines : ~(lines[k].chip < 0)
    BY <2>1 DEF LInv, SearchShape, LinesPlaced
  <2> QED BY <2>1, <2>2, <2>3 DEF GInv, ReadIsTold
<1>5. CASE GetRequest
  <2>1. /\ pc = "get" /\ pc' = "get" /\ done < Len(chips)
        /\ UNCHANGED <<why, lines, chips, value, level, done, reading>>
    BY <1>5 DEF GetRequest, rvars
  <2>2. why' = "running"
    BY <2>1 DEF Program
  <2>3. \A k : Level(k)' = Level(k)
    BY <2>1 DEF Level
  <2> QED BY <2>1, <2>2, <2>3 DEF GInv, ReadIsTold
<1>6. CASE GetRequestFails \/ GetValuesFails \/ GetPrint
  <2>1. /\ pc' = "exit" /\ UNCHANGED <<lines, chips, value, level, done, reading, req>>
        /\ why' = "ok" => pc = "get" /\ done = Len(chips)
    BY <1>6 DEF GetRequestFails, GetValuesFails, GetPrint, Die, gvars, LookupState
  <2> QED BY <2>1, QuietGet
<1>7. CASE InfoNext \/ DetectNext
  <2>1. pc # "get" /\ pc # "exit" /\ pc' # "get" /\ reading' # "gpioget"
    BY <1>7, ReadingProgram DEF ReadingNext, InfoNext, DetectNext, InfoStart, InfoOpen,
       InfoOpenFails, InfoLine, InfoLineFails, InfoClose, InfoEnd, DetectStart, DetectChip,
       DetectEnd, Program
  <2>2. UNCHANGED <<level, done, req>>
    BY <1>7 DEF InfoNext, DetectNext, InfoStart, InfoOpen, InfoOpenFails, InfoLine,
       InfoLineFails, InfoClose, InfoEnd, DetectStart, DetectChip, DetectEnd, gvars
  <2> QED BY <2>1, <2>2, OtherGet
<1>8. ASSUME NEW p \in Paths, NEW layout \in Replacements \cup {Gone}, DeviceChanges(p, layout)
      PROVE  GInv'
  <2>1. UNCHANGED <<lines, chips, value, level, done, reading, pc, why>>
    BY <1>8, DeviceProgram
  <2>2. req' # "none" => req # "none"
    BY <1>8 DEF DeviceChanges, RequestDies
  <2> QED BY <2>1, <2>2, QuietGet
<1> QED BY <1>1, <1>2, <1>3, <1>4, <1>5, <1>6, <1>7, <1>8, GetValuesTold
        DEF Next, ReadingNext, GetNext

-----------------------------------------------------------------------------
(* gpiomon and gpionotify *)

LEMMA EventInitial == Init => EInv
<1> SUFFICES ASSUME Init PROVE EInv
  OBVIOUS
<1>1. /\ tool = "none" /\ opts = NoOpts /\ files = <<>> /\ queue = <<>> /\ made = <<>>
      /\ flagged = {} /\ turn = 1 /\ batch = <<>> /\ told = <<>> /\ passed = <<>>
      /\ lost = <<>> /\ pc = "start" /\ why = "running"
  BY DEF Init, ResolverInit, EventInit
<1>2. <<>> \in Seq({})
  OBVIOUS
<1>3. EventShape
  BY <1>1, <1>2 DEF EventShape
<1>4. opts.wanted = 0 /\ opts.type = AnyType
  BY <1>1 DEF NoOpts
<1> QED BY <1>1, <1>3, <1>4 DEF EInv, Options, BatchInv, FlagsInv, CountInv, StopsForCause,
                               Polling, EventTool

LEMMA NoneListed == \A x : ~Among(x, <<>>) /\ Sorted(<<>>) /\ Less(x, <<>>) /\ Before(<<>>, x)
BY DEF Among, Sorted, Less, Before

LEMMA OneMore ==
  ASSUME NEW s \in Seq(Event), NEW e \in Event, NEW t, t = Append(s, e)
  PROVE  /\ t \in Seq(Event)
         /\ \A x : Among(x, t) <=> Among(x, s) \/ x = e.n
         /\ Sorted(s) /\ (\A j \in DOMAIN s : s[j].n < e.n) => Sorted(t)
         /\ \A m : Less(m, s) /\ m < e.n => Less(m, t)
<1>1. /\ t \in Seq(Event) /\ Len(t) = Len(s) + 1 /\ t[Len(s) + 1] = e
      /\ \A j \in 1 .. Len(s) : t[j] = s[j]
  OBVIOUS
<1>2. Len(s) \in Nat /\ DOMAIN s = 1 .. Len(s) /\ DOMAIN t = 1 .. Len(s) + 1
  BY <1>1
<1>3. \A j \in 1 .. Len(s) + 1 : j \in 1 .. Len(s) \/ j = Len(s) + 1
  BY <1>2
<1>4. Len(s) + 1 \in 1 .. Len(s) + 1 /\ \A j \in 1 .. Len(s) : j \in 1 .. Len(s) + 1
  BY <1>2
<1>5. \A x : Among(x, t) <=> Among(x, s) \/ x = e.n
  BY <1>1, <1>2, <1>3, <1>4 DEF Among
<1>6. Sorted(s) /\ (\A j \in DOMAIN s : s[j].n < e.n) => Sorted(t)
  <2> SUFFICES ASSUME Sorted(s), \A j \in DOMAIN s : s[j].n < e.n,
                      NEW j \in DOMAIN t, NEW k \in DOMAIN t, j < k
               PROVE  t[j].n < t[k].n
    BY DEF Sorted
  <2>1. j \in 1 .. Len(s)
    BY <1>2
  <2>2. CASE k \in 1 .. Len(s)
    BY <1>1, <1>2, <2>1, <2>2 DEF Sorted
  <2>3. CASE k = Len(s) + 1
    BY <1>1, <1>2, <2>1, <2>3
  <2> QED BY <1>2, <1>3, <2>2, <2>3
<1>7. \A m : Less(m, s) /\ m < e.n => Less(m, t)
  BY <1>1, <1>2, <1>3 DEF Less
<1> QED BY <1>1, <1>5, <1>6, <1>7

LEMMA OneLess ==
  ASSUME NEW s \in Seq(Event), s # <<>>
  PROVE  /\ Tail(s) \in Seq(Event) /\ Head(s) \in Event /\ Head(s) = s[1]
         /\ Len(Tail(s)) = Len(s) - 1 /\ (Len(s) = 1 => Tail(s) = <<>>)
         /\ \A x : Among(x, s) <=> Among(x, Tail(s)) \/ x = Head(s).n
         /\ Sorted(s) => Sorted(Tail(s)) /\ Less(Head(s).n, Tail(s))
         /\ \A m : Less(m, s) => Less(m, Tail(s)) /\ m < Head(s).n
<1> DEFINE t == Tail(s)
<1>1. /\ t \in Seq(Event) /\ Len(t) = Len(s) - 1 /\ Head(s) = s[1] /\ Head(s) \in Event
      /\ Len(s) \in Nat /\ Len(s) >= 1 /\ DOMAIN s = 1 .. Len(s)
      /\ \A j \in 1 .. Len(s) - 1 : t[j] = s[j + 1]
  OBVIOUS
<1>2. DOMAIN t = 1 .. Len(s) - 1
  BY <1>1
<1>2a. Len(s) = 1 => t = <<>>
  <2>1. Len(s) = 1 => Len(t) = 0
    BY <1>1
  <2>2. t \in Seq(Event) /\ (Len(t) = 0 => t = <<>>)
    BY <1>1
  <2> QED BY <2>1, <2>2
<1> HIDE DEF t
<1>3. /\ \A j \in 1 .. Len(s) : j = 1 \/ j - 1 \in 1 .. Len(s) - 1
      /\ \A j \in 1 .. Len(s) - 1 : j + 1 \in 1 .. Len(s) /\ j \in Int
      /\ \A j \in 1 .. Len(s) : (j - 1) + 1 = j
      /\ 1 \in 1 .. Len(s)
  BY <1>1
<1>4. \A x : Among(x, s) <=> Among(x, t) \/ x = s[1].n
  <2>1. ASSUME NEW x, NEW j \in 1 .. Len(s), s[j].n = x, x # s[1].n PROVE Among(x, t)
    <3>1. j - 1 \in 1 .. Len(s) - 1 /\ t[j - 1] = s[j]
      BY <1>1, <1>3, <2>1
    <3> QED BY <1>2, <2>1, <3>1 DEF Among
  <2>2. ASSUME NEW x, NEW j \in 1 .. Len(s) - 1, t[j].n = x PROVE Among(x, s)
    BY <1>1, <1>3, <2>2 DEF Among
  <2> QED BY <1>1, <1>2, <1>3, <2>1, <2>2 DEF Among
<1>5. Sorted(s) => Sorted(t) /\ Less(s[1].n, t)
  <2> SUFFICES ASSUME Sorted(s) PROVE Sorted(t) /\ Less(s[1].n, t)
    OBVIOUS
  <2>1. ASSUME NEW j \in DOMAIN t, NEW k \in DOMAIN t, j < k PROVE t[j].n < t[k].n
    <3>1. j + 1 \in DOMAIN s /\ k + 1 \in DOMAIN s /\ j + 1 < k + 1
      BY <1>1, <1>2, <1>3, <2>1
    <3> QED BY <1>1, <1>2, <3>1 DEF Sorted
  <2>2. ASSUME NEW k \in DOMAIN t PROVE s[1].n < t[k].n
    <3>1. 1 \in DOMAIN s /\ k + 1 \in DOMAIN s /\ 1 < k + 1
      BY <1>1, <1>2, <1>3
    <3> QED BY <1>1, <1>2, <3>1 DEF Sorted
  <2> QED BY <2>1, <2>2 DEF Sorted, Less
<1>6. \A m : Less(m, s) => Less(m, t) /\ m < s[1].n
  BY <1>1, <1>2, <1>3 DEF Less
<1> QED BY <1>1, <1>2a, <1>4, <1>5, <1>6 DEF t

LEMMA Suffix ==
  ASSUME NEW S, NEW q \in Seq(S), NEW a \in 1 .. Len(q) + 1
  PROVE  /\ SubSeq(q, a, Len(q)) \in Seq(S) /\ Len(SubSeq(q, a, Len(q))) = Len(q) - a + 1
         /\ \A j \in 1 .. Len(q) - a + 1 : SubSeq(q, a, Len(q))[j] = q[a + j - 1]
<1>1. SubSeq(q, a, Len(q)) \in Seq(S) /\ Len(SubSeq(q, a, Len(q))) = Len(q) - a + 1
  OBVIOUS
<1>2. \A j \in 1 .. Len(q) - a + 1 : SubSeq(q, a, Len(q))[j] = q[a + j - 1]
  OBVIOUS
<1> QED BY <1>1, <1>2

\* Queue q is taken apart into b and then r.
SplitInto(q, b, r) ==
  /\ b \in Seq(Event) /\ r \in Seq(Event)
  /\ \A x : Among(x, q) <=> Among(x, b) \/ Among(x, r)
  /\ Sorted(q) => Sorted(b) /\ Sorted(r) /\ Before(b, r)
  /\ \A n : Less(n, q) => Less(n, b) /\ Less(n, r)

LEMMA Split ==
  ASSUME NEW q \in Seq(Event), NEW m \in 1 .. Len(q), NEW b, NEW r,
         b = SubSeq(q, 1, m), r = SubSeq(q, m + 1, Len(q))
  PROVE  SplitInto(q, b, r) /\ Len(b) = m
<1>0. Len(q) \in Nat /\ m \in Nat /\ DOMAIN q = 1 .. Len(q) /\ m >= 1 /\ m <= Len(q)
  OBVIOUS
<1>1. b \in Seq(Event) /\ Len(b) = m /\ \A j \in 1 .. m : b[j] = q[j]
  BY <1>0
<1>2. /\ r \in Seq(Event) /\ Len(r) = Len(q) - m
      /\ \A j \in 1 .. Len(q) - m : r[j] = q[j + m]
  <2>1. m + 1 \in 1 .. Len(q) + 1
    BY <1>0
  <2>2. /\ r \in Seq(Event) /\ Len(r) = Len(q) - (m + 1) + 1
        /\ \A j \in 1 .. Len(q) - (m + 1) + 1 : r[j] = q[(m + 1) + j - 1]
    BY <2>1, Suffix
  <2>3. \A n \in Nat : n - (m + 1) + 1 = n - m /\ \A j \in Nat : (m + 1) + j - 1 = j + m
    BY <1>0
  <2>4. \A j \in 1 .. Len(q) - m : j \in Nat
    BY <1>0
  <2> QED BY <1>0, <2>2, <2>3, <2>4
<1>3. DOMAIN b = 1 .. m /\ DOMAIN r = 1 .. Len(q) - m
  <2>1. DOMAIN b = 1 .. Len(b) /\ DOMAIN r = 1 .. Len(r)
    BY <1>1, <1>2
  <2> QED BY <1>1, <1>2, <2>1
<1>4. /\ \A j \in 1 .. m : j \in 1 .. Len(q) /\ j \in Nat
      /\ \A j \in 1 .. Len(q) - m : j + m \in 1 .. Len(q) /\ j \in Nat
      /\ \A j \in 1 .. Len(q) : j \in 1 .. m \/ (j - m \in 1 .. Len(q) - m /\ (j - m) + m = j)
  BY <1>0
<1>5. \A x : Among(x, q) <=> Among(x, b) \/ Among(x, r)
  <2>1. ASSUME NEW x, NEW j \in 1 .. Len(q), q[j].n = x PROVE Among(x, b) \/ Among(x, r)
    <3>1. CASE j \in 1 .. m
      BY <1>1, <1>3, <2>1, <3>1 DEF Among
    <3>2. CASE j - m \in 1 .. Len(q) - m /\ (j - m) + m = j
      <4>1. r[j - m] = q[j]
        BY <1>2, <3>2
      <4> QED BY <1>3, <2>1, <3>2, <4>1 DEF Among
    <3> QED BY <1>4, <3>1, <3>2
  <2>2. ASSUME NEW x, NEW j \in 1 .. m, b[j].n = x PROVE Among(x, q)
    BY <1>0, <1>1, <1>4, <2>2 DEF Among
  <2>3. ASSUME NEW x, NEW j \in 1 .. Len(q) - m, r[j].n = x PROVE Among(x, q)
    BY <1>0, <1>2, <1>4, <2>3 DEF Among
  <2> QED BY <1>0, <1>3, <2>1, <2>2, <2>3 DEF Among
<1>6. Sorted(q) => Sorted(b) /\ Sorted(r) /\ Before(b, r)
  <2> SUFFICES ASSUME Sorted(q) PROVE Sorted(b) /\ Sorted(r) /\ Before(b, r)
    OBVIOUS
  <2>1. Sorted(b)
    BY <1>0, <1>1, <1>3, <1>4 DEF Sorted
  <2>2. ASSUME NEW j \in DOMAIN r, NEW k \in DOMAIN r, j < k PROVE r[j].n < r[k].n
    <3>1. j + m \in DOMAIN q /\ k + m \in DOMAIN q /\ j + m < k + m
      BY <1>0, <1>3, <1>4, <2>2
    <3> QED BY <1>2, <1>3, <3>1 DEF Sorted
  <2>3. ASSUME NEW j \in DOMAIN b, NEW k \in DOMAIN r PROVE b[j].n < r[k].n
    <3>1. j \in DOMAIN q /\ k + m \in DOMAIN q /\ j < k + m
      BY <1>0, <1>3, <1>4
    <3> QED BY <1>1, <1>2, <1>3, <3>1 DEF Sorted
  <2> QED BY <2>1, <2>2, <2>3 DEF Sorted, Before, Less
<1>7. ASSUME NEW n, Less(n, q) PROVE Less(n, b) /\ Less(n, r)
  <2>1. \A j \in 1 .. m : n < b[j].n
    BY <1>0, <1>1, <1>4, <1>7 DEF Less
  <2>2. \A j \in 1 .. Len(q) - m : n < r[j].n
    BY <1>0, <1>2, <1>4, <1>7 DEF Less
  <2> QED BY <1>3, <2>1, <2>2 DEF Less
<1> QED BY <1>1, <1>2, <1>5, <1>6, <1>7 DEF SplitInto

\* Nothing happens to the events of file f.
LEMMA StillAccounted ==
  ASSUME NEW f, Accounted(f), UNCHANGED <<opts, told>>,
         queue'[f] = queue[f], made'[f] = made[f], passed'[f] = passed[f],
         lost'[f] = lost[f], BatchOf(f)' = BatchOf(f)
  PROVE  Accounted(f)'
<1>1. Ordered(f)'
  BY DEF Accounted, Ordered
<1>2. Tallied(f)'
  BY DEF Accounted, Tallied
<1> QED BY <1>1, <1>2 DEF Accounted

\* Nothing happens to any event.
LEMMA StillEvents ==
  ASSUME EInv, UNCHANGED <<tool, opts, queue, made, told, passed, lost, batch>>,
         files' \in Seq({"live", "dead"}), Len(files') = Len(files), turn' \in Nat,
         turn' = turn \/ batch = <<>>
  PROVE  EventShape' /\ (\A f \in DOMAIN files' : Accounted(f)') /\ DOMAIN files' = DOMAIN files
<1>1. EventShape /\ files \in Seq({"live", "dead"}) /\ DOMAIN files' = DOMAIN files
  BY DEF EInv, EventShape
<1>2. EventShape'
  BY <1>1 DEF EventShape
<1>3. \A f : BatchOf(f)' = BatchOf(f)
  BY DEF BatchOf
<1>4. \A f \in DOMAIN files : Accounted(f)'
  BY <1>3, StillAccounted DEF EInv
<1> QED BY <1>1, <1>2, <1>4

\* Another program runs, or the search.
LEMMA OtherEvents ==
  ASSUME EInv, UNCHANGED evars, tool = "none", pc \notin Polling, pc # "exit",
         pc' \notin Polling
  PROVE  EInv'
<1>1. /\ UNCHANGED <<tool, opts, queue, made, told, passed, lost, batch, files, turn, flagged>>
      /\ files \in Seq({"live", "dead"}) /\ turn \in Nat /\ batch = <<>>
  BY DEF evars, EInv, EventShape, BatchInv, Polling
<1>2. EventShape' /\ (\A f \in DOMAIN files' : Accounted(f)')
  BY <1>1, StillEvents
<1>3. opts = NoOpts /\ ~(opts.wanted > 0)
  BY DEF EInv, Options, NoOpts
<1>4. CountInv'
  BY <1>1, <1>3 DEF CountInv, StopsForCause, Polling, EventTool
<1>5. Options' /\ BatchInv' /\ FlagsInv'
  BY <1>1 DEF EInv, Options, BatchInv, FlagsInv, Polling
<1> QED BY <1>2, <1>4, <1>5 DEF EInv

\* The programs end.
LEMMA EndEvents ==
  ASSUME EInv, UNCHANGED evars, pc' = "exit",
         why' = "ok" => why = "ok" \/ pc = "done"
  PROVE  EInv'
<1>1. /\ UNCHANGED <<tool, opts, queue, made, told, passed, lost, batch, files, turn, flagged>>
      /\ files \in Seq({"live", "dead"}) /\ turn \in Nat
  BY DEF evars, EInv, EventShape
<1>2. EventShape' /\ (\A f \in DOMAIN files' : Accounted(f)')
  BY <1>1, StillEvents
<1>3. CountInv'
  BY <1>1 DEF EInv, CountInv, StopsForCause, Polling
<1>4. Options' /\ BatchInv' /\ FlagsInv'
  BY <1>1 DEF EInv, Options, BatchInv, FlagsInv, Polling
<1> QED BY <1>2, <1>3, <1>4 DEF EInv

LEMMA OptionsEvents ==
  ASSUME EInv, Program, NEW o \in MonOptions \cup NotifyOptions, NEW t \in EventTool,
         o \in MonOptions \/ t = "gpionotify", EventOptions(t, o)
  PROVE  EInv'
<1>1. /\ pc = "values" /\ pc' = "open" /\ tool' = t /\ opts' = o
      /\ UNCHANGED <<why, files, queue, made, flagged, turn, batch, told, passed, lost>>
  BY DEF EventOptions, StayedOn
<1>2. tool = "none" /\ why = "running"
  BY <1>1 DEF Program, Searching
<1>3. files = <<>> /\ told = <<>> /\ batch = <<>>
  BY <1>1, <1>2 DEF EInv, Options, BatchInv
<1>4. o.wanted \in Nat /\ (o.type # AnyType => t = "gpionotify")
  <2>1. Wanted \subseteq Nat
    BY EventToolsAssumption DEF EventToolsAssumption
  <2> QED BY <2>1 DEF MonOptions, NotifyOptions
<1>5. EventShape'
  BY <1>1 DEF EInv, EventShape
<1>6. Options'
  BY <1>1, <1>3, <1>4 DEF Options, EventTool
<1>7. CountInv'
  BY <1>1, <1>2, <1>3, <1>4 DEF CountInv, StopsForCause
<1>8. BatchInv' /\ FlagsInv'
  BY <1>1, <1>3 DEF BatchInv, FlagsInv
<1> QED BY <1>1, <1>3, <1>5, <1>6, <1>7, <1>8 DEF EInv

\* A file is opened before any event is read.
LEMMA NewFileEvents ==
  ASSUME EInv, pc = "open", tool # "none", NewFile,
         UNCHANGED <<pc, why, tool, opts, flagged, turn, batch, told>>
  PROVE  EInv'
<1>1. /\ files' = Append(files, "live") /\ queue' = Append(queue, <<>>)
      /\ made' = Append(made, 0) /\ passed' = Append(passed, {}) /\ lost' = Append(lost, {})
  BY DEF NewFile
<1>3. EventShape
  BY DEF EInv
<1> DEFINE n == Len(files)
<1>4. /\ n \in Nat /\ DOMAIN files = 1 .. n /\ DOMAIN files' = 1 .. n + 1
      /\ files' \in Seq({"live", "dead"}) /\ Len(files') = n + 1
  BY <1>1, <1>3 DEF EventShape
<1>5. /\ queue' \in Seq(Seq(Event)) /\ Len(queue') = n + 1 /\ queue'[n + 1] = <<>>
      /\ \A f \in 1 .. n : queue'[f] = queue[f]
  <2>1. <<>> \in Seq(Event)
    OBVIOUS
  <2>2. queue \in Seq(Seq(Event)) /\ Len(queue) = n
    BY <1>3 DEF EventShape
  <2> HIDE DEF n
  <2> QED BY <1>1, <1>4, <2>1, <2>2
<1>6. /\ made' \in Seq(Nat) /\ Len(made') = n + 1 /\ made'[n + 1] = 0
      /\ \A f \in 1 .. n : made'[f] = made[f]
  BY <1>1, <1>3 DEF EventShape
<1>7. /\ passed' \in Seq(SUBSET Nat) /\ Len(passed') = n + 1 /\ passed'[n + 1] = {}
      /\ lost' \in Seq(SUBSET Nat) /\ Len(lost') = n + 1 /\ lost'[n + 1] = {}
      /\ \A f \in 1 .. n : passed'[f] = passed[f] /\ lost'[f] = lost[f]
  <2>1. {} \in SUBSET Nat
    OBVIOUS
  <2>2. passed \in Seq(SUBSET Nat) /\ Len(passed) = n /\ lost \in Seq(SUBSET Nat) /\ Len(lost) = n
    BY <1>3 DEF EventShape
  <2> HIDE DEF n
  <2> QED BY <1>1, <1>4, <2>1, <2>2
<1>8. batch = <<>> /\ told = <<>>
  BY DEF EInv, Options, BatchInv
<1>9. EventShape'
  BY <1>3, <1>4, <1>5, <1>6, <1>7, <1>8 DEF EventShape
<1>10. ASSUME NEW f \in 1 .. n + 1 PROVE Accounted(f)'
  <2>1. CASE f \in 1 .. n
    <3>1. BatchOf(f)' = BatchOf(f) /\ Accounted(f)
      BY <1>4, <2>1 DEF BatchOf, EInv
    <3> QED BY <1>5, <1>6, <1>7, <2>1, <3>1, StillAccounted
  <2>2. CASE f = n + 1
    <3>1. /\ queue'[f] = <<>> /\ made'[f] = 0 /\ passed'[f] = {} /\ lost'[f] = {}
          /\ BatchOf(f)' = <<>> /\ told' = <<>>
      BY <1>5, <1>6, <1>7, <1>8, <2>2 DEF BatchOf
    <3>2. Ordered(f)'
      BY <3>1, NoneListed DEF Ordered
    <3>3. Tallied(f)'
      BY <3>1, NoneListed DEF Tallied
    <3> QED BY <3>1, <3>2, <3>3 DEF Accounted
  <2> QED BY <1>4, <2>1, <2>2
<1>11. Options' /\ BatchInv' /\ FlagsInv' /\ CountInv'
  <2>1. Options' /\ BatchInv' /\ FlagsInv'
    BY <1>8 DEF EInv, Options, BatchInv, FlagsInv
  <2>2. CountInv'
    BY DEF EInv, CountInv, StopsForCause
  <2> QED BY <2>1, <2>2
<1> QED BY <1>4, <1>9, <1>10, <1>11 DEF EInv

LEMMA OpenEvents ==
  ASSUME EInv, Program,
         OpenRequest \/ OpenWatch \/ WatchLine \/ OpenFails \/ StartPolling
  PROVE  EInv'
<1>1. CASE OpenRequest \/ OpenWatch
  <2>1. /\ pc = "open" /\ tool # "none" /\ NewFile
        /\ UNCHANGED <<pc, why, tool, opts, flagged, turn, batch, told>>
    BY <1>1 DEF OpenRequest, OpenWatch, rvars
  <2> QED BY <2>1, NewFileEvents
<1>2. CASE WatchLine
  <2>1. /\ UNCHANGED <<pc, why, tool, opts, queue, made, told, passed, lost, batch, files, turn,
                       flagged>>
        /\ files \in Seq({"live", "dead"}) /\ turn \in Nat
    BY <1>2 DEF WatchLine, rvars, EInv, EventShape
  <2>2. EventShape' /\ (\A f \in DOMAIN files' : Accounted(f)')
    BY <2>1, StillEvents
  <2>3. Options' /\ BatchInv' /\ FlagsInv'
    BY <2>1 DEF EInv, Options, BatchInv, FlagsInv
  <2>4. CountInv'
    BY <2>1 DEF EInv, CountInv, StopsForCause
  <2> QED BY <2>2, <2>3, <2>4 DEF EInv
<1>3. CASE OpenFails
  BY <1>3, EndEvents DEF OpenFails, Die
<1>4. CASE StartPolling
  <2>1. /\ pc = "open" /\ pc' = "poll"
        /\ UNCHANGED <<why, tool, opts, queue, made, told, passed, lost, batch, files, turn,
                       flagged>>
        /\ files \in Seq({"live", "dead"}) /\ turn \in Nat
    BY <1>4 DEF StartPolling, StayedOn, evars, EInv, EventShape
  <2>2. EventShape' /\ (\A f \in DOMAIN files' : Accounted(f)')
    BY <2>1, StillEvents
  <2>3. Options' /\ BatchInv' /\ FlagsInv'
    BY <2>1 DEF EInv, Options, BatchInv, FlagsInv
  <2>4. CountInv'
    BY <2>1 DEF EInv, CountInv, StopsForCause, Polling
  <2> QED BY <2>2, <2>3, <2>4 DEF EInv
<1> QED BY <1>1, <1>2, <1>3, <1>4

\* poll returns, and the loop goes over the files.
LEMMA LoopEvents ==
  ASSUME EInv, Poll \/ IdleTimeout \/ EndRound \/ SkipFile
  PROVE  EInv'
<1>0. files \in Seq({"live", "dead"}) /\ turn \in Nat
  BY DEF EInv, EventShape
<1>1. CASE Poll
  <2>1. /\ pc = "poll" /\ pc' = "round" /\ flagged' = Ready /\ turn' = 1
        /\ UNCHANGED <<why, tool, opts, queue, made, told, passed, lost, batch, files>>
    BY <1>1 DEF Poll, StayedOn, LookupState
  <2>2. batch = <<>>
    BY <2>1 DEF EInv, BatchInv
  <2>3. EventShape' /\ (\A f \in DOMAIN files' : Accounted(f)')
    BY <1>0, <2>1, <2>2, StillEvents
  <2>4. FlagsInv'
    BY <2>1 DEF FlagsInv, Ready
  <2>5. Options' /\ BatchInv'
    BY <2>1, <2>2 DEF EInv, Options, BatchInv
  <2>6. CountInv'
    BY <2>1 DEF EInv, CountInv, StopsForCause, Polling
  <2> QED BY <2>3, <2>4, <2>5, <2>6 DEF EInv
<1>2. CASE IdleTimeout
  <2>1. /\ pc = "poll" /\ pc' = "done" /\ opts.idle
        /\ UNCHANGED <<why, tool, opts, queue, made, told, passed, lost, batch, files, turn,
                       flagged>>
    BY <1>2 DEF IdleTimeout, StayedOn, evars
  <2>2. EventShape' /\ (\A f \in DOMAIN files' : Accounted(f)')
    BY <1>0, <2>1, StillEvents
  <2>3. Options' /\ BatchInv' /\ FlagsInv'
    BY <2>1 DEF EInv, Options, BatchInv, FlagsInv
  <2>4. CountInv'
    BY <2>1 DEF EInv, CountInv, StopsForCause, Polling
  <2> QED BY <2>2, <2>3, <2>4 DEF EInv
<1>3. CASE EndRound
  <2>1. /\ pc = "round" /\ pc' = "poll" /\ flagged' = {}
        /\ UNCHANGED <<why, tool, opts, queue, made, told, passed, lost, batch, files, turn>>
    BY <1>3 DEF EndRound, StayedOn
  <2>2. EventShape' /\ (\A f \in DOMAIN files' : Accounted(f)')
    BY <1>0, <2>1, StillEvents
  <2>3. Options' /\ BatchInv' /\ FlagsInv'
    BY <2>1 DEF EInv, Options, BatchInv, FlagsInv
  <2>4. CountInv'
    BY <2>1 DEF EInv, CountInv, StopsForCause, Polling
  <2> QED BY <2>2, <2>3, <2>4 DEF EInv
<1>4. CASE SkipFile
  <2>1. /\ pc = "round" /\ turn \notin flagged /\ turn' = turn + 1
        /\ UNCHANGED <<pc, why, tool, opts, queue, made, told, passed, lost, batch, files,
                       flagged>>
    BY <1>4 DEF SkipFile, rvars
  <2>2. batch = <<>> /\ turn' \in Nat
    BY <1>0, <2>1 DEF EInv, BatchInv
  <2>3. EventShape' /\ (\A f \in DOMAIN files' : Accounted(f)')
    BY <1>0, <2>1, <2>2, StillEvents
  <2>4. FlagsInv'
    <3>1. flagged \subseteq DOMAIN files /\ DOMAIN files \subseteq Nat
      BY <1>0, <2>1 DEF EInv, FlagsInv
    <3>2. \A f \in flagged : f >= turn' => f >= turn
      BY <1>0, <2>1, <3>1
    <3> QED BY <2>1, <3>1, <3>2 DEF EInv, FlagsInv
  <2>5. Options' /\ BatchInv'
    BY <2>1, <2>2 DEF EInv, Options, BatchInv
  <2>6. CountInv'
    BY <2>1 DEF EInv, CountInv, StopsForCause
  <2> QED BY <2>3, <2>4, <2>5, <2>6 DEF EInv
<1> QED BY <1>1, <1>2, <1>3, <1>4

\* Events go from the queue to the buffer.
LEMMA ReadBatchEvents ==
  ASSUME EInv, ReadBatch
  PROVE  EInv'
<1> DEFINE q == queue[turn]
           m == AtMost(q)
<1>1. /\ pc = "round" /\ pc' = "print" /\ turn \in flagged /\ files[turn] = "live"
      /\ batch' = SubSeq(q, 1, m)
      /\ queue' = [queue EXCEPT ![turn] = SubSeq(q, m + 1, Len(q))]
      /\ UNCHANGED <<why, tool, opts, files, made, flagged, turn, told, passed, lost>>
  BY DEF ReadBatch, StayedOn
<1>2. EventShape /\ batch = <<>> /\ turn \in DOMAIN files /\ turn \in Nat
  BY <1>1 DEF EInv, BatchInv, FlagsInv, EventShape
<1>2a. DOMAIN queue = DOMAIN files /\ queue \in Seq(Seq(Event))
  BY <1>2 DEF EventShape
<1>3. q \in Seq(Event) /\ q # <<>>
  <2>1. q \in Seq(Event)
    BY <1>2, <1>2a
  <2>2. turn >= turn
    BY <1>2
  <2>3. q # <<>> \/ files[turn] = "dead"
    BY <1>1, <2>2 DEF EInv, FlagsInv
  <2> QED BY <1>1, <2>1, <2>3
<1>4. m \in 1 .. Len(q) /\ (tool # "gpiomon" => m = 1)
  <2>1. BatchSize \in Nat \ {0}
    BY EventToolsAssumption DEF EventToolsAssumption
  <2>2. Len(q) \in Nat \ {0}
    BY <1>3
  <2> HIDE DEF q
  <2> QED BY <2>1, <2>2 DEF AtMost
<1>5. SplitInto(q, batch', queue'[turn]) /\ Len(batch') = m
  <2>1. queue'[turn] = SubSeq(q, m + 1, Len(q))
    BY <1>1, <1>2, <1>2a
  <2>2. batch' = SubSeq(q, 1, m)
    BY <1>1
  <2> HIDE DEF q, m
  <2> QED BY <1>3, <1>4, <2>1, <2>2, Split
<1>5a. batch' \in Seq(Event) /\ queue'[turn] \in Seq(Event)
  BY <1>5 DEF SplitInto
<1>6. /\ queue' = [f \in DOMAIN queue |-> queue'[f]]
      /\ \A f \in DOMAIN files : f # turn => queue'[f] = queue[f]
      /\ \A f \in DOMAIN queue : queue'[f] \in Seq(Event)
  <2>1. queue' = [f \in DOMAIN queue |-> queue'[f]]
    BY <1>1
  <2>2. \A f \in DOMAIN queue : f # turn => queue'[f] = queue[f]
    BY <1>1
  <2>3. ASSUME NEW f \in DOMAIN queue PROVE queue'[f] \in Seq(Event)
    BY <1>2a, <1>5a, <2>2
  <2> QED BY <1>2a, <2>1, <2>2, <2>3
<1>7. queue' \in Seq(Seq(Event)) /\ Len(queue') = Len(queue)
  BY <1>2, <1>6, SameLength DEF EventShape
<1>8. EventShape'
  BY <1>1, <1>2, <1>5a, <1>7 DEF EventShape
<1>9. ASSUME NEW f \in DOMAIN files PROVE Accounted(f)'
  <2>1. Accounted(f)
    BY DEF EInv
  <2>2. CASE f # turn
    BY <1>1, <1>2, <1>6, <2>1, <2>2, StillAccounted DEF BatchOf
  <2>3. CASE f = turn
    <3>1. BatchOf(f) = <<>> /\ BatchOf(f)' = batch' /\ queue[f] = q
      BY <1>1, <1>2, <2>3 DEF BatchOf
    <3> HIDE DEF q
    <3>2. Ordered(f)'
      BY <1>1, <1>5, <2>1, <2>3, <3>1 DEF Accounted, Ordered, SplitInto
    <3>3. Tallied(f)'
      BY <1>1, <1>5, <2>1, <2>3, <3>1, NoneListed DEF Accounted, Tallied, SplitInto
    <3> QED BY <1>1, <2>1, <3>2, <3>3 DEF Accounted
  <2> QED BY <2>2, <2>3
<1>10. BatchInv'
  <2>1. batch' # <<>>
    BY <1>4, <1>5
  <2>2. tool = "gpionotify" => Len(batch') = 1
    BY <1>4, <1>5
  <2> QED BY <1>1, <1>2, <2>1, <2>2 DEF BatchInv
<1>11. FlagsInv'
  <2>1. flagged \subseteq DOMAIN files /\ DOMAIN files \subseteq Nat
    BY <1>1, <1>2 DEF EInv, FlagsInv, EventShape
  <2>2. \A f \in flagged : f > turn => f # turn /\ f >= turn
    BY <1>2, <2>1
  <2> QED BY <1>1, <1>6, <2>1, <2>2 DEF EInv, FlagsInv
<1>12. Options' /\ CountInv'
  BY <1>1 DEF EInv, Options, CountInv, StopsForCause, Polling
<1> QED BY <1>1, <1>8, <1>9, <1>10, <1>11, <1>12 DEF EInv

LEMMA ToldMore ==
  ASSUME NEW S, NEW t \in Seq(S), NEW e
  PROVE  /\ Append(t, e) \in Seq(S \cup {e}) /\ Len(Append(t, e)) = Len(t) + 1 /\ Len(t) \in Nat
         /\ DOMAIN t = 1 .. Len(t) /\ DOMAIN Append(t, e) = 1 .. Len(t) + 1
         /\ \A j \in 1 .. Len(t) : Append(t, e)[j] = t[j]
         /\ Append(t, e)[Len(t) + 1] = e
<1>1. t \in Seq(S \cup {e}) /\ e \in S \cup {e}
  BY SeqMono
<1> QED BY <1>1

\* The first event of the batch is printed, or passed over.
LEMMA BatchHead ==
  ASSUME EInv, pc = "print"
  PROVE  /\ batch \in Seq(Event) /\ batch # <<>> /\ turn \in DOMAIN files /\ turn \in Nat
         /\ BatchOf(turn) = batch /\ Head(batch).n \in Nat
         /\ (tool = "gpionotify" => Tail(batch) = <<>>)
         /\ (Len(batch) = 1 => Tail(batch) = <<>>)
         /\ \A f : f # turn => BatchOf(f) = <<>>
<1>1. batch \in Seq(Event) /\ batch # <<>> /\ turn \in DOMAIN files /\ turn \in Nat
      /\ (tool = "gpionotify" => Len(batch) = 1)
  BY DEF EInv, EventShape, BatchInv
<1>2. Head(batch) \in Event /\ (Len(batch) = 1 => Tail(batch) = <<>>)
  BY <1>1, OneLess
<1>3. Head(batch).n \in Nat
  BY <1>2 DEF Event
<1> QED BY <1>1, <1>2, <1>3 DEF BatchOf

LEMMA PrintEvents ==
  ASSUME EInv, Program, PrintEvent
  PROVE  EInv'
<1> DEFINE e == IF tool = "gpiomon" THEN Printed(turn, Head(batch))
                                    ELSE InfoPrinted(turn, Head(batch))
           h == Head(batch)
           n == Len(told)
<1>1. /\ pc = "print" /\ told' = Append(told, e) /\ batch' = Tail(batch) /\ AfterPrint
      /\ UNCHANGED <<why, tool, opts, files, queue, made, flagged, passed, lost>>
  BY DEF PrintEvent, StayedOn
<1>2. e.file = turn /\ e.n = h.n
  BY DEF Printed, InfoPrinted
<1>3. EventShape /\ Options /\ CountInv
  BY DEF EInv
<1>4. /\ batch \in Seq(Event) /\ batch # <<>> /\ turn \in DOMAIN files /\ turn \in Nat
      /\ BatchOf(turn) = batch /\ h.n \in Nat /\ (Len(batch) = 1 => batch' = <<>>)
      /\ (tool = "gpionotify" => batch' = <<>>)
      /\ \A f : f # turn => BatchOf(f) = <<>>
  BY <1>1, BatchHead
<1>5. /\ \/ Enough(n + 1) /\ pc' = "done" /\ turn' = turn
         \/ ~Enough(n + 1) /\ pc' = "round" /\ turn' = turn + 1 /\ batch' = <<>>
         \/ ~Enough(n + 1) /\ pc' = "print" /\ turn' = turn /\ Len(batch) # 1
      /\ turn' \in Nat
  BY <1>1, <1>4 DEF AfterPrint
<1> HIDE DEF e, h
<1>6. PICK S : told \in Seq(S)
  BY <1>3 DEF EventShape
<1>7. /\ told' \in Seq(S \cup {e}) /\ Len(told') = n + 1 /\ n \in Nat
      /\ DOMAIN told = 1 .. n /\ DOMAIN told' = 1 .. n + 1
      /\ \A j \in 1 .. n : told'[j] = told[j]
      /\ told'[n + 1] = e
  BY <1>1, <1>6, ToldMore
<1> HIDE DEF n
<1>8. \A j \in 1 .. n + 1 : j \in 1 .. n \/ j = n + 1
  BY <1>7
<1>8a. n + 1 \in 1 .. n + 1 /\ \A j \in 1 .. n : j \in 1 .. n + 1 /\ j < n + 1 /\ j \in Nat
  BY <1>7
<1>9. batch' \in Seq(Event)
  BY <1>1, <1>4, OneLess
<1>10. EventShape'
  <2>1. \A j \in DOMAIN told' : told'[j].file \in DOMAIN files /\ told'[j].n \in Nat
    BY <1>2, <1>3, <1>4, <1>7, <1>8 DEF EventShape
  <2>2. \E T : told' \in Seq(T)
    BY <1>7
  <2> QED BY <1>1, <1>3, <1>5, <1>9, <2>1, <2>2 DEF EventShape
<1>11. \A f : BatchOf(f)' = IF f = turn THEN Tail(batch) ELSE <<>>
  BY <1>1, <1>4, <1>5 DEF BatchOf
<1>12. ASSUME NEW f \in DOMAIN files PROVE Accounted(f)'
  <2>1. Accounted(f)
    BY DEF EInv
  <2>2. CASE f # turn
    <3>1. BatchOf(f)' = <<>> /\ BatchOf(f) = <<>> /\ queue'[f] = queue[f]
          /\ made'[f] = made[f] /\ passed'[f] = passed[f] /\ lost'[f] = lost[f]
      BY <1>1, <1>4, <1>11, <2>2
    <3>2. \A j \in DOMAIN told' : told'[j].file = f => j \in DOMAIN told /\ told'[j] = told[j]
      BY <1>2, <1>7, <1>8, <2>2
    <3>3. Ordered(f)'
      BY <2>1, <3>1, <3>2 DEF Accounted, Ordered
    <3>4. Tallied(f)'
      <4>1. ASSUME NEW x
            PROVE  (\E j \in DOMAIN told' : told'[j].file = f /\ told'[j].n = x)
                   <=> \E j \in DOMAIN told : told[j].file = f /\ told[j].n = x
        <5>1. \A j \in DOMAIN told : j \in DOMAIN told' /\ told'[j] = told[j]
          BY <1>7, <1>8a
        <5> QED BY <3>2, <5>1
      <4> QED BY <2>1, <3>1, <4>1 DEF Accounted, Tallied
    <3> QED BY <1>1, <2>1, <3>3, <3>4 DEF Accounted
  <2>3. CASE f = turn
    <3>1. BatchOf(f)' = Tail(batch) /\ BatchOf(f) = batch
          /\ queue'[f] = queue[f] /\ made'[f] = made[f] /\ passed'[f] = passed[f]
          /\ lost'[f] = lost[f]
      BY <1>1, <1>4, <1>11, <2>3
    <3>2. /\ \A x : Among(x, batch) <=> Among(x, Tail(batch)) \/ x = h.n
          /\ Sorted(batch) => Sorted(Tail(batch)) /\ Less(h.n, Tail(batch))
          /\ \A m : Less(m, batch) => Less(m, Tail(batch)) /\ m < h.n
      BY <1>4, OneLess DEF h
    <3>3. Among(h.n, batch)
      BY <3>2
    <3>4. Less(h.n, queue[f]) /\ Before(Tail(batch), queue[f])
      <4>1. Before(batch, queue[f])
        BY <2>1, <3>1 DEF Accounted, Ordered
      <4>2. \A x : Among(x, batch) => Less(x, queue[f])
        BY <4>1 DEF Before, Among
      <4>3. \A j \in DOMAIN Tail(batch) : Among(Tail(batch)[j].n, batch)
        BY <3>2 DEF Among
      <4> QED BY <3>3, <4>2, <4>3 DEF Before
    <3>5. ASSUME NEW j \in DOMAIN told', told'[j].file = f
          PROVE  Less(told'[j].n, queue[f]) /\ Less(told'[j].n, Tail(batch))
      <4>1. CASE j \in 1 .. n
        BY <1>7, <2>1, <3>1, <3>2, <3>5, <4>1 DEF Accounted, Ordered
      <4>2. CASE j = n + 1
        <5>1. Sorted(batch)
          BY <2>1, <3>1 DEF Accounted, Ordered
        <5> QED BY <1>2, <1>7, <3>2, <3>4, <4>2, <5>1
      <4> QED BY <1>7, <1>8, <4>1, <4>2
    <3>6. ASSUME NEW j \in DOMAIN told', NEW k \in DOMAIN told', told'[j].file = f,
                 told'[k].file = f, j < k
          PROVE  told'[j].n < told'[k].n
      <4>1. j \in 1 .. n
        BY <1>7, <1>8, <3>6
      <4>2. CASE k \in 1 .. n
        BY <1>7, <2>1, <3>6, <4>1, <4>2 DEF Accounted, Ordered
      <4>3. CASE k = n + 1
        <5>1. Less(told[j].n, batch)
          BY <1>7, <2>1, <3>1, <3>6, <4>1 DEF Accounted, Ordered
        <5> QED BY <1>2, <1>7, <3>2, <4>1, <4>3, <5>1
      <4> QED BY <1>7, <1>8, <4>2, <4>3
    <3>7. Ordered(f)'
      <4>1. Sorted(queue[f]) /\ Sorted(Tail(batch))
        BY <2>1, <3>1, <3>2 DEF Accounted, Ordered
      <4> QED BY <3>1, <3>4, <3>5, <3>6, <4>1 DEF Ordered
    <3>8. ASSUME NEW x
          PROVE  (\E j \in DOMAIN told' : told'[j].file = f /\ told'[j].n = x)
                 <=> (\E j \in DOMAIN told : told[j].file = f /\ told[j].n = x) \/ x = h.n
      BY <1>2, <1>7, <1>8, <1>8a, <2>3
    <3>9. Tallied(f)'
      BY <2>1, <3>1, <3>2, <3>8 DEF Accounted, Tallied
    <3> QED BY <1>1, <2>1, <3>7, <3>9 DEF Accounted
  <2> QED BY <2>2, <2>3
<1>13. BatchInv'
  <2>1. Len(batch) # 1 => batch' # <<>>
    <3>1. Len(Tail(batch)) = Len(batch) - 1 /\ Len(batch) \in Nat /\ batch' = Tail(batch)
      BY <1>1, <1>4, OneLess
    <3>2. Len(batch) # 1 => Len(batch') # 0
      BY <3>1
    <3> QED BY <3>2
  <2>2. tool = "gpionotify" => Len(batch) = 1
    BY <1>1 DEF EInv, BatchInv
  <2> QED BY <1>1, <1>4, <1>5, <2>1, <2>2 DEF BatchInv
<1>14. FlagsInv'
  <2>1. flagged \subseteq DOMAIN files /\ DOMAIN files \subseteq Nat
    BY <1>1, <1>3 DEF EInv, FlagsInv, EventShape
  <2>2. \A f \in flagged : f >= turn + 1 => f > turn
    BY <1>4, <2>1
  <2> QED BY <1>1, <1>5, <2>1, <2>2 DEF EInv, FlagsInv
<1>15. Options'
  <2>1. tool # "none"
    BY <1>1 DEF Program, Polling, EventTool
  <2> QED BY <1>1, <1>3, <1>5, <2>1 DEF Options
<1>16. CountInv'
  <2>1. opts.wanted \in Nat
    BY <1>3 DEF Options
  <2>2. opts.wanted > 0 => n < opts.wanted
    BY <1>1, <1>3 DEF CountInv, Polling, n
  <2>3. why = "running"
    BY <1>1 DEF Program
  <2>4. Enough(n + 1) <=> opts.wanted > 0 /\ n + 1 = opts.wanted
    BY <1>7, <2>1, <2>2 DEF Enough
  <2>5. ~Enough(n + 1) /\ opts.wanted > 0 => n + 1 < opts.wanted
    BY <1>7, <2>1, <2>2, <2>4
  <2>6. opts.wanted > 0 => n + 1 <= opts.wanted
    BY <1>7, <2>1, <2>2
  <2> QED BY <1>1, <1>5, <1>7, <2>1, <2>3, <2>4, <2>5, <2>6 DEF CountInv, StopsForCause
<1> QED BY <1>1, <1>10, <1>12, <1>13, <1>14, <1>15, <1>16 DEF EInv

\* Only gpionotify passes over events, and it reads one at a time.
LEMMA PassEvents ==
  ASSUME EInv, Program, PassOver
  PROVE  EInv'
<1> DEFINE h == Head(batch)
<1>1. /\ pc = "print" /\ opts.type # AnyType /\ batch' = Tail(batch)
      /\ passed' = [passed EXCEPT ![turn] = @ \cup {h.n}]
      /\ pc' = "round" /\ turn' = turn + 1
      /\ UNCHANGED <<why, tool, opts, files, queue, made, flagged, told, lost>>
  BY DEF PassOver, StayedOn
<1>2. EventShape /\ tool = "gpionotify"
  BY <1>1 DEF EInv, Options
<1>3. /\ batch \in Seq(Event) /\ batch # <<>> /\ turn \in DOMAIN files /\ turn \in Nat
      /\ BatchOf(turn) = batch /\ h.n \in Nat /\ batch' = <<>>
      /\ \A f : f # turn => BatchOf(f) = <<>>
  BY <1>1, <1>2, BatchHead
<1>4. DOMAIN passed = DOMAIN files /\ passed \in Seq(SUBSET Nat)
  BY <1>2 DEF EventShape
<1> HIDE DEF h
<1>5. /\ passed'[turn] = passed[turn] \cup {h.n}
      /\ \A f \in DOMAIN files : f # turn => passed'[f] = passed[f]
      /\ passed' = [f \in DOMAIN passed |-> passed'[f]]
  BY <1>1, <1>3, <1>4
<1>6. passed' \in Seq(SUBSET Nat) /\ Len(passed') = Len(passed)
  <2>1. passed[turn] \in SUBSET Nat
    BY <1>3, <1>4
  <2>2. passed'[turn] \in SUBSET Nat
    BY <1>3, <1>5, <2>1
  <2>3. \A f \in DOMAIN passed : passed'[f] \in SUBSET Nat
    BY <1>4, <1>5, <2>2
  <2> QED BY <1>4, <1>5, <2>3, SameLength
<1>7. <<>> \in Seq(Event) /\ turn + 1 \in Nat
  BY <1>3
<1>8. EventShape'
  BY <1>1, <1>2, <1>3, <1>6, <1>7 DEF EventShape
<1>9. \A f : BatchOf(f)' = <<>>
  BY <1>3 DEF BatchOf
<1>10. ASSUME NEW f \in DOMAIN files PROVE Accounted(f)'
  <2>1. Accounted(f)
    BY DEF EInv
  <2>2. CASE f # turn
    BY <1>1, <1>3, <1>5, <1>9, <2>1, <2>2, StillAccounted
  <2>3. CASE f = turn
    <3>1. \A x : Among(x, batch) <=> Among(x, Tail(batch)) \/ x = h.n
      BY <1>3, OneLess DEF h
    <3>2. \A x : Among(x, BatchOf(f)) <=> x = h.n
      BY <1>1, <1>3, <2>3, <3>1, NoneListed
    <3>3. Ordered(f)'
      BY <1>1, <1>9, <2>1, NoneListed DEF Accounted, Ordered
    <3>4. Tallied(f)'
      BY <1>1, <1>5, <1>9, <2>1, <2>3, <3>2, NoneListed DEF Accounted, Tallied
    <3> QED BY <1>1, <3>3, <3>4 DEF Accounted
  <2> QED BY <2>2, <2>3
<1>11. FlagsInv'
  <2>1. flagged \subseteq DOMAIN files /\ DOMAIN files \subseteq Nat
    BY <1>1, <1>2 DEF EInv, FlagsInv, EventShape
  <2>2. \A f \in flagged : f >= turn + 1 => f > turn
    BY <1>3, <2>1
  <2> QED BY <1>1, <2>1, <2>2 DEF EInv, FlagsInv
<1>12. Options' /\ BatchInv' /\ CountInv'
  BY <1>1, <1>2, <1>3 DEF EInv, Options, BatchInv, CountInv, StopsForCause, Polling
<1> QED BY <1>1, <1>8, <1>10, <1>11, <1>12 DEF EInv

\* An event happens: what the kernel drops of a full queue is counted as lost.
LEMMA HappensEvents ==
  ASSUME LInv, EInv, NEW f \in DOMAIN files, NEW k \in DOMAIN lines,
         NEW type \in Types(tool), Happens(f, k, type)
  PROVE  EInv'
<1> DEFINE n == made[f] + 1
           e == [n |-> n, offset |-> lines[k].offset, type |-> type]
           q == queue[f]
           full == Len(q) = QueueSize
<1>1. /\ files[f] = "live" /\ made' = [made EXCEPT ![f] = n]
      /\ IF full /\ tool = "gpionotify"
           THEN lost' = [lost EXCEPT ![f] = @ \cup {n}] /\ UNCHANGED queue
           ELSE /\ queue' = [queue EXCEPT ![f] = Append(IF full THEN Tail(q) ELSE q, e)]
                /\ lost' = IF full THEN [lost EXCEPT ![f] = @ \cup {q[1].n}] ELSE lost
      /\ UNCHANGED <<pc, why, tool, opts, files, flagged, turn, batch, told, passed>>
  BY DEF Happens, rvars
<1>2. /\ EventShape /\ Accounted(f)
      /\ DOMAIN made = DOMAIN files /\ DOMAIN queue = DOMAIN files /\ DOMAIN lost = DOMAIN files
      /\ made \in Seq(Nat) /\ queue \in Seq(Seq(Event)) /\ lost \in Seq(SUBSET Nat)
  BY DEF EInv, EventShape
<1>3. made[f] \in Nat /\ n \in Nat /\ q \in Seq(Event) /\ lost[f] \in SUBSET Nat
  <2>1. made[f] \in Nat
    BY <1>2
  <2>2. queue[f] \in Seq(Event)
    BY <1>2
  <2>3. lost[f] \in SUBSET Nat
    BY <1>2
  <2> QED BY <2>1, <2>2, <2>3
<1>4. e \in Event /\ e.n = n
  <2>1. lines[k] \in LineRec
    BY DEF LInv, SearchShape
  <2>2. lines[k].offset \in Nat
    BY <2>1 DEF LineRec
  <2>3. type \in {"edge", "requested", "released"}
    BY DEF Types
  <2> QED BY <1>3, <2>2, <2>3 DEF Event
<1>5. full => q # <<>> /\ q[1].n \in Nat /\ q[1] = Head(q)
  <2>1. full => Len(q) # 0
    BY EventToolsAssumption DEF EventToolsAssumption
  <2>2. q # <<>> => Head(q) \in Event /\ Head(q) = q[1]
    BY <1>3, OneLess
  <2>3. full => q # <<>>
    BY <2>1
  <2>4. q # <<>> => q[1].n \in Nat
    BY <2>2 DEF Event
  <2> QED BY <2>2, <2>3, <2>4
<1> HIDE DEF n, e, full
<1>6. /\ made'[f] = n /\ \A g \in DOMAIN files : g # f => made'[g] = made[g]
      /\ made' \in Seq(Nat) /\ Len(made') = Len(made)
  <2>1. made' = [g \in DOMAIN made |-> made'[g]] /\ made'[f] = n
        /\ \A g \in DOMAIN made : g # f => made'[g] = made[g]
    BY <1>1, <1>2
  <2>2. \A g \in DOMAIN made : made[g] \in Nat
    BY <1>2
  <2>3. \A g \in DOMAIN made : made'[g] \in Nat
    BY <1>3, <2>1, <2>2
  <2>4. made' \in Seq(Nat) /\ Len(made') = Len(made)
    BY <1>2, <2>1, <2>3, SameLength
  <2> QED BY <1>2, <2>1, <2>4
<1>7. /\ \A g \in DOMAIN files : g # f => lost'[g] = lost[g]
      /\ lost' \in Seq(SUBSET Nat) /\ Len(lost') = Len(lost)
  <2>1. lost' = [g \in DOMAIN lost |-> lost'[g]]
    BY <1>1, <1>2
  <2>2. \A g \in DOMAIN files : g # f => lost'[g] = lost[g]
    BY <1>1, <1>2
  <2>3. lost'[f] \in SUBSET Nat
    BY <1>1, <1>2, <1>3, <1>5
  <2>4. ASSUME NEW g \in DOMAIN lost PROVE lost'[g] \in SUBSET Nat
    <3>1. lost[g] \in SUBSET Nat
      BY <1>2
    <3>2. CASE g = f
      BY <2>3, <3>2
    <3>3. CASE g # f
      BY <1>2, <2>2, <3>1, <3>3
    <3> QED BY <3>2, <3>3
  <2> QED BY <1>2, <2>1, <2>2, <2>4, SameLength
<1>8. Ordered(f) /\ Tallied(f) /\ BatchOf(f)' = BatchOf(f)
  BY <1>1, <1>2 DEF Accounted, BatchOf
<1>9. \A x : Among(x, q) \/ Among(x, BatchOf(f)) => x < n
  <2>1. \A x : Among(x, q) \/ Among(x, BatchOf(f)) => x \in 1 .. made[f]
    BY <1>8 DEF Tallied
  <2> QED BY <1>3, <2>1 DEF n
<1>10. \A j \in DOMAIN told : told[j].file = f => told[j].n < n
  <2>1. \A j \in DOMAIN told : told[j].file = f => told[j].n \in 1 .. made[f]
    BY <1>8 DEF Tallied
  <2> QED BY <1>3, <2>1 DEF n
<1>11. \A x : x \in 1 .. made'[f] <=> x \in 1 .. made[f] \/ x = n
  BY <1>3, <1>6 DEF n
<1>12. CASE full /\ tool = "gpionotify"
  <2>1. lost'[f] = lost[f] \cup {n} /\ UNCHANGED queue
    BY <1>1, <1>2, <1>12
  <2>2. EventShape'
    BY <1>1, <1>2, <1>6, <1>7, <2>1 DEF EventShape
  <2>3. ASSUME NEW g \in DOMAIN files PROVE Accounted(g)'
    <3>1. CASE g # f
      BY <1>1, <1>6, <1>7, <2>1, <3>1, StillAccounted DEF BatchOf, EInv
    <3>2. CASE g = f
      <4>1. Ordered(f)'
        BY <1>1, <1>8, <2>1 DEF Ordered
      <4>2. Tallied(f)'
        BY <1>1, <1>8, <1>11, <2>1 DEF Tallied
      <4> QED BY <1>1, <1>2, <3>2, <4>1, <4>2 DEF Accounted
    <3> QED BY <3>1, <3>2
  <2>4. Options' /\ BatchInv' /\ FlagsInv' /\ CountInv'
    <3>1. Options' /\ BatchInv' /\ FlagsInv'
      BY <1>1, <2>1 DEF EInv, Options, BatchInv, FlagsInv
    <3>2. CountInv'
      BY <1>1 DEF EInv, CountInv, StopsForCause
    <3> QED BY <3>1, <3>2
  <2> QED BY <1>1, <2>2, <2>3, <2>4 DEF EInv
<1>13. CASE ~(full /\ tool = "gpionotify")
  <2> DEFINE r == IF full THEN Tail(q) ELSE q
             D == IF full THEN {q[1].n} ELSE {}
  <2>1. queue' = [queue EXCEPT ![f] = Append(r, e)] /\ lost'[f] = lost[f] \cup D
    BY <1>1, <1>2, <1>13
  <2>2. /\ r \in Seq(Event) /\ \A x : Among(x, q) <=> Among(x, r) \/ x \in D
        /\ Sorted(q) => Sorted(r)
        /\ \A m : Less(m, q) => Less(m, r)
    <3>1. CASE full
      BY <1>3, <1>5, <3>1, OneLess
    <3>2. CASE ~full
      BY <1>3, <3>2
    <3> QED BY <3>1, <3>2
  <2> HIDE DEF r, D
  <2>3. /\ queue'[f] = Append(r, e) /\ \A g \in DOMAIN files : g # f => queue'[g] = queue[g]
        /\ queue' = [g \in DOMAIN queue |-> queue'[g]]
    BY <1>2, <2>1
  <2>4. /\ queue'[f] \in Seq(Event)
        /\ \A x : Among(x, queue'[f]) <=> Among(x, r) \/ x = n
        /\ Sorted(r) /\ (\A j \in DOMAIN r : r[j].n < n) => Sorted(queue'[f])
        /\ \A m : Less(m, r) /\ m < n => Less(m, queue'[f])
    BY <1>4, <2>2, <2>3, OneMore
  <2>5. queue' \in Seq(Seq(Event)) /\ Len(queue') = Len(queue)
    <3>1. ASSUME NEW g \in DOMAIN queue PROVE queue'[g] \in Seq(Event)
      <4>1. queue[g] \in Seq(Event)
        BY <1>2
      <4>2. CASE g = f
        BY <2>4, <4>2
      <4>3. CASE g # f
        BY <1>2, <2>3, <4>1, <4>3
      <4> QED BY <4>2, <4>3
    <3> QED BY <1>2, <2>3, <3>1, SameLength
  <2>6. EventShape'
    BY <1>1, <1>2, <1>6, <1>7, <2>5 DEF EventShape
  <2>7. ASSUME NEW g \in DOMAIN files PROVE Accounted(g)'
    <3>1. CASE g # f
      BY <1>1, <1>6, <1>7, <2>3, <3>1, StillAccounted DEF BatchOf, EInv
    <3>2. CASE g = f
      <4>1. \A j \in DOMAIN r : r[j].n < n
        <5>1. \A j \in DOMAIN r : Among(r[j].n, q)
          BY <2>2 DEF Among
        <5> QED BY <1>9, <5>1
      <4>2. Sorted(queue'[f])
        BY <1>8, <2>2, <2>4, <4>1 DEF Ordered
      <4>3. Before(BatchOf(f), queue'[f])
        <5>1. ASSUME NEW j \in DOMAIN BatchOf(f) PROVE Less(BatchOf(f)[j].n, queue'[f])
          <6>1. Less(BatchOf(f)[j].n, q)
            BY <1>8 DEF Ordered, Before
          <6>2. BatchOf(f)[j].n < n
            BY <1>9 DEF Among
          <6> QED BY <2>2, <2>4, <6>1, <6>2
        <5> QED BY <5>1 DEF Before
      <4>4. ASSUME NEW j \in DOMAIN told, told[j].file = f PROVE Less(told[j].n, queue'[f])
        <5>1. Less(told[j].n, q)
          BY <1>8, <4>4 DEF Ordered
        <5> QED BY <1>10, <2>2, <2>4, <4>4, <5>1
      <4>5. Ordered(f)'
        BY <1>1, <1>8, <4>2, <4>3, <4>4 DEF Ordered
      <4>6. Tallied(f)'
        BY <1>1, <1>8, <1>11, <2>1, <2>2, <2>4 DEF Tallied
      <4> QED BY <1>1, <1>2, <3>2, <4>5, <4>6 DEF Accounted
    <3> QED BY <3>1, <3>2
  <2>8. FlagsInv'
    <3>1. queue'[f] # <<>>
      <4>1. Among(n, queue'[f])
        BY <2>4
      <4> QED BY <4>1, NoneListed
    <3>2. \A g \in flagged : pc \in {"round", "print"} => g \in DOMAIN files
      BY DEF EInv, FlagsInv
    <3> QED BY <1>1, <2>3, <3>1, <3>2 DEF EInv, FlagsInv
  <2>9. Options' /\ BatchInv' /\ CountInv'
    <3>1. Options' /\ BatchInv'
      BY <1>1 DEF EInv, Options, BatchInv
    <3>2. CountInv'
      BY <1>1 DEF EInv, CountInv, StopsForCause
    <3> QED BY <3>1, <3>2
  <2> QED BY <1>1, <2>6, <2>7, <2>8, <2>9 DEF EInv
<1> QED BY <1>12, <1>13

\* What is past is forgotten: the events that wait are all there is.
LEMMA ForgetEvents ==
  ASSUME EInv, Forget
  PROVE  EInv'
<1>1. /\ pc \in {"poll", "round"} /\ opts.wanted = 0
      /\ queue' = [f \in DOMAIN files |->
                     [j \in DOMAIN queue[f] |-> [queue[f][j] EXCEPT !.n = j]]]
      /\ made' = [f \in DOMAIN files |-> Len(queue[f])] /\ told' = <<>>
      /\ passed' = [f \in DOMAIN files |-> {}] /\ lost' = [f \in DOMAIN files |-> {}]
      /\ UNCHANGED <<pc, why, tool, opts, files, flagged, turn, batch>>
  BY DEF Forget, rvars
<1>2. /\ EventShape /\ batch = <<>> /\ DOMAIN queue = DOMAIN files
      /\ Len(files) \in Nat /\ DOMAIN files = 1 .. Len(files)
  BY <1>1 DEF EInv, EventShape, BatchInv
<1>3. ASSUME NEW f \in DOMAIN files
      PROVE  /\ queue[f] \in Seq(Event) /\ queue'[f] \in Seq(Event)
             /\ Len(queue[f]) \in Nat /\ DOMAIN queue'[f] = 1 .. Len(queue[f])
             /\ \A j \in DOMAIN queue'[f] : queue'[f][j].n = j
  <2> DEFINE q == queue[f]
             r == [j \in DOMAIN q |-> [q[j] EXCEPT !.n = j]]
  <2>1. q \in Seq(Event)
    BY <1>2 DEF EventShape
  <2>2. queue'[f] = r
    BY <1>1
  <2> HIDE DEF q
  <2>3. DOMAIN q = 1 .. Len(q) /\ Len(q) \in Nat
    BY <2>1
  <2>4. ASSUME NEW j \in DOMAIN q PROVE r[j] \in Event /\ r[j].n = j
    <3>1. q[j] \in Event /\ j \in Nat
      BY <2>1, <2>3
    <3> QED BY <3>1 DEF Event
  <2>5. r \in [1 .. Len(q) -> Event]
    BY <2>3, <2>4
  <2> HIDE DEF r
  <2>6. r \in Seq(Event) /\ DOMAIN r = 1 .. Len(q)
    BY <2>3, <2>5
  <2> QED BY <2>1, <2>2, <2>3, <2>4, <2>6 DEF q
<1>4. EventShape'
  <2> DEFINE N == Len(files)
  <2>1. N \in Nat /\ DOMAIN files = 1 .. N
    BY <1>2
  <2> HIDE DEF N
  <2>2. DOMAIN queue' = DOMAIN files /\ DOMAIN made' = DOMAIN files
        /\ queue' = [f \in DOMAIN files |-> queue'[f]]
    BY <1>1
  <2>3. queue' \in [1 .. N -> Seq(Event)]
    BY <1>3, <2>1, <2>2
  <2>4. made' \in [1 .. N -> Nat]
    BY <1>1, <1>3, <2>1
  <2>5. {} \in SUBSET Nat
    OBVIOUS
  <2>6. passed' \in [1 .. N -> SUBSET Nat] /\ lost' \in [1 .. N -> SUBSET Nat]
    BY <1>1, <2>1, <2>5
  <2>7. queue' \in Seq(Seq(Event)) /\ Len(queue') = N
    BY <2>1, <2>3
  <2>8. made' \in Seq(Nat) /\ Len(made') = N
    BY <2>1, <2>4
  <2>9. passed' \in Seq(SUBSET Nat) /\ Len(passed') = N
    BY <2>1, <2>6
  <2>10. lost' \in Seq(SUBSET Nat) /\ Len(lost') = N
    BY <2>1, <2>6
  <2>11. told' \in Seq({})
    BY <1>1
  <2> QED BY <1>1, <1>2, <2>7, <2>8, <2>9, <2>10, <2>11 DEF EventShape, N
<1>5. ASSUME NEW f \in DOMAIN files PROVE Accounted(f)'
  <2> DEFINE r == queue'[f]
             m == Len(queue[f])
  <2>1. BatchOf(f)' = <<>> /\ told' = <<>> /\ passed'[f] = {} /\ lost'[f] = {} /\ made'[f] = m
    BY <1>1, <1>2 DEF BatchOf
  <2>2. /\ DOMAIN r = 1 .. m /\ \A j \in DOMAIN r : r[j].n = j
    BY <1>3
  <2> HIDE DEF r, m
  <2>3. Sorted(r) /\ \A x : Among(x, r) <=> x \in 1 .. m
    BY <2>2 DEF Sorted, Among
  <2>4. Ordered(f)'
    BY <2>1, <2>3, NoneListed DEF Ordered, r
  <2>5. Tallied(f)'
    BY <2>1, <2>3, NoneListed DEF Tallied, r
  <2> QED BY <2>1, <2>4, <2>5 DEF Accounted
<1>6. FlagsInv'
  <2>1. flagged \subseteq DOMAIN files \/ pc # "round"
    BY DEF EInv, FlagsInv
  <2>2. ASSUME NEW f \in DOMAIN files, queue[f] # <<>> PROVE queue'[f] # <<>>
    <3>1. Len(queue[f]) # 0
      BY <1>3, <2>2
    <3>2. DOMAIN queue'[f] # {}
      BY <1>3, <3>1
    <3> QED BY <3>2
  <2> QED BY <1>1, <2>1, <2>2 DEF EInv, FlagsInv
<1>7. Options' /\ BatchInv' /\ CountInv'
  BY <1>1, <1>2 DEF EInv, Options, BatchInv, CountInv, StopsForCause, Polling
<1> QED BY <1>1, <1>4, <1>5, <1>6, <1>7 DEF EInv

LEMMA EventsStep ==
  ASSUME LInv, EInv, Program, [Next]_vars
  PROVE  EInv'
<1>1. CASE UNCHANGED vars
  <2>1. UNCHANGED <<pc, why, tool, opts, queue, made, told, passed, lost, batch, files, turn,
                    flagged>>
        /\ files \in Seq({"live", "dead"}) /\ turn \in Nat
    BY <1>1 DEF vars, rvars, evars, EInv, EventShape
  <2>2. EventShape' /\ (\A f \in DOMAIN files' : Accounted(f)')
    BY <2>1, StillEvents
  <2>3. Options' /\ BatchInv' /\ FlagsInv'
    BY <2>1 DEF EInv, Options, BatchInv, FlagsInv
  <2>4. CountInv'
    BY <2>1 DEF EInv, CountInv, StopsForCause
  <2> QED BY <2>2, <2>3, <2>4 DEF EInv
<1>2. CASE Lookup
  <2>1. UNCHANGED evars /\ pc \in Searching /\ pc' \in Searching \cup {"exit"}
    BY <1>2, LookupProgram
  <2>2. tool = "none"
    BY <2>1 DEF Program
  <2> QED BY <2>1, <2>2, OtherEvents DEF Searching, Polling
<1>3. CASE ReadingNext /\ UNCHANGED evars
  <2>1. /\ pc \in {"start", "values", "get", "info", "detect"}
        /\ pc' \in {"get", "info", "detect", "exit"}
    BY <1>3, ReadingProgram
  <2>2. tool = "none"
    BY <2>1 DEF Program, Searching
  <2> QED BY <1>3, <2>1, <2>2, OtherEvents DEF Polling
<1>4. CASE EventNext
  <2>1. ASSUME NEW o \in MonOptions, EventOptions("gpiomon", o) PROVE EInv'
    BY <2>1, OptionsEvents DEF EventTool
  <2>2. ASSUME NEW o \in NotifyOptions, EventOptions("gpionotify", o) PROVE EInv'
    BY <2>2, OptionsEvents DEF EventTool
  <2>3. ASSUME NEW f \in DOMAIN files, NEW k \in DOMAIN lines, NEW type \in Types(tool),
               Happens(f, k, type)
        PROVE  EInv'
    BY <2>3, HappensEvents
  <2>4. CASE ReadBatchFails \/ EventsDone
    BY <2>4, EndEvents DEF ReadBatchFails, EventsDone, Die
  <2>5. CASE EventStep
    BY <2>4, <2>5, OpenEvents, LoopEvents, ReadBatchEvents, PrintEvents, PassEvents DEF EventStep
  <2> QED BY <1>4, <2>1, <2>2, <2>3, <2>5, ForgetEvents DEF EventNext
<1>5. ASSUME NEW p \in Paths, NEW layout \in Replacements \cup {Gone}, DeviceChanges(p, layout)
      PROVE  EInv'
  <2>1. UNCHANGED <<pc, why, tool, opts, queue, made, told, passed, lost, batch, turn, flagged>>
    BY <1>5, DeviceProgram DEF DeviceChanges, Move
  <2>2. files' = [f \in DOMAIN files |-> IF chips[f] = p THEN "dead" ELSE files[f]]
    BY <1>5 DEF DeviceChanges, FilesDie
  <2>3. files \in Seq({"live", "dead"}) /\ turn \in Nat
    BY DEF EInv, EventShape
  <2>4. files' \in Seq({"live", "dead"}) /\ Len(files') = Len(files) /\ DOMAIN files' = DOMAIN files
    BY <2>2, <2>3, SameLength
  <2>5. EventShape' /\ (\A f \in DOMAIN files' : Accounted(f)')
    BY <2>1, <2>3, <2>4, StillEvents
  <2>6. \A f \in DOMAIN files : files[f] = "dead" => files'[f] = "dead"
    BY <2>2
  <2>7. FlagsInv'
    BY <2>1, <2>4, <2>6 DEF EInv, FlagsInv
  <2>8. Options' /\ BatchInv'
    <3>1. files = <<>> => files' = <<>>
      BY <2>4
    <3> QED BY <2>1, <2>4, <3>1 DEF EInv, Options, BatchInv
  <2>9. CountInv'
    BY <2>1 DEF EInv, CountInv, StopsForCause
  <2> QED BY <2>5, <2>7, <2>8, <2>9 DEF EInv
<1> QED BY <1>1, <1>2, <1>3, <1>4, <1>5 DEF Next

-----------------------------------------------------------------------------
(* gpioinfo *)

\* Another program runs, or gpioinfo ends without success.
LEMMA OtherInfo ==
  ASSUME pc' # "info", reading' = "gpioinfo" => why' # "ok"
  PROVE  IInv'
BY DEF IInv, InfoListsNamed

\* Nothing of gpioinfo changes, but that its chip may be gone.
LEMMA QuietInfo ==
  ASSUME IInv, UNCHANGED <<args, paths, i, at, lines, seen, found, listed, failed, reading>>,
         fd' \in {"none", "live", "dead"} \/ UNCHANGED fd, fd' = "none" <=> fd = "none",
         pc' = "info" => pc = "info",
         why' = "ok" /\ reading = "gpioinfo" => why = "ok"
  PROVE  IInv'
<1>1. /\ \A j : Opened(j)' = Opened(j) /\ Offsets(j)' = Offsets(j)
      /\ \A j, o : WasRead(j, o)' = WasRead(j, o)
      /\ \A q : Listed(q)' = Listed(q)
      /\ \A k : Place(k)' = Place(k)
      /\ Indices' = Indices /\ ReadsAll' = ReadsAll
      /\ \A n, j, o : StandsFor(n, j, o)' = StandsFor(n, j, o)
  BY DEF StandsFor, Opened, Offsets, WasRead, Listed, Place, Indices, ReadsAll
<1>2. ASSUME Infos PROVE Infos'
  <2>1. OpenedChips'
    BY <1>1, <1>2 DEF Infos, OpenedChips
  <2>2. ListedOnce'
    BY <1>1, <1>2 DEF Infos, ListedOnce
  <2>3. FoundAsNamed'
    BY <1>1, <1>2 DEF Infos, FoundAsNamed
  <2>4. ListedFound'
    BY <1>1, <1>2 DEF Infos, ListedFound
  <2>5. FoundListed'
    BY <1>1, <1>2 DEF Infos, FoundListed
  <2>6. ReadListed'
    BY <1>1, <1>2 DEF Infos, ReadListed
  <2> QED BY <2>1, <2>2, <2>3, <2>4, <2>5, <2>6 DEF Infos
<1>3. InfoListsNamed'
  <2>1. /\ \A P : LinesSeen(P)' = LinesSeen(P)
        /\ \A n : LinesNamed(n)' = LinesNamed(n) /\ GivenOffset(n)' = GivenOffset(n)
    BY DEF LinesSeen, LinesNamed, GivenOffset
  <2> QED BY <2>1 DEF IInv, InfoListsNamed
<1> QED BY <1>2, <1>3 DEF IInv

\* What the paths and chips of a search of gpioinfo are.
LEMMA InfoPaths ==
  ASSUME LInv, reading # "gpiodetect"
  PROVE  /\ Len(paths) \in Nat /\ i \in Nat /\ at \in Nat
         /\ \A j \in Indices : j \in Nat /\ paths[j + 1] \in Paths
         /\ \A j, k \in Indices : paths[j + 1] = paths[k + 1] => j = k
         /\ i < Len(paths) => i \in Indices /\ Path = paths[i + 1]
         /\ DOMAIN lines = DOMAIN args.ids
         /\ \A k \in DOMAIN lines : lines[k] \in LineRec /\ args.ids[k] \in Names
         /\ \A p \in Paths : Len(seen[p]) \in Nat
<1>1. paths \in Seq(Paths) /\ Once(paths) /\ SearchShape
  BY DEF LInv, PathsOnce
<1>2. Len(paths) \in Nat /\ DOMAIN paths = 1 .. Len(paths)
  BY <1>1
<1>3. \A j \in Indices : j \in Nat /\ j + 1 \in DOMAIN paths
  BY <1>2 DEF Indices
<1>4. \A j \in Indices : paths[j + 1] \in Paths
  BY <1>1, <1>3
<1>5. \A j, k \in Indices : paths[j + 1] = paths[k + 1] => j = k
  <2> SUFFICES ASSUME NEW j \in Indices, NEW k \in Indices, paths[j + 1] = paths[k + 1]
               PROVE  j = k
    OBVIOUS
  <2>1. j + 1 = k + 1
    BY <1>1, <1>3 DEF Once
  <2> QED BY <1>3, <2>1
<1>6. i < Len(paths) => i \in Indices /\ Path = paths[i + 1]
  BY <1>1, <1>2 DEF SearchShape, Indices, Path
<1>7. DOMAIN lines = DOMAIN args.ids
      /\ \A k \in DOMAIN lines : lines[k] \in LineRec /\ args.ids[k] \in Names
  BY <1>1 DEF SearchShape
<1>8. ASSUME NEW p \in Paths PROVE Len(seen[p]) \in Nat
  <2>1. seen[p] \in Layouts \cup {Gone} /\ Layouts \subseteq Seq(Names \cup {NoName})
    BY <1>1, ResolverAssumption DEF SearchShape, ResolverAssumption
  <2>2. Gone \in Seq(Names \cup {NoName})
    BY DEF Gone
  <2>3. seen[p] \in Seq(Names \cup {NoName})
    BY <2>1, <2>2
  <2> QED BY <2>3
<1> QED BY <1>1, <1>2, <1>3, <1>4, <1>5, <1>6, <1>7, <1>8 DEF SearchShape

LEMMA BeginInfo ==
  ASSUME LInv, NEW ids, NEW c \in Paths \cup {NoChip}, NEW s, NEW b,
         ids \in Seq(Names), InfoStart(ids, c, s, b), why = "running"
  PROVE  IInv'
<1>1. /\ pc = "start" /\ pc' = "info" /\ paths' = Scanned(c)
      /\ lines' = [k \in DOMAIN ids |-> Unresolved]
      /\ UNCHANGED <<why, i, fd, seen, found, listed, failed>>
  BY DEF InfoStart
<1>2. /\ i' = 0 /\ fd' = "none" /\ listed' = <<>> /\ found' = 0
      /\ \A p \in Paths : seen'[p] = Gone
  BY <1>1 DEF LInv, Fresh
<1>3. paths' \in Seq(Paths)
  BY <1>1, ScannedOnce
<1>4. Len(paths') \in Nat /\ (\A j \in Indices' : j \in Nat)
      /\ \A k \in DOMAIN lines' : ~lines'[k].resolved
  BY <1>1, <1>3 DEF Indices, Unresolved
<1>5. \A j \in Indices' : \A o : ~WasRead(j, o)' /\ ~Opened(j)'
  BY <1>2, <1>4 DEF WasRead, Opened
<1>6. OpenedChips'
  BY <1>2, <1>4, <1>5 DEF OpenedChips
<1>7. ListedOnce'
  <2>1. <<>> \in Seq({}) /\ Len(<<>>) = 0
    OBVIOUS
  <2> QED BY <1>2, <2>1 DEF ListedOnce, Once
<1>8. FoundAsNamed' /\ ListedFound' /\ FoundListed' /\ ReadListed'
  BY <1>2, <1>4, <1>5 DEF FoundAsNamed, ListedFound, FoundListed, ReadListed
<1> QED BY <1>1, <1>6, <1>7, <1>8 DEF IInv, Infos, InfoListsNamed

\* The next chip is opened: no line of it has been read.
LEMMA OpenInfo ==
  ASSUME LInv, IInv, Program, InfoOpen
  PROVE  IInv'
<1>1. /\ pc = "info" /\ pc' = "info" /\ fd = "none" /\ fd' = "live" /\ i < Len(paths)
      /\ IsGpiochip(Path) /\ seen' = [seen EXCEPT ![Path] = dev[Path]] /\ at' = 0
      /\ lines' = IF i = 0 /\ ~args.byName THEN ByOffset(Len(dev[Path])) ELSE lines
      /\ UNCHANGED <<args, why, paths, i, found, listed, failed>>
  BY DEF InfoOpen, gvars
<1>2. reading = "gpioinfo" /\ why = "running"
  BY <1>1 DEF Program, Searching, Polling
<1>3. /\ Len(paths) \in Nat /\ i \in Nat
      /\ \A j \in Indices : j \in Nat /\ paths[j + 1] \in Paths
      /\ \A j, k \in Indices : paths[j + 1] = paths[k + 1] => j = k
      /\ i \in Indices /\ Path = paths[i + 1]
      /\ DOMAIN lines = DOMAIN args.ids
      /\ \A k \in DOMAIN lines : lines[k] \in LineRec
  BY <1>1, <1>2, InfoPaths
<1>4. /\ seen'[Path] = dev[Path] /\ seen'[Path] # Gone /\ Len(dev[Path]) \in Nat
      /\ \A p \in Paths \ {Path} : seen'[p] = seen[p]
  <2>1. Path \in Paths
    BY <1>3
  <2>2. dev[Path] \in Seq(Names \cup {NoName})
    BY <1>1, <2>1, SeenShape
  <2>3. /\ seen'[Path] = dev[Path] /\ seen'[Path] # Gone
        /\ \A p \in Paths \ {Path} : seen'[p] = seen[p]
    BY <1>1, <2>1, SeenShape
  <2>4. Len(dev[Path]) \in Nat
    BY <2>2
  <2> QED BY <2>3, <2>4
<1>5. Indices' = Indices /\ (\A q : Listed(q)' = Listed(q)) /\ ReadsAll' = ReadsAll
  BY <1>1 DEF Indices, Listed, ReadsAll
<1>6. \A j \in Indices : /\ Opened(j)' <=> j < i \/ j = i
                         /\ Opened(j) <=> j < i
                         /\ j < i => Offsets(j)' = Offsets(j) /\ seen'[paths[j + 1]] = seen[paths[j + 1]]
  <2> SUFFICES ASSUME NEW j \in Indices
               PROVE  /\ Opened(j)' <=> j < i \/ j = i
                      /\ Opened(j) <=> j < i
                      /\ j < i => Offsets(j)' = Offsets(j) /\ seen'[paths[j + 1]] = seen[paths[j + 1]]
    OBVIOUS
  <2>1. j < i => paths[j + 1] \in Paths \ {Path}
    BY <1>3
  <2> QED BY <1>1, <1>4, <2>1 DEF Opened, Offsets
<1>7. \A j \in Indices : \A o \in Nat : (WasRead(j, o)' <=> j < i) /\ (WasRead(j, o) <=> j < i)
  BY <1>1, <1>3 DEF WasRead
<1>7a. \A j : /\ \A o \in Offsets(j) : o \in Nat
              /\ \A o \in Offsets(j)' : o \in Nat
  BY DEF Offsets
<1>8. Infos
  BY <1>1 DEF IInv
<1>9. \A k \in DOMAIN lines : i = 0 => ~lines[k].resolved
  <2>1. \A j \in Indices : i = 0 => ~Opened(j)
    BY <1>3, <1>6
  <2> QED BY <1>8, <2>1 DEF Infos, FoundAsNamed, StandsFor
<1>10. i = 0 => listed = <<>>
  <2>1. \A x \in DOMAIN listed : i # 0
    <3> TAKE x \in DOMAIN listed
    <3>1. PICK j \in Indices : \E o \in Offsets(j) : WasRead(j, o)
      BY <1>8 DEF Infos, ListedOnce
    <3> QED BY <1>3, <1>7, <1>7a, <3>1
  <2>2. \E S : listed \in Seq(S)
    BY <1>8 DEF Infos, ListedOnce
  <2> QED BY <2>1, <2>2
<1>11. ~args.byName => i = 0
  <2>1. ~args.byName => paths = <<args.chip>>
    BY <1>2 DEF LInv, PathsOnce
  <2> QED BY <1>1, <1>3, <2>1
<1>12. DOMAIN lines' = DOMAIN lines
  BY <1>1 DEF ByOffset
<1>13. ASSUME NEW k \in DOMAIN lines, lines'[k].resolved
       PROVE  \/ /\ lines'[k] = lines[k] /\ lines[k].resolved /\ lines[k].chip < i
                 /\ lines[k].chip \in Indices
              \/ /\ lines'[k].chip = i /\ ~args.byName
                 /\ lines'[k].offset = AsOffset[args.ids[k]]
                 /\ lines'[k].offset \in Nat /\ lines'[k].offset < Len(dev[Path])
  <2>1. CASE lines'[k] = lines[k]
    <3>1. lines[k].resolved
      BY <1>13, <2>1
    <3>2. lines[k].chip \in Indices /\ Opened(lines[k].chip)
      BY <1>8, <3>1 DEF Infos, FoundAsNamed, StandsFor
    <3> QED BY <1>6, <2>1, <3>1, <3>2
  <2>2. CASE lines'[k] # lines[k]
    <3>1. i = 0 /\ ~args.byName /\ lines' = ByOffset(Len(dev[Path]))
      BY <1>1, <2>2
    <3>2. /\ args.ids[k] \in Names
          /\ IF IsOffset(args.ids[k], Len(dev[Path]))
               THEN lines'[k].chip = 0 /\ lines'[k].offset = AsOffset[args.ids[k]]
               ELSE lines'[k] = lines[k]
      BY <1>4, <3>1, OffsetLines
    <3>3. IsOffset(args.ids[k], Len(dev[Path]))
      BY <2>2, <3>2
    <3>4. AsOffset[args.ids[k]] \in Nat \cup {-1}
      BY <3>2, ResolverAssumption DEF ResolverAssumption
    <3> QED BY <3>1, <3>2, <3>3, <3>4 DEF IsOffset
  <2> QED BY <2>1, <2>2
<1>14. OpenedChips'
  <2>1. i' <= Len(paths') /\ fd' \in {"none", "live", "dead"}
        /\ i' < Len(paths') /\ at' <= Len(seen'[paths'[i' + 1]])
    BY <1>1, <1>3, <1>4
  <2>2. ASSUME NEW p \in Paths, seen'[p] # Gone
        PROVE  \E j \in Indices : p = paths[j + 1] /\ Opened(j)'
    <3>1. CASE p = Path
      BY <1>3, <1>6, <3>1
    <3>2. CASE p # Path
      <4>1. seen[p] # Gone
        BY <1>4, <2>2, <3>2
      <4>2. PICK j \in Indices : p = paths[j + 1] /\ Opened(j)
        BY <1>8, <4>1 DEF Infos, OpenedChips
      <4> QED BY <1>6, <4>2
    <3> QED BY <3>1, <3>2
  <2>3. ASSUME ~failed, NEW j \in Indices, Opened(j)' PROVE seen'[paths[j + 1]] # Gone
    <3>1. CASE j < i
      <4>1. seen[paths[j + 1]] # Gone
        BY <1>6, <1>8, <2>3, <3>1 DEF Infos, OpenedChips
      <4> QED BY <1>6, <3>1, <4>1
    <3>2. CASE j = i
      BY <1>3, <1>4, <3>2
    <3> QED BY <1>6, <2>3, <3>1, <3>2
  <2> QED BY <1>1, <1>5, <2>1, <2>2, <2>3 DEF OpenedChips
<1>15. ListedOnce'
  <2>1. ASSUME NEW x \in DOMAIN listed
        PROVE  \E j \in Indices : \E o \in Offsets(j)' :
                 WasRead(j, o)' /\ listed[x] = <<paths[j + 1], o>>
    <3>1. PICK j \in Indices : \E o \in Offsets(j) : WasRead(j, o) /\ listed[x] = <<paths[j + 1], o>>
      BY <1>8 DEF Infos, ListedOnce
    <3>2. PICK o \in Offsets(j) : WasRead(j, o) /\ listed[x] = <<paths[j + 1], o>>
      BY <3>1
    <3>3. j < i /\ WasRead(j, o)'
      BY <1>7, <1>7a, <3>2
    <3>4. o \in Offsets(j)'
      BY <1>6, <3>3
    <3> QED BY <3>2, <3>3, <3>4
  <2> QED BY <1>1, <1>5, <1>8, <2>1 DEF Infos, ListedOnce
<1>16. FoundAsNamed'
  <2> SUFFICES ASSUME NEW k \in DOMAIN lines, lines'[k].resolved
               PROVE  StandsFor(args.ids[k], lines[k].chip, lines[k].offset)'
    BY <1>1, <1>12 DEF FoundAsNamed
  <2>1. CASE /\ lines'[k] = lines[k] /\ lines[k].resolved /\ lines[k].chip < i
             /\ lines[k].chip \in Indices
    <3>1. StandsFor(args.ids[k], lines[k].chip, lines[k].offset)
      BY <1>8, <2>1 DEF Infos, FoundAsNamed
    <3> QED BY <1>1, <1>5, <1>6, <2>1, <3>1 DEF StandsFor
  <2>2. CASE /\ lines'[k].chip = i /\ ~args.byName
             /\ lines'[k].offset = AsOffset[args.ids[k]]
             /\ lines'[k].offset \in Nat /\ lines'[k].offset < Len(dev[Path])
    <3>1. i = 0 /\ paths = <<args.chip>>
      BY <1>2, <1>11, <2>2 DEF LInv, PathsOnce
    <3>2. paths[i + 1] = args.chip
      BY <3>1
    <3>3. lines'[k].offset \in Offsets(i)'
      BY <1>1, <1>3, <1>4, <2>2 DEF Offsets
    <3>4. i \in Indices' /\ Opened(i)'
      BY <1>1, <1>3, <1>5 DEF Opened
    <3> QED BY <1>1, <2>2, <3>2, <3>3, <3>4 DEF StandsFor
  <2> QED BY <1>13, <2>1, <2>2
<1>17. ListedFound'
  <2> SUFFICES ASSUME ~args.strict, args.ids # <<>>, NEW x \in DOMAIN listed
               PROVE  \E k \in DOMAIN lines : lines'[k].resolved /\ listed[x] = Place(k)'
    BY <1>1, <1>12 DEF ListedFound
  <2>1. PICK k \in DOMAIN lines : lines[k].resolved /\ listed[x] = Place(k)
    BY <1>8 DEF Infos, ListedFound
  <2>2. i # 0
    BY <1>10
  <2>3. lines' = lines /\ Place(k)' = Place(k)
    BY <1>1, <2>2 DEF Place
  <2> QED BY <2>1, <2>3
<1>18. FoundListed'
  <2> SUFFICES ASSUME args.strict, NEW k \in DOMAIN lines, lines'[k].resolved,
                      WasRead(lines[k].chip, lines[k].offset)'
               PROVE  Listed(Place(k))'
    BY <1>1, <1>12 DEF FoundListed
  <2>1. CASE /\ lines'[k] = lines[k] /\ lines[k].resolved /\ lines[k].chip < i
             /\ lines[k].chip \in Indices
    <3>1. Place(k)' = Place(k)
      BY <1>1, <2>1 DEF Place
    <3>2. WasRead(lines[k].chip, lines[k].offset)
      BY <2>1 DEF WasRead
    <3>3. Listed(Place(k))
      BY <1>1, <1>8, <2>1, <3>2 DEF Infos, FoundListed
    <3> QED BY <1>1, <3>1, <3>3 DEF Listed
  <2>2. CASE lines'[k].chip = i /\ lines'[k].offset \in Nat
    BY <1>1, <1>3, <2>2 DEF WasRead
  <2> QED BY <1>13, <2>1, <2>2
<1>19. ReadListed'
  <2> SUFFICES ASSUME ReadsAll, NEW j \in Indices, NEW o \in Offsets(j)', WasRead(j, o)',
                      args.ids = <<>> \/ \E k \in DOMAIN args.ids :
                                           seen'[paths[j + 1]][o + 1] = args.ids[k]
               PROVE  Listed(<<paths[j + 1], o>>)
    BY <1>1, <1>5 DEF ReadListed
  <2>1. j < i /\ WasRead(j, o)
    BY <1>7, <1>7a
  <2>2. o \in Offsets(j) /\ seen'[paths[j + 1]] = seen[paths[j + 1]]
    BY <1>6, <2>1
  <2> QED BY <1>8, <2>1, <2>2 DEF Infos, ReadListed
<1> QED BY <1>1, <1>2, <1>14, <1>15, <1>16, <1>17, <1>18, <1>19 DEF IInv, Infos, InfoListsNamed

\* A chip that cannot be opened has no lines: it was not seen.
LEMMA PassInfo ==
  ASSUME LInv, IInv, Program, InfoOpenFails
  PROVE  IInv'
<1>1. /\ pc = "info" /\ fd = "none" /\ i < Len(paths)
      /\ UNCHANGED <<args, paths, at, fd, lines, found, seen, listed, reading>>
  BY DEF InfoOpenFails
<1>2. reading = "gpioinfo" /\ Infos /\ why = "running"
  BY <1>1 DEF Program, Searching, Polling, IInv
<1>3. CASE i' = i + 1 /\ failed' = TRUE /\ UNCHANGED <<pc, why>>
  <2>1. /\ Len(paths) \in Nat /\ i \in Nat /\ at \in Nat
        /\ \A j \in Indices : j \in Nat /\ paths[j + 1] \in Paths
        /\ \A j, k \in Indices : paths[j + 1] = paths[k + 1] => j = k
        /\ i \in Indices
    BY <1>1, <1>2, InfoPaths
  <2>2. /\ \A j : Offsets(j)' = Offsets(j)
        /\ \A q : Listed(q)' = Listed(q)
        /\ \A k : Place(k)' = Place(k)
        /\ Indices' = Indices /\ ReadsAll' = ReadsAll
    BY <1>1 DEF Offsets, Listed, Place, Indices, ReadsAll
  <2>3. \A j \in Indices : /\ Opened(j) <=> j < i
                           /\ Opened(j)' <=> j < i + 1
                           /\ \A o : (WasRead(j, o) <=> j < i) /\ (WasRead(j, o)' <=> j < i + 1)
    BY <1>1, <1>3 DEF Opened, WasRead
  <2>4. \A j \in Indices : (j < i => j < i + 1) /\ (j < i + 1 => j < i \/ j = i)
    BY <2>1
  <2>5. Offsets(i) = {}
    <3>1. seen[paths[i + 1]] = Gone
      <4>1. \A j \in Indices : paths[i + 1] = paths[j + 1] => ~Opened(j)
        BY <2>1, <2>3
      <4> QED BY <1>2, <2>1, <4>1 DEF Infos, OpenedChips
    <3> QED BY <3>1 DEF Offsets, Gone
  <2>6. OpenedChips'
    <3>1. i' <= Len(paths') /\ fd' = "none"
      BY <1>1, <1>3, <2>1
    <3>2. \A p \in Paths : seen[p] # Gone => \E j \in Indices : p = paths[j + 1] /\ Opened(j)'
      BY <1>2, <2>3, <2>4 DEF Infos, OpenedChips
    <3> QED BY <1>1, <1>3, <2>2, <3>1, <3>2 DEF OpenedChips
  <2>7. ListedOnce'
    <3>1. \A x \in DOMAIN listed : \E j \in Indices : \E o \in Offsets(j) :
            WasRead(j, o)' /\ listed[x] = <<paths[j + 1], o>>
      BY <1>2, <2>3, <2>4 DEF Infos, ListedOnce
    <3> QED BY <1>1, <1>2, <2>2, <3>1 DEF Infos, ListedOnce
  <2>8. FoundAsNamed'
    <3>1. \A n, j, o : StandsFor(n, j, o) => StandsFor(n, j, o)'
      BY <1>1, <2>2, <2>3, <2>4 DEF StandsFor
    <3> QED BY <1>1, <1>2, <3>1 DEF Infos, FoundAsNamed
  <2>9. ListedFound'
    BY <1>1, <1>2, <2>2 DEF Infos, ListedFound
  <2>10. FoundListed'
    <3> SUFFICES ASSUME args.strict, NEW k \in DOMAIN lines, lines[k].resolved
                 PROVE  Listed(Place(k))
      BY <1>1, <2>2 DEF FoundListed
    <3>1. StandsFor(args.ids[k], lines[k].chip, lines[k].offset)
      BY <1>2 DEF Infos, FoundAsNamed
    <3>2. WasRead(lines[k].chip, lines[k].offset)
      BY <2>3, <3>1 DEF StandsFor
    <3> QED BY <1>2, <3>2 DEF Infos, FoundListed
  <2>11. ReadListed'
    <3> SUFFICES ASSUME ReadsAll, NEW j \in Indices, NEW o \in Offsets(j), WasRead(j, o)',
                        args.ids = <<>> \/ \E k \in DOMAIN args.ids :
                                             seen[paths[j + 1]][o + 1] = args.ids[k]
                 PROVE  Listed(<<paths[j + 1], o>>)
      BY <1>1, <2>2 DEF ReadListed
    <3>1. j < i \/ j = i
      BY <2>3, <2>4
    <3>2. WasRead(j, o)
      BY <2>3, <2>5, <3>1
    <3> QED BY <1>2, <3>2 DEF Infos, ReadListed
  <2> QED BY <1>2, <1>3, <2>6, <2>7, <2>8, <2>9, <2>10, <2>11 DEF IInv, Infos, InfoListsNamed
<1>4. CASE pc' = "exit" /\ why' = "failed"
  BY <1>4, OtherInfo
<1> QED BY <1>3, <1>4 DEF InfoOpenFails, Die

\* A chip is closed with all its lines read, unless all ids were found.
LEMMA CloseInfo ==
  ASSUME LInv, IInv, Program, InfoClose
  PROVE  IInv'
<1>1. /\ pc = "info" /\ pc' = "info" /\ fd # "none" /\ fd' = "none" /\ i' = i + 1
      /\ at = NumLines \/ InfoDone
      /\ UNCHANGED <<args, why, paths, at, lines, found, seen, listed, failed, reading>>
  BY DEF InfoClose, gvars
<1>2. reading = "gpioinfo" /\ Infos /\ why = "running"
  BY <1>1 DEF Program, Searching, Polling, IInv
<1>3. i < Len(paths)
  BY <1>1, <1>2 DEF Infos, OpenedChips
<1>4. /\ Len(paths) \in Nat /\ i \in Nat /\ at \in Nat
      /\ \A j \in Indices : j \in Nat /\ paths[j + 1] \in Paths
      /\ i \in Indices /\ Path = paths[i + 1]
      /\ DOMAIN lines = DOMAIN args.ids
  BY <1>2, <1>3, InfoPaths
<1>5. /\ \A j : Offsets(j)' = Offsets(j)
      /\ \A q : Listed(q)' = Listed(q)
      /\ \A k : Place(k)' = Place(k)
      /\ Indices' = Indices /\ ReadsAll' = ReadsAll
  BY <1>1 DEF Offsets, Listed, Place, Indices, ReadsAll
<1>6. ReadsAll => at = NumLines
  <2>1. args.ids = <<>> => lines = <<>>
    <3>1. lines \in Seq(LineRec) /\ Len(lines) = Len(args.ids)
      BY DEF LInv, SearchShape
    <3> QED BY <3>1
  <2> QED BY <1>1, <2>1 DEF ReadsAll, InfoDone, Done
<1>7. \A j \in Indices : /\ Opened(j) <=> j < i \/ j = i
                         /\ Opened(j)' <=> j < i + 1
                         /\ \A o : WasRead(j, o)' <=> j < i + 1
  BY <1>1 DEF Opened, WasRead
<1>8. \A j \in Indices : (j < i \/ j = i) <=> j < i + 1
  BY <1>4
<1>9. \A j \in Indices : \A o \in Offsets(j) : WasRead(j, o) => j < i + 1
  BY <1>8 DEF WasRead
<1>10. ASSUME ReadsAll, NEW j \in Indices, NEW o \in Offsets(j), j < i + 1 PROVE WasRead(j, o)
  <2>1. CASE j < i
    BY <2>1 DEF WasRead
  <2>2. CASE j = i
    <3>1. o < at
      BY <1>4, <1>6, <1>10, <2>2 DEF Offsets, NumLines
    <3> QED BY <1>1, <2>2, <3>1 DEF WasRead
  <2> QED BY <1>8, <1>10, <2>1, <2>2
<1>11. OpenedChips'
  <2>1. i' <= Len(paths') /\ fd' = "none"
    BY <1>1, <1>3, <1>4
  <2>2. \A p \in Paths : seen[p] # Gone => \E j \in Indices : p = paths[j + 1] /\ Opened(j)'
    BY <1>2, <1>7, <1>8 DEF Infos, OpenedChips
  <2>3. ~failed => \A j \in Indices : Opened(j)' => seen[paths[j + 1]] # Gone
    BY <1>2, <1>7, <1>8 DEF Infos, OpenedChips
  <2> QED BY <1>1, <1>5, <2>1, <2>2, <2>3 DEF OpenedChips
<1>12. ListedOnce'
  <2>1. \A x \in DOMAIN listed : \E j \in Indices : \E o \in Offsets(j) :
          WasRead(j, o)' /\ listed[x] = <<paths[j + 1], o>>
    BY <1>2, <1>7, <1>9 DEF Infos, ListedOnce
  <2> QED BY <1>1, <1>2, <1>5, <2>1 DEF Infos, ListedOnce
<1>13. FoundAsNamed'
  <2>1. \A n, j, o : StandsFor(n, j, o) => StandsFor(n, j, o)'
    BY <1>1, <1>5, <1>7, <1>8 DEF StandsFor
  <2> QED BY <1>1, <1>2, <2>1 DEF Infos, FoundAsNamed
<1>14. ListedFound'
  BY <1>1, <1>2, <1>5 DEF Infos, ListedFound
<1>15. FoundListed'
  <2> SUFFICES ASSUME args.strict, NEW k \in DOMAIN lines, lines[k].resolved
               PROVE  Listed(Place(k))
    BY <1>1, <1>5 DEF FoundListed
  <2>1. StandsFor(args.ids[k], lines[k].chip, lines[k].offset)
    BY <1>2 DEF Infos, FoundAsNamed
  <2>2. WasRead(lines[k].chip, lines[k].offset)
    BY <1>7, <1>8, <1>10, <2>1 DEF StandsFor, ReadsAll
  <2> QED BY <1>2, <2>2 DEF Infos, FoundListed
<1>16. ReadListed'
  <2> SUFFICES ASSUME ReadsAll, NEW j \in Indices, NEW o \in Offsets(j), WasRead(j, o)',
                      args.ids = <<>> \/ \E k \in DOMAIN args.ids :
                                           seen[paths[j + 1]][o + 1] = args.ids[k]
               PROVE  Listed(<<paths[j + 1], o>>)
    BY <1>1, <1>5 DEF ReadListed
  <2>1. WasRead(j, o)
    BY <1>7, <1>10
  <2> QED BY <1>2, <2>1 DEF Infos, ReadListed
<1> QED BY <1>1, <1>2, <1>11, <1>12, <1>13, <1>14, <1>15, <1>16
        DEF IInv, Infos, InfoListsNamed

\* A line is read: it is printed if it was asked for, and was not printed before.
LEMMA LineInfo ==
  ASSUME LInv, IInv, Program, InfoLine
  PROVE  IInv'
<1>1. /\ pc = "info" /\ pc' = "info" /\ fd = "live" /\ at < NumLines /\ ~InfoDone
      /\ lines' = InfoResolved /\ at' = at + 1
      /\ IF InfoMatches
           THEN listed' = Append(listed, <<Path, at>>) /\ found' = found + 1
           ELSE UNCHANGED <<listed, found>>
      /\ UNCHANGED <<args, why, paths, i, fd, seen, failed, reading>>
  BY DEF InfoLine
<1>2. reading = "gpioinfo" /\ Infos /\ why = "running"
  BY <1>1 DEF Program, Searching, Polling, IInv
<1>3. i < Len(paths)
  BY <1>1, <1>2 DEF Infos, OpenedChips
<1>4. /\ Len(paths) \in Nat /\ i \in Nat /\ at \in Nat
      /\ \A j \in Indices : j \in Nat /\ paths[j + 1] \in Paths
      /\ \A j, k \in Indices : paths[j + 1] = paths[k + 1] => j = k
      /\ i \in Indices /\ Path = paths[i + 1]
      /\ DOMAIN lines = DOMAIN args.ids
      /\ \A k \in DOMAIN lines : lines[k] \in LineRec
      /\ Len(seen[Path]) \in Nat
  BY <1>2, <1>3, InfoPaths
<1> DEFINE new == <<paths[i + 1], at>>
           Now(q) == \E x \in DOMAIN listed' : listed'[x] = q
<1>5. /\ \A j : Offsets(j)' = Offsets(j) /\ Opened(j)' = Opened(j)
      /\ Indices' = Indices /\ ReadsAll' = ReadsAll
  BY <1>1 DEF Offsets, Opened, Indices, ReadsAll
<1>6. \A j \in Indices : \A o \in Nat :
        /\ WasRead(j, o) => WasRead(j, o)'
        /\ WasRead(j, o)' => WasRead(j, o) \/ (j = i /\ o = at)
  BY <1>1, <1>4 DEF WasRead
<1>7. /\ at \in Offsets(i) /\ ~WasRead(i, at) /\ Opened(i)
      /\ \A j, o : j = i /\ o = at => WasRead(j, o)'
  <2>1. at \in Offsets(i) /\ Opened(i)
    BY <1>1, <1>4 DEF Offsets, NumLines, Opened
  <2>2. i < i => FALSE
    BY <1>4
  <2>3. ~WasRead(i, at)
    BY <1>4, <2>2 DEF WasRead
  <2>4. at < at + 1
    BY <1>4
  <2> QED BY <1>1, <2>1, <2>3, <2>4 DEF WasRead
<1>8. \A j : \A o \in Offsets(j) : o \in Nat
  BY DEF Offsets
<1>9. /\ DOMAIN lines' = DOMAIN lines
      /\ \A k \in DOMAIN lines : InfoByName(k) =>
           lines'[k].resolved /\ lines'[k].chip = i /\ lines'[k].offset = at
      /\ \A k \in DOMAIN lines : ~InfoByName(k) => lines'[k] = lines[k]
  BY <1>1 DEF InfoResolved
<1>10. PICK S : listed \in Seq(S)
  BY <1>2 DEF Infos, ListedOnce
<1>11. /\ \A q : Listed(q) => Now(q)
       /\ InfoMatches => Now(new)
       /\ \A x \in DOMAIN listed' : \/ x \in DOMAIN listed /\ listed'[x] = listed[x]
                                    \/ InfoMatches /\ listed'[x] = new
  <2>1. CASE InfoMatches
    <3>1. /\ listed' = Append(listed, new) /\ DOMAIN listed = 1 .. Len(listed)
          /\ Len(listed) \in Nat /\ DOMAIN listed' = 1 .. Len(listed) + 1
          /\ \A x \in 1 .. Len(listed) : listed'[x] = listed[x]
          /\ listed'[Len(listed) + 1] = new
      <4>1. listed' = Append(listed, new)
        BY <1>1, <1>4, <2>1
      <4> HIDE DEF new
      <4> QED BY <1>10, <4>1, ToldMore
    <3> HIDE DEF new
    <3>2. /\ Len(listed) + 1 \in DOMAIN listed' /\ \A x \in DOMAIN listed : x \in DOMAIN listed'
          /\ \A x \in DOMAIN listed' : x \in DOMAIN listed \/ x = Len(listed) + 1
      BY <3>1
    <3> QED BY <2>1, <3>1, <3>2 DEF Listed
  <2>2. CASE ~InfoMatches
    BY <1>1, <2>2 DEF Listed
  <2> QED BY <2>1, <2>2
<1>12. ~Listed(new)
  <2> SUFFICES ASSUME NEW x \in DOMAIN listed, listed[x] = new PROVE FALSE
    BY DEF Listed
  <2>1. PICK j \in Indices : \E o \in Offsets(j) : WasRead(j, o) /\ listed[x] = <<paths[j + 1], o>>
    BY <1>2 DEF Infos, ListedOnce
  <2>2. PICK o \in Offsets(j) : WasRead(j, o) /\ listed[x] = <<paths[j + 1], o>>
    BY <2>1
  <2>3. paths[j + 1] = paths[i + 1] /\ o = at
    BY <2>2
  <2>4. j = i
    BY <1>4, <2>3
  <2> QED BY <1>7, <2>2, <2>3, <2>4
<1>13. OpenedChips'
  <2>1. at' <= Len(seen'[paths'[i' + 1]])
    BY <1>1, <1>4 DEF NumLines
  <2> QED BY <1>1, <1>2, <1>5, <2>1 DEF Infos, OpenedChips
<1>14. ListedOnce'
  <2>1. (\E T : listed' \in Seq(T)) /\ found' = Len(listed')
    <3>1. CASE InfoMatches
      <4>1. listed' = Append(listed, new) /\ found' = Len(listed) + 1
        BY <1>1, <1>2, <1>4, <3>1 DEF Infos, ListedOnce
      <4> HIDE DEF new
      <4> QED BY <1>10, <4>1, ToldMore
    <3>2. CASE ~InfoMatches
      BY <1>1, <1>2, <3>2 DEF Infos, ListedOnce
    <3> QED BY <3>1, <3>2
  <2>2. Once(listed')
    <3>1. CASE InfoMatches
      <4>1. listed' = Append(listed, new)
        BY <1>1, <1>4, <3>1
      <4>2. /\ DOMAIN listed = 1 .. Len(listed) /\ Len(listed) \in Nat
            /\ DOMAIN listed' = 1 .. Len(listed) + 1
            /\ \A x \in 1 .. Len(listed) : listed'[x] = listed[x]
            /\ listed'[Len(listed) + 1] = new
        <5> HIDE DEF new
        <5> QED BY <1>10, <4>1, ToldMore
      <4> HIDE DEF new
      <4>3. \A x \in DOMAIN listed' : x \in DOMAIN listed \/ x = Len(listed) + 1
        BY <4>2
      <4>4. \A x \in DOMAIN listed : listed[x] # new
        BY <1>12 DEF Listed
      <4>5. Once(listed)
        BY <1>2 DEF Infos, ListedOnce
      <4> QED BY <4>2, <4>3, <4>4, <4>5 DEF Once
    <3>2. CASE ~InfoMatches
      BY <1>1, <1>2, <3>2 DEF Infos, ListedOnce
    <3> QED BY <3>1, <3>2
  <2>3. ASSUME NEW x \in DOMAIN listed'
        PROVE  \E j \in Indices : \E o \in Offsets(j) :
                 WasRead(j, o)' /\ listed'[x] = <<paths[j + 1], o>>
    <3>1. CASE x \in DOMAIN listed /\ listed'[x] = listed[x]
      <4>1. PICK j \in Indices : \E o \in Offsets(j) : WasRead(j, o) /\ listed[x] = <<paths[j + 1], o>>
        BY <1>2, <3>1 DEF Infos, ListedOnce
      <4>2. PICK o \in Offsets(j) : WasRead(j, o) /\ listed[x] = <<paths[j + 1], o>>
        BY <4>1
      <4> QED BY <1>6, <1>8, <3>1, <4>2
    <3>2. CASE listed'[x] = new
      BY <1>4, <1>7, <3>2
    <3> QED BY <1>11, <3>1, <3>2
  <2> QED BY <1>1, <1>5, <2>1, <2>2, <2>3 DEF ListedOnce
<1>15. FoundAsNamed'
  <2> SUFFICES ASSUME NEW k \in DOMAIN lines, lines'[k].resolved
               PROVE  StandsFor(args.ids[k], lines[k].chip, lines[k].offset)'
    BY <1>1, <1>9 DEF FoundAsNamed
  <2>1. CASE InfoByName(k)
    <3>1. lines'[k].chip = i /\ lines'[k].offset = at
      BY <1>9, <2>1
    <3>2. seen[paths[i + 1]][at + 1] = args.ids[k]
      BY <1>4, <2>1 DEF InfoByName, HasName
    <3> QED BY <1>1, <1>4, <1>5, <1>7, <3>1, <3>2 DEF StandsFor
  <2>2. CASE ~InfoByName(k)
    <3>1. lines'[k] = lines[k] /\ StandsFor(args.ids[k], lines[k].chip, lines[k].offset)
      BY <1>2, <1>9, <2>2 DEF Infos, FoundAsNamed
    <3> QED BY <1>1, <1>5, <3>1 DEF StandsFor
  <2> QED BY <2>1, <2>2
<1>16. ListedFound'
  <2> SUFFICES ASSUME ~args.strict, args.ids # <<>>, NEW x \in DOMAIN listed'
               PROVE  \E k \in DOMAIN lines : lines'[k].resolved /\ listed'[x] = Place(k)'
    BY <1>1, <1>9 DEF ListedFound
  <2>1. CASE x \in DOMAIN listed /\ listed'[x] = listed[x]
    <3>1. PICK k \in DOMAIN lines : lines[k].resolved /\ listed[x] = Place(k)
      BY <1>2, <2>1 DEF Infos, ListedFound
    <3>2. lines'[k] = lines[k]
      BY <1>9, <3>1 DEF InfoByName
    <3> QED BY <1>1, <2>1, <3>1, <3>2 DEF Place
  <2>2. CASE InfoMatches /\ listed'[x] = new
    <3>1. lines # <<>>
      <4>1. lines \in Seq(LineRec) /\ args.ids \in Seq(Names) /\ Len(lines) = Len(args.ids)
        BY DEF LInv, SearchShape
      <4> QED BY <4>1
    <3>2. PICK k \in DOMAIN lines : FoundByOffset(k) \/ InfoByName(k)
      BY <2>2, <3>1 DEF InfoMatches
    <3>3. CASE InfoByName(k)
      BY <1>1, <1>9, <2>2, <3>3 DEF Place
    <3>4. CASE ~InfoByName(k)
      <4>1. lines'[k] = lines[k]
        BY <1>9, <3>4
      <4>2. lines[k].resolved /\ lines[k].chip = i /\ lines[k].offset = at
        BY <3>2, <3>4 DEF FoundByOffset
      <4> QED BY <1>1, <2>2, <4>1, <4>2 DEF Place
    <3> QED BY <3>3, <3>4
  <2> QED BY <1>11, <2>1, <2>2
<1>17. FoundListed'
  <2> SUFFICES ASSUME args.strict, NEW k \in DOMAIN lines, lines'[k].resolved,
                      WasRead(lines[k].chip, lines[k].offset)'
               PROVE  Listed(Place(k))'
    BY <1>1, <1>9 DEF FoundListed
  <2>1. CASE InfoByName(k)
    <3>1. Place(k)' = new /\ InfoMatches
      BY <1>1, <1>9, <2>1 DEF Place, InfoMatches
    <3> QED BY <1>11, <3>1 DEF Listed
  <2>2. CASE ~InfoByName(k)
    <3>1. lines'[k] = lines[k] /\ Place(k)' = Place(k) /\ lines[k].resolved
      BY <1>1, <1>9, <2>2 DEF Place
    <3>2. /\ lines[k].chip \in Indices /\ lines[k].offset \in Nat
      BY <1>2, <1>8, <3>1 DEF Infos, FoundAsNamed, StandsFor
    <3>3. \/ WasRead(lines[k].chip, lines[k].offset)
          \/ lines[k].chip = i /\ lines[k].offset = at
      BY <1>1, <1>4, <3>1, <3>2 DEF WasRead
    <3>4. CASE WasRead(lines[k].chip, lines[k].offset)
      <4>1. Listed(Place(k))
        BY <1>2, <3>1, <3>4 DEF Infos, FoundListed
      <4> QED BY <1>11, <3>1, <4>1 DEF Listed
    <3>5. CASE lines[k].chip = i /\ lines[k].offset = at
      <4>1. InfoMatches /\ Place(k) = new
        BY <3>1, <3>5 DEF InfoMatches, FoundByOffset, Place
      <4> QED BY <1>11, <3>1, <4>1 DEF Listed
    <3> QED BY <3>3, <3>4, <3>5
  <2> QED BY <2>1, <2>2
<1>18. ReadListed'
  <2> SUFFICES ASSUME ReadsAll, NEW j \in Indices, NEW o \in Offsets(j), WasRead(j, o)',
                      args.ids = <<>> \/ \E k \in DOMAIN args.ids :
                                           seen[paths[j + 1]][o + 1] = args.ids[k]
               PROVE  Listed(<<paths[j + 1], o>>)'
    BY <1>1, <1>5 DEF ReadListed, Listed
  <2>1. CASE WasRead(j, o)
    <3>1. Listed(<<paths[j + 1], o>>)
      BY <1>2, <2>1 DEF Infos, ReadListed
    <3> QED BY <1>1, <1>11, <3>1 DEF Listed
  <2>2. CASE j = i /\ o = at
    <3>1. InfoMatches
      <4>1. CASE args.ids = <<>>
        <5>1. lines \in Seq(LineRec) /\ Len(lines) = Len(args.ids)
          BY DEF LInv, SearchShape
        <5>2. lines = <<>>
          BY <4>1, <5>1
        <5> QED BY <5>2 DEF InfoMatches
      <4>2. CASE args.ids # <<>>
        <5>1. PICK k \in DOMAIN lines : seen[Path][at + 1] = args.ids[k]
          BY <1>4, <2>2, <4>2
        <5>2. InfoByName(k)
          BY <4>2, <5>1 DEF InfoByName, HasName, ReadsAll
        <5> QED BY <5>2 DEF InfoMatches
      <4> QED BY <4>1, <4>2
    <3> QED BY <1>1, <1>11, <2>2, <3>1 DEF Listed
  <2> QED BY <1>6, <1>8, <2>1, <2>2
<1> QED BY <1>1, <1>2, <1>13, <1>14, <1>15, <1>16, <1>17, <1>18
        DEF IInv, Infos, InfoListsNamed

\* What there is to be seen of some paths.
LEMMA SeenPairs ==
  ASSUME NEW P
  PROVE  \A q : q \in LinesSeen(P) <=> \E p \in P : \E o \in 0 .. Len(seen[p]) - 1 : q = <<p, o>>
<1>1. ASSUME NEW q, q \in LinesSeen(P)
      PROVE  \E p \in P : \E o \in 0 .. Len(seen[p]) - 1 : q = <<p, o>>
  <2>1. PICK p \in P : q \in {p} \X (0 .. Len(seen[p]) - 1)
    BY <1>1 DEF LinesSeen
  <2> QED BY <2>1
<1>2. ASSUME NEW p \in P, NEW o \in 0 .. Len(seen[p]) - 1 PROVE <<p, o>> \in LinesSeen(P)
  <2>1. <<p, o>> \in {p} \X (0 .. Len(seen[p]) - 1)
    OBVIOUS
  <2> QED BY <2>1 DEF LinesSeen
<1> QED BY <1>1, <1>2

\* As many lines printed as ids given, and each printed for an id that stays with it:
\* then a line was printed for each id.
LEMMA OneForEach ==
  ASSUME NEW n \in Nat, NEW R,
         \A x \in 1 .. n : \E k \in 1 .. n : <<x, k>> \in R,
         \A x, y, k \in 1 .. n : <<x, k>> \in R /\ <<y, k>> \in R => x = y
  PROVE  \A k \in 1 .. n : \E x \in 1 .. n : <<x, k>> \in R
<1> DEFINE g == [x \in 1 .. n |-> CHOOSE k \in 1 .. n : <<x, k>> \in R]
<1>1. \A x \in 1 .. n : g[x] \in 1 .. n /\ <<x, g[x]>> \in R
  OBVIOUS
<1>2. g \in [1 .. n -> 1 .. n]
  BY <1>1
<1> HIDE DEF g
<1>3. g \in Injection(1 .. n, 1 .. n)
  BY <1>1, <1>2 DEF Injection, IsInjective
<1>4. IsFiniteSet(1 .. n) /\ Cardinality(1 .. n) = n
  BY FS_Interval
<1>5. g \in Surjection(1 .. n, 1 .. n)
  BY <1>3, <1>4, FS_Injection
<1> QED BY <1>1, <1>5 DEF Surjection

\* gpioinfo ends well when it has printed as many lines as it was given ids.
LEMMA EndInfo ==
  ASSUME LInv, IInv, Program, InfoEnd
  PROVE  IInv'
<1>1. /\ pc = "info" /\ pc' = "exit" /\ fd = "none" /\ i = Len(paths)
      /\ why' = IF ~ValidLines THEN "invalid"
                ELSE IF failed \/ ~AllFound THEN "failed" ELSE "ok"
      /\ UNCHANGED <<args, paths, lines, found, seen, listed, reading>>
  BY DEF InfoEnd, Die, LookupState, gvars
<1>2. reading = "gpioinfo" /\ Infos
  BY <1>1 DEF Program, Searching, Polling, IInv
<1>3. /\ Len(paths) \in Nat /\ i \in Nat
      /\ \A j \in Indices : j \in Nat /\ paths[j + 1] \in Paths
      /\ DOMAIN lines = DOMAIN args.ids
  BY <1>2, InfoPaths
<1>4. \A j \in Indices : j < i
  BY <1>1, <1>3 DEF Indices
<1>5. \A j \in Indices : Opened(j) /\ \A o : WasRead(j, o)
  BY <1>4 DEF Opened, WasRead
<1>6. paths \in Seq(Paths) /\ DOMAIN paths = 1 .. Len(paths)
  BY <1>2 DEF LInv, PathsOnce
<1>7. \A p : p \in Range(paths) <=> \E j \in Indices : p = paths[j + 1]
  <2>1. ASSUME NEW m \in DOMAIN paths PROVE \E j \in Indices : paths[m] = paths[j + 1]
    <3>1. m - 1 \in Indices /\ (m - 1) + 1 = m
      BY <1>3, <1>6 DEF Indices
    <3> QED BY <3>1
  <2>2. ASSUME NEW j \in Indices PROVE j + 1 \in DOMAIN paths
    BY <1>3, <1>6 DEF Indices
  <2> QED BY <2>1, <2>2 DEF Range
<1>8. \A q : q \in Range(listed) <=> Listed(q)
  BY DEF Range, Listed
<1>9. CASE ~(ValidLines /\ ~failed /\ AllFound)
  BY <1>1, <1>9, OtherInfo
<1>10. CASE ValidLines /\ ~failed /\ AllFound
  <2>1. \A j, k \in DOMAIN listed : j # k => listed[j] # listed[k]
    BY <1>2 DEF Infos, ListedOnce, Once
  <2>2. ASSUME args.ids # <<>> PROVE Len(listed) = Len(args.ids)
    BY <1>2, <1>10, <2>2 DEF AllFound, Infos, ListedOnce
  <2>3. ASSUME args.ids # <<>>, NEW k \in DOMAIN args.ids
        PROVE  \E q \in Range(listed) : q \in LinesNamed(args.ids[k]) \cup GivenOffset(args.ids[k])
    <3>1. lines[k].resolved
      BY <1>3, <1>10 DEF ValidLines
    <3>2. StandsFor(args.ids[k], lines[k].chip, lines[k].offset)
      BY <1>2, <1>3, <3>1 DEF Infos, FoundAsNamed
    <3>3. Place(k) \in LinesNamed(args.ids[k]) \cup GivenOffset(args.ids[k])
      <4> DEFINE p == paths[lines[k].chip + 1]
                 o == lines[k].offset
      <4>1. p \in Paths /\ o \in 0 .. Len(seen[p]) - 1 /\ Place(k) = <<p, o>>
        BY <1>3, <3>2 DEF StandsFor, Offsets, Place
      <4>2. \/ seen[p][o + 1] = args.ids[k]
            \/ ~args.byName /\ p = args.chip /\ AsOffset[args.ids[k]] = o
        BY <3>2 DEF StandsFor
      <4> HIDE DEF p, o
      <4>3. CASE seen[p][o + 1] = args.ids[k]
        <5>1. Place(k) \in LinesSeen(Paths)
          BY <4>1, SeenPairs
        <5>2. seen[Place(k)[1]][Place(k)[2] + 1] = args.ids[k]
          BY <4>1, <4>3
        <5> QED BY <5>1, <5>2 DEF LinesNamed
      <4>4. CASE ~args.byName /\ p = args.chip /\ AsOffset[args.ids[k]] = o
        BY <4>1, <4>4 DEF GivenOffset
      <4> QED BY <4>2, <4>3, <4>4
    <3>4. Listed(Place(k))
      <4>1. CASE args.strict
        BY <1>2, <1>3, <1>5, <3>1, <3>2, <4>1 DEF Infos, FoundListed, StandsFor
      <4>2. CASE ~args.strict
        <5> DEFINE n == Len(args.ids)
                   R == {xk \in (1 .. n) \X (1 .. n) : listed[xk[1]] = Place(xk[2])}
        <5>1. /\ n \in Nat /\ DOMAIN args.ids = 1 .. n /\ DOMAIN lines = 1 .. n
              /\ DOMAIN listed = 1 .. n
          <6>1. args.ids \in Seq(Names)
            BY DEF LInv, SearchShape
          <6>2. DOMAIN listed = 1 .. Len(listed)
            BY <1>2 DEF Infos, ListedOnce
          <6> QED BY <1>3, <2>2, <2>3, <6>1, <6>2
        <5>2. \A x \in 1 .. n : \E l \in 1 .. n : listed[x] = Place(l)
          BY <1>2, <2>3, <4>2, <5>1 DEF Infos, ListedFound
        <5> HIDE DEF n
        <5>3. \A x, l \in 1 .. n : <<x, l>> \in R <=> listed[x] = Place(l)
          OBVIOUS
        <5> HIDE DEF R
        <5>4. \A x \in 1 .. n : \E l \in 1 .. n : <<x, l>> \in R
          BY <5>2, <5>3
        <5>5. \A x, y, l \in 1 .. n : <<x, l>> \in R /\ <<y, l>> \in R => x = y
          BY <5>1, <5>3, <2>1
        <5>6. \A l \in 1 .. n : \E x \in 1 .. n : <<x, l>> \in R
          BY <5>1, <5>4, <5>5, OneForEach
        <5>7. PICK x \in 1 .. n : <<x, k>> \in R
          BY <2>3, <5>1, <5>6
        <5> QED BY <2>3, <5>1, <5>3, <5>7 DEF Listed
      <4> QED BY <4>1, <4>2
    <3> QED BY <1>8, <3>3, <3>4
  <2>4. ASSUME NEW j \in Indices, NEW o \in Offsets(j), ReadsAll,
               args.ids = <<>> \/ \E k \in DOMAIN args.ids : seen[paths[j + 1]][o + 1] = args.ids[k]
        PROVE  <<paths[j + 1], o>> \in Range(listed)
    BY <1>2, <1>5, <1>8, <2>4 DEF Infos, ReadListed
  <2>5. ASSUME args.strict, NEW id \in Range(args.ids), NEW q \in LinesNamed(id)
        PROVE  q \in Range(listed)
    <3>1. q \in LinesSeen(Paths) /\ seen[q[1]][q[2] + 1] = id
      BY DEF LinesNamed
    <3>2. PICK p \in Paths : \E o \in 0 .. Len(seen[p]) - 1 : q = <<p, o>>
      BY <3>1, SeenPairs
    <3>3. PICK o \in 0 .. Len(seen[p]) - 1 : q = <<p, o>>
      BY <3>2
    <3>4. seen[p] # Gone
      BY <3>3 DEF Gone
    <3>5. PICK j \in Indices : p = paths[j + 1]
      BY <1>2, <3>4 DEF Infos, OpenedChips
    <3>6. o \in Offsets(j) /\ seen[paths[j + 1]][o + 1] = id
      BY <3>1, <3>3, <3>5 DEF Offsets
    <3>7. \E k \in DOMAIN args.ids : args.ids[k] = id
      BY DEF Range
    <3> QED BY <2>4, <2>5, <3>3, <3>5, <3>6, <3>7 DEF ReadsAll
  <2>6. ASSUME NEW p \in Range(paths) PROVE seen[p] # Gone
    BY <1>2, <1>5, <1>7, <1>10 DEF Infos, OpenedChips
  <2>7. ASSUME args.ids = <<>> PROVE Range(listed) = LinesSeen(Range(paths))
    <3>1. ASSUME NEW q, Listed(q) PROVE q \in LinesSeen(Range(paths))
      <4>1. PICK j \in Indices : \E o \in Offsets(j) : q = <<paths[j + 1], o>>
        BY <1>2, <3>1 DEF Infos, ListedOnce, Listed
      <4>2. paths[j + 1] \in Range(paths)
        BY <1>7
      <4> QED BY <4>1, <4>2, SeenPairs DEF Offsets
    <3>2. ASSUME NEW q \in LinesSeen(Range(paths)) PROVE q \in Range(listed)
      <4>1. PICK p \in Range(paths) : \E o \in 0 .. Len(seen[p]) - 1 : q = <<p, o>>
        BY SeenPairs
      <4>2. PICK j \in Indices : p = paths[j + 1]
        BY <1>7
      <4> QED BY <2>4, <2>7, <4>1, <4>2 DEF Offsets, ReadsAll
    <3> QED BY <1>8, <3>1, <3>2
  <2>8. args.ids # <<>> =>
          /\ Len(listed) = Len(args.ids)
          /\ \A k \in DOMAIN args.ids : \E q \in Range(listed) :
               q \in LinesNamed(args.ids[k]) \cup GivenOffset(args.ids[k])
          /\ args.strict => \A id \in Range(args.ids) : LinesNamed(id) \subseteq Range(listed)
    BY <2>2, <2>3, <2>5
  <2>9. args.ids = <<>> \/ args.strict => \A p \in Range(paths) : seen[p] # Gone
    BY <2>6
  <2>10. InfoListsNamed'
    <3>1. /\ \A P : LinesSeen(P)' = LinesSeen(P)
          /\ \A n : LinesNamed(n)' = LinesNamed(n) /\ GivenOffset(n)' = GivenOffset(n)
          /\ Range(listed)' = Range(listed) /\ Range(paths)' = Range(paths)
      BY <1>1 DEF LinesSeen, LinesNamed, GivenOffset, Range
    <3> QED BY <1>1, <2>1, <2>7, <2>8, <2>9, <3>1 DEF InfoListsNamed
  <2> QED BY <1>1, <2>10 DEF IInv
<1> QED BY <1>9, <1>10


LEMMA InfoStep ==
  ASSUME LInv, IInv, Program, [Next]_vars
  PROVE  IInv'
<1>1. CASE UNCHANGED vars
  BY <1>1, QuietInfo DEF vars, rvars, gvars
<1>2. CASE Lookup
  <2>1. pc' # "info" /\ why' # "ok"
    BY <1>2, LookupProgram DEF Searching
  <2> QED BY <2>1, OtherInfo
<1>3. CASE EventNext /\ UNCHANGED gvars
  <2>1. UNCHANGED <<args, paths, i, at, fd, lines, seen, found, listed, failed, reading>>
    BY <1>3, EventProgram DEF gvars, LookupState
  <2>2. CASE UNCHANGED <<pc, why>>
    BY <2>1, <2>2, QuietInfo
  <2>3. CASE pc \in {"values"} \cup Polling
    <3>1. reading' # "gpioinfo"
      BY <2>1, <2>3 DEF Program, Searching
    <3>2. pc' # "info"
      BY <1>3, <2>3, EventProgram DEF Polling
    <3> QED BY <3>1, <3>2, OtherInfo
  <2> QED BY <1>3, <2>2, <2>3, EventProgram
<1>4. CASE GetNext \/ DetectNext
  <2>1. pc' # "info" /\ reading' # "gpioinfo"
    <3>1. CASE GetNext
      <4>1. pc = "values" \/ pc = "get"
        BY <3>1 DEF GetNext, GetStart, GetRequest, GetRequestFails, GetValues,
                    GetValuesFails, GetPrint
      <4> QED BY <3>1, <4>1, ReadingProgram DEF ReadingNext, Program
    <3>2. CASE DetectNext
      <4>1. \/ pc = "start" /\ pc' = "detect" /\ reading' = "gpiodetect"
            \/ pc = "detect"
        BY <3>2 DEF DetectNext, DetectStart, DetectChip, DetectEnd
      <4> QED BY <3>2, <4>1, ReadingProgram DEF ReadingNext, Program
    <3> QED BY <1>4, <3>1, <3>2
  <2> QED BY <2>1, OtherInfo
<1>5. ASSUME NEW ids \in IdLists \cup {<<>>}, NEW c \in Paths \cup {NoChip},
             NEW s \in BOOLEAN, NEW b \in BOOLEAN, InfoStart(ids, c, s, b)
      PROVE  IInv'
  <2>1. ids \in Seq(Names)
    <3>1. IdLists \subseteq Seq(Names)
      BY ResolverAssumption DEF ResolverAssumption
    <3>2. <<>> \in Seq(Names)
      OBVIOUS
    <3> QED BY <3>1, <3>2
  <2>2. why = "running"
    BY <1>5 DEF InfoStart, Program
  <2> QED BY <1>5, <2>1, <2>2, BeginInfo
<1>6. CASE InfoOpen
  BY <1>6, OpenInfo
<1>7. CASE InfoOpenFails
  BY <1>7, PassInfo
<1>8. CASE InfoLine
  BY <1>8, LineInfo
<1>9. CASE InfoLineFails
  <2>1. pc' # "info" /\ why' # "ok"
    BY <1>9 DEF InfoLineFails, Die
  <2> QED BY <2>1, OtherInfo
<1>10. CASE InfoClose
  BY <1>10, CloseInfo
<1>11. CASE InfoEnd
  BY <1>11, EndInfo
<1>12. ASSUME NEW p \in Paths, NEW layout \in Replacements \cup {Gone}, DeviceChanges(p, layout)
       PROVE  IInv'
  <2>1. /\ UNCHANGED <<args, paths, i, at, lines, seen, found, listed, failed, reading>>
        /\ UNCHANGED <<pc, why>>
    BY <1>12, DeviceProgram
  <2>2. fd' = IF fd = "live" /\ Path = p THEN "dead" ELSE fd
    BY <1>12 DEF DeviceChanges, Move
  <2> QED BY <2>1, <2>2, QuietInfo
<1> QED BY <1>1, <1>2, <1>3, <1>4, <1>5, <1>6, <1>7, <1>8, <1>9, <1>10, <1>11, <1>12
        DEF Next, ReadingNext, InfoNext

\* What is to come of file f are the numbers of the batch and then of the queue.
LEMMA ComingOf ==
  ASSUME EInv, NEW f \in DOMAIN files
  PROVE  /\ queue[f] \in Seq(Event) /\ BatchOf(f) \in Seq(Event)
         /\ \A k \in DOMAIN Coming(f) :
              \/ k \in DOMAIN BatchOf(f) /\ Coming(f)[k] = BatchOf(f)[k].n
              \/ /\ k > Len(BatchOf(f)) /\ k - Len(BatchOf(f)) \in DOMAIN queue[f]
                 /\ Coming(f)[k] = queue[f][k - Len(BatchOf(f))].n
<1> DEFINE b == BatchOf(f)
           q == queue[f]
<1>1. EventShape /\ DOMAIN queue = DOMAIN files /\ queue \in Seq(Seq(Event))
  BY DEF EInv, EventShape
<1>2. q \in Seq(Event)
  BY <1>1
<1>3. b \in Seq(Event)
  <2>1. <<>> \in Seq(Event)
    OBVIOUS
  <2> QED BY <1>1, <2>1 DEF EventShape, BatchOf
<1>4. Unprinted(f) = Numbers(b)
  <2>1. Numbers(<<>>) = <<>>
    BY DEF Numbers
  <2> QED BY <2>1 DEF Unprinted, BatchOf
<1>5. Coming(f) = Numbers(b) \o Numbers(q)
  BY <1>4 DEF Coming
<1> HIDE DEF b, q
<1>6. ASSUME NEW s \in Seq(Event)
      PROVE  /\ Numbers(s) \in Seq(Nat) /\ Len(Numbers(s)) = Len(s)
             /\ \A j \in DOMAIN s : Numbers(s)[j] = s[j].n
  <2>1. DOMAIN s = 1 .. Len(s) /\ Len(s) \in Nat
    OBVIOUS
  <2>2. \A j \in DOMAIN s : s[j].n \in Nat
    <3>1. \A j \in DOMAIN s : s[j] \in Event
      OBVIOUS
    <3>2. \A e \in Event : e.n \in Nat
      BY DEF Event
    <3> QED BY <3>1, <3>2
  <2>3. Numbers(s) \in [1 .. Len(s) -> Nat]
    BY <2>1, <2>2 DEF Numbers
  <2> QED BY <2>1, <2>3 DEF Numbers
<1>7. /\ DOMAIN Coming(f) = 1 .. Len(b) + Len(q)
      /\ \A k \in 1 .. Len(b) + Len(q) :
           Coming(f)[k] = IF k <= Len(b) THEN Numbers(b)[k] ELSE Numbers(q)[k - Len(b)]
  <2>1. Numbers(b) \in Seq(Nat) /\ Len(Numbers(b)) = Len(b)
        /\ Numbers(q) \in Seq(Nat) /\ Len(Numbers(q)) = Len(q)
    BY <1>2, <1>3, <1>6
  <2>2. ASSUME NEW s \in Seq(Nat), NEW t \in Seq(Nat)
        PROVE  /\ DOMAIN (s \o t) = 1 .. Len(s) + Len(t)
               /\ \A k \in 1 .. Len(s) + Len(t) :
                    (s \o t)[k] = IF k <= Len(s) THEN s[k] ELSE t[k - Len(s)]
    OBVIOUS
  <2>3. PICK s \in Seq(Nat) : s = Numbers(b)
    BY <2>1
  <2>4. PICK t \in Seq(Nat) : t = Numbers(q)
    BY <2>1
  <2>5. Coming(f) = s \o t /\ Len(s) = Len(b) /\ Len(t) = Len(q)
    BY <1>5, <2>1, <2>3, <2>4
  <2>6. /\ DOMAIN Coming(f) = 1 .. Len(s) + Len(t)
        /\ \A k \in 1 .. Len(s) + Len(t) :
             Coming(f)[k] = IF k <= Len(s) THEN s[k] ELSE t[k - Len(s)]
    BY <2>2, <2>5, ZenonT(60)
  <2> QED BY <2>3, <2>4, <2>5, <2>6
<1>8. ASSUME NEW k \in DOMAIN Coming(f)
      PROVE  \/ k \in DOMAIN b /\ Coming(f)[k] = b[k].n
             \/ k > Len(b) /\ k - Len(b) \in DOMAIN q /\ Coming(f)[k] = q[k - Len(b)].n
  <2>1. DOMAIN b = 1 .. Len(b) /\ DOMAIN q = 1 .. Len(q) /\ Len(b) \in Nat /\ Len(q) \in Nat
        /\ k \in 1 .. Len(b) + Len(q)
    BY <1>2, <1>3, <1>7
  <2>2. CASE k <= Len(b)
    <3>1. k \in DOMAIN b
      BY <2>1, <2>2
    <3> QED BY <1>3, <1>6, <1>7, <2>1, <2>2, <3>1
  <2>3. CASE ~(k <= Len(b))
    <3>1. k > Len(b) /\ k - Len(b) \in DOMAIN q
      BY <2>1, <2>3
    <3> QED BY <1>2, <1>6, <1>7, <2>1, <2>3, <3>1
  <2> QED BY <2>2, <2>3
<1> QED BY <1>2, <1>3, <1>8 DEF b, q

LEMMA AllAccounted == EInv => NothingSkipped
<1> SUFFICES ASSUME EInv, NEW f \in DOMAIN files
             PROVE  /\ InOrder(f) /\ EventsOf(f) = 1 .. made[f]
                    /\ opts.type = AnyType => passed[f] = {}
  BY DEF NothingSkipped
<1> DEFINE b == BatchOf(f)
           q == queue[f]
<1>1. Ordered(f) /\ Tallied(f) /\ (opts.type = AnyType => passed[f] = {})
  BY DEF EInv, Accounted
<1>2. EventsOf(f) = 1 .. made[f]
  <2>1. ASSUME NEW x PROVE x \in EventsOf(f) <=> x \in 1 .. made[f]
    BY <1>1 DEF Tallied, EventsOf, Among, BatchOf
  <2> QED BY <2>1
<1>3. /\ q \in Seq(Event) /\ b \in Seq(Event)
      /\ \A k \in DOMAIN Coming(f) :
           \/ k \in DOMAIN b /\ Coming(f)[k] = b[k].n
           \/ k > Len(b) /\ k - Len(b) \in DOMAIN q /\ Coming(f)[k] = q[k - Len(b)].n
  BY ComingOf
<1>4. /\ Sorted(q) /\ Sorted(b) /\ Before(b, q)
      /\ \A j \in DOMAIN told : told[j].file = f => Less(told[j].n, q) /\ Less(told[j].n, b)
      /\ \A j, k \in DOMAIN told :
           told[j].file = f /\ told[k].file = f /\ j < k => told[j].n < told[k].n
  BY <1>1 DEF Ordered
<1>5. ASSUME NEW k \in DOMAIN Coming(f) PROVE k \in Int
  <2>1. CASE k \in DOMAIN b
    BY <1>3, <2>1
  <2>2. CASE k \notin DOMAIN b
    <3>1. Coming(f) = Unprinted(f) \o Numbers(q) /\ DOMAIN Coming(f) = 1 .. Len(Coming(f))
      BY DEF Coming
    <3> QED BY <3>1
  <2> QED BY <2>1, <2>2
<1>5a. Len(b) \in Nat /\ DOMAIN b = 1 .. Len(b)
  BY <1>3
<1> HIDE DEF b, q
<1>6. ASSUME NEW j \in DOMAIN Coming(f), NEW k \in DOMAIN Coming(f), j < k
      PROVE  Coming(f)[j] < Coming(f)[k]
  <2>1. CASE j \in DOMAIN b /\ Coming(f)[j] = b[j].n
    <3>1. CASE k \in DOMAIN b /\ Coming(f)[k] = b[k].n
      BY <1>4, <1>6, <2>1, <3>1 DEF Sorted
    <3>2. CASE k - Len(b) \in DOMAIN q /\ Coming(f)[k] = q[k - Len(b)].n
      BY <1>4, <2>1, <3>2 DEF Before, Less
    <3> QED BY <1>3, <3>1, <3>2
  <2>2. CASE j > Len(b) /\ j - Len(b) \in DOMAIN q /\ Coming(f)[j] = q[j - Len(b)].n
    <3>1. k \notin DOMAIN b /\ j - Len(b) < k - Len(b)
      BY <1>5, <1>5a, <1>6, <2>2
    <3>2. k - Len(b) \in DOMAIN q /\ Coming(f)[k] = q[k - Len(b)].n
      BY <1>3, <3>1
    <3> QED BY <1>4, <2>2, <3>1, <3>2 DEF Sorted
  <2> QED BY <1>3, <2>1, <2>2
<1>7. ASSUME NEW j \in DOMAIN told, told[j].file = f, NEW k \in DOMAIN Coming(f)
      PROVE  told[j].n < Coming(f)[k]
  BY <1>3, <1>4, <1>7 DEF Less
<1>8. InOrder(f)
  BY <1>4, <1>6, <1>7 DEF InOrder, Increasing
<1> QED BY <1>1, <1>2, <1>8

-----------------------------------------------------------------------------
(* The theorems *)

OInv == Program /\ LInv /\ GInv /\ IInv /\ EInv

LEMMA Invariance == Spec => []OInv
<1>1. Init => OInv
  <2>1. Init => GInv
    BY DEF Init, ResolverInit, ReadingInit, GInv, ReadIsTold, Unread, Paths
  <2>2. Init => IInv
    BY DEF Init, ResolverInit, IInv, InfoListsNamed
  <2> QED BY <2>1, <2>2, ProgramInit, SearchInit, EventInitial DEF OInv
<1>2. OInv /\ [Next]_vars => OInv'
  BY ProgramStep, SearchStep, GetStep, InfoStep, EventsStep DEF OInv
<1> QED BY <1>1, <1>2, PTL DEF Spec

\* gpiomon and gpionotify print each event once and in order, or it waits in the buffer or
\* the queue, or is of another type, or was dropped by a full queue: for files, batches and
\* queues of any number and size.
THEOREM EachEventOnce == Spec => []NothingSkipped
<1>1. OInv => NothingSkipped
  BY AllAccounted DEF OInv
<1> QED BY <1>1, Invariance, PTL

\* They print no more events than were wanted, and end well only when they have printed
\* that many, or when the idle timeout was asked for.
THEOREM EndsForCause == Spec => []StopsForCause
<1>1. OInv => StopsForCause
  BY DEF OInv, EInv, CountInv
<1> QED BY <1>1, Invariance, PTL

\* gpioget prints for each id the level that was read of the line it was resolved to.
THEOREM LevelsTold == Spec => []ReadIsTold
<1>1. OInv => ReadIsTold
  BY DEF OInv, GInv
<1> QED BY <1>1, Invariance, PTL

\* gpioinfo that ends well has printed the lines its ids stand for, each once and no other,
\* although it prints while it searches and may stop reading once it has found them all.
THEOREM LinesListed == Spec => []InfoListsNamed
<1>1. OInv => InfoListsNamed
  BY DEF OInv, IInv
<1> QED BY <1>1, Invariance, PTL
=================================================================================
