--------------------------- MODULE GpioManagerProofs ----------------------------
(***************************************************************************)
(* Proofs about the daemon, for any chips and lines, any number of plugs,  *)
(* deaths and requests, and queues of any length: its tables, line objects *)
(* and request ids agree with each other and with the kernel's lines, once *)
(* it has heard of every chip it exports those there are, and once it has  *)
(* heard of every line its objects say which are used.                     *)
(***************************************************************************)
EXTENDS GpioManager, FiniteSetTheorems, WellFoundedInduction, TLAPS

USE ManagerAssumption DEF ManagerAssumption

Uevent == [action : {"bind", "unbind"}, chip : Chips]

\* Types of the tables.
Shape ==
  /\ present \in [Chips -> Nat] /\ plugs \in [Chips -> Nat] /\ chips \in [Chips -> Nat]
  /\ \A c \in Chips : present[c] <= plugs[c] /\ chips[c] <= plugs[c]
  /\ owner \in [Chips -> [Lines -> Holders]]
  /\ DOMAIN lines = Chips
  /\ \A c \in Chips : DOMAIN lines[c] = Lines
  /\ \A c \in Chips, l \in Lines :
       /\ DOMAIN lines[c][l] = {"used", "managed", "path"}
       /\ lines[c][l].managed \in BOOLEAN /\ lines[c][l].path \in Ids \cup {NoPath}
  /\ DOMAIN reqs \subseteq Ids
  /\ \A id \in DOMAIN reqs :
       reqs[id] \in [chip : Chips, inst : Nat \ {0}, held : SUBSET Lines]

\* A request is on a chip that is exported, on the instance that is.
OnExported == \A id \in DOMAIN reqs : chips[reqs[id].chip] = reqs[id].inst

\* The inductive invariant of the tables.
TInv == Shape /\ OnExported /\ ManagedMirrors /\ OwnershipMatches /\ IdsMatch

-----------------------------------------------------------------------------
(* Ids *)

\* A non-empty set of naturals has a least element.
LEMMA Least ==
  ASSUME NEW T \in SUBSET Nat, T # {}
  PROVE  \E x \in T : \A y \in T : x <= y
<1> DEFINE R == OpToRel(<, Nat)
<1>1. IsWellFoundedOn(R, Nat)
  BY NatLessThanWellFounded
<1>2. \E x \in T : \A y \in T : ~(<<y, x>> \in R)
  <2> HIDE DEF R
  <2> QED BY <1>1, WFMin
<1>3. PICK x \in T : \A y \in T : ~(<<y, x>> \in R)
  BY <1>2
<1>4. \A y \in T : ~(y < x)
  BY <1>3 DEF OpToRel
<1> QED BY <1>4

\* An id is neither of the marks for no request.
LEMMA IdsAreIds == \A i \in Ids : i # Nobody /\ i # NoPath /\ i # Other
BY DEF Ids, Nobody, NoPath, Other

\* gpiodbus_id_alloc returns an id that is not in use.
LEMMA AllocFresh ==
  ASSUME ids \subseteq Ids
  PROVE  IdAlloc \in Nat /\ IdAlloc \notin ids
<1> DEFINE T == {i \in 0..(MaxReq + 1) : i \notin ids}
<1>1. T \subseteq Nat /\ MaxReq + 1 \in T
  BY DEF Ids
<1>2. PICK x \in T : \A y \in T : x <= y
  <2> HIDE DEF T
  <2> QED BY <1>1, Least
<1>3. \A j \in 0..(x - 1) : j \in ids
  <2> TAKE j \in 0..(x - 1)
  <2>1. j \in 0..(MaxReq + 1) /\ ~(x <= j)
    OBVIOUS
  <2> QED BY <1>2, <2>1
<1>4. \E i \in 0..(MaxReq + 1) : i \notin ids /\ \A j \in 0..(i - 1) : j \in ids
  BY <1>3
<1> QED BY <1>4 DEF IdAlloc

-----------------------------------------------------------------------------
(* The tables *)

LEMMA Blank ==
  /\ DOMAIN BlankLine = {"used", "managed", "path"}
  /\ BlankLine.managed \in BOOLEAN /\ ~BlankLine.managed /\ BlankLine.path = NoPath
  /\ \A c, l : /\ DOMAIN ExportedLine(c, l) = {"used", "managed", "path"}
               /\ ExportedLine(c, l).managed \in BOOLEAN /\ ~ExportedLine(c, l).managed
               /\ ExportedLine(c, l).path = NoPath
BY DEF BlankLine, ExportedLine

LEMMA TablesInit == Init => TInv
<1> SUFFICES ASSUME Init PROVE TInv
  OBVIOUS
<1>1. DOMAIN reqs = {}
  BY DEF Init
<1>2. Shape
  <2>1. \A c \in Chips : present[c] \in {0, 1} /\ plugs[c] = present[c]
    BY DEF Init
  <2>2. present \in [Chips -> Nat] /\ plugs \in [Chips -> Nat]
    BY DEF Init
  <2>3. chips = [c \in Chips |-> 0] /\ owner = [c \in Chips |-> FreeLines]
    BY DEF Init
  <2>4. owner \in [Chips -> [Lines -> Holders]]
    BY <2>3 DEF FreeLines, Holders
  <2>5. lines = [c \in Chips |-> [l \in Lines |-> BlankLine]]
    BY DEF Init
  <2>6. DOMAIN lines = Chips /\ \A c \in Chips : DOMAIN lines[c] = Lines
    BY <2>5
  <2>7. \A c \in Chips, l \in Lines : lines[c][l] = BlankLine
    BY <2>5
  <2> QED BY <1>1, <2>1, <2>2, <2>3, <2>4, <2>6, <2>7, Blank DEF Shape
<1>3. ManagedMirrors
  BY <1>1 DEF Init, ManagedMirrors, Holds, BlankLine, Ids, NoPath
<1>4. OwnershipMatches
  BY <1>1 DEF Init, OwnershipMatches, Holds, FreeLines, Ids, Nobody
<1> QED BY <1>1, <1>2, <1>3, <1>4 DEF Init, TInv, OnExported, IdsMatch

\* Nothing but the queues and the state of the daemon moves.
LEMMA QuietTables ==
  ASSUME TInv, UNCHANGED <<kernel, tables>>
  PROVE  TInv'
BY DEF TInv, Shape, OnExported, ManagedMirrors, OwnershipMatches, IdsMatch, Holds, kernel,
       tables

\* Another process takes or drops a line that no request holds.
LEMMA OtherTables ==
  ASSUME TInv, NEW c \in Chips, NEW l \in Lines, NEW who \in {Nobody, Other},
         owner[c][l] \in {Nobody, Other},
         owner' = [owner EXCEPT ![c][l] = who], UNCHANGED <<present, plugs, tables>>
  PROVE  TInv'
<1>1. Shape'
  BY DEF TInv, Shape, Holders, tables
<1>2. \A d \in Chips, k \in Lines, id \in Ids : owner'[d][k] = id <=> owner[d][k] = id
  BY DEF TInv, Shape, Ids, Nobody, Other
<1>3. OwnershipMatches'
  BY <1>2 DEF TInv, OwnershipMatches, Holds, tables
<1> QED
  BY <1>1, <1>3 DEF TInv, OnExported, ManagedMirrors, IdsMatch, Holds, tables

LEMMA PlugInTables ==
  ASSUME TInv, NEW c \in Chips, PlugIn(c)
  PROVE  TInv'
<1>1. /\ present[c] = 0 /\ plugs' = [plugs EXCEPT ![c] = @ + 1]
      /\ present' = [present EXCEPT ![c] = plugs[c] + 1]
      /\ UNCHANGED <<owner, tables>>
  BY DEF PlugIn
<1>2. Shape'
  BY <1>1 DEF TInv, Shape, tables
<1>3. \A id \in DOMAIN reqs : reqs[id].chip = c =>
        reqs[id].inst # present[c] /\ reqs[id].inst # present'[c]
  BY <1>1 DEF TInv, Shape, OnExported
<1>4. OwnershipMatches'
  BY <1>1, <1>3 DEF TInv, Shape, OwnershipMatches, Holds, tables
<1> QED
  BY <1>1, <1>2, <1>4 DEF TInv, OnExported, ManagedMirrors, IdsMatch, Holds, tables

LEMMA UnplugTables ==
  ASSUME TInv, NEW c \in Chips, Unplug(c)
  PROVE  TInv'
<1>1. /\ present' = [present EXCEPT ![c] = 0]
      /\ owner' = [owner EXCEPT ![c] = FreeLines]
      /\ UNCHANGED <<plugs, tables>>
  BY DEF Unplug
<1>2. Shape'
  BY <1>1 DEF TInv, Shape, FreeLines, Holders, tables
<1>3. \A l \in Lines, id \in Ids : owner'[c][l] # id
  BY <1>1 DEF TInv, Shape, FreeLines, Nobody, Ids
<1>4. \A id \in DOMAIN reqs : reqs[id].chip = c => reqs[id].inst # present'[c]
  BY <1>1 DEF TInv, Shape
<1>5. OwnershipMatches'
  BY <1>1, <1>3, <1>4 DEF TInv, Shape, OwnershipMatches, Holds, tables
<1> QED
  BY <1>1, <1>2, <1>5 DEF TInv, OnExported, ManagedMirrors, IdsMatch, Holds, tables

\* The process ends: nothing is left in the tables, and no line is its own.
LEMMA GoneTables ==
  ASSUME TInv, ProcessGone, UNCHANGED <<present, plugs>>
  PROVE  TInv'
<1>1. /\ owner' = [c \in Chips |-> [l \in Lines |->
                     IF owner[c][l] \in Ids THEN Nobody ELSE owner[c][l]]]
      /\ chips' = [c \in Chips |-> 0]
      /\ lines' = [c \in Chips |-> [l \in Lines |-> BlankLine]]
      /\ reqs' = <<>> /\ ids' = {}
  BY DEF ProcessGone
<1>2. DOMAIN reqs' = {}
  BY <1>1
<1>3. Shape'
  <2>1. owner' \in [Chips -> [Lines -> Holders]]
    BY <1>1 DEF TInv, Shape, Holders
  <2>2. DOMAIN lines' = Chips /\ \A c \in Chips : DOMAIN lines'[c] = Lines
    BY <1>1
  <2>3. \A c \in Chips, l \in Lines : lines'[c][l] = BlankLine
    BY <1>1
  <2>4. chips' \in [Chips -> Nat] /\ \A c \in Chips : chips'[c] = 0
    BY <1>1
  <2>5. \A c \in Chips : plugs[c] \in Nat
    BY DEF TInv, Shape
  <2> QED BY <1>2, <2>1, <2>2, <2>3, <2>4, <2>5, Blank DEF TInv, Shape
<1>4. OwnershipMatches'
  BY <1>1, <1>2 DEF TInv, OwnershipMatches, Holds, Ids, Nobody
<1>5. ManagedMirrors'
  BY <1>1, <1>2 DEF ManagedMirrors, Holds, BlankLine, Ids, NoPath
<1> QED
  BY <1>1, <1>2, <1>3, <1>4, <1>5 DEF TInv, OnExported, IdsMatch

LEMMA ExportTables ==
  ASSUME TInv, NEW c \in Chips, ExportChip(c), UNCHANGED <<present, plugs>>
  PROVE  TInv'
<1>1. CASE UNCHANGED tables /\ UNCHANGED owner
  BY <1>1, QuietTables DEF kernel
<1>2. CASE /\ present[c] # 0 /\ chips[c] = 0
           /\ chips' = [chips EXCEPT ![c] = present[c]]
           /\ lines' = [lines EXCEPT ![c] = [l \in Lines |-> ExportedLine(c, l)]]
           /\ UNCHANGED <<owner, reqs, ids>>
  <2>1. Shape'
    <3>1. DOMAIN lines' = Chips /\ \A d \in Chips : DOMAIN lines'[d] = Lines
      BY <1>2 DEF TInv, Shape
    <3>2. \A d \in Chips, l \in Lines :
            lines'[d][l] = IF d = c THEN ExportedLine(c, l) ELSE lines[d][l]
      BY <1>2 DEF TInv, Shape
    <3>3. chips' \in [Chips -> Nat] /\ \A d \in Chips : chips'[d] <= plugs[d]
      BY <1>2 DEF TInv, Shape
    <3>4. \A d \in Chips, l \in Lines :
            /\ DOMAIN lines'[d][l] = {"used", "managed", "path"}
            /\ lines'[d][l].managed \in BOOLEAN /\ lines'[d][l].path \in Ids \cup {NoPath}
      <4> TAKE d \in Chips, l \in Lines
      <4>1. CASE d = c
        BY <3>2, <4>1, Blank
      <4>2. CASE d # c
        BY <3>2, <4>2 DEF TInv, Shape
      <4> QED BY <4>1, <4>2
    <3>5. UNCHANGED <<present, plugs, owner, reqs>>
      BY <1>2
    <3> QED BY <3>1, <3>3, <3>4, <3>5 DEF TInv, Shape
  <2>2. \A id \in DOMAIN reqs : reqs[id].chip # c
    BY <1>2 DEF TInv, Shape, OnExported
  <2>3. OnExported'
    BY <1>2, <2>2 DEF TInv, Shape, OnExported
  <2>4. \A l \in Lines : ~lines'[c][l].managed /\ lines'[c][l].path = NoPath
    <3> TAKE l \in Lines
    <3>1. lines'[c][l] = ExportedLine(c, l)
      BY <1>2 DEF TInv, Shape
    <3>2. ~ExportedLine(c, l).managed /\ ExportedLine(c, l).path = NoPath
      BY Blank
    <3> QED BY <3>1, <3>2
  <2>5. \A d \in Chips \ {c} : lines'[d] = lines[d]
    BY <1>2 DEF TInv, Shape
  <2>6. ManagedMirrors'
    BY <1>2, <2>2, <2>4, <2>5 DEF TInv, ManagedMirrors, Holds, Ids, NoPath
  <2>7. OwnershipMatches' /\ IdsMatch'
    BY <1>2 DEF TInv, OwnershipMatches, IdsMatch, Holds
  <2> QED BY <2>1, <2>3, <2>6, <2>7 DEF TInv
<1> QED BY <1>1, <1>2 DEF ExportChip

LEMMA InfoTables ==
  ASSUME TInv, NEW c \in Chips, OnInfoEvent(c)
  PROVE  TInv'
<1> DEFINE e == Head(infoq[c])
<1>1. lines' = [lines EXCEPT ![c][e.line].used = e.used]
      /\ UNCHANGED <<kernel, chips, reqs, ids>>
  BY DEF OnInfoEvent
<1> HIDE DEF e
<1>2. DOMAIN lines' = Chips /\ \A d \in Chips : DOMAIN lines'[d] = Lines
  BY <1>1 DEF TInv, Shape
<1>3. \A d \in Chips, l \in Lines :
        /\ DOMAIN lines'[d][l] = {"used", "managed", "path"}
        /\ lines'[d][l].managed = lines[d][l].managed
        /\ lines'[d][l].path = lines[d][l].path
  BY <1>1 DEF TInv, Shape
<1>4. Shape'
  BY <1>1, <1>2, <1>3 DEF TInv, Shape, kernel
<1>5. ManagedMirrors'
  BY <1>1, <1>3 DEF TInv, ManagedMirrors, Holds
<1> QED
  BY <1>1, <1>4, <1>5 DEF TInv, OnExported, OwnershipMatches, IdsMatch, Holds, kernel

-----------------------------------------------------------------------------
(* Requests *)

\* A line is held by one request at most.
LEMMA OneHolder ==
  ASSUME TInv, NEW c \in Chips, NEW l \in Lines,
         NEW i \in DOMAIN reqs, NEW j \in DOMAIN reqs, Holds(i, c, l), Holds(j, c, l)
  PROVE  i = j
<1>1. i \in Ids /\ j \in Ids
  BY DEF TInv, Shape
<1>2. lines[c][l].path = i /\ lines[c][l].path = j
  BY <1>1 DEF TInv, ManagedMirrors
<1> QED BY <1>2

LEMMA HeldByRequests ==
  ASSUME NEW R, NEW c, NEW l
  PROVE  l \in HeldBy(R, c) <=> \E id \in R : reqs[id].chip = c /\ l \in reqs[id].held
BY DEF HeldBy

\* The requests in R go, with their marks on the lines and with their lines.
LEMMA FreeTables ==
  ASSUME TInv, Shape', NEW R \in SUBSET DOMAIN reqs, FreeRequests(R),
         UNCHANGED present,
         \A id \in DOMAIN reqs \ R : chips'[reqs[id].chip] = chips[reqs[id].chip],
         \A c \in Chips, l \in Lines :
           IF l \in HeldBy(R, c)
             THEN ~lines'[c][l].managed /\ lines'[c][l].path = NoPath
             ELSE /\ lines'[c][l].managed = lines[c][l].managed
                  /\ lines'[c][l].path = lines[c][l].path
  PROVE  TInv'
<1>1. /\ reqs' = [id \in DOMAIN reqs \ R |-> reqs[id]]
      /\ ids' = ids \ R
      /\ owner' = LinesReleased(R)
  BY DEF FreeRequests, IdFree
<1>2. DOMAIN reqs' = DOMAIN reqs \ R /\ \A id \in DOMAIN reqs' : reqs'[id] = reqs[id]
  BY <1>1
<1>3. OnExported'
  BY <1>2 DEF TInv, OnExported
<1>4. IdsMatch'
  BY <1>1, <1>2 DEF TInv, IdsMatch
<1>5. \A c \in Chips, l \in Lines, id \in Ids :
        Holds(id, c, l)' <=> Holds(id, c, l) /\ id \notin R
  BY <1>2 DEF Holds
<1>6. \A c \in Chips, l \in Lines : l \in HeldBy(R, c) => \A id \in Ids : ~Holds(id, c, l)'
  <2> SUFFICES ASSUME NEW c \in Chips, NEW l \in Lines, l \in HeldBy(R, c),
                      NEW id \in Ids, Holds(id, c, l), id \notin R
               PROVE  FALSE
    BY <1>5
  <2>1. PICK i \in R : reqs[i].chip = c /\ l \in reqs[i].held
    BY HeldByRequests
  <2>2. Holds(i, c, l) /\ i \in DOMAIN reqs /\ id \in DOMAIN reqs
    BY <2>1 DEF Holds
  <2> QED BY <2>2, OneHolder
<1>7. \A c \in Chips, l \in Lines : l \notin HeldBy(R, c) =>
        \A id \in Ids : Holds(id, c, l)' <=> Holds(id, c, l)
  <2> SUFFICES ASSUME NEW c \in Chips, NEW l \in Lines, l \notin HeldBy(R, c),
                      NEW id \in Ids, Holds(id, c, l), id \in R
               PROVE  FALSE
    BY <1>5
  <2> QED BY HeldByRequests DEF Holds
<1>8. ManagedMirrors'
  <2> SUFFICES ASSUME NEW c \in Chips, NEW l \in Lines
               PROVE  (/\ lines[c][l].managed <=> lines[c][l].path # NoPath
                       /\ \A id \in Ids : lines[c][l].path = id <=> Holds(id, c, l))'
    BY DEF ManagedMirrors
  <2>1. CASE l \in HeldBy(R, c)
    <3>1. ~lines'[c][l].managed /\ lines'[c][l].path = NoPath
      BY <2>1
    <3>2. \A id \in Ids : id # NoPath
      BY DEF Ids, NoPath
    <3> QED BY <2>1, <1>6, <3>1, <3>2
  <2>2. CASE l \notin HeldBy(R, c)
    <3>1. lines'[c][l].managed = lines[c][l].managed /\ lines'[c][l].path = lines[c][l].path
      BY <2>2
    <3> QED BY <2>2, <1>7, <3>1 DEF TInv, ManagedMirrors
  <2> QED BY <2>1, <2>2
<1>9. OwnershipMatches'
  <2> SUFFICES ASSUME NEW c \in Chips, NEW l \in Lines, NEW id \in Ids
               PROVE  (owner[c][l] = id <=> Holds(id, c, l) /\ reqs[id].inst = present[c])'
    BY DEF OwnershipMatches
  <2> DEFINE S == OnInstance(R, c)
  <2>1. owner'[c][l] = IF l \in HeldBy(S, c) THEN Nobody ELSE owner[c][l]
    BY <1>1 DEF LinesReleased
  <2>2. \A i : i \in S <=> i \in R /\ reqs[i].chip = c /\ reqs[i].inst = present[c]
    BY DEF OnInstance
  <2>3. l \in HeldBy(S, c) <=>
          \E i \in R : reqs[i].chip = c /\ reqs[i].inst = present[c] /\ l \in reqs[i].held
    <3> HIDE DEF S
    <3> QED BY <2>2, HeldByRequests
  <2>4. id # Nobody
    BY DEF Ids, Nobody
  <2>5. owner[c][l] = id <=> Holds(id, c, l) /\ reqs[id].inst = present[c]
    BY DEF TInv, OwnershipMatches
  <2>6. CASE l \in HeldBy(S, c)
    <3>1. l \in HeldBy(R, c)
      BY <2>3, <2>6, HeldByRequests
    <3> QED BY <1>6, <2>1, <2>4, <2>6, <3>1
  <2>7. CASE l \notin HeldBy(S, c)
    <3>1. owner'[c][l] = owner[c][l]
      BY <2>1, <2>7
    <3>2. CASE id \in R
      <4>1. ~(Holds(id, c, l) /\ reqs[id].inst = present[c])
        BY <2>3, <2>7, <3>2 DEF Holds
      <4> QED BY <1>5, <2>5, <3>1, <3>2, <4>1
    <3>3. CASE id \notin R
      <4>1. Holds(id, c, l)' <=> Holds(id, c, l)
        BY <1>5, <3>3
      <4>2. Holds(id, c, l) => reqs'[id] = reqs[id]
        BY <1>2, <3>3 DEF Holds
      <4> QED BY <2>5, <3>1, <4>1, <4>2
    <3> QED BY <3>2, <3>3
  <2> HIDE DEF S
  <2> QED BY <2>6, <2>7
<1> QED BY <1>3, <1>4, <1>8, <1>9 DEF TInv

\* What is left of the line objects and of the kernel's lines has its shape.
LEMMA FreedShape ==
  ASSUME TInv, NEW R \in SUBSET DOMAIN reqs, FreeRequests(R),
         UNCHANGED <<present, plugs>>,
         chips' \in [Chips -> Nat], \A c \in Chips : chips'[c] <= plugs[c],
         DOMAIN lines' = Chips, \A c \in Chips : DOMAIN lines'[c] = Lines,
         \A c \in Chips, l \in Lines :
           /\ DOMAIN lines'[c][l] = {"used", "managed", "path"}
           /\ lines'[c][l].managed \in BOOLEAN /\ lines'[c][l].path \in Ids \cup {NoPath}
  PROVE  Shape'
<1>1. /\ reqs' = [id \in DOMAIN reqs \ R |-> reqs[id]]
      /\ owner' = LinesReleased(R)
  BY DEF FreeRequests
<1>2. owner' \in [Chips -> [Lines -> Holders]]
  BY <1>1 DEF LinesReleased, Holders, TInv, Shape
<1>3. /\ DOMAIN reqs' \subseteq Ids
      /\ \A id \in DOMAIN reqs' :
           reqs'[id] \in [chip : Chips, inst : Nat \ {0}, held : SUBSET Lines]
  BY <1>1 DEF TInv, Shape
<1> QED BY <1>2, <1>3 DEF TInv, Shape

\* LinesUnmanaged leaves alone what no request in R holds.
LEMMA UnmanagedLines ==
  ASSUME TInv, NEW R
  PROVE  /\ DOMAIN LinesUnmanaged(R) = Chips
         /\ \A c \in Chips : DOMAIN LinesUnmanaged(R)[c] = Lines
         /\ \A c \in Chips, l \in Lines :
              LET new == LinesUnmanaged(R)[c][l] IN
              /\ DOMAIN new = {"used", "managed", "path"}
              /\ IF l \in HeldBy(R, c)
                   THEN new.managed \in BOOLEAN /\ ~new.managed /\ new.path = NoPath
                   ELSE new = lines[c][l]
<1>1. /\ DOMAIN LinesUnmanaged(R) = Chips
      /\ \A c \in Chips : DOMAIN LinesUnmanaged(R)[c] = Lines
  BY DEF LinesUnmanaged
<1>2. ASSUME NEW c \in Chips, NEW l \in Lines
      PROVE  LET new == LinesUnmanaged(R)[c][l] IN
             /\ DOMAIN new = {"used", "managed", "path"}
             /\ IF l \in HeldBy(R, c)
                  THEN new.managed \in BOOLEAN /\ ~new.managed /\ new.path = NoPath
                  ELSE new = lines[c][l]
  <2>1. DOMAIN lines[c][l] = {"used", "managed", "path"}
    BY DEF TInv, Shape
  <2>2. CASE l \in HeldBy(R, c)
    <3>1. LinesUnmanaged(R)[c][l] = [lines[c][l] EXCEPT !.managed = FALSE, !.path = NoPath]
      BY <2>2 DEF LinesUnmanaged
    <3> QED BY <2>1, <2>2, <3>1
  <2>3. CASE l \notin HeldBy(R, c)
    <3>1. LinesUnmanaged(R)[c][l] = lines[c][l]
      BY <2>3 DEF LinesUnmanaged
    <3> QED BY <2>1, <2>3, <3>1
  <2> QED BY <2>2, <2>3
<1> QED BY <1>1, <1>2

LEMMA ReleaseTables ==
  ASSUME TInv, NEW id, HandleReleaseLines(id)
  PROVE  TInv'
<1>1. /\ id \in DOMAIN reqs /\ FreeRequests({id}) /\ lines' = LinesUnmanaged({id})
      /\ UNCHANGED <<present, plugs, chips>>
  BY DEF HandleReleaseLines
<1>2. \A c \in Chips, l \in Lines :
        /\ DOMAIN lines'[c][l] = {"used", "managed", "path"}
        /\ lines'[c][l].managed \in BOOLEAN /\ lines'[c][l].path \in Ids \cup {NoPath}
        /\ IF l \in HeldBy({id}, c)
             THEN ~lines'[c][l].managed /\ lines'[c][l].path = NoPath
             ELSE /\ lines'[c][l].managed = lines[c][l].managed
                  /\ lines'[c][l].path = lines[c][l].path
  <2> TAKE c \in Chips, l \in Lines
  <2>1. CASE l \in HeldBy({id}, c)
    BY <1>1, <2>1, UnmanagedLines
  <2>2. CASE l \notin HeldBy({id}, c)
    <3>1. lines'[c][l] = lines[c][l]
      BY <1>1, <2>2, UnmanagedLines
    <3> QED BY <2>2, <3>1 DEF TInv, Shape
  <2> QED BY <2>1, <2>2
<1>3. Shape'
  <2>1. DOMAIN lines' = Chips /\ \A c \in Chips : DOMAIN lines'[c] = Lines
    BY <1>1, UnmanagedLines
  <2>2. chips' \in [Chips -> Nat] /\ \A c \in Chips : chips'[c] <= plugs[c]
    BY <1>1 DEF TInv, Shape
  <2>3. {id} \in SUBSET DOMAIN reqs /\ FreeRequests({id}) /\ UNCHANGED <<present, plugs>>
    BY <1>1
  <2>4. \A c \in Chips, l \in Lines :
          /\ DOMAIN lines'[c][l] = {"used", "managed", "path"}
          /\ lines'[c][l].managed \in BOOLEAN /\ lines'[c][l].path \in Ids \cup {NoPath}
    BY <1>2
  <2> QED BY <2>1, <2>2, <2>3, <2>4, FreedShape
<1>4. \A i \in DOMAIN reqs \ {id} : chips'[reqs[i].chip] = chips[reqs[i].chip]
  BY <1>1
<1> QED BY <1>1, <1>2, <1>3, <1>4, FreeTables

LEMMA UnexportTables ==
  ASSUME TInv, NEW c \in Chips, UnexportChip(c), UNCHANGED <<present, plugs>>
  PROVE  TInv'
<1>1. CASE UNCHANGED <<owner, tables>>
  BY <1>1, QuietTables DEF kernel
<1>2. CASE /\ FreeRequests(RequestsOf(c))
           /\ chips' = [chips EXCEPT ![c] = 0]
           /\ lines' = [LinesUnmanaged(RequestsOf(c)) EXCEPT
                          ![c] = [l \in Lines |-> BlankLine]]
  <2> DEFINE R == RequestsOf(c)
  <2>1. R \in SUBSET DOMAIN reqs /\ \A id \in DOMAIN reqs \ R : reqs[id].chip # c
    BY DEF RequestsOf
  <2> HIDE DEF R
  <2>2. \A d \in Chips, l \in Lines :
          lines'[d][l] = IF d = c THEN BlankLine ELSE LinesUnmanaged(R)[d][l]
    BY <1>2, UnmanagedLines DEF R
  <2>3. ASSUME NEW d \in Chips, NEW l \in Lines
        PROVE  /\ DOMAIN lines'[d][l] = {"used", "managed", "path"}
               /\ lines'[d][l].managed \in BOOLEAN
               /\ lines'[d][l].path \in Ids \cup {NoPath}
               /\ IF l \in HeldBy(R, d)
                    THEN ~lines'[d][l].managed /\ lines'[d][l].path = NoPath
                    ELSE /\ lines'[d][l].managed = lines[d][l].managed
                         /\ lines'[d][l].path = lines[d][l].path
    <3>1. CASE d = c
      <4>1. lines'[d][l] = BlankLine
        BY <2>2, <3>1
      <4>2. l \notin HeldBy(R, d) => \A id \in Ids : ~Holds(id, d, l)
        BY <2>1, <3>1, HeldByRequests DEF Holds
      <4>3. l \notin HeldBy(R, d) =>
              lines[d][l].managed \in BOOLEAN /\ ~lines[d][l].managed
              /\ lines[d][l].path = NoPath
        BY <4>2 DEF TInv, Shape, ManagedMirrors
      <4> QED BY <4>1, <4>3, Blank
    <3>2. CASE d # c
      <4>1. lines'[d][l] = LinesUnmanaged(R)[d][l]
        BY <2>2, <3>2
      <4>2. CASE l \in HeldBy(R, d)
        BY <4>1, <4>2, UnmanagedLines
      <4>3. CASE l \notin HeldBy(R, d)
        <5>1. lines'[d][l] = lines[d][l]
          BY <4>1, <4>3, UnmanagedLines
        <5> QED BY <4>3, <5>1 DEF TInv, Shape
      <4> QED BY <4>2, <4>3
    <3> QED BY <3>1, <3>2
  <2>4. Shape'
    <3>1. DOMAIN lines' = Chips /\ \A d \in Chips : DOMAIN lines'[d] = Lines
      BY <1>2, UnmanagedLines
    <3>2. chips' \in [Chips -> Nat] /\ \A d \in Chips : chips'[d] <= plugs[d]
      BY <1>2 DEF TInv, Shape
    <3>3. FreeRequests(R)
      BY <1>2 DEF R
    <3> QED BY <2>1, <2>3, <3>1, <3>2, <3>3, FreedShape
  <2>5. \A id \in DOMAIN reqs \ R : chips'[reqs[id].chip] = chips[reqs[id].chip]
    BY <1>2, <2>1 DEF TInv, Shape
  <2>6. FreeRequests(R)
    BY <1>2 DEF R
  <2> QED BY <2>1, <2>3, <2>4, <2>5, <2>6, FreeTables
<1> QED BY <1>1, <1>2 DEF UnexportChip

\* The lines of a new request were nobody's, so no other request has a mark on them.
LEMMA RequestTables ==
  ASSUME TInv, NEW c \in Chips, NEW S \in SUBSET Lines, HandleRequestLines(c, S)
  PROVE  TInv'
<1>0. PICK id \in Ids : id = IdAlloc
  BY DEF HandleRequestLines
<1> DEFINE new == [chip |-> c, inst |-> chips[c], held |-> S]
<1>1. /\ chips[c] # 0 /\ id \in Ids
      /\ chips[c] = present[c] /\ \A l \in S : owner[c][l] = Nobody
      /\ owner' = [owner EXCEPT ![c] = [l \in Lines |-> IF l \in S THEN id ELSE @[l]]]
      /\ ids' = ids \cup {id}
      /\ reqs' = [i \in DOMAIN reqs \cup {id} |-> IF i = id THEN new ELSE reqs[i]]
      /\ lines' = [lines EXCEPT ![c] = [l \in Lines |->
                     IF l \in S THEN [@[l] EXCEPT !.managed = TRUE, !.path = id] ELSE @[l]]]
      /\ UNCHANGED <<present, plugs, chips>>
  BY <1>0 DEF HandleRequestLines, Granted, Open
<1>1a. id \in Ids /\ chips[c] = present[c] /\ \A l \in S : owner[c][l] = Nobody
  BY <1>1
<1>1b. UNCHANGED present
  BY <1>1
<1>2. id \notin DOMAIN reqs
  BY <1>0, AllocFresh DEF TInv, Shape, IdsMatch
<1>3. /\ DOMAIN reqs' = DOMAIN reqs \cup {id} /\ reqs'[id] = new
      /\ \A i \in DOMAIN reqs : reqs'[i] = reqs[i]
  BY <1>1, <1>2
<1>4. new \in [chip : Chips, inst : Nat \ {0}, held : SUBSET Lines]
  BY <1>1 DEF TInv, Shape
<1>5. new.chip = c /\ new.inst = chips[c] /\ new.held = S
  OBVIOUS
<1> HIDE DEF new
<1>6. ASSUME NEW d \in Chips, NEW l \in Lines
      PROVE  /\ DOMAIN lines'[d][l] = {"used", "managed", "path"}
             /\ lines'[d][l].managed \in BOOLEAN
             /\ IF d = c /\ l \in S
                  THEN lines'[d][l].managed /\ lines'[d][l].path = id
                  ELSE lines'[d][l] = lines[d][l]
  <2>1. DOMAIN lines[d][l] = {"used", "managed", "path"} /\ lines[d][l].managed \in BOOLEAN
    BY DEF TInv, Shape
  <2>2. CASE d = c /\ l \in S
    <3>1. lines'[d][l] = [lines[d][l] EXCEPT !.managed = TRUE, !.path = id]
      BY <1>1, <2>2 DEF TInv, Shape
    <3> QED BY <2>1, <2>2, <3>1
  <2>3. CASE ~(d = c /\ l \in S)
    <3>1. lines'[d][l] = lines[d][l]
      BY <1>1, <2>3 DEF TInv, Shape
    <3> QED BY <2>1, <2>3, <3>1
  <2> QED BY <2>2, <2>3
<1>7. \A d \in Chips, l \in Lines :
        owner'[d][l] = IF d = c /\ l \in S THEN id ELSE owner[d][l]
  BY <1>1 DEF TInv, Shape
<1>8. Shape'
  <2>1. owner' \in [Chips -> [Lines -> Holders]]
    BY <1>1, ZenonT(60) DEF TInv, Shape, Holders
  <2>2. DOMAIN lines' = Chips /\ \A d \in Chips : DOMAIN lines'[d] = Lines
    BY <1>1 DEF TInv, Shape
  <2>3. \A d \in Chips, l \in Lines : lines'[d][l].path \in Ids \cup {NoPath}
    BY <1>1, <1>6, ZenonT(60) DEF TInv, Shape
  <2>4. /\ DOMAIN reqs' \subseteq Ids
        /\ \A i \in DOMAIN reqs' :
             reqs'[i] \in [chip : Chips, inst : Nat \ {0}, held : SUBSET Lines]
    BY <1>1, <1>3, <1>4 DEF TInv, Shape
  <2>5. UNCHANGED <<present, plugs, chips>>
    BY <1>1
  <2> QED BY <1>6, <2>1, <2>2, <2>3, <2>4, <2>5 DEF TInv, Shape
<1>9. OnExported'
  BY <1>1, <1>3, <1>5 DEF TInv, OnExported
<1>10. IdsMatch'
  BY <1>1, <1>3 DEF TInv, IdsMatch
<1>11. \A d \in Chips, l \in Lines, i \in Ids :
         Holds(i, d, l)' <=> IF i = id THEN d = c /\ l \in S ELSE Holds(i, d, l)
  BY <1>2, <1>3, <1>5 DEF Holds
<1>12. \A l \in S, i \in Ids : ~Holds(i, c, l)
  <2> SUFFICES ASSUME NEW l \in S, NEW i \in Ids, Holds(i, c, l)
               PROVE  FALSE
    OBVIOUS
  <2>1. reqs[i].inst = present[c]
    BY <1>1a DEF TInv, OnExported, Holds
  <2>2. owner[c][l] = i
    BY <2>1 DEF TInv, OwnershipMatches
  <2> QED BY <1>1a, <2>2, IdsAreIds
<1>13. ManagedMirrors'
  <2> SUFFICES ASSUME NEW d \in Chips, NEW l \in Lines
               PROVE  (/\ lines[d][l].managed <=> lines[d][l].path # NoPath
                       /\ \A i \in Ids : lines[d][l].path = i <=> Holds(i, d, l))'
    BY DEF ManagedMirrors
  <2>1. CASE d = c /\ l \in S
    <3>1. lines'[d][l].managed /\ lines'[d][l].path = id
      BY <1>6, <2>1
    <3>2. id # NoPath
      BY <1>1a, IdsAreIds
    <3> QED BY <1>11, <1>12, <2>1, <3>1, <3>2
  <2>2. CASE ~(d = c /\ l \in S)
    <3>1. lines'[d][l] = lines[d][l]
      BY <1>6, <2>2
    <3>2. ~Holds(id, d, l)
      BY <1>2 DEF Holds
    <3> QED BY <1>11, <2>2, <3>1, <3>2 DEF TInv, ManagedMirrors
  <2> QED BY <2>1, <2>2
<1>14. OwnershipMatches'
  <2> SUFFICES ASSUME NEW d \in Chips, NEW l \in Lines, NEW i \in Ids
               PROVE  (owner[d][l] = i <=> Holds(i, d, l) /\ reqs[i].inst = present[d])'
    BY DEF OwnershipMatches
  <2>1. owner[d][l] = i <=> Holds(i, d, l) /\ reqs[i].inst = present[d]
    BY DEF TInv, OwnershipMatches
  <2>2. CASE d = c /\ l \in S
    <3>1. owner'[d][l] = id
      BY <1>7, <2>2
    <3>2. i # id => ~Holds(i, d, l)'
      BY <1>11, <1>12, <2>2
    <3>3. reqs'[id].inst = present'[c]
      BY <1>1, <1>3, <1>5
    <3> QED BY <1>11, <2>2, <3>1, <3>2, <3>3
  <2>3. CASE ~(d = c /\ l \in S)
    <3>1. owner'[d][l] = owner[d][l] /\ present' = present
      BY <1>1b, <1>7, <2>3
    <3>2. ~Holds(id, d, l) /\ ~Holds(id, d, l)'
      <4>1. ~Holds(id, d, l)
        BY <1>2 DEF Holds
      <4>2. ~Holds(id, d, l)'
        BY <1>1a, <1>11, <2>3
      <4> QED BY <4>1, <4>2
    <3>3. CASE i = id
      BY <2>1, <3>1, <3>2, <3>3
    <3>4. CASE i # id
      <4>1. Holds(i, d, l)' <=> Holds(i, d, l)
        BY <1>11, <3>4
      <4>2. Holds(i, d, l) => reqs'[i] = reqs[i]
        BY <1>3 DEF Holds
      <4> QED BY <2>1, <3>1, <4>1, <4>2
    <3> QED BY <3>3, <3>4
  <2> QED BY <2>2, <2>3
<1> QED BY <1>8, <1>9, <1>10, <1>13, <1>14 DEF TInv

LEMMA TablesStep ==
  ASSUME TInv, uevents \in Seq(Uevent), [Next]_vars
  PROVE  TInv'
<1>1. CASE UNCHANGED vars
  BY <1>1, QuietTables DEF vars
<1>2. ASSUME NEW c \in Chips, PlugIn(c) PROVE TInv'
  BY <1>2, PlugInTables
<1>3. ASSUME NEW c \in Chips, Unplug(c) PROVE TInv'
  BY <1>3, UnplugTables
<1>4. ASSUME NEW c \in Chips, NEW l \in Lines, OtherTakes(c, l) \/ OtherDrops(c, l)
      PROVE  TInv'
  <2>1. PICK who \in {Nobody, Other} : owner' = [owner EXCEPT ![c][l] = who]
    BY <1>4 DEF OtherTakes, OtherDrops
  <2>2. owner[c][l] \in {Nobody, Other} /\ UNCHANGED <<present, plugs, tables>>
    BY <1>4 DEF OtherTakes, OtherDrops
  <2> QED BY <2>1, <2>2, OtherTables
<1>5. CASE UeventLost \/ DaemonNew \/ Start \/ Started \/ UeventIgnored
  BY <1>5, QuietTables DEF UeventLost, DaemonNew, Start, Started, UeventIgnored
<1>6. ASSUME NEW c \in Chips, ProcessChipDev(c) PROVE TInv'
  <2>1. UNCHANGED <<present, plugs>> /\ (ExportChip(c) \/ ProcessGone)
    BY <1>6 DEF ProcessChipDev, ExportAsserts
  <2> QED BY <2>1, ExportTables, GoneTables
<1>7. CASE OnUevent
  <2>0. Head(uevents) \in Uevent
    BY <1>7 DEF OnUevent
  <2>1. PICK c \in Chips : c = Head(uevents).chip
    BY <2>0 DEF Uevent
  <2>2. UNCHANGED <<present, plugs>>
        /\ (ExportChip(c) \/ ProcessGone \/ UnexportChip(c))
    BY <1>7, <2>1 DEF OnUevent, ExportAsserts
  <2> QED BY <2>2, ExportTables, GoneTables, UnexportTables
<1>8. ASSUME NEW c \in Chips, OnInfoEvent(c) PROVE TInv'
  BY <1>8, InfoTables
<1>9. ASSUME NEW c \in Chips, NEW S \in SUBSET Lines, HandleRequestLines(c, S) PROVE TInv'
  BY <1>9, RequestTables
<1>10. ASSUME NEW id, HandleReleaseLines(id) PROVE TInv'
  BY <1>10, ReleaseTables
<1>11. CASE Die
  BY <1>11, GoneTables DEF Die
<1> QED BY <1>1, <1>2, <1>3, <1>4, <1>5, <1>6, <1>7, <1>8, <1>9, <1>10, <1>11
        DEF Next, Environment, Daemon, Clients
-----------------------------------------------------------------------------
(* News of chips *)

NoNews(c) == \A i \in 1..Len(uevents) : uevents[i].chip # c

\* The last that is queued about a chip says whether it is there.
LastNews ==
  \A c \in Chips, i \in 1..Len(uevents) :
    /\ uevents[i].chip = c
    /\ \A j \in 1..Len(uevents) : j > i => uevents[j].chip # c
    => (uevents[i].action = "bind" <=> present[c] # 0)

\* The table is that of the chips there, but for those the daemon is yet to hear of or
\* to come to in its enumeration.
Heard ==
  /\ status \in {"off", "init"} => \A c \in Chips : chips[c] = 0
  /\ status = "starting" => \A c \in Chips : NoNews(c) =>
       IF c \in pending THEN present[c] # 0 ELSE chips[c] = present[c]
  /\ status = "running" => \A c \in Chips : NoNews(c) => chips[c] = present[c]

NInv ==
  /\ uevents \in Seq(Uevent)
  /\ status \in {"off", "init", "starting", "running"}
  /\ LastNews /\ Heard

LEMMA NewsInit == Init => NInv
<1> SUFFICES ASSUME Init PROVE NInv
  OBVIOUS
<1>1. uevents = <<>> /\ Len(uevents) = 0 /\ status = "off"
  BY DEF Init
<1>2. \A c \in Chips : chips[c] = 0
  BY DEF Init
<1> QED BY <1>1, <1>2 DEF NInv, LastNews, Heard

\* Nothing is said of other chips.
LEMMA AppendNews ==
  ASSUME uevents \in Seq(Uevent), LastNews, NEW c \in Chips, NEW action \in {"bind", "unbind"},
         uevents' = Append(uevents, [action |-> action, chip |-> c]),
         present \in [Chips -> Nat], NEW p \in Nat, present' = [present EXCEPT ![c] = p],
         action = "bind" <=> p # 0
  PROVE  /\ uevents' \in Seq(Uevent) /\ LastNews'
         /\ ~NoNews(c)' /\ \A d \in Chips \ {c} : NoNews(d)' <=> NoNews(d)
<1> DEFINE e == [action |-> action, chip |-> c]
<1>1. e \in Uevent /\ e.chip = c /\ e.action = action
  BY DEF Uevent
<1> HIDE DEF e
<1>2. uevents' = Append(uevents, e)
  BY DEF e
<1>3. /\ uevents' \in Seq(Uevent) /\ Len(uevents') = Len(uevents) + 1
      /\ uevents'[Len(uevents) + 1] = e
      /\ \A i \in 1..Len(uevents) : uevents'[i] = uevents[i]
  BY <1>1, <1>2
<1>4. ~NoNews(c)'
  BY <1>1, <1>3 DEF NoNews
<1>5. \A d \in Chips \ {c} : NoNews(d)' <=> NoNews(d)
  BY <1>1, <1>3 DEF NoNews
<1>6. LastNews'
  <2> SUFFICES ASSUME NEW d \in Chips, NEW i \in 1..Len(uevents'), uevents'[i].chip = d,
                      \A j \in 1..Len(uevents') : j > i => uevents'[j].chip # d
               PROVE  uevents'[i].action = "bind" <=> present'[d] # 0
    BY DEF LastNews
  <2>1. CASE i = Len(uevents) + 1
    BY <1>1, <1>3, <2>1
  <2>2. CASE i \in 1..Len(uevents)
    <3>1. d # c
      BY <1>1, <1>3, <2>2
    <3>2. \A j \in 1..Len(uevents) : j > i => uevents[j].chip # d
      BY <1>3
    <3>3. present'[d] = present[d] /\ uevents'[i] = uevents[i]
      BY <1>3, <2>2, <3>1
    <3> QED BY <2>2, <3>2, <3>3 DEF LastNews
  <2> QED BY <1>3, <2>1, <2>2
<1> QED BY <1>3, <1>4, <1>5, <1>6

\* The oldest of the news goes: what is queued later is still queued.
LEMMA TailNews ==
  ASSUME uevents \in Seq(Uevent), uevents # <<>>, LastNews,
         uevents' = Tail(uevents), present' = present
  PROVE  /\ uevents' \in Seq(Uevent) /\ LastNews'
         /\ Head(uevents) \in Uevent
         /\ \A c \in Chips : c # Head(uevents).chip => (NoNews(c)' <=> NoNews(c))
         /\ \A c \in Chips : c = Head(uevents).chip /\ NoNews(c)' =>
              (Head(uevents).action = "bind" <=> present[c] # 0)
<1>1. /\ uevents' \in Seq(Uevent) /\ Len(uevents) \in Nat /\ Len(uevents) >= 1
      /\ Len(uevents') = Len(uevents) - 1
      /\ \A i \in 1..Len(uevents') : uevents'[i] = uevents[i + 1]
      /\ Head(uevents) = uevents[1] /\ uevents[1] \in Uevent
  OBVIOUS
<1>2. \A j \in 2..Len(uevents) : j - 1 \in 1..Len(uevents') /\ uevents'[j - 1] = uevents[j]
  BY <1>1
<1>3. LastNews'
  <2> SUFFICES ASSUME NEW d \in Chips, NEW i \in 1..Len(uevents'), uevents'[i].chip = d,
                      \A j \in 1..Len(uevents') : j > i => uevents'[j].chip # d
               PROVE  uevents'[i].action = "bind" <=> present'[d] # 0
    BY DEF LastNews
  <2>1. i + 1 \in 1..Len(uevents) /\ uevents'[i] = uevents[i + 1]
    BY <1>1
  <2>2. \A j \in 1..Len(uevents) : j > i + 1 => uevents[j].chip # d
    <3> TAKE j \in 1..Len(uevents)
    <3> HAVE j > i + 1
    <3>1. j \in 2..Len(uevents) /\ j - 1 > i
      BY <1>1
    <3> QED BY <1>2, <3>1
  <2> QED BY <2>1, <2>2 DEF LastNews
<1>4. \A c \in Chips : c # Head(uevents).chip => (NoNews(c)' <=> NoNews(c))
  <2> SUFFICES ASSUME NEW c \in Chips, c # uevents[1].chip
               PROVE  NoNews(c)' <=> NoNews(c)
    BY <1>1
  <2>1. NoNews(c) => NoNews(c)'
    BY <1>1 DEF NoNews
  <2>2. ASSUME NoNews(c)', NEW j \in 1..Len(uevents)
        PROVE  uevents[j].chip # c
    <3>1. CASE j = 1
      BY <3>1
    <3>2. CASE j \in 2..Len(uevents)
      BY <1>2, <2>2, <3>2 DEF NoNews
    <3> QED BY <1>1, <3>1, <3>2
  <2> QED BY <2>1, <2>2 DEF NoNews
<1>5. \A c \in Chips : c = Head(uevents).chip /\ NoNews(c)' =>
        (Head(uevents).action = "bind" <=> present[c] # 0)
  <2> SUFFICES ASSUME NEW d \in Chips, d = uevents[1].chip, NoNews(d)'
               PROVE  uevents[1].action = "bind" <=> present[d] # 0
    BY <1>1
  <2>1. \A j \in 1..Len(uevents') : uevents'[j].chip # d
    BY DEF NoNews
  <2>2. \A j \in 1..Len(uevents) : j > 1 => uevents[j].chip # d
    <3> TAKE j \in 1..Len(uevents)
    <3> HAVE j > 1
    <3>1. j \in 2..Len(uevents)
      BY <1>1
    <3> QED BY <1>2, <2>1, <3>1
  <2>3. 1 \in 1..Len(uevents)
    BY <1>1
  <2> QED BY <2>2, <2>3 DEF LastNews
<1> QED BY <1>1, <1>3, <1>4, <1>5

LEMMA QuietNews ==
  ASSUME NInv, UNCHANGED <<uevents, present, status, pending, chips>>
  PROVE  NInv'
BY DEF NInv, LastNews, Heard, NoNews

\* A chip comes or goes: the daemon is yet to hear of it.
LEMMA DeviceNews ==
  ASSUME TInv, NInv, NEW c \in Chips, PlugIn(c) \/ Unplug(c)
  PROVE  NInv'
<1>1. /\ present \in [Chips -> Nat] /\ uevents \in Seq(Uevent) /\ LastNews
      /\ UNCHANGED <<status, pending, chips>>
  BY DEF TInv, Shape, NInv, PlugIn, Unplug, tables
<1>2. PICK p \in Nat, action \in {"bind", "unbind"} :
        /\ uevents' = Append(uevents, [action |-> action, chip |-> c])
        /\ present' = [present EXCEPT ![c] = p]
        /\ action = "bind" <=> p # 0
  <2>1. CASE PlugIn(c)
    <3>1. plugs[c] + 1 \in Nat /\ plugs[c] + 1 # 0
      BY DEF TInv, Shape
    <3> QED BY <2>1, <3>1 DEF PlugIn
  <2>2. CASE Unplug(c)
    BY <2>2 DEF Unplug
  <2> QED BY <2>1, <2>2
<1>3. /\ uevents' \in Seq(Uevent) /\ LastNews'
      /\ ~NoNews(c)' /\ \A d \in Chips \ {c} : NoNews(d)' <=> NoNews(d)
  BY <1>1, <1>2, AppendNews
<1>4. \A d \in Chips : NoNews(d)' => NoNews(d) /\ present'[d] = present[d]
  BY <1>1, <1>2, <1>3
<1>5. Heard'
  BY <1>1, <1>4 DEF NInv, Heard
<1> QED BY <1>1, <1>3, <1>5 DEF NInv

\* News that come before the daemon has started are dropped.
LEMMA DroppedNews ==
  ASSUME NInv, UeventLost \/ UeventIgnored
  PROVE  NInv'
<1>1. /\ uevents # <<>> /\ uevents' = Tail(uevents) /\ status \in {"off", "init"}
      /\ UNCHANGED <<present, status, pending, chips>>
  BY DEF UeventLost, UeventIgnored, kernel, tables
<1>2. uevents' \in Seq(Uevent) /\ LastNews'
  BY <1>1, TailNews DEF NInv
<1> QED BY <1>1, <1>2 DEF NInv, Heard

LEMMA StartNews ==
  ASSUME NInv, DaemonNew \/ Start \/ Started
  PROVE  NInv'
<1>1. UNCHANGED <<uevents, present, chips>>
  BY DEF DaemonNew, Start, Started, kernel, tables
<1>2. uevents' \in Seq(Uevent) /\ LastNews' /\ \A c : NoNews(c)' <=> NoNews(c)
  BY <1>1 DEF NInv, LastNews, NoNews
<1>3. CASE DaemonNew
  BY <1>1, <1>2, <1>3 DEF DaemonNew, NInv, Heard
<1>4. CASE Start
  BY <1>1, <1>2, <1>4 DEF Start, Enumerated, NInv, Heard
<1>5. CASE Started
  BY <1>1, <1>2, <1>5 DEF Started, NInv, Heard
<1> QED BY <1>3, <1>4, <1>5

LEMMA GoneNews ==
  ASSUME NInv, ProcessGone, UNCHANGED present,
         uevents' \in Seq(Uevent), LastNews'
  PROVE  NInv'
BY DEF ProcessGone, NInv, Heard

\* A chip that was listed and has gone meanwhile is news.
LEMMA EnumerationNews ==
  ASSUME TInv, NInv, NEW c \in Chips, ProcessChipDev(c)
  PROVE  NInv'
<1>1. UNCHANGED <<present, uevents>> /\ status = "starting" /\ c \in pending
  BY DEF ProcessChipDev
<1>2. uevents' \in Seq(Uevent) /\ LastNews' /\ \A d : NoNews(d)' <=> NoNews(d)
  BY <1>1 DEF NInv, LastNews, NoNews
<1>3. CASE ExportChip(c) /\ pending' = pending \ {c} /\ UNCHANGED status
  <2>1. CASE present[c] = 0 /\ UNCHANGED chips
    BY <1>1, <1>2, <1>3, <2>1 DEF NInv, Heard
  <2>2. CASE chips' = [chips EXCEPT ![c] = present[c]]
    <3>1. chips'[c] = present[c] /\ \A d \in Chips \ {c} : chips'[d] = chips[d]
      BY <2>2 DEF TInv, Shape
    <3> QED BY <1>1, <1>2, <1>3, <3>1 DEF NInv, Heard
  <2> QED BY <1>3, <2>1, <2>2 DEF ExportChip, tables
<1>4. CASE ExportAsserts(c)
  BY <1>1, <1>2, <1>4, GoneNews DEF ExportAsserts
<1> QED BY <1>3, <1>4 DEF ProcessChipDev

LEMMA UeventNews ==
  ASSUME TInv, NInv, OnUevent
  PROVE  NInv'
<1> DEFINE e == Head(uevents)
<1>1. /\ status = "running" /\ uevents # <<>> /\ uevents' = Tail(uevents)
      /\ UNCHANGED present
  BY DEF OnUevent
<1>2. /\ uevents' \in Seq(Uevent) /\ LastNews' /\ e \in Uevent
      /\ \A c \in Chips : c # e.chip => (NoNews(c)' <=> NoNews(c))
      /\ \A c \in Chips : c = e.chip /\ NoNews(c)' => (e.action = "bind" <=> present[c] # 0)
  BY <1>1, TailNews DEF NInv
<1>3. PICK x \in Chips : x = e.chip
  BY <1>2 DEF Uevent
<1>4. CASE ProcessGone
  BY <1>1, <1>2, <1>4, GoneNews
<1>5. CASE /\ UNCHANGED status /\ \A c \in Chips \ {x} : chips'[c] = chips[c]
           /\ NoNews(x)' => chips'[x] = present[x]
  <2>1. \A c \in Chips : NoNews(c)' => chips'[c] = present[c]
    <3> TAKE c \in Chips
    <3>1. CASE c = x
      BY <1>5, <3>1
    <3>2. CASE c # x
      BY <1>1, <1>2, <1>3, <1>5, <3>2 DEF NInv, Heard
    <3> QED BY <3>1, <3>2
  <2> QED BY <1>1, <1>2, <1>5, <2>1 DEF NInv, Heard
<1>6. CASE e.action = "bind" /\ ExportChip(x) /\ UNCHANGED status
  <2>1. NoNews(x)' => present[x] # 0
    BY <1>2, <1>3, <1>6
  <2>2. CASE present[x] = 0 /\ UNCHANGED chips
    BY <1>5, <1>6, <2>1, <2>2
  <2>3. CASE chips' = [chips EXCEPT ![x] = present[x]]
    <3>1. chips'[x] = present[x] /\ \A d \in Chips \ {x} : chips'[d] = chips[d]
      BY <2>3 DEF TInv, Shape
    <3> QED BY <1>5, <1>6, <3>1
  <2> QED BY <1>6, <2>2, <2>3 DEF ExportChip, tables
<1>7. CASE e.action = "unbind" /\ UnexportChip(x) /\ UNCHANGED status
  <2>1. NoNews(x)' => present[x] = 0
    BY <1>2, <1>3, <1>7
  <2>2. chips'[x] = 0 /\ \A d \in Chips \ {x} : chips'[d] = chips[d]
    BY <1>7 DEF UnexportChip, tables, TInv, Shape
  <2> QED BY <1>5, <1>7, <2>1, <2>2
<1> QED BY <1>3, <1>4, <1>6, <1>7 DEF OnUevent, ExportAsserts

LEMMA NewsStep ==
  ASSUME TInv, NInv, [Next]_vars
  PROVE  NInv'
<1>1. CASE UNCHANGED vars
  BY <1>1, QuietNews DEF vars, kernel, tables
<1>2. ASSUME NEW c \in Chips, PlugIn(c) \/ Unplug(c) PROVE NInv'
  BY <1>2, DeviceNews
<1>3. ASSUME NEW c \in Chips, NEW l \in Lines, OtherTakes(c, l) \/ OtherDrops(c, l)
      PROVE  NInv'
  BY <1>3, QuietNews DEF OtherTakes, OtherDrops, tables
<1>4. CASE UeventLost \/ UeventIgnored
  BY <1>4, DroppedNews
<1>5. CASE DaemonNew \/ Start \/ Started
  BY <1>5, StartNews
<1>6. ASSUME NEW c \in Chips, ProcessChipDev(c) PROVE NInv'
  BY <1>6, EnumerationNews
<1>7. CASE OnUevent
  BY <1>7, UeventNews
<1>8. ASSUME NEW c \in Chips, OnInfoEvent(c) PROVE NInv'
  BY <1>8, QuietNews DEF OnInfoEvent, kernel
<1>9. ASSUME NEW c \in Chips, NEW S \in SUBSET Lines, HandleRequestLines(c, S) PROVE NInv'
  BY <1>9, QuietNews DEF HandleRequestLines
<1>10. ASSUME NEW id, HandleReleaseLines(id) PROVE NInv'
  BY <1>10, QuietNews DEF HandleReleaseLines
<1>11. CASE Die
  <2>1. uevents' \in Seq(Uevent) /\ LastNews'
    BY <1>11 DEF Die, NInv, LastNews
  <2> QED BY <1>11, <2>1, GoneNews DEF Die
<1> QED BY <1>1, <1>2, <1>3, <1>4, <1>5, <1>6, <1>7, <1>8, <1>9, <1>10, <1>11
        DEF Next, Environment, Daemon, Clients

-----------------------------------------------------------------------------
(* News of lines *)

Info == [line : Lines, used : BOOLEAN]

\* Event i of queue q is the last there about line l.
LastOf(q, l, i) ==
  q[i].line = l /\ \A j \in 1..Len(q) : j > i => q[j].line # l

\* A line object that says "used" gets to say what the holder h of line l makes true, by
\* the last event queued on it or, when none is, as it is.
Told(q, l, used, h) ==
  /\ (\A i \in 1..Len(q) : q[i].line # l) => (used <=> h # Nobody)
  /\ \A i \in 1..Len(q) : LastOf(q, l, i) => (q[i].used <=> h # Nobody)

InfoShape ==
  /\ infoq \in [Chips -> Seq(Info)] /\ lost \in [Chips -> SUBSET Lines]
  /\ \A c \in Chips : Len(infoq[c]) <= InfoFifo
  /\ \A c \in Chips, l \in Lines : lines[c][l].used \in BOOLEAN

\* Events are queued for open handles only, and tell of every line but those lost.
LinesTold ==
  \A c \in Chips :
    /\ ~Open(c) => infoq[c] = <<>>
    /\ Open(c) => \A l \in Lines \ lost[c] :
                    Told(infoq[c], l, lines[c][l].used, owner[c][l])

FInv == InfoShape /\ LinesTold

\* Ascending lists members of the set.
LEMMA AscendingIn ==
  ASSUME NEW S \in SUBSET Nat, IsFiniteSet(S)
  PROVE  Ascending(S) \in Seq(S)
<1> DEFINE n == Cardinality(S)
           Upto(x) == {y \in S : y <= x}
           rank == [x \in S |-> Cardinality(Upto(x))]
<1>1. n \in Nat
  BY FS_CardinalityType
<1>2. \A x \in S : IsFiniteSet(Upto(x)) /\ rank[x] \in 1..n
  <2> TAKE x \in S
  <2>1. Upto(x) \in SUBSET S /\ x \in Upto(x)
    OBVIOUS
  <2>2. IsFiniteSet(Upto(x)) /\ Cardinality(Upto(x)) <= n
    BY <2>1, FS_Subset
  <2>3. Cardinality(Upto(x)) \in Nat /\ Cardinality(Upto(x)) # 0
    BY <2>1, <2>2, FS_CardinalityType, FS_EmptySet
  <2> QED BY <1>1, <2>2, <2>3
<1>3. \A x, y \in S : x < y => rank[x] < rank[y]
  <2> SUFFICES ASSUME NEW x \in S, NEW y \in S, x < y PROVE rank[x] < rank[y]
    OBVIOUS
  <2>1. Upto(x) \in SUBSET Upto(y) /\ y \in Upto(y) /\ y \notin Upto(x)
    <3>1. x \in Nat /\ y \in Nat /\ \A z \in S : z \in Nat
      OBVIOUS
    <3>2. \A z \in S : z <= x => z <= y
      BY <3>1
    <3>3. y <= y /\ ~(y <= x)
      BY <3>1
    <3> QED BY <3>2, <3>3
  <2>2. Cardinality(Upto(x)) <= Cardinality(Upto(y)) /\ Cardinality(Upto(x)) # Cardinality(Upto(y))
    BY <2>1, <1>2, FS_Subset
  <2> QED BY <2>2, <1>2
<1>4. \A x, y \in S : rank[x] = rank[y] => x = y
  <2> SUFFICES ASSUME NEW x \in S, NEW y \in S, rank[x] = rank[y], x # y PROVE FALSE
    OBVIOUS
  <2>1. x < y \/ y < x
    OBVIOUS
  <2>2. rank[x] < rank[y] \/ rank[y] < rank[x]
    BY <2>1, <1>3
  <2>3. rank[x] \in Int /\ rank[y] \in Int
    BY <1>2
  <2> HIDE DEF rank
  <2> QED BY <2>2, <2>3
<1>5. \A k \in 1..n : \E x \in S : rank[x] = k
  <2>1. rank \in [S -> 1..n]
    BY <1>2
  <2>2. rank \in Injection(S, 1..n)
    <3> HIDE DEF rank
    <3> QED BY <2>1, <1>4 DEF Injection, IsInjective
  <2>3. IsFiniteSet(1..n) /\ Cardinality(1..n) = n
    BY <1>1, FS_Interval
  <2>4. rank \in Surjection(S, 1..n)
    <3> HIDE DEF rank
    <3> QED BY <2>2, <2>3, FS_Injection
  <2> HIDE DEF rank
  <2> QED BY <2>4 DEF Surjection
<1>6. \A k \in 1..n : Ascending(S)[k] \in S
  <2> TAKE k \in 1..n
  <2>1. PICK x \in S : rank[x] = k
    BY <1>5
  <2>2. Ascending(S)[k] = CHOOSE z \in S : Cardinality(Upto(z)) = k
    BY DEF Ascending
  <2>3. Cardinality(Upto(x)) = k
    BY <2>1
  <2> HIDE DEF Upto
  <2> QED BY <2>2, <2>3
<1>7. Ascending(S) \in [1..n -> S]
  <2>1. \A k \in 1..n : (CHOOSE z \in S : Cardinality({y \in S : y <= z}) = k) \in S
    BY <1>6 DEF Ascending
  <2> QED BY <2>1 DEF Ascending
<1> HIDE DEF n
<1> QED BY <1>1, <1>7

\* The oldest event goes to the line object of its line.
LEMMA ToldTail ==
  ASSUME NEW q \in Seq(Info), q # <<>>, NEW l \in Lines, NEW used \in BOOLEAN, NEW h,
         Told(q, l, used, h)
  PROVE  Told(Tail(q), l, IF Head(q).line = l THEN Head(q).used ELSE used, h)
<1> DEFINE r == Tail(q) n == Len(q)
<1>1. /\ n \in Nat /\ n >= 1 /\ Len(r) = n - 1
      /\ \A i \in 1..Len(r) : i + 1 \in 1..n /\ r[i] = q[i + 1]
      /\ \A i \in 2..n : i - 1 \in 1..Len(r) /\ r[i - 1] = q[i]
      /\ Head(q) = q[1] /\ 1 \in 1..n
  OBVIOUS
<1> HIDE DEF r, n
<1>2. ASSUME NEW i \in 1..Len(r), LastOf(r, l, i)
      PROVE  r[i].used <=> h # Nobody
  <2>1. i + 1 \in 1..n /\ r[i] = q[i + 1]
    BY <1>1
  <2>2. \A j \in 1..n : j > i + 1 => q[j].line # l
    <3> TAKE j \in 1..n
    <3> HAVE j > i + 1
    <3>1. j \in 2..n /\ j - 1 \in 1..Len(r) /\ j - 1 > i /\ r[j - 1] = q[j]
      BY <1>1
    <3> QED BY <1>2, <3>1 DEF LastOf
  <2>3. LastOf(q, l, i + 1)
    BY <1>2, <2>1, <2>2 DEF LastOf, n
  <2> QED BY <2>1, <2>3 DEF Told, n
<1>3. ASSUME \A i \in 1..Len(r) : r[i].line # l
      PROVE  (IF Head(q).line = l THEN Head(q).used ELSE used) <=> h # Nobody
  <2>1. \A i \in 1..n : i > 1 => q[i].line # l
    <3> TAKE i \in 1..n
    <3> HAVE i > 1
    <3>1. i \in 2..n /\ i - 1 \in 1..Len(r) /\ r[i - 1] = q[i]
      BY <1>1
    <3> QED BY <1>3, <3>1
  <2>2. CASE Head(q).line = l
    <3>1. LastOf(q, l, 1)
      BY <1>1, <2>1, <2>2 DEF LastOf, n
    <3>2. q[1].used <=> h # Nobody
      BY <1>1, <3>1 DEF Told, n
    <3> QED BY <1>1, <2>2, <3>2
  <2>3. CASE Head(q).line # l
    <3>1. \A i \in 1..n : q[i].line # l
      BY <1>1, <2>1, <2>3
    <3>2. used <=> h # Nobody
      BY <3>1 DEF Told, n
    <3> QED BY <2>3, <3>2
  <2> QED BY <2>2, <2>3
<1> QED BY <1>2, <1>3 DEF Told, r

\* Events of other lines say nothing of a line.
LEMMA ToldOthers ==
  ASSUME NEW q \in Seq(Info), NEW r \in Seq(Info), NEW l \in Lines, NEW used \in BOOLEAN,
         NEW h, Told(q, l, used, h), \A i \in 1..Len(r) : r[i].line # l
  PROVE  Told(q \o r, l, used, h)
<1> DEFINE p == q \o r
<1>1. /\ p \in Seq(Info) /\ Len(q) \in Nat /\ Len(r) \in Nat /\ Len(p) = Len(q) + Len(r)
      /\ \A i \in 1..Len(q) : i \in 1..Len(p) /\ p[i] = q[i]
      /\ \A i \in 1..Len(p) : i \in 1..Len(q) \/ (i - Len(q) \in 1..Len(r)
                                                  /\ p[i] = r[i - Len(q)])
  OBVIOUS
<1> HIDE DEF p
<1>2. ASSUME NEW i \in 1..Len(p), LastOf(p, l, i) PROVE p[i].used <=> h # Nobody
  <2>1. p[i].line = l /\ \A j \in 1..Len(p) : j > i => p[j].line # l
    BY <1>2 DEF LastOf
  <2>2. i \in 1..Len(q) /\ p[i] = q[i]
    BY <1>1, <2>1
  <2>3. LastOf(q, l, i)
    BY <1>1, <2>1, <2>2 DEF LastOf
  <2> QED BY <2>2, <2>3 DEF Told
<1>3. ASSUME \A i \in 1..Len(p) : p[i].line # l PROVE used <=> h # Nobody
  <2>1. \A i \in 1..Len(q) : q[i].line # l
    BY <1>1, <1>3
  <2> QED BY <2>1 DEF Told
<1> QED BY <1>2, <1>3 DEF Told, p

\* Events of a line that all say the same leave that as the last word.
LEMMA ToldLast ==
  ASSUME NEW q \in Seq(Info), NEW r \in Seq(Info), NEW l \in Lines, NEW used, NEW h,
         NEW b \in BOOLEAN, \A i \in 1..Len(r) : r[i].used = b,
         NEW k \in 1..Len(r), r[k].line = l, b <=> h # Nobody
  PROVE  Told(q \o r, l, used, h)
<1> DEFINE p == q \o r
<1>1. /\ Len(q) \in Nat /\ Len(r) \in Nat /\ Len(p) = Len(q) + Len(r)
      /\ \A i \in 1..Len(p) : i \in 1..Len(q) \/ (i - Len(q) \in 1..Len(r)
                                                  /\ p[i] = r[i - Len(q)])
      /\ Len(q) + k \in 1..Len(p) /\ p[Len(q) + k] = r[k]
  OBVIOUS
<1> HIDE DEF p
<1>2. ~(\A i \in 1..Len(p) : p[i].line # l)
  BY <1>1
<1>3. ASSUME NEW i \in 1..Len(p), LastOf(p, l, i) PROVE p[i].used <=> h # Nobody
  <2>1. ~(Len(q) + k > i)
    BY <1>1, <1>3 DEF LastOf
  <2>2. i - Len(q) \in 1..Len(r) /\ p[i] = r[i - Len(q)]
    BY <1>1, <2>1
  <2> QED BY <2>2
<1> QED BY <1>2, <1>3 DEF Told, p

\* The events r, all of lines in S and all saying b, get queued on the handle.  A line of
\* S that no event in r is about counts as lost, as does one that was and is not in S.
Queues(c, S, b, r) ==
  /\ infoq' = [infoq EXCEPT ![c] = @ \o r]
  /\ Len(infoq[c] \o r) <= InfoFifo
  /\ \A i \in 1..Len(r) : r[i].line \in S /\ r[i].used = b
  /\ lost' \in [Chips -> SUBSET Lines]
  /\ \A d \in Chips \ {c} : lost'[d] = lost[d]
  /\ \A l \in Lines \ lost'[c] :
       IF l \in S THEN \E k \in 1..Len(r) : r[k].line = l ELSE l \notin lost[c]

\* What the kernel queues on an open handle when the lines in S change: the events of
\* some of them, as many as there is room for; the others are lost.
LEMMA Notified ==
  ASSUME InfoShape, NEW c \in Chips, NEW S \in SUBSET Lines, NEW b \in BOOLEAN, Open(c),
         Notify(c, S, b)
  PROVE  \E r \in Seq(Info) : Queues(c, S, b, r)
<1> DEFINE order == Ascending(S)
           room == InfoFifo - Len(infoq[c])
           m == IF Len(order) < room THEN Len(order) ELSE room
           kept == SubSeq(order, 1, m)
           r == [i \in 1..Len(kept) |-> [line |-> kept[i], used |-> b]]
<1>1. order \in Seq(S) /\ Len(order) \in Nat
  <2>1. IsFiniteSet(S)
    BY FS_Subset
  <2>2. order \in Seq(S)
    BY <2>1, AscendingIn
  <2> HIDE DEF order
  <2> QED BY <2>2
<1>2. infoq[c] \in Seq(Info) /\ Len(infoq[c]) \in Nat /\ room \in Nat
  BY DEF InfoShape
<1> HIDE DEF order, room
<1>3. m \in 0..Len(order) /\ m <= room
  BY <1>1, <1>2
<1> HIDE DEF m
<1>4. kept \in Seq(S) /\ Len(kept) = m
  BY <1>1, <1>3
<1> HIDE DEF kept
<1>5. \A i \in 1..Len(kept) : kept[i] \in S
  BY <1>4
<1>6. r \in Seq(Info) /\ Len(r) = m
  <2>1. \A i \in 1..m : [line |-> kept[i], used |-> b] \in Info
    BY <1>4, <1>5 DEF Info
  <2>2. r = [i \in 1..m |-> [line |-> kept[i], used |-> b]]
    BY <1>4
  <2>3. m \in Nat
    BY <1>1, <1>3
  <2> QED BY <2>1, <2>2, <2>3
<1>7. \A i \in 1..Len(r) : r[i].line = kept[i] /\ r[i].line \in S /\ r[i].used = b
  BY <1>4, <1>5, <1>6
<1> HIDE DEF r
<1>8. infoq' = [infoq EXCEPT ![c] = @ \o r]
      /\ lost' = [lost EXCEPT ![c] = (@ \ S) \cup (S \ Range(kept))]
  BY DEF Notify, r, kept, m, order, room
<1>9. Len(infoq[c] \o r) <= InfoFifo
  <2>1. Len(infoq[c] \o r) = Len(infoq[c]) + m
    BY <1>2, <1>6
  <2>2. m \in Nat /\ m <= InfoFifo - Len(infoq[c])
    BY <1>1, <1>3 DEF room
  <2> QED BY <1>2, <2>1, <2>2
<1>10. lost' \in [Chips -> SUBSET Lines] /\ \A d \in Chips \ {c} : lost'[d] = lost[d]
  BY <1>8 DEF InfoShape
<1>11. lost'[c] = (lost[c] \ S) \cup (S \ Range(kept))
  BY <1>8 DEF InfoShape
<1>12. \A l \in Range(kept) : \E k \in 1..Len(r) : r[k].line = l
  <2> TAKE l \in Range(kept)
  <2>1. PICK k \in DOMAIN kept : l = kept[k]
    BY DEF Range
  <2>2. k \in 1..Len(r)
    BY <1>4, <1>6
  <2> QED BY <1>7, <2>1, <2>2
<1>13. \A l \in Lines \ lost'[c] :
         IF l \in S THEN \E k \in 1..Len(r) : r[k].line = l ELSE l \notin lost[c]
  BY <1>11, <1>12
<1>14. Queues(c, S, b, r)
  BY <1>7, <1>8, <1>9, <1>10, <1>13 DEF Queues
<1> QED BY <1>6, <1>14

-----------------------------------------------------------------------------
(* News of lines: the steps *)

LEMMA InfoInit == Init => FInv
<1> SUFFICES ASSUME Init PROVE FInv
  OBVIOUS
<1>1. \A c \in Chips : infoq[c] = <<>> /\ chips[c] = 0
  BY DEF Init
<1>2. infoq \in [Chips -> Seq(Info)] /\ lost \in [Chips -> SUBSET Lines]
  BY DEF Init
<1>3. \A c \in Chips, l \in Lines : lines[c][l].used \in BOOLEAN
  BY DEF Init, BlankLine
<1> QED BY <1>1, <1>2, <1>3 DEF FInv, InfoShape, LinesTold, Open

\* The part of the state that the news of lines depend on.
SameUsed == \A c \in Chips, l \in Lines : lines'[c][l].used = lines[c][l].used

LEMMA QuietInfo ==
  ASSUME FInv, UNCHANGED <<present, owner, chips, info>>, SameUsed
  PROVE  FInv'
<1>1. UNCHANGED <<present, owner, chips, infoq, lost>>
  BY DEF info
<1>2. InfoShape'
  BY <1>1 DEF FInv, InfoShape, SameUsed
<1>3. \A c \in Chips : Open(c)' <=> Open(c)
  BY <1>1 DEF Open
<1>4. ASSUME NEW c \in Chips, NEW l \in Lines, Told(infoq[c], l, lines[c][l].used, owner[c][l])
      PROVE  Told(infoq'[c], l, lines'[c][l].used, owner'[c][l])
  <2>1. lines'[c][l].used = lines[c][l].used
    BY DEF SameUsed
  <2> QED BY <1>1, <1>4, <2>1
<1>5. LinesTold'
  BY <1>1, <1>3, <1>4 DEF FInv, LinesTold
<1> QED BY <1>2, <1>5 DEF FInv

\* The lines in S of chip c get taken if b holds, or get free, and no other does.
Switched(c, S, b) ==
  \A d \in Chips, l \in Lines :
    IF d = c /\ l \in S THEN b <=> owner'[d][l] # Nobody
                        ELSE owner'[d][l] = owner[d][l]

\* The lines in S of chip c get taken, or get free, and the handle hears of it.
LEMMA NotifyInfo ==
  ASSUME FInv, NEW c \in Chips, NEW S \in SUBSET Lines, NEW b \in BOOLEAN, Notify(c, S, b),
         UNCHANGED <<present, chips>>, SameUsed, Switched(c, S, b)
  PROVE  FInv'
<1>0. InfoShape /\ LinesTold
  BY DEF FInv
<1>1. \A d \in Chips : Open(d)' <=> Open(d)
  BY DEF Open
<1>2. CASE ~Open(c)
  <2>1. UNCHANGED <<infoq, lost>>
    BY <1>2 DEF Notify, info
  <2>2. InfoShape'
    BY <1>0, <2>1 DEF InfoShape, SameUsed
  <2>3. ASSUME NEW d \in Chips, Open(d), NEW l \in Lines \ lost[d]
        PROVE  Told(infoq'[d], l, lines'[d][l].used, owner'[d][l])
    <3>1. owner'[d][l] = owner[d][l] /\ lines'[d][l].used = lines[d][l].used
      BY <1>2, <2>3 DEF SameUsed, Switched
    <3>2. Told(infoq[d], l, lines[d][l].used, owner[d][l])
      BY <1>0, <2>3 DEF LinesTold
    <3> QED BY <2>1, <3>1, <3>2
  <2>4. LinesTold'
    BY <1>0, <1>1, <2>1, <2>3 DEF LinesTold
  <2> QED BY <2>2, <2>4 DEF FInv
<1>3. CASE Open(c)
  <2>0. PICK r \in Seq(Info) : Queues(c, S, b, r)
    BY <1>0, <1>3, Notified
  <2>1. /\ infoq' = [infoq EXCEPT ![c] = @ \o r]
        /\ Len(infoq[c] \o r) <= InfoFifo
        /\ \A i \in 1..Len(r) : r[i].line \in S /\ r[i].used = b
        /\ lost' \in [Chips -> SUBSET Lines]
        /\ \A d \in Chips \ {c} : lost'[d] = lost[d]
        /\ \A l \in Lines \ lost'[c] :
             IF l \in S THEN \E k \in 1..Len(r) : r[k].line = l ELSE l \notin lost[c]
    BY <2>0 DEF Queues
  <2>2. infoq[c] \in Seq(Info) /\ infoq'[c] = infoq[c] \o r
        /\ \A d \in Chips \ {c} : infoq'[d] = infoq[d]
    BY <1>0, <2>1 DEF InfoShape
  <2>3. InfoShape'
    <3>1. infoq[c] \o r \in Seq(Info)
      BY <2>2
    <3>2. infoq' \in [Chips -> Seq(Info)]
      BY <1>0, <2>1, <3>1 DEF InfoShape
    <3>3. \A d \in Chips : Len(infoq'[d]) <= InfoFifo
      BY <1>0, <2>1, <2>2 DEF InfoShape
    <3> QED BY <1>0, <2>1, <3>2, <3>3 DEF InfoShape, SameUsed
  <2>4. ASSUME NEW l \in Lines \ lost'[c]
        PROVE  Told(infoq'[c], l, lines'[c][l].used, owner'[c][l])
    <3>1. lines'[c][l].used = lines[c][l].used /\ lines[c][l].used \in BOOLEAN
      BY <1>0 DEF SameUsed, InfoShape
    <3>2. CASE l \in S
      <4>1. PICK k \in 1..Len(r) : r[k].line = l
        BY <2>1, <3>2
      <4>2. b <=> owner'[c][l] # Nobody
        BY <3>2 DEF Switched
      <4>3. \A i \in 1..Len(r) : r[i].used = b
        BY <2>1
      <4>4. Told(infoq[c] \o r, l, lines[c][l].used, owner'[c][l])
        BY <2>2, <4>1, <4>2, <4>3, ToldLast, ZenonT(60)
      <4> QED BY <2>2, <3>1, <4>4
    <3>3. CASE l \notin S
      <4>1. l \notin lost[c] /\ owner'[c][l] = owner[c][l]
        BY <2>1, <3>3 DEF Switched
      <4>2. Told(infoq[c], l, lines[c][l].used, owner[c][l])
        BY <1>0, <1>3, <4>1 DEF LinesTold
      <4>3. \A i \in 1..Len(r) : r[i].line # l
        BY <2>1, <3>3
      <4>4. Told(infoq[c] \o r, l, lines[c][l].used, owner[c][l])
        <5>1. PICK u \in BOOLEAN : u = lines[c][l].used
          BY <3>1
        <5>2. Told(infoq[c], l, u, owner[c][l])
          BY <4>2, <5>1
        <5>3. infoq[c] \in Seq(Info)
          BY <2>2
        <5>4. Told(infoq[c] \o r, l, u, owner[c][l])
          BY <4>3, <5>2, <5>3, ToldOthers
        <5> QED BY <5>1, <5>4
      <4> QED BY <2>2, <3>1, <4>1, <4>4
    <3> QED BY <3>2, <3>3
  <2>5. ASSUME NEW d \in Chips, d # c, Open(d), NEW l \in Lines \ lost'[d]
        PROVE  Told(infoq'[d], l, lines'[d][l].used, owner'[d][l])
    <3>1. owner'[d][l] = owner[d][l] /\ lines'[d][l].used = lines[d][l].used
          /\ infoq'[d] = infoq[d] /\ lost'[d] = lost[d]
      BY <2>1, <2>2, <2>5 DEF SameUsed, Switched
    <3>2. Told(infoq[d], l, lines[d][l].used, owner[d][l])
      BY <1>0, <2>5, <3>1 DEF LinesTold
    <3> QED BY <3>1, <3>2
  <2>6. \A d \in Chips : ~Open(d) => infoq'[d] = <<>>
    BY <1>0, <1>3, <2>2 DEF LinesTold
  <2>7. LinesTold'
    BY <1>1, <2>4, <2>5, <2>6 DEF LinesTold
  <2> QED BY <2>3, <2>7 DEF FInv
<1> QED BY <1>2, <1>3

\* Handle c is shut, or is none: nothing is queued there, and the other chips are as
\* they were.
LEMMA ShutInfo ==
  ASSUME FInv, NEW c \in Chips, ~Open(c)', infoq' = [infoq EXCEPT ![c] = <<>>],
         lost' \in [Chips -> SUBSET Lines],
         \A l \in Lines : lines'[c][l].used \in BOOLEAN,
         \A d \in Chips \ {c} :
           /\ chips'[d] = chips[d] /\ present'[d] = present[d] /\ lost'[d] = lost[d]
           /\ \A l \in Lines : /\ owner'[d][l] = owner[d][l]
                               /\ lines'[d][l].used = lines[d][l].used
  PROVE  FInv'
<1>0. InfoShape /\ LinesTold
  BY DEF FInv
<1>1. infoq'[c] = <<>> /\ \A d \in Chips \ {c} : infoq'[d] = infoq[d]
  BY <1>0 DEF InfoShape
<1>2. InfoShape'
  <2>1. infoq' \in [Chips -> Seq(Info)]
    BY <1>0 DEF InfoShape
  <2>2. \A d \in Chips : Len(infoq'[d]) <= InfoFifo
    BY <1>0, <1>1 DEF InfoShape
  <2>3. \A d \in Chips, l \in Lines : lines'[d][l].used \in BOOLEAN
    BY <1>0 DEF InfoShape
  <2> QED BY <2>1, <2>2, <2>3 DEF InfoShape
<1>3. \A d \in Chips \ {c} : Open(d)' <=> Open(d)
  BY DEF Open
<1>4. ASSUME NEW d \in Chips \ {c}, Open(d), NEW l \in Lines \ lost'[d]
      PROVE  Told(infoq'[d], l, lines'[d][l].used, owner'[d][l])
  <2>1. /\ owner'[d][l] = owner[d][l] /\ lines'[d][l].used = lines[d][l].used
        /\ infoq'[d] = infoq[d] /\ lost'[d] = lost[d]
    BY <1>1
  <2>2. Told(infoq[d], l, lines[d][l].used, owner[d][l])
    BY <1>0, <1>4, <2>1 DEF LinesTold
  <2> QED BY <2>1, <2>2
<1>5. LinesTold'
  BY <1>0, <1>1, <1>3, <1>4 DEF LinesTold
<1> QED BY <1>2, <1>5 DEF FInv

LEMMA PlugInInfo ==
  ASSUME TInv, FInv, NEW c \in Chips, PlugIn(c)
  PROVE  FInv'
<1>1. /\ present[c] = 0 /\ present' = [present EXCEPT ![c] = plugs[c] + 1]
      /\ UNCHANGED <<owner, infoq, lost, chips, lines>>
  BY DEF PlugIn, info, tables
<1>2. ~Open(c) /\ ~Open(c)'
  BY <1>1 DEF Open, TInv, Shape
<1>3. infoq[c] = <<>> /\ InfoShape
  BY <1>2 DEF FInv, LinesTold
<1>4. infoq' = [infoq EXCEPT ![c] = <<>>]
  BY <1>1, <1>3 DEF InfoShape
<1>5. \A d \in Chips \ {c} : present'[d] = present[d]
  BY <1>1 DEF TInv, Shape
<1>6. lost' \in [Chips -> SUBSET Lines] /\ \A l \in Lines : lines'[c][l].used \in BOOLEAN
  BY <1>1, <1>3 DEF InfoShape
<1> QED BY <1>1, <1>2, <1>4, <1>5, <1>6, ShutInfo

LEMMA UnplugInfo ==
  ASSUME TInv, FInv, NEW c \in Chips, Unplug(c)
  PROVE  FInv'
<1>1. /\ present' = [present EXCEPT ![c] = 0]
      /\ owner' = [owner EXCEPT ![c] = FreeLines]
      /\ infoq' = [infoq EXCEPT ![c] = <<>>] /\ lost' = [lost EXCEPT ![c] = {}]
      /\ UNCHANGED <<chips, lines>>
  BY DEF Unplug, tables
<1>2. ~Open(c)'
  BY <1>1 DEF Open, TInv, Shape
<1>3. lost' \in [Chips -> SUBSET Lines] /\ \A l \in Lines : lines'[c][l].used \in BOOLEAN
  BY <1>1 DEF FInv, InfoShape
<1>4. \A d \in Chips \ {c} : /\ present'[d] = present[d] /\ lost'[d] = lost[d]
                             /\ owner'[d] = owner[d]
  BY <1>1 DEF TInv, Shape, FInv, InfoShape
<1> QED BY <1>1, <1>2, <1>3, <1>4, ShutInfo

LEMMA GoneInfo ==
  ASSUME FInv, ProcessGone
  PROVE  FInv'
<1>1. /\ infoq' = [c \in Chips |-> <<>>] /\ lost' = [c \in Chips |-> {}]
      /\ chips' = [c \in Chips |-> 0]
      /\ lines' = [c \in Chips |-> [l \in Lines |-> BlankLine]]
  BY DEF ProcessGone
<1>2. \A c \in Chips : infoq'[c] = <<>> /\ ~Open(c)'
  BY <1>1 DEF Open
<1>3. infoq' \in [Chips -> Seq(Info)] /\ lost' \in [Chips -> SUBSET Lines]
  BY <1>1
<1>4. \A c \in Chips, l \in Lines : lines'[c][l].used \in BOOLEAN
  BY <1>1 DEF BlankLine
<1> QED BY <1>2, <1>3, <1>4 DEF FInv, InfoShape, LinesTold

\* The line objects of a chip that gets exported are read from the kernel, with nothing
\* queued yet on the new handle.
LEMMA ExportInfo ==
  ASSUME TInv, FInv, NEW c \in Chips, ExportChip(c), UNCHANGED present
  PROVE  FInv'
<1>0. InfoShape /\ LinesTold
  BY DEF FInv
<1>1. CASE present[c] = 0 /\ UNCHANGED <<owner, info, tables>>
  BY <1>1, QuietInfo DEF tables, SameUsed
<1>2. CASE /\ present[c] # 0 /\ chips[c] = 0
           /\ chips' = [chips EXCEPT ![c] = present[c]]
           /\ lines' = [lines EXCEPT ![c] = [l \in Lines |-> ExportedLine(c, l)]]
           /\ UNCHANGED <<owner, info>>
  <2>1. UNCHANGED <<owner, infoq, lost>> /\ infoq[c] = <<>>
    BY <1>0, <1>2 DEF info, LinesTold, Open
  <2>2. \A l \in Lines : lines'[c][l].used = (owner[c][l] # Nobody)
    <3> TAKE l \in Lines
    <3>1. lines'[c][l] = ExportedLine(c, l)
      BY <1>2 DEF TInv, Shape
    <3> QED BY <3>1 DEF ExportedLine, BlankLine
  <2>3. \A d \in Chips \ {c} : chips'[d] = chips[d] /\ lines'[d] = lines[d]
    BY <1>2 DEF TInv, Shape
  <2>4. InfoShape'
    <3>1. \A d \in Chips, l \in Lines : lines'[d][l].used \in BOOLEAN
      BY <1>0, <2>2, <2>3 DEF InfoShape
    <3> QED BY <1>0, <2>1, <3>1 DEF InfoShape
  <2>5. \A l \in Lines : Told(infoq'[c], l, lines'[c][l].used, owner'[c][l])
    <3> TAKE l \in Lines
    <3>1. infoq'[c] = <<>> /\ Len(infoq'[c]) = 0
      BY <2>1
    <3>2. lines'[c][l].used <=> owner'[c][l] # Nobody
      BY <2>1, <2>2
    <3> QED BY <3>1, <3>2 DEF Told
  <2>6. \A d \in Chips \ {c} : Open(d)' <=> Open(d)
    BY <2>3 DEF Open
  <2>7. ASSUME NEW d \in Chips \ {c}, Open(d), NEW l \in Lines \ lost[d]
        PROVE  Told(infoq'[d], l, lines'[d][l].used, owner'[d][l])
    <3>1. Told(infoq[d], l, lines[d][l].used, owner[d][l])
      BY <1>0, <2>7 DEF LinesTold
    <3> QED BY <2>1, <2>3, <3>1
  <2>8. LinesTold'
    BY <1>0, <2>1, <2>5, <2>6, <2>7 DEF LinesTold
  <2> QED BY <2>4, <2>8 DEF FInv
<1> QED BY <1>1, <1>2 DEF ExportChip

LEMMA EventInfo ==
  ASSUME TInv, FInv, NEW c \in Chips, OnInfoEvent(c)
  PROVE  FInv'
<1>0. InfoShape /\ LinesTold
  BY DEF FInv
<1> DEFINE q == infoq[c] e == Head(q)
<1>1. /\ lines' = [lines EXCEPT ![c][e.line].used = e.used]
      /\ infoq' = [infoq EXCEPT ![c] = Tail(@)] /\ q # <<>>
      /\ UNCHANGED <<present, owner, lost, chips>>
  BY DEF OnInfoEvent, kernel
<1>2. q \in Seq(Info)
  BY <1>0 DEF InfoShape
<1> HIDE DEF q
<1>3. e \in Info /\ Tail(q) \in Seq(Info) /\ Len(Tail(q)) <= Len(q) /\ Len(q) \in Nat
      /\ Len(Tail(q)) \in Nat
  BY <1>1, <1>2
<1>4. infoq'[c] = Tail(q) /\ \A d \in Chips \ {c} : infoq'[d] = infoq[d]
  BY <1>0, <1>1 DEF InfoShape, q
<1>5. e.line \in Lines /\ e.used \in BOOLEAN
  BY <1>3 DEF Info
<1> HIDE DEF e
<1>6. \A l \in Lines : lines'[c][l].used = IF e.line = l THEN e.used ELSE lines[c][l].used
  BY <1>1, <1>5 DEF TInv, Shape
<1>7. \A d \in Chips \ {c} : lines'[d] = lines[d]
  BY <1>1 DEF TInv, Shape
<1>8. InfoShape'
  <2>1. infoq' \in [Chips -> Seq(Info)]
    BY <1>0, <1>1, <1>3 DEF InfoShape, q
  <2>2. \A d \in Chips : Len(infoq'[d]) <= InfoFifo
    <3>1. Len(q) <= InfoFifo
      BY <1>0 DEF InfoShape, q
    <3>2. Len(Tail(q)) <= InfoFifo
      BY <1>3, <3>1
    <3> QED BY <1>0, <1>4, <3>2 DEF InfoShape
  <2>3. \A d \in Chips, l \in Lines : lines'[d][l].used \in BOOLEAN
    BY <1>0, <1>5, <1>6, <1>7 DEF InfoShape
  <2> QED BY <1>0, <1>1, <2>1, <2>2, <2>3 DEF InfoShape
<1>9. Open(c) /\ \A d \in Chips : Open(d)' <=> Open(d)
  BY <1>0, <1>1 DEF LinesTold, Open, q
<1>10. ASSUME NEW l \in Lines \ lost[c]
       PROVE  Told(infoq'[c], l, lines'[c][l].used, owner'[c][l])
  <2>1. Told(q, l, lines[c][l].used, owner[c][l]) /\ lines[c][l].used \in BOOLEAN
    BY <1>0, <1>9 DEF LinesTold, InfoShape, q
  <2>2. Told(Tail(q), l, IF Head(q).line = l THEN Head(q).used ELSE lines[c][l].used,
             owner[c][l])
    BY <1>1, <1>2, <2>1, ToldTail
  <2>3. lines'[c][l].used = IF Head(q).line = l THEN Head(q).used ELSE lines[c][l].used
    BY <1>6 DEF e
  <2> QED BY <1>1, <1>4, <2>2, <2>3
<1>11. ASSUME NEW d \in Chips \ {c}, Open(d), NEW l \in Lines \ lost[d]
       PROVE  Told(infoq'[d], l, lines'[d][l].used, owner'[d][l])
  <2>1. Told(infoq[d], l, lines[d][l].used, owner[d][l])
    BY <1>0, <1>11 DEF LinesTold
  <2> QED BY <1>1, <1>4, <1>7, <2>1
<1>12. LinesTold'
  BY <1>0, <1>1, <1>4, <1>9, <1>10, <1>11 DEF LinesTold
<1> QED BY <1>8, <1>12 DEF FInv

\* LinesUnmanaged says nothing of the use of lines.
LEMMA UnmanagedUsed ==
  ASSUME TInv, NEW R, NEW c \in Chips, NEW l \in Lines
  PROVE  LinesUnmanaged(R)[c][l].used = lines[c][l].used
<1>1. DOMAIN lines[c][l] = {"used", "managed", "path"}
  BY DEF TInv, Shape
<1>2. CASE l \in HeldBy(R, c)
  <2>1. LinesUnmanaged(R)[c][l] = [lines[c][l] EXCEPT !.managed = FALSE, !.path = NoPath]
    BY <1>2 DEF LinesUnmanaged
  <2> QED BY <1>1, <2>1
<1>3. CASE l \notin HeldBy(R, c)
  BY <1>3 DEF LinesUnmanaged
<1> QED BY <1>2, <1>3

LEMMA UnexportInfo ==
  ASSUME TInv, FInv, NEW c \in Chips, UnexportChip(c), UNCHANGED present
  PROVE  FInv'
<1>0. InfoShape /\ LinesTold
  BY DEF FInv
<1>1. CASE UNCHANGED <<owner, info, tables>>
  BY <1>1, QuietInfo DEF tables, SameUsed
<1>2. CASE /\ FreeRequests(RequestsOf(c))
           /\ chips' = [chips EXCEPT ![c] = 0]
           /\ lines' = [LinesUnmanaged(RequestsOf(c)) EXCEPT
                          ![c] = [l \in Lines |-> BlankLine]]
           /\ infoq' = [infoq EXCEPT ![c] = <<>>]
           /\ lost' = [lost EXCEPT ![c] = {}]
  <2> DEFINE R == RequestsOf(c)
  <2>1. owner' = LinesReleased(R)
    BY <1>2 DEF FreeRequests
  <2>2. ~Open(c)'
    BY <1>2 DEF Open, TInv, Shape
  <2>3. lost' \in [Chips -> SUBSET Lines] /\ \A d \in Chips \ {c} : lost'[d] = lost[d]
    BY <1>0, <1>2 DEF InfoShape
  <2>4. \A d \in Chips \ {c} : chips'[d] = chips[d]
    BY <1>2 DEF TInv, Shape
  <2>5. \A l \in Lines : lines'[c][l].used \in BOOLEAN
    <3> TAKE l \in Lines
    <3>1. lines'[c][l] = BlankLine
      BY <1>2, UnmanagedLines
    <3> QED BY <3>1 DEF BlankLine
  <2>6. ASSUME NEW d \in Chips \ {c}, NEW l \in Lines
        PROVE  owner'[d][l] = owner[d][l] /\ lines'[d][l].used = lines[d][l].used
    <3>1. \A i \in OnInstance(R, d) : i \in R /\ reqs[i].chip = d
      BY DEF OnInstance
    <3>2. \A i \in R : reqs[i].chip = c
      BY DEF RequestsOf
    <3>3. OnInstance(R, d) = {}
      BY <3>1, <3>2
    <3>4. l \notin HeldBy(OnInstance(R, d), d)
      BY <3>3, HeldByRequests
    <3>5. owner'[d][l] = owner[d][l]
      BY <2>1, <3>4 DEF LinesReleased
    <3>6. lines'[d][l] = LinesUnmanaged(R)[d][l]
      BY <1>2, UnmanagedLines
    <3> QED BY <3>5, <3>6, UnmanagedUsed
  <2> QED BY <1>2, <2>2, <2>3, <2>4, <2>5, <2>6, ShutInfo
<1> QED BY <1>1, <1>2 DEF UnexportChip

LEMMA OtherInfo ==
  ASSUME TInv, FInv, NEW c \in Chips, NEW l \in Lines, OtherTakes(c, l) \/ OtherDrops(c, l)
  PROVE  FInv'
<1>1. PICK b \in BOOLEAN :
        /\ Notify(c, {l}, b)
        /\ owner' = [owner EXCEPT ![c][l] = IF b THEN Other ELSE Nobody]
        /\ UNCHANGED <<present, chips, lines>>
  BY DEF OtherTakes, OtherDrops, tables
<1>2. Switched(c, {l}, b)
  BY <1>1 DEF Switched, TInv, Shape, Nobody, Other
<1>3. SameUsed
  BY <1>1 DEF SameUsed
<1>4. {l} \in SUBSET Lines
  OBVIOUS
<1> QED BY <1>1, <1>2, <1>3, <1>4, NotifyInfo

LEMMA RequestInfo ==
  ASSUME TInv, FInv, NEW c \in Chips, NEW S \in SUBSET Lines, HandleRequestLines(c, S)
  PROVE  FInv'
<1>0. PICK id \in Ids : id = IdAlloc
  BY DEF HandleRequestLines
<1>1. /\ owner' = [owner EXCEPT ![c] = [l \in Lines |-> IF l \in S THEN id ELSE @[l]]]
      /\ lines' = [lines EXCEPT ![c] = [l \in Lines |->
                     IF l \in S THEN [@[l] EXCEPT !.managed = TRUE, !.path = id] ELSE @[l]]]
      /\ UNCHANGED <<present, chips>>
  BY <1>0 DEF HandleRequestLines
<1>1a. PICK b \in BOOLEAN : b /\ Notify(c, S, b)
  BY DEF HandleRequestLines
<1>2. Switched(c, S, b)
  <2>1. id # Nobody
    BY IdsAreIds
  <2>2. \A d \in Chips, l \in Lines :
          owner'[d][l] = IF d = c /\ l \in S THEN id ELSE owner[d][l]
    BY <1>1 DEF TInv, Shape
  <2> QED BY <1>1a, <2>1, <2>2 DEF Switched
<1>3. ASSUME NEW d \in Chips, NEW l \in Lines PROVE lines'[d][l].used = lines[d][l].used
  <2>1. DOMAIN lines[d][l] = {"used", "managed", "path"}
    BY DEF TInv, Shape
  <2>2. CASE d = c /\ l \in S
    <3>1. lines'[d][l] = [lines[d][l] EXCEPT !.managed = TRUE, !.path = id]
      BY <1>1, <2>2 DEF TInv, Shape
    <3> QED BY <2>1, <3>1
  <2>3. CASE ~(d = c /\ l \in S)
    <3>1. lines'[d][l] = lines[d][l]
      BY <1>1, <2>3 DEF TInv, Shape
    <3> QED BY <3>1
  <2> QED BY <2>2, <2>3
<1>4. SameUsed
  BY <1>3 DEF SameUsed
<1> QED BY <1>1, <1>1a, <1>2, <1>4, NotifyInfo

\* Lines of an instance that is gone are not released again, on the present one.
LEMMA ReleaseInfo ==
  ASSUME TInv, FInv, NEW id, HandleReleaseLines(id)
  PROVE  FInv'
<1>1. /\ id \in DOMAIN reqs /\ owner' = LinesReleased({id}) /\ lines' = LinesUnmanaged({id})
      /\ UNCHANGED <<present, chips>>
  BY DEF HandleReleaseLines, FreeRequests
<1>2. PICK c \in Chips, S \in SUBSET Lines : c = reqs[id].chip /\ S = reqs[id].held
  BY <1>1 DEF TInv, Shape
<1>3. SameUsed
  BY <1>1, UnmanagedUsed DEF SameUsed
<1>4. \A d \in Chips, l \in Lines :
        owner'[d][l] = IF d = c /\ l \in S /\ reqs[id].inst = present[c] THEN Nobody
                                                                    ELSE owner[d][l]
  <2> TAKE d \in Chips, l \in Lines
  <2>1. owner'[d][l] = IF l \in HeldBy(OnInstance({id}, d), d) THEN Nobody ELSE owner[d][l]
    BY <1>1 DEF LinesReleased
  <2>2. \A i : i \in OnInstance({id}, d) <=>
                 i = id /\ reqs[id].chip = d /\ reqs[id].inst = present[d]
    BY DEF OnInstance
  <2>3. l \in HeldBy(OnInstance({id}, d), d) <=>
          d = c /\ l \in S /\ reqs[id].inst = present[c]
    <3> DEFINE T == OnInstance({id}, d)
    <3> HIDE DEF T
    <3>1. l \in HeldBy(T, d) <=> \E i \in T : reqs[i].chip = d /\ l \in reqs[i].held
      BY HeldByRequests
    <3>2. \A i : i \in T <=> i = id /\ reqs[id].chip = d /\ reqs[id].inst = present[d]
      BY <2>2 DEF T
    <3>3. l \in HeldBy(T, d) <=> d = c /\ l \in S /\ reqs[id].inst = present[c]
      BY <1>2, <3>1, <3>2
    <3> QED BY <3>3 DEF T
  <2> QED BY <2>1, <2>3
<1>5. CASE reqs[id].inst = present[c]
  <2>1. PICK b \in BOOLEAN : ~b /\ Notify(c, S, b)
    BY <1>2, <1>5 DEF HandleReleaseLines
  <2>2. Switched(c, S, b)
    BY <1>4, <1>5, <2>1 DEF Switched
  <2> QED BY <1>1, <1>3, <2>1, <2>2, NotifyInfo
<1>6. CASE reqs[id].inst # present[c]
  <2>1. UNCHANGED info
    BY <1>2, <1>6 DEF HandleReleaseLines
  <2>2. \A d \in Chips, l \in Lines : owner'[d][l] = owner[d][l]
    BY <1>4, <1>6
  <2>3. owner' = owner
    <3>1. owner' \in [Chips -> [Lines -> Holders]] /\ owner \in [Chips -> [Lines -> Holders]]
      BY <1>1 DEF LinesReleased, TInv, Shape, Holders
    <3>2. ASSUME NEW d \in Chips PROVE owner'[d] = owner[d]
      <4>1. owner'[d] \in [Lines -> Holders] /\ owner[d] \in [Lines -> Holders]
        BY <3>1
      <4>2. \A l \in Lines : owner'[d][l] = owner[d][l]
        BY <2>2
      <4>3. owner'[d] = [l \in Lines |-> owner'[d][l]] /\ owner[d] = [l \in Lines |-> owner[d][l]]
        BY <4>1
      <4> QED BY <4>2, <4>3
    <3> QED BY <3>1, <3>2
  <2> QED BY <1>1, <1>3, <2>1, <2>3, QuietInfo
<1> QED BY <1>5, <1>6

LEMMA InfoStep ==
  ASSUME TInv, FInv, uevents \in Seq(Uevent), [Next]_vars
  PROVE  FInv'
<1>1. CASE UNCHANGED vars
  BY <1>1, QuietInfo DEF vars, kernel, tables, SameUsed
<1>2. ASSUME NEW c \in Chips, PlugIn(c) PROVE FInv'
  BY <1>2, PlugInInfo
<1>3. ASSUME NEW c \in Chips, Unplug(c) PROVE FInv'
  BY <1>3, UnplugInfo
<1>4. ASSUME NEW c \in Chips, NEW l \in Lines, OtherTakes(c, l) \/ OtherDrops(c, l)
      PROVE  FInv'
  BY <1>4, OtherInfo
<1>5. CASE UeventLost \/ DaemonNew \/ Start \/ Started \/ UeventIgnored
  BY <1>5, QuietInfo
     DEF UeventLost, DaemonNew, Start, Started, UeventIgnored, kernel, tables, SameUsed
<1>6. ASSUME NEW c \in Chips, ProcessChipDev(c) PROVE FInv'
  <2>1. UNCHANGED present /\ (ExportChip(c) \/ ProcessGone)
    BY <1>6 DEF ProcessChipDev, ExportAsserts
  <2> QED BY <2>1, ExportInfo, GoneInfo
<1>7. CASE OnUevent
  <2>0. Head(uevents) \in Uevent
    BY <1>7 DEF OnUevent
  <2>1. PICK c \in Chips : c = Head(uevents).chip
    BY <2>0 DEF Uevent
  <2>2. UNCHANGED present
        /\ (ExportChip(c) \/ ProcessGone \/ UnexportChip(c))
    BY <1>7, <2>1 DEF OnUevent, ExportAsserts
  <2> QED BY <2>2, ExportInfo, GoneInfo, UnexportInfo
<1>8. ASSUME NEW c \in Chips, OnInfoEvent(c) PROVE FInv'
  BY <1>8, EventInfo
<1>9. ASSUME NEW c \in Chips, NEW S \in SUBSET Lines, HandleRequestLines(c, S) PROVE FInv'
  BY <1>9, RequestInfo
<1>10. ASSUME NEW id, HandleReleaseLines(id) PROVE FInv'
  BY <1>10, ReleaseInfo
<1>11. CASE Die
  BY <1>11, GoneInfo DEF Die
<1> QED BY <1>1, <1>2, <1>3, <1>4, <1>5, <1>6, <1>7, <1>8, <1>9, <1>10, <1>11
        DEF Next, Environment, Daemon, Clients

-----------------------------------------------------------------------------
(* Theorems *)

\* Tables, line objects, ids and news agree in every reachable state, for any chips and
\* lines and however often chips come and the daemon dies.
THEOREM Invariance == Spec => [](TInv /\ NInv /\ FInv)
<1>1. Init => TInv /\ NInv /\ FInv
  BY TablesInit, NewsInit, InfoInit
<1>2. TInv /\ NInv /\ FInv /\ [Next]_vars => (TInv /\ NInv /\ FInv)'
  <2> SUFFICES ASSUME TInv, NInv, FInv, [Next]_vars PROVE TInv' /\ NInv' /\ FInv'
    OBVIOUS
  <2>1. TInv'
    BY TablesStep DEF NInv
  <2>2. NInv'
    BY NewsStep
  <2>3. FInv'
    BY InfoStep DEF NInv
  <2> QED BY <2>1, <2>2, <2>3
<1> QED BY <1>1, <1>2, PTL DEF Spec

\* A line object names the request that holds its line, and no other (set_managed).
THEOREM MirrorKept == Spec => []ManagedMirrors
<1>1. TInv /\ NInv /\ FInv => ManagedMirrors
  BY DEF TInv
<1> QED BY <1>1, Invariance, PTL

\* The kernel's lines of the daemon are those of its requests: none is left taken by a
\* release, a chip that goes or a death.
THEOREM OwnershipKept == Spec => []OwnershipMatches
<1>1. TInv /\ NInv /\ FInv => OwnershipMatches
  BY DEF TInv
<1> QED BY <1>1, Invariance, PTL

\* An id is in use as long as its request is there (gpiodbus_id_alloc, gpiodbus_id_free).
THEOREM IdsKept == Spec => []IdsMatch
<1>1. TInv /\ NInv /\ FInv => IdsMatch
  BY DEF TInv
<1> QED BY <1>1, Invariance, PTL

\* With all uevents received the daemon exports the chips there are, each on the instance
\* that is plugged in, however they came and went during its start.
THEOREM MirrorQuiescent == Spec => []QuiescentMirror
<1>1. TInv /\ NInv /\ FInv => QuiescentMirror
  <2> SUFFICES ASSUME TInv, NInv, status = "running", uevents = <<>>
               PROVE  chips = present
    BY DEF QuiescentMirror
  <2>1. \A c \in Chips : NoNews(c)
    BY DEF NoNews
  <2>2. \A c \in Chips : chips[c] = present[c]
    BY <2>1 DEF NInv, Heard
  <2> QED BY <2>2 DEF TInv, Shape
<1> QED BY <1>1, Invariance, PTL

\* A line object says whether its line is used once the daemon has received the events of
\* the chip, for every line but those whose last event the kernel had no room for
\* (gpiodbus_daemon_on_info_event).
THEOREM UsedKept == Spec => []UsedFresh
<1>1. TInv /\ NInv /\ FInv => UsedFresh
  <2> SUFFICES ASSUME FInv, NEW c \in Chips, Open(c), infoq[c] = <<>>,
                      NEW l \in Lines \ lost[c]
               PROVE  lines[c][l].used <=> owner[c][l] # Nobody
    BY DEF UsedFresh
  <2>1. Told(infoq[c], l, lines[c][l].used, owner[c][l])
    BY DEF FInv, LinesTold
  <2>2. Len(infoq[c]) = 0
    OBVIOUS
  <2> QED BY <2>1, <2>2 DEF Told
<1> QED BY <1>1, Invariance, PTL
=================================================================================
