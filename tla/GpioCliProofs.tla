---------------------------- MODULE GpioCliProofs -------------------------------
(* Proofs about GpioCli, for any chips, lines, names, numbers of requests and any  *)
(* number of changes that others make while a command runs.                        *)
EXTENDS GpioCli, FiniteSetTheorems, FunctionTheorems, WellFoundedInduction, TLAPS

USE CliAssumption DEF CliAssumption, NoChip, NoId, Unused

-----------------------------------------------------------------------------
(* Sets and sequences *)

\* A non-empty set of naturals has a least element, and Min is one.
LEMMA LeastIs ==
  ASSUME NEW T \in SUBSET Nat, T # {}
  PROVE  Min(T) \in T
<1> DEFINE R == OpToRel(<, Nat)
<1>1. IsWellFoundedOn(R, Nat)
  BY NatLessThanWellFounded
<1>2. \E x \in T : \A y \in T : ~(<<y, x>> \in R)
  <2> HIDE DEF R
  <2> QED BY <1>1, WFMin
<1>3. PICK x \in T : \A y \in T : ~(<<y, x>> \in R)
  BY <1>2
<1>4. \A y \in T : ~(y < x)
  BY <1>3 DEF OpToRel
<1>5. \E z \in T : \A y \in T : z =< y
  BY <1>4
<1> QED BY <1>5 DEF Min

\* The list of a finite set's members.
LEMMA SetToSeqLists ==
  ASSUME NEW S, IsFiniteSet(S)
  PROVE  /\ SetToSeq(S) \in Seq(S) /\ Cardinality(S) \in Nat
         /\ DOMAIN SetToSeq(S) = 1 .. Cardinality(S)
         /\ \A k \in DOMAIN SetToSeq(S) : SetToSeq(S)[k] \in S
<1>1. PICK f : f \in Bijection(1 .. Cardinality(S), S)
  BY FS_CardinalityType DEF ExistsBijection
<1>2. Cardinality(S) \in Nat
  BY FS_CardinalityType
<1>3. f \in [1 .. Cardinality(S) -> S] /\ IsInjective(f)
  BY <1>1 DEF Bijection, Injection, IsInjective
<1>4. SetToSeq(S) \in [1 .. Cardinality(S) -> S]
  BY <1>3 DEF SetToSeq
<1> QED BY <1>2, <1>4

LEMMA NotEmpty == \A s : Len(s) = 1 => s # <<>>
OBVIOUS

LEMMA ListOfChips ==
  ASSUME NEW E \in SUBSET Chips
  PROVE  SetToSeq(E) \in Seq(Chips)
<1> DEFINE q == SetToSeq(E)
<1>1. IsFiniteSet(E)
  BY FS_Subset
<1> HIDE DEF CliAssumption
<1>2. q \in Seq(E)
  BY <1>1, SetToSeqLists
<1> HIDE DEF q
<1>3. q \in Seq(Chips)
  BY <1>2
<1> QED BY <1>3 DEF q

LEMMA Finite ==
  ASSUME NEW c \in Chips, NEW S \in SUBSET ({c} \X Offsets)
  PROVE  IsFiniteSet(S)
<1>1. IsFiniteSet({c} \X Offsets)
  BY FS_Singleton, FS_Product
<1> QED BY <1>1, FS_Subset

\* The signals of a topic that are posted.
LEMMA SignalsAre ==
  ASSUME NEW t, NEW A, NEW s \in Seq(A), [topic : {t}, arg : A] \subseteq Messages
  PROVE  /\ Signals(t, s) \in Seq(Messages)
         /\ \A k \in DOMAIN Signals(t, s) :
               /\ k \in DOMAIN s /\ Signals(t, s)[k] = Message(t, s[k])
               /\ Signals(t, s)[k].topic = t /\ t \in heard
         /\ t \in heard => Len(Signals(t, s)) = Len(s)
<1>1. CASE t \in heard
  <2>1. Signals(t, s) = [k \in DOMAIN s |-> Message(t, s[k])]
    BY <1>1 DEF Signals
  <2>2. DOMAIN s = 1 .. Len(s) /\ Len(s) \in Nat /\ \A k \in 1 .. Len(s) : s[k] \in A
    OBVIOUS
  <2>3. \A k \in 1 .. Len(s) : /\ Message(t, s[k]) \in Messages
                               /\ Message(t, s[k]).topic = t
    BY <2>2 DEF Message
  <2>4. Signals(t, s) \in [1 .. Len(s) -> Messages]
    BY <2>1, <2>2, <2>3
  <2>5. Signals(t, s) \in Seq(Messages) /\ Len(Signals(t, s)) = Len(s)
    BY <2>2, <2>4
  <2> QED BY <1>1, <2>1, <2>2, <2>3, <2>5
<1>2. CASE t \notin heard
  BY <1>2 DEF Signals
<1> QED BY <1>1, <1>2

\* What is posted goes behind what waits.
LEMMA Posted ==
  ASSUME TypeOK, AtHome, NEW msgs \in Seq(Messages), inbox' = inbox \o msgs, heard' = heard,
         \A k \in DOMAIN msgs : msgs[k].topic \in heard
  PROVE  /\ inbox' \in Seq(Messages)
         /\ Len(inbox) \in Nat /\ Len(msgs) \in Nat
         /\ DOMAIN inbox = 1 .. Len(inbox) /\ DOMAIN inbox' = 1 .. Len(inbox) + Len(msgs)
         /\ \A k \in DOMAIN inbox : k \in DOMAIN inbox' /\ inbox'[k] = inbox[k]
         /\ \A k \in DOMAIN msgs : /\ Len(inbox) + k \in DOMAIN inbox'
                                   /\ inbox'[Len(inbox) + k] = msgs[k]
         /\ \A k \in DOMAIN inbox' : k \notin DOMAIN inbox =>
               /\ k - Len(inbox) \in DOMAIN msgs /\ inbox'[k] = msgs[k - Len(inbox)]
         /\ \A k \in DOMAIN inbox' : inbox'[k].topic \in heard'
         /\ Ended => Ended'
<1>1. inbox \in Seq(Messages)
  BY DEF TypeOK
<1> DEFINE n == Len(inbox)
           m == Len(msgs)
<1>2. /\ n \in Nat /\ m \in Nat /\ DOMAIN inbox = 1 .. n /\ DOMAIN msgs = 1 .. m
      /\ inbox' \in Seq(Messages) /\ Len(inbox') = n + m
      /\ DOMAIN inbox' = 1 .. n + m
  BY <1>1
<1>3. \A k \in 1 .. n : k \in 1 .. n + m /\ inbox'[k] = inbox[k]
  BY <1>1, <1>2
<1>4. \A k \in 1 .. m : n + k \in 1 .. n + m /\ inbox'[n + k] = msgs[k]
  BY <1>1, <1>2
<1>5. \A k \in 1 .. n + m : k \notin 1 .. n => k - n \in 1 .. m /\ n + (k - n) = k
  BY <1>2
<1> HIDE DEF n, m
<1>6. \A k \in 1 .. n + m : k \notin 1 .. n => k - n \in 1 .. m /\ inbox'[k] = msgs[k - n]
  <2> TAKE k \in 1 .. n + m
  <2> HAVE k \notin 1 .. n
  <2>1. k - n \in 1 .. m /\ n + (k - n) = k
    BY <1>5
  <2>2. inbox'[n + (k - n)] = msgs[k - n]
    BY <1>4, <2>1
  <2> QED BY <2>1, <2>2
<1>7. \A k \in 1 .. n + m : inbox'[k].topic \in heard'
  <2> TAKE k \in 1 .. n + m
  <2>1. CASE k \in 1 .. n
    BY <1>2, <1>3, <2>1 DEF AtHome
  <2>2. CASE k \notin 1 .. n
    BY <1>2, <1>6, <2>2
  <2> QED BY <2>1, <2>2
<1>8. Ended => Ended'
  BY <1>2, <1>3 DEF Ended
<1> QED BY <1>2, <1>3, <1>4, <1>6, <1>7, <1>8 DEF n, m

\* Messages of each topic.
LEMMA MessageTypes ==
  /\ [topic : {"requests"}, arg : Ids] \subseteq Messages
  /\ [topic : {"chips"}, arg : Chips] \subseteq Messages
  /\ [topic : {"name"}, arg : BOOLEAN] \subseteq Messages
  /\ [topic : {"props"}, arg : Ids \cup {NoId}] \subseteq Messages
  /\ [topic : {"edges"}, arg : Nat] \subseteq Messages
BY DEF Messages

LEMMA HolderType ==
  ASSUME NEW rs, NEW l
  PROVE  /\ HolderIn(rs, l) \in Ids \cup {NoId}
         /\ HolderIn(rs, l) # NoId => HolderIn(rs, l) \in Ids /\ l \in rs[HolderIn(rs, l)]
BY DEF HolderIn

LEMMA NumbersInt == \A x \in Ids \cup {NoId} : x \in Int
OBVIOUS

\* The lines found are lines of an exported chip, and of the chip named, if any.
LEMMA FoundAre ==
  ASSUME TypeOK, NEW l \in Found
  PROVE  /\ l \in Lines /\ l[1] \in exported /\ l[1] \in Chips
         /\ chip # NoChip => l[1] = chip
<1>1. \A c, n : OnChip(c, n) \subseteq {c} \X Offsets
  BY DEF OnChip
<1>2. \A n : FirstNamed(n) # {} => \E c \in exported : FirstNamed(n) \subseteq {c} \X Offsets
  <2> SUFFICES ASSUME NEW n, FirstNamed(n) # {}
               PROVE  \E c \in exported : FirstNamed(n) \subseteq {c} \X Offsets
    OBVIOUS
  <2> DEFINE having == {c \in exported : OnChip(c, n) # {}}
  <2>1. having # {} /\ FirstNamed(n) = OnChip(Min(having), n)
    BY DEF FirstNamed, FirstHaving
  <2>2. having \in SUBSET Nat /\ having \subseteq exported
    BY DEF TypeOK
  <2> HIDE DEF having
  <2>3. Min(having) \in exported
    BY <2>1, <2>2, LeastIs
  <2> QED BY <1>1, <2>1, <2>3
<1>3. \E c \in exported : l \in {c} \X Offsets /\ (chip # NoChip => c = chip)
  <2>1. CASE chip = NoChip
    BY <1>2, <2>1 DEF Found
  <2>2. CASE chip # NoChip
    <3>1. chip \in exported /\ l \in OnChip(chip, names[Len(places) + 1])
      BY <2>2 DEF Found
    <3> QED BY <1>1, <3>1
  <2> QED BY <2>1, <2>2
<1> QED BY <1>3 DEF TypeOK, Lines

\* The places found so far, with one more.
LEMMA PlacesGrow ==
  ASSUME TypeOK, NEW l \in Found
  PROVE  /\ Append(places, l) \in Seq(Chips \X (Offsets \cup {0}))
         /\ <<l>> \in Seq(Chips \X (Offsets \cup {0}))
         /\ Append(places, l) # <<>> /\ Last(Append(places, l)) = l
         /\ DOMAIN places = 1 .. Len(places)
         /\ DOMAIN Append(places, l) = 1 .. Len(places) + 1
         /\ Append(places, l)[Len(places) + 1] = l
         /\ \A k \in DOMAIN places : Append(places, l)[k] = places[k]
<1>1. l \in Chips \X (Offsets \cup {0})
  BY FoundAre DEF Lines
<1>2. places \in Seq(Chips \X (Offsets \cup {0}))
  BY DEF TypeOK
<1> DEFINE n == Len(places)
           q == Append(places, l)
<1>3. n \in Nat /\ DOMAIN places = 1 .. n
  BY <1>2
<1>4. q \in Seq(Chips \X (Offsets \cup {0})) /\ Len(q) = n + 1
  BY <1>1, <1>2
<1>5. DOMAIN q = 1 .. n + 1 /\ q # <<>>
  BY <1>3, <1>4
<1>6. q[n + 1] = l /\ \A k \in 1 .. n : q[k] = places[k]
  BY <1>1, <1>2, <1>3
<1>7. Last(q) = l
  BY <1>4, <1>6 DEF Last
<1>8. <<l>> \in Seq(Chips \X (Offsets \cup {0}))
  BY <1>1
<1> QED BY <1>3, <1>4, <1>5, <1>6, <1>7, <1>8

\* What waits after the first n signals are handled.
LEMMA Handled ==
  ASSUME TypeOK, NEW n \in 1 .. Len(inbox), NEW rest,
         rest = SubSeq(inbox, n + 1, Len(inbox))
  PROVE  /\ rest \in Seq(Messages) /\ Len(inbox) \in Nat
         /\ \A k \in DOMAIN rest : k + n \in DOMAIN inbox /\ rest[k] = inbox[k + n]
<1>1. inbox \in Seq(Messages) /\ Len(inbox) \in Nat
  BY DEF TypeOK
<1> DEFINE m == Len(inbox) - n
<1>2. m \in Nat /\ DOMAIN inbox = 1 .. n + m
  BY <1>1
<1>3. rest = [k \in 1 .. m |-> inbox[k + n]]
  BY <1>1
<1>4. \A k \in 1 .. m : k + n \in 1 .. n + m /\ inbox[k + n] \in Messages
  BY <1>1, <1>2
<1>5. rest \in [1 .. m -> Messages]
  BY <1>3, <1>4
<1> QED BY <1>1, <1>2, <1>3, <1>4, <1>5

\* A topic of a message is a topic.
LEMMA TopicsHeard ==
  ASSUME NEW b \in BOOLEAN
  PROVE  /\ <<Message("name", b)>> \in Seq(Messages)
         /\ \A k \in DOMAIN <<Message("name", b)>> :
              k = 1 /\ <<Message("name", b)>>[k] = Message("name", b)
         /\ Message("name", b).topic = "name" /\ Message("name", b).arg = b
BY DEF Message, Messages

-----------------------------------------------------------------------------
(* Steps that leave the client where nothing is asked of it *)

Quiet ==
  \/ pc \in {"chips", "list", "name", "client", "chip", "exit"}
  \/ pc = "find" /\ cmd \in {"request", "set", "get", "find", "info"}

TopicsAreHeard == \A k \in DOMAIN inbox : inbox[k].topic \in heard

LEMMA Elsewhere ==
  ASSUME Quiet', OneChip', ReachesNamed', (~up => exported = {})', TopicsAreHeard'
  PROVE  CallsInv' /\ FollowInv'
<1>1. pc' \notin {"start", "await", "requested", "call", "offsets", "objects", "proxy", "loop"}
  BY DEF Quiet
<1>2. ~WithRequest' /\ Awaits' /\ CallsForLine' /\ AtHome'
  BY <1>1 DEF Quiet, WithRequest, Awaits, CallsForLine, AtHome, TopicsAreHeard
<1>3. CallsForRequest'
  BY <1>2 DEF CallsForRequest
<1>4. Watching' /\ PropsFollowed' /\ EdgesFollowed'
  BY <1>1 DEF Quiet, Watching, PropsFollowed, EdgesFollowed
<1> QED BY <1>2, <1>3, <1>4 DEF CallsInv, FollowInv

\* Nothing that these speak of changes when the client only moves on.
LEMMA Unmoved ==
  ASSUME IInv, UNCHANGED <<manager, hits>>
  PROVE  OneChip' /\ ReachesNamed' /\ (~up => exported = {})'
BY DEF IInv, CallsInv, AtHome, OneChip, ReachesNamed, manager

LEMMA StillHeard ==
  ASSUME IInv, UNCHANGED inbox, heard \subseteq heard'
  PROVE  TopicsAreHeard'
BY DEF IInv, CallsInv, AtHome, TopicsAreHeard

LEMMA RestIsHeard ==
  ASSUME IInv, NEW n \in 1 .. Len(inbox), inbox' = SubSeq(inbox, n + 1, Len(inbox)),
         UNCHANGED heard
  PROVE  TopicsAreHeard' /\ inbox' \in Seq(Messages)
<1>1. TypeOK /\ TopicsAreHeard
  BY DEF IInv, CallsInv, AtHome, TopicsAreHeard
<1>2. /\ inbox' \in Seq(Messages)
      /\ \A k \in DOMAIN inbox' : k + n \in DOMAIN inbox /\ inbox'[k] = inbox[k + n]
  BY <1>1, Handled
<1> QED BY <1>1, <1>2 DEF TopicsAreHeard

LEMMA NameIsHeard ==
  ASSUME TypeOK, NameWatched
  PROVE  /\ TopicsAreHeard' /\ inbox' \in Seq(Messages) /\ heard' \in SUBSET Topics
         /\ heard' = {"name"} /\ (up \/ Ended')
         /\ \A k \in DOMAIN inbox' : inbox'[k].topic = "name"
<1>1. up \in BOOLEAN
  BY DEF TypeOK
<1>2. inbox' = <<Message("name", up)>> /\ heard' = {"name"}
  BY DEF NameWatched
<1>3. \A k \in DOMAIN inbox' : inbox'[k] = Message("name", up) /\ inbox'[k].topic = "name"
  BY <1>1, <1>2, TopicsHeard
<1>4. 1 \in DOMAIN inbox' /\ inbox'[1] = Message("name", up)
  BY <1>2
<1>5. up \/ Ended'
  BY <1>1, <1>4 DEF Ended
<1> QED BY <1>1, <1>2, <1>3, <1>5, TopicsHeard DEF TopicsAreHeard, Topics

-----------------------------------------------------------------------------
(* The commands start *)

Client == UNCHANGED <<up, exported, reqs, grants, moves>>

LEMMA EmptyLists == /\ <<>> \in Seq(DOMAIN AsOffset)
                    /\ \A n \in DOMAIN AsOffset : <<n>> \in Seq(DOMAIN AsOffset)
OBVIOUS

LEMMA BeginStep ==
  ASSUME IInv, NEW c \in {"request", "set", "get", "detect", "find", "info"},
         NEW ns, NEW next \in {"find", "chips", "list"}, Begin(c, ns, next),
         next = "find" => c # "detect",
         c = "detect" => ns \in Seq(Chips), c # "detect" => ns \in Seq(DOMAIN AsOffset),
         UNCHANGED <<inbox, heard, id, timed>>, chip' \in Chips \cup {NoChip}
  PROVE  IInv'
<1>1. /\ cmd' = c /\ names' = ns /\ UNCHANGED <<manager, moves, places, asOf, hits, follow>>
      /\ pc' = next \/ pc' = "exit"
      /\ pc' \in Places /\ why' \in Reasons
  BY DEF Begin, Exit, IInv, TypeOK, Places, Reasons
<1>2. TypeOK'
  BY <1>1 DEF IInv, TypeOK, manager, follow, Commands
<1>3. Quiet'
  BY <1>1 DEF Quiet
<1>4. OneChip' /\ ReachesNamed' /\ (~up => exported = {})' /\ TopicsAreHeard'
  BY <1>1, Unmoved, StillHeard
<1> QED BY <1>2, <1>3, <1>4, Elsewhere DEF IInv

LEMMA WaitStartStep ==
  ASSUME IInv, NEW c \in Chips \cup {NoChip}, NEW t \in BOOLEAN, WaitStart(c, t)
  PROVE  IInv'
<1>1. TypeOK /\ cmd = "none" /\ NameWatched
  BY DEF IInv, CallsInv, AtHome, WaitStart
<1>2. TypeOK'
  BY <1>1, NameIsHeard DEF WaitStart, TypeOK, Commands, Places, manager, follow
<1>3. Quiet'
  BY DEF WaitStart, Quiet
<1>4. OneChip' /\ ReachesNamed' /\ (~up => exported = {})'
  BY Unmoved DEF WaitStart
<1> QED BY <1>1, <1>2, <1>3, <1>4, NameIsHeard, Elsewhere DEF IInv

\* A command that begins with the number of a request knows its lines' chip.
LEMMA RequestRead ==
  ASSUME TypeOK, OneChip, NEW r \in Ids, reqs[r] # Unused
  PROVE  /\ (CHOOSE l \in reqs[r] : TRUE)[1] \in Chips
         /\ \A l \in reqs[r] : l[1] = (CHOOSE m \in reqs[r] : TRUE)[1]
         /\ SetToSeq(reqs[r]) \in Seq(Chips \X (Offsets \cup {0}))
         /\ \A k \in DOMAIN SetToSeq(reqs[r]) : SetToSeq(reqs[r])[k] \in reqs[r]
<1> DEFINE d == CHOOSE m \in reqs[r] : TRUE
<1>1. d \in reqs[r]
  OBVIOUS
<1>2. reqs[r] \subseteq Lines
  BY DEF TypeOK
<1>3. d[1] \in Chips /\ \A l \in reqs[r] : l[1] = d[1]
  BY <1>1, <1>2 DEF OneChip, Lines
<1>4. reqs[r] \subseteq {d[1]} \X Offsets
  BY <1>2, <1>3 DEF Lines
<1>5. IsFiniteSet(reqs[r])
  BY <1>3, <1>4, Finite
<1> DEFINE q == SetToSeq(reqs[r])
<1>6. /\ q \in Seq(reqs[r])
      /\ \A k \in DOMAIN q : q[k] \in reqs[r]
  BY <1>5, SetToSeqLists
<1> HIDE DEF q
<1>7. q \in Seq(Chips \X (Offsets \cup {0}))
  BY <1>2, <1>6 DEF Lines
<1> QED BY <1>3, <1>6, <1>7 DEF q

\* A command has read its request and goes on, or ends.
OnItsWay(c, ns, next) ==
  /\ cmd' = c /\ names' = ns /\ UNCHANGED <<manager, moves, timed, hits, follow>>
  /\ pc' \in {next, "exit"} /\ pc' \in Places /\ why' \in Reasons
  /\ id' \in Ids \cup {NoId} /\ asOf' \in Nat /\ chip' \in Chips \cup {NoChip}
  /\ places' \in Seq(Chips \X (Offsets \cup {0}))
  /\ pc' # "exit" =>
       /\ id' \in Ids /\ chip' \in Chips /\ ReadOn(chip)'
       /\ \A k \in DOMAIN places' : places'[k][1] = chip'

LEMMA OnRequestStep ==
  ASSUME IInv, NEW r \in Ids, NEW c \in Commands \ {"detect"},
         NEW ns \in Seq(DOMAIN AsOffset),
         NEW next \in {"find", "offsets", "call"}, OnRequest(c, r, ns, next)
  PROVE  OnItsWay(c, ns, next)
<1>1. TypeOK /\ OneChip
  BY DEF IInv, CallsInv
<1>2. CASE up /\ reqs[r] # Unused
  <2>1. /\ cmd' = c /\ names' = ns /\ id' = r /\ asOf' = grants[r] /\ pc' = next /\ why' = why
        /\ chip' = (CHOOSE l \in reqs[r] : TRUE)[1]
        /\ places' = IF ns = <<>> THEN SetToSeq(reqs[r]) ELSE <<>>
        /\ UNCHANGED <<manager, moves, timed, hits, follow>>
    BY <1>2 DEF OnRequest
  <2>2. chip' \in Chips /\ \A l \in reqs[r] : l[1] = chip'
    BY <1>1, <1>2, <2>1, RequestRead
  <2>3. /\ places' \in Seq(Chips \X (Offsets \cup {0}))
        /\ \A k \in DOMAIN places' : places'[k][1] = chip'
    <3>1. CASE ns = <<>>
      BY <1>1, <1>2, <2>1, <2>2, <3>1, RequestRead
    <3>2. CASE ns # <<>>
      BY <2>1, <3>2
    <3> QED BY <3>1, <3>2
  <2>4. grants[r] \in Nat
    BY <1>1 DEF TypeOK
  <2>5. ReadOn(chip)'
    BY <2>1, <2>2, <2>4 DEF ReadOn, manager
  <2> QED BY <1>1, <2>1, <2>2, <2>3, <2>4, <2>5 DEF TypeOK, Places, OnItsWay
<1>3. CASE ~(up /\ reqs[r] # Unused)
  BY <1>1, <1>3 DEF OnRequest, Exit, TypeOK, Places, Reasons, OnItsWay
<1> QED BY <1>2, <1>3

LEMMA OnRequestDeafStep ==
  ASSUME IInv, NEW r \in Ids, NEW c \in {"set -r", "get -r", "reconfigure", "release", "requests"},
         NEW ns \in Seq(DOMAIN AsOffset),
         NEW next \in {"find", "offsets", "call"}, OnRequest(c, r, ns, next), Deaf,
         c = "set -r" => next = "find", c = "get -r" => next \in {"find", "offsets"},
         c \in {"reconfigure", "requests"} => next = "offsets", c = "release" => next = "call"
  PROVE  IInv'
<1>1. /\ cmd' = c /\ names' = ns /\ UNCHANGED <<manager, moves, timed, hits, follow>>
      /\ UNCHANGED inbox /\ UNCHANGED heard
      /\ pc' \in {next, "exit"} /\ pc' \in Places /\ why' \in Reasons
      /\ id' \in Ids \cup {NoId} /\ asOf' \in Nat /\ chip' \in Chips \cup {NoChip}
      /\ places' \in Seq(Chips \X (Offsets \cup {0}))
      /\ pc' # "exit" =>
              /\ id' \in Ids /\ chip' \in Chips /\ ReadOn(chip)'
              /\ \A k \in DOMAIN places' : places'[k][1] = chip'
  <2>1. c \in Commands \ {"detect"}
    BY DEF Commands
  <2>2. UNCHANGED inbox /\ UNCHANGED heard
    BY DEF Deaf
  <2>3. OnItsWay(c, ns, next)
    BY <2>1, OnRequestStep
  <2> QED BY <2>2, <2>3 DEF OnItsWay
<1>2. TypeOK'
  BY <1>1 DEF IInv, TypeOK, manager, follow, Commands
<1>3. OneChip' /\ ReachesNamed' /\ (~up => exported = {})' /\ TopicsAreHeard'
  BY <1>1, Unmoved, StillHeard
<1>4. CASE pc' = "exit"
  BY <1>2, <1>3, <1>4, Elsewhere DEF IInv, Quiet
<1>5. CASE pc' # "exit"
  <2>1. pc' = next
    BY <1>1, <1>5
  <2>2. Awaits' /\ CallsForLine' /\ CallsForRequest'
    BY <1>1, <1>5, <2>1 DEF Awaits, CallsForLine, CallsForRequest
  <2>3. AtHome'
    BY <1>1, <1>3, <1>5, <2>1 DEF AtHome, TopicsAreHeard
  <2>4. Watching' /\ PropsFollowed' /\ EdgesFollowed'
    BY <1>1, <2>1 DEF Watching, PropsFollowed, EdgesFollowed
  <2> QED BY <1>2, <1>3, <2>2, <2>3, <2>4 DEF IInv, CallsInv, FollowInv
<1> QED BY <1>4, <1>5

LEMMA MonitorOnRequestStep ==
  ASSUME IInv, NEW r \in Ids, NEW ns \in Seq(DOMAIN AsOffset), MonitorOnRequest(r, ns)
  PROVE  IInv'
<1> DEFINE next == ByNames(ns)
<1>1. next \in {"find", "offsets"} /\ OnRequest("monitor", r, ns, next)
  BY DEF ByNames, MonitorOnRequest
<1> HIDE DEF next
<1>2. TypeOK /\ NameWatched /\ pc = "start" /\ edges = 0
  BY <1>1 DEF IInv, CallsInv, AtHome, MonitorOnRequest, OnRequest
<1>3. /\ cmd' = "monitor" /\ names' = ns /\ UNCHANGED <<manager, moves, timed, hits, follow>>
      /\ pc' \in {next, "exit"} /\ pc' \in Places /\ why' \in Reasons
      /\ id' \in Ids \cup {NoId} /\ asOf' \in Nat /\ chip' \in Chips \cup {NoChip}
      /\ places' \in Seq(Chips \X (Offsets \cup {0}))
      /\ pc' # "exit" =>
              /\ id' \in Ids /\ chip' \in Chips /\ ReadOn(chip)'
              /\ \A k \in DOMAIN places' : places'[k][1] = chip'
  BY <1>1, OnRequestStep DEF Commands, OnItsWay
<1>4. /\ TopicsAreHeard' /\ inbox' \in Seq(Messages) /\ heard' \in SUBSET Topics
      /\ heard' = {"name"} /\ (up \/ Ended')
  BY <1>2, NameIsHeard
<1>5. TypeOK'
  BY <1>2, <1>3, <1>4 DEF TypeOK, manager, follow, Commands
<1>6. OneChip' /\ ReachesNamed' /\ (~up => exported = {})'
  BY <1>3, Unmoved
<1>7. CASE pc' = "exit"
  BY <1>4, <1>5, <1>6, <1>7, Elsewhere DEF IInv, Quiet
<1>8. CASE pc' # "exit"
  <2>1. pc' = next
    BY <1>3, <1>8
  <2>2. Awaits' /\ CallsForLine' /\ CallsForRequest'
    BY <1>1, <1>3, <1>8, <2>1 DEF Awaits, CallsForLine, CallsForRequest
  <2>3. AtHome'
    BY <1>1, <1>3, <1>4, <1>6, <2>1 DEF AtHome, TopicsAreHeard
  <2>4. Watching' /\ PropsFollowed' /\ EdgesFollowed'
    <3>1. up' = up /\ edges' = 0 /\ pc' \in {"find", "offsets"}
      BY <1>1, <1>2, <1>3, <2>1 DEF manager, follow
    <3>2. Watching'
      BY <1>4, <3>1 DEF Watching
    <3> QED BY <3>1, <3>2 DEF PropsFollowed, EdgesFollowed
  <2> QED BY <1>5, <1>6, <2>2, <2>3, <2>4 DEF IInv, CallsInv, FollowInv
<1> QED BY <1>7, <1>8

LEMMA FollowStartStep ==
  ASSUME IInv, NEW c \in {"notify", "monitor"}, NEW n \in DOMAIN AsOffset,
         NEW k \in Chips \cup {NoChip}, FollowStart(c, n, k)
  PROVE  IInv'
<1>1. TypeOK /\ NameWatched /\ pc = "start" /\ edges = 0
  BY DEF IInv, CallsInv, AtHome, FollowStart, Begin
<1>2. /\ cmd' = c /\ names' = <<n>> /\ UNCHANGED <<manager, moves, places, asOf, hits, follow>>
      /\ pc' = "find" \/ pc' = "exit"
      /\ pc' \in Places /\ why' \in Reasons /\ chip' = k /\ UNCHANGED <<id, timed>>
  BY DEF FollowStart, Begin, Exit, IInv, TypeOK, Places, Reasons
<1>3. /\ TopicsAreHeard' /\ inbox' \in Seq(Messages) /\ heard' \in SUBSET Topics
      /\ heard' = {"name"} /\ (up \/ Ended')
  BY <1>1, NameIsHeard
<1>4. TypeOK'
  BY <1>1, <1>2, <1>3, EmptyLists DEF TypeOK, manager, follow, Commands
<1>5. OneChip' /\ ReachesNamed' /\ (~up => exported = {})'
  BY <1>2, Unmoved
<1>6. CASE pc' = "exit"
  BY <1>3, <1>4, <1>5, <1>6, Elsewhere DEF IInv, Quiet
<1>7. CASE pc' = "find"
  <2>1. Awaits' /\ CallsForLine' /\ CallsForRequest'
    BY <1>2, <1>7 DEF Awaits, CallsForLine, CallsForRequest, WithRequest
  <2>2. AtHome'
    BY <1>3, <1>5, <1>7 DEF AtHome, TopicsAreHeard
  <2>3. Watching' /\ PropsFollowed' /\ EdgesFollowed'
    <3>1. up' = up /\ edges' = 0
      BY <1>1, <1>2 DEF manager, follow
    <3>2. Watching'
      BY <1>3, <3>1 DEF Watching
    <3> QED BY <1>7, <3>2 DEF PropsFollowed, EdgesFollowed
  <2> QED BY <1>4, <1>5, <2>1, <2>2, <2>3 DEF IInv, CallsInv, FollowInv
<1> QED BY <1>2, <1>6, <1>7

LEMMA StartsStep ==
  ASSUME IInv, Starts
  PROVE  IInv'
<1>1. \A ns \in NameLists : ns \in Seq(DOMAIN AsOffset) /\ Range(ns) \subseteq DOMAIN AsOffset
  BY DEF Range
<1>2. \A ns \in NameLists : SetStart(ns) \/ GetStart(ns) => IInv'
  <2> SUFFICES ASSUME NEW ns \in NameLists, SetStart(ns) \/ GetStart(ns) PROVE IInv'
    OBVIOUS
  <2>1. chip' \in Chips \cup {NoChip}
    BY DEF SetStart, GetStart, IInv, TypeOK
  <2>2. CASE SetStart(ns)
    BY <1>1, <2>1, <2>2, BeginStep DEF SetStart
  <2>3. CASE GetStart(ns)
    BY <1>1, <2>1, <2>3, BeginStep DEF GetStart
  <2> QED BY <2>2, <2>3
<1>3. \A ns \in NameLists, c \in Chips \cup {NoChip} : RequestStart(ns, c) => IInv'
  BY <1>1, BeginStep DEF RequestStart
<1>4. \A named \in SUBSET Chips : DetectStart(named) => IInv'
  <2> SUFFICES ASSUME NEW named \in SUBSET Chips, DetectStart(named) PROVE IInv'
    OBVIOUS
  <2>1. SetToSeq(named) \in Seq(Chips)
    BY ListOfChips
  <2>2. chip' \in Chips \cup {NoChip}
    BY DEF DetectStart, IInv, TypeOK
  <2> QED BY <2>1, <2>2, BeginStep DEF DetectStart
<1>5. \A ns \in NameLists \cup {<<>>}, c \in Chips \cup {NoChip} : InfoStart(ns, c) => IInv'
  BY <1>1, EmptyLists, BeginStep DEF InfoStart
<1>6. \A r \in Ids : (\/ RequestsStart(r) \/ ReconfigureStart(r) \/ ReleaseStart(r)
                      \/ GetOnRequest(r, <<>>)) => IInv'
  BY EmptyLists, OnRequestDeafStep
  DEF RequestsStart, ReconfigureStart, ReleaseStart, GetOnRequest, ByNames
<1>7. \A r \in Ids, ns \in NameLists : SetOnRequest(r, ns) \/ GetOnRequest(r, ns) => IInv'
  BY <1>1, OnRequestDeafStep DEF SetOnRequest, GetOnRequest, ByNames
<1>8. \A r \in Ids, ns \in {<<>>} \cup {s \in NameLists : Len(s) = 1} :
        MonitorOnRequest(r, ns) => IInv'
  BY <1>1, EmptyLists, MonitorOnRequestStep
<1>9. \A c \in Chips \cup {NoChip}, t \in BOOLEAN : WaitStart(c, t) => IInv'
  BY WaitStartStep
<1>10. \A n \in DOMAIN AsOffset : FindStart(n) => IInv'
  <2> SUFFICES ASSUME NEW n \in DOMAIN AsOffset, FindStart(n) PROVE IInv'
    OBVIOUS
  <2>1. chip' \in Chips \cup {NoChip}
    BY DEF FindStart, IInv, TypeOK
  <2> QED BY <2>1, EmptyLists, BeginStep DEF FindStart
<1>11. \A n \in DOMAIN AsOffset, c \in {"notify", "monitor"}, k \in Chips \cup {NoChip} :
         FollowStart(c, n, k) => IInv'
  BY FollowStartStep
<1>12. UNION {Range(ns) : ns \in NameLists} \subseteq DOMAIN AsOffset
  BY <1>1
<1>13. ASSUME NEW n \in UNION {Range(ns) : ns \in NameLists},
              \/ FindStart(n)
              \/ FollowStart("monitor", n, NoChip)
              \/ \E c \in Chips \cup {NoChip} : FollowStart("notify", n, c)
       PROVE  IInv'
  <2>1. n \in DOMAIN AsOffset
    BY <1>12
  <2> QED BY <1>10, <1>11, <1>13, <2>1
<1> QED
  <2>1. CASE \E ns \in NameLists : SetStart(ns) \/ GetStart(ns)
    BY <1>2, <2>1
  <2>2. CASE \E ns \in NameLists, c \in Chips \cup {NoChip} : RequestStart(ns, c)
    BY <1>3, <2>2
  <2>3. CASE \E named \in SUBSET Chips : DetectStart(named)
    BY <1>4, <2>3
  <2>4. CASE \E ns \in NameLists \cup {<<>>}, c \in Chips \cup {NoChip} : InfoStart(ns, c)
    BY <1>5, <2>4
  <2>5. CASE \E r \in Ids : \/ RequestsStart(r) \/ ReconfigureStart(r) \/ ReleaseStart(r)
                           \/ GetOnRequest(r, <<>>)
    BY <1>6, <2>5
  <2>6. CASE \E r \in Ids, ns \in NameLists : SetOnRequest(r, ns) \/ GetOnRequest(r, ns)
    BY <1>7, <2>6
  <2>7. CASE \E r \in Ids, ns \in {<<>>} \cup {s \in NameLists : Len(s) = 1} :
               MonitorOnRequest(r, ns)
    BY <1>8, <2>7
  <2>8. CASE \E c \in Chips \cup {NoChip}, t \in BOOLEAN : WaitStart(c, t)
    BY <1>9, <2>8
  <2> QED BY <1>13, <2>1, <2>2, <2>3, <2>4, <2>5, <2>6, <2>7, <2>8 DEF Starts

-----------------------------------------------------------------------------
(* Steps of the client after which nothing is asked of it *)

LEMMA QuietStep ==
  ASSUME IInv, TypeOK', Quiet', UNCHANGED <<manager, hits>>, TopicsAreHeard'
  PROVE  IInv'
BY Unmoved, Elsewhere DEF IInv

LEMMA QuietSame ==
  ASSUME IInv, TypeOK', Quiet', UNCHANGED <<manager, hits>>, UNCHANGED inbox, heard \subseteq heard'
  PROVE  IInv'
BY StillHeard, QuietStep

\* A command that exits and changes nothing.
LEMMA ExitStep ==
  ASSUME IInv, NEW reason \in Reasons, Exit(reason),
         UNCHANGED <<manager, moves, inbox, heard, given, chip, id, places, asOf, hits, follow>>
  PROVE  IInv'
<1>1. TypeOK'
  BY DEF Exit, IInv, TypeOK, Places, manager, given, follow
<1>2. Quiet'
  BY DEF Exit, Quiet
<1> QED BY <1>1, <1>2, QuietSame

LEMMA ExitSteps ==
  ASSUME IInv,
         \/ NotFound \/ RequestRefused \/ RequestTimeout \/ CallRefused
         \/ DetectChips \/ WaitTimeout \/ FollowRefused
  PROVE  IInv'
<1>1. UNCHANGED <<manager, moves, inbox, heard, given, chip, id, places, asOf, hits, follow>>
  BY DEF NotFound, RequestRefused, RequestTimeout, CallRefused, DetectChips, WaitTimeout,
         FollowRefused
<1>2. \E reason \in Reasons : Exit(reason)
  BY DEF NotFound, RequestRefused, RequestTimeout, CallRefused, DetectChips, WaitTimeout,
         FollowRefused, Reasons
<1> QED BY <1>1, <1>2, ExitStep

LEMMA RequestFindStep ==
  ASSUME IInv, RequestFind
  PROVE  IInv'
<1>1. PICK l \in Found : places' = Append(places, l) /\ chip' = l[1]
  BY DEF RequestFind
<1>2. TypeOK
  BY DEF IInv
<1>3. TypeOK'
  BY <1>1, <1>2, FoundAre, PlacesGrow DEF RequestFind, TypeOK, manager, given, follow
<1>4. Quiet'
  BY DEF RequestFind, Quiet, given
<1> QED BY <1>3, <1>4, QuietSame DEF RequestFind

LEMMA ListStep ==
  ASSUME IInv, List
  PROVE  IInv'
<1> DEFINE listed == IF chip = NoChip THEN exported ELSE {chip} \cap exported
           q == SetToSeq(listed \X Offsets)
<1>1. TypeOK
  BY DEF IInv
<1>2. listed \subseteq Chips
  BY <1>1 DEF TypeOK
<1>3. q \in Seq(Chips \X (Offsets \cup {0}))
  <2>1. IsFiniteSet(listed)
    BY <1>2, FS_Subset
  <2> HIDE DEF listed, q
  <2>2. IsFiniteSet(listed \X Offsets)
    BY <2>1, FS_Product
  <2>3. q \in Seq(listed \X Offsets)
    BY <2>2, SetToSeqLists DEF q
  <2>4. listed \X Offsets \subseteq Chips \X (Offsets \cup {0})
    BY <1>2
  <2> QED BY <2>3, <2>4
<1>4. /\ pc' = "exit" /\ why' \in Reasons /\ places' \in {places, q}
      /\ UNCHANGED <<manager, moves, inbox, heard, given, chip, id, asOf, hits, follow>>
  BY DEF List, Exit, Reasons
<1> HIDE DEF q
<1>5. TypeOK'
  BY <1>1, <1>3, <1>4 DEF TypeOK, Places, manager, given, follow
<1> QED BY <1>4, <1>5, QuietSame DEF Quiet

LEMMA FindLineStep ==
  ASSUME IInv, FindLine
  PROVE  IInv'
<1>1. TypeOK
  BY DEF IInv
<1>2. FirstHaving(names[1]) \subseteq Lines
  <2> DEFINE having == {c \in exported : OnChip(c, names[1]) # {}}
  <2> SUFFICES ASSUME having # {} PROVE FirstHaving(names[1]) \subseteq Lines
    BY DEF FirstHaving
  <2>1. FirstHaving(names[1]) = OnChip(Min(having), names[1])
    BY DEF FirstHaving
  <2>2. having \in SUBSET Nat /\ having \subseteq Chips
    BY <1>1 DEF TypeOK
  <2> HIDE DEF having
  <2>3. Min(having) \in Chips
    BY <2>2, LeastIs
  <2> QED BY <2>1, <2>3 DEF OnChip, Lines
<1>3. \A l \in Lines : <<l>> \in Seq(Chips \X (Offsets \cup {0}))
  BY DEF Lines
<1>4. /\ pc' = "exit" /\ why' \in Reasons /\ places' \in Seq(Chips \X (Offsets \cup {0}))
      /\ UNCHANGED <<manager, moves, inbox, heard, given, chip, id, asOf, hits, follow>>
  BY <1>1, <1>2, <1>3 DEF FindLine, Exit, Reasons, TypeOK
<1>5. TypeOK'
  BY <1>1, <1>4 DEF TypeOK, Places, manager, given, follow
<1> QED BY <1>4, <1>5, QuietSame DEF Quiet

LEMMA InfoFindStep ==
  ASSUME IInv, InfoFind
  PROVE  IInv'
<1>1. TypeOK
  BY DEF IInv
<1>2. places' \in Seq(Chips \X (Offsets \cup {0}))
  BY <1>1, PlacesGrow DEF InfoFind
<1>3. /\ pc' = "exit" \/ (pc' = "find" /\ cmd' = "info")
      /\ pc' \in Places /\ why' \in Reasons
      /\ UNCHANGED <<manager, moves, inbox, heard, given, chip, id, asOf, hits, follow>>
  BY <1>1 DEF InfoFind, Exit, TypeOK, Places, Reasons, given
<1>4. TypeOK'
  BY <1>1, <1>2, <1>3 DEF TypeOK, manager, given, follow
<1> QED BY <1>3, <1>4, QuietSame DEF Quiet

LEMMA WaitClientStep ==
  ASSUME IInv, WaitClient
  PROVE  IInv'
<1>1. TypeOK
  BY DEF IInv
<1>2. /\ pc' \in {"exit", "chip"} /\ why' \in Reasons /\ heard' = heard \cup {"chips"}
      /\ UNCHANGED <<manager, moves, inbox, given, chip, id, places, asOf, hits, follow>>
  BY <1>1 DEF WaitClient, Exit, TypeOK, Reasons
<1>3. TypeOK'
  BY <1>1, <1>2 DEF TypeOK, Places, Topics, manager, given, follow
<1> QED BY <1>2, <1>3, QuietSame DEF Quiet

LEMMA WaitIterateStep ==
  ASSUME IInv, NEW n \in 1 .. Len(inbox), WaitIterate(n)
  PROVE  IInv'
<1>1. TypeOK
  BY DEF IInv
<1>2. inbox' \in Seq(Messages) /\ TopicsAreHeard'
  BY RestIsHeard DEF WaitIterate
<1>3. /\ pc' \in {"exit", "client", "name", "chip"} /\ why' \in Reasons
      /\ UNCHANGED <<manager, moves, heard, given, chip, id, places, asOf, hits, follow>>
  BY <1>1 DEF WaitIterate, Exit, TypeOK, Reasons
<1>4. TypeOK'
  BY <1>1, <1>2, <1>3 DEF TypeOK, Places, manager, given, follow
<1> QED BY <1>2, <1>3, <1>4, QuietStep DEF Quiet

LEMMA ReleaseCallStep ==
  ASSUME IInv, ReleaseCall
  PROVE  IInv'
<1>1. TypeOK /\ OneChip /\ ReachesNamed /\ (~up => exported = {}) /\ id \in Ids
  BY DEF IInv, CallsInv, AtHome, ReleaseCall
<1>2. /\ reqs' = [reqs EXCEPT ![id] = Unused] /\ pc' = "exit" /\ why' = "ok"
      /\ UNCHANGED <<up, exported, grants, moves, inbox, heard, given, chip, id, places,
                     asOf, hits, follow>>
  BY DEF ReleaseCall, Exit
<1>3. \A r \in Ids : reqs'[r] \subseteq reqs[r]
  BY <1>1, <1>2 DEF TypeOK
<1>4. TypeOK'
  BY <1>1, <1>2 DEF TypeOK, Places, Reasons, given, follow
<1>5. OneChip'
  BY <1>1, <1>3 DEF OneChip
<1>6. ReachesNamed' /\ (~up => exported = {})'
  BY <1>1, <1>2 DEF ReachesNamed
<1>7. TopicsAreHeard'
  BY <1>2, StillHeard
<1> QED BY <1>2, <1>4, <1>5, <1>6, <1>7, Elsewhere DEF IInv, Quiet

-----------------------------------------------------------------------------
(* request *)

Granted == Min({r \in Ids : reqs[r] = Unused})

\* The number given is free.
LEMMA GrantedIs ==
  ASSUME TypeOK, NEW lines, Grantable(lines), Grant(lines)
  PROVE  /\ Granted \in Ids /\ reqs[Granted] = Unused
         /\ reqs' = [reqs EXCEPT ![Granted] = lines]
         /\ grants' = [grants EXCEPT ![Granted] = @ + 1]
         /\ lines \in SUBSET Lines
         /\ \E c \in Chips : lines \subseteq {c} \X Offsets
<1> DEFINE free == {n \in Ids : reqs[n] = Unused}
<1>1. free # {} /\ free \in SUBSET Nat /\ free \subseteq Ids
  BY DEF Grantable
<1>2. reqs' = [reqs EXCEPT ![Granted] = lines] /\ grants' = [grants EXCEPT ![Granted] = @ + 1]
  BY DEF Grant, Granted
<1>3. Granted = Min(free)
  BY DEF Granted
<1> HIDE DEF free
<1>4. Granted \in free
  BY <1>1, <1>3, LeastIs
<1>5. PICK c \in Chips : lines \subseteq {c} \X Offsets
  BY DEF Grantable, TypeOK
<1> QED BY <1>2, <1>4, <1>5 DEF free, Lines

LEMMA GrantedKeeps ==
  ASSUME TypeOK, OneChip, NEW lines, Grantable(lines), Grant(lines)
  PROVE  /\ reqs' \in [Ids -> SUBSET Lines] /\ grants' \in [Ids -> Nat] /\ OneChip'
<1> DEFINE r == Granted
<1>1. /\ r \in Ids /\ reqs[r] = Unused
      /\ reqs' = [reqs EXCEPT ![r] = lines] /\ grants' = [grants EXCEPT ![r] = @ + 1]
      /\ lines \in SUBSET Lines
      /\ \E c \in Chips : lines \subseteq {c} \X Offsets
  BY GrantedIs
<1> HIDE DEF r
<1>2. reqs' \in [Ids -> SUBSET Lines] /\ grants' \in [Ids -> Nat]
  BY <1>1, SMTT(30) DEF TypeOK
<1>3. OneChip'
  <2> SUFFICES ASSUME NEW i \in Ids, NEW l \in reqs'[i], NEW m \in reqs'[i]
               PROVE  l[1] = m[1]
    BY DEF OneChip
  <2>1. CASE i = r
    BY <1>1, <2>1 DEF TypeOK
  <2>2. CASE i # r
    BY <1>1, <2>2 DEF TypeOK, OneChip
  <2> QED BY <2>1, <2>2
<1> QED BY <1>2, <1>3

LEMMA RequestCallStep ==
  ASSUME IInv, RequestCall
  PROVE  IInv'
<1> DEFINE r == Granted
           lines == Range(places)
<1>1. TypeOK /\ OneChip /\ ReachesNamed /\ TopicsAreHeard /\ (~up => exported = {})
  BY DEF IInv, CallsInv, AtHome, TopicsAreHeard
<1>2. /\ Grantable(lines) /\ Grant(lines)
      /\ id' = r /\ asOf' = grants'[r] /\ pc' = "await" /\ cmd' = "request"
      /\ UNCHANGED <<up, exported, moves, inbox, heard, given, chip, why, places, hits, follow>>
  BY DEF RequestCall, Granted, given
<1>3. r \in Ids
  BY <1>1, <1>2, GrantedIs
<1>4. reqs' \in [Ids -> SUBSET Lines] /\ grants' \in [Ids -> Nat] /\ OneChip'
  BY <1>1, <1>2, GrantedKeeps
<1> HIDE DEF r, lines
<1>5. grants'[r] \in Nat
  BY <1>3, <1>4
<1>6. TypeOK'
  BY <1>1, <1>2, <1>3, <1>4, <1>5 DEF TypeOK, Places, given, follow
<1>7. ReachesNamed' /\ (~up => exported = {})' /\ TopicsAreHeard'
  BY <1>1, <1>2 DEF ReachesNamed, TopicsAreHeard
<1>8. Awaits' /\ CallsForLine' /\ CallsForRequest'
  BY <1>2, <1>3, <1>5 DEF Awaits, CallsForLine, CallsForRequest, WithRequest
<1>9. AtHome'
  BY <1>2, <1>7 DEF AtHome, TopicsAreHeard
<1>10. Watching' /\ PropsFollowed' /\ EdgesFollowed'
  BY <1>2 DEF Watching, PropsFollowed, EdgesFollowed
<1> QED BY <1>4, <1>6, <1>7, <1>8, <1>9, <1>10 DEF IInv, CallsInv, FollowInv

LEMMA RequestAwaitStep ==
  ASSUME IInv, RequestAwait
  PROVE  IInv'
<1>1. TypeOK /\ id \in Ids
  BY DEF IInv, CallsInv, Awaits, RequestAwait
<1>2. /\ heard' = heard \cup {"requests"} /\ pc' \in {"exit", "requested"} /\ why' \in Reasons
      /\ UNCHANGED <<manager, moves, inbox, given, chip, id, places, asOf, hits, follow>>
  BY <1>1 DEF RequestAwait, Exit, TypeOK, Reasons
<1>3. TypeOK'
  BY <1>1, <1>2 DEF TypeOK, Places, Topics, manager, given, follow
<1>4. CASE pc' = "exit"
  BY <1>2, <1>3, <1>4, QuietSame DEF Quiet
<1>5. CASE pc' = "requested"
  <2>1. OneChip' /\ ReachesNamed' /\ (~up => exported = {})' /\ TopicsAreHeard'
    BY <1>2, Unmoved, StillHeard
  <2>2. Awaits' /\ CallsForLine' /\ CallsForRequest'
    BY <1>1, <1>2, <1>5 DEF Awaits, CallsForLine, CallsForRequest, WithRequest, manager
  <2>3. AtHome'
    BY <1>5, <2>1 DEF AtHome, TopicsAreHeard
  <2>4. Watching' /\ PropsFollowed' /\ EdgesFollowed'
    BY <1>5 DEF Watching, PropsFollowed, EdgesFollowed
  <2> QED BY <1>3, <2>1, <2>2, <2>3, <2>4 DEF IInv, CallsInv, FollowInv
<1> QED BY <1>2, <1>4, <1>5

LEMMA RequestIterateStep ==
  ASSUME IInv, NEW n \in 1 .. Len(inbox), RequestIterate(n)
  PROVE  IInv'
<1>1. TypeOK /\ Awaits /\ pc = "requested"
  BY DEF IInv, CallsInv, RequestIterate
<1>2. inbox' \in Seq(Messages) /\ TopicsAreHeard'
  BY RestIsHeard DEF RequestIterate
<1>3. /\ pc' \in {"exit", "requested"} /\ why' \in Reasons
      /\ UNCHANGED <<manager, moves, heard, given, chip, id, places, asOf, hits, follow>>
  BY <1>1 DEF RequestIterate, Exit, TypeOK, Reasons
<1>4. TypeOK'
  BY <1>1, <1>2, <1>3 DEF TypeOK, Places, manager, given, follow
<1>5. CASE pc' = "exit"
  BY <1>2, <1>3, <1>4, <1>5, QuietStep DEF Quiet
<1>6. CASE pc' = "requested"
  <2>1. OneChip' /\ ReachesNamed' /\ (~up => exported = {})'
    BY <1>3, Unmoved
  <2>2. Awaits' /\ CallsForLine' /\ CallsForRequest'
    BY <1>1, <1>3, <1>6 DEF Awaits, CallsForLine, CallsForRequest, WithRequest, manager
  <2>3. AtHome'
    BY <1>2, <1>6, <2>1 DEF AtHome, TopicsAreHeard
  <2>4. Watching' /\ PropsFollowed' /\ EdgesFollowed'
    BY <1>6 DEF Watching, PropsFollowed, EdgesFollowed
  <2> QED BY <1>4, <2>1, <2>2, <2>3, <2>4 DEF IInv, CallsInv, FollowInv
<1> QED BY <1>3, <1>5, <1>6

-----------------------------------------------------------------------------
(* Calls that name a request and offsets *)

\* The places of a list are finitely many.
LEMMA PlacesFinite ==
  ASSUME TypeOK
  PROVE  IsFiniteSet(Range(places)) /\ Range(places) \subseteq Chips \X (Offsets \cup {0})
<1>1. places \in Seq(Chips \X (Offsets \cup {0})) /\ Len(places) \in Nat
      /\ DOMAIN places = 1 .. Len(places)
  BY DEF TypeOK
<1>2. places \in Surjection(1 .. Len(places), Range(places))
  BY <1>1 DEF Surjection, Range
<1>3. IsFiniteSet(1 .. Len(places))
  BY <1>1, FS_Interval
<1>4. IsFiniteSet(Range(places))
  BY <1>2, <1>3, FS_Surjection
<1> QED BY <1>1, <1>4 DEF Range

\* A call that names a request not given again reaches the lines asked for: the
\* request has no line of another chip, and as many of those lines as were asked for.
LEMMA ReachedIsAsked ==
  ASSUME TypeOK, NEW c, ReadOn(c), grants[id] = asOf,
         NEW ls \in SUBSET (Chips \X (Offsets \cup {0})), IsFiniteSet(ls),
         \A m \in ls : m[1] = c, Accepted(ls)
  PROVE  Meant(id, ls) = ls
<1>1. reqs[id] \subseteq Lines /\ \A l \in reqs[id] : l[1] = c
  BY DEF ReadOn, TypeOK
<1>2. Meant(id, ls) \subseteq ls
  <2> SUFFICES ASSUME NEW l \in reqs[id], NEW m \in ls, m[2] = l[2]
               PROVE  l \in ls
    BY DEF Meant
  <2>1. l[1] = m[1]
    BY <1>1
  <2>2. l = <<l[1], l[2]>> /\ m = <<m[1], m[2]>>
    BY <1>1 DEF Lines
  <2> QED BY <2>1, <2>2
<1>3. Cardinality(Meant(id, ls)) = Cardinality(ls)
  BY DEF Accepted
<1> DEFINE T == Meant(id, ls)
<1>4. T \in SUBSET ls /\ Cardinality(ls) = Cardinality(T)
  BY <1>2, <1>3
<1> HIDE DEF T
<1>5. ls = T
  BY <1>4, FS_Subset
<1> QED BY <1>5 DEF T

LEMMA HitIsRight ==
  ASSUME TypeOK, ReachesNamed, NEW c, ReadOn(c),
         NEW ls \in SUBSET (Chips \X (Offsets \cup {0})), IsFiniteSet(ls),
         \A m \in ls : m[1] = c, Accepted(ls), Hit(ls)
  PROVE  ReachesNamed' /\ hits' \in Seq([asked : SUBSET (Chips \X (Offsets \cup {0})),
                                          reached : SUBSET Lines, again : BOOLEAN])
<1> DEFINE H == [asked : SUBSET (Chips \X (Offsets \cup {0})),
                 reached : SUBSET Lines, again : BOOLEAN]
           h == [asked |-> ls, reached |-> Meant(id, ls), again |-> grants[id] # asOf]
<1>1. hits' = Append(hits, h) /\ hits \in Seq(H)
  BY DEF Hit, TypeOK
<1>2. id \in Ids
  BY DEF ReadOn
<1>3. Meant(id, ls) \subseteq Lines
  BY <1>2 DEF Meant, TypeOK
<1>4. h \in H
  BY <1>3
<1>5. h.again \/ h.reached = h.asked
  BY ReachedIsAsked
<1> HIDE DEF h, H
<1>6. hits' \in Seq(H) /\ Len(hits) \in Nat
  BY <1>1, <1>4
<1>7. \A k \in DOMAIN hits' : \/ k \in DOMAIN hits /\ hits'[k] = hits[k]
                              \/ hits'[k] = h
  BY <1>1, <1>4
<1>8. ReachesNamed'
  BY <1>5, <1>7 DEF ReachesNamed
<1> QED BY <1>6, <1>8 DEF H

LEMMA LineFindStep ==
  ASSUME IInv, LineFind
  PROVE  IInv'
<1>1. TypeOK /\ OneChip
  BY DEF IInv, CallsInv
<1>2. PICK l \in Found :
        IF HolderIn(reqs, l) = NoId
          THEN Exit("unmanaged") /\ UNCHANGED <<places, id, asOf>>
          ELSE /\ places' = Append(places, l)
               /\ id' = HolderIn(reqs, l) /\ asOf' = grants[id']
               /\ pc' = "call" /\ UNCHANGED why
  BY DEF LineFind, RequestPath
<1>3. /\ UNCHANGED <<manager, moves, inbox, heard, given, chip, hits, follow>>
      /\ cmd \in {"set", "get"} /\ cmd' = cmd
  BY DEF LineFind, given
<1>4. CASE HolderIn(reqs, l) = NoId
  BY <1>1, <1>2, <1>3, <1>4, ExitStep DEF Reasons
<1>5. CASE HolderIn(reqs, l) # NoId
  <2> DEFINE r == HolderIn(reqs, l)
  <2>1. r \in Ids /\ l \in reqs[r]
    BY <1>5, HolderType
  <2> HIDE DEF r
  <2>2. id' = r /\ asOf' = grants[r] /\ pc' = "call" /\ why' = why /\ places' = Append(places, l)
    BY <1>2, <1>5 DEF r
  <2>3. grants[r] \in Nat /\ \A m \in reqs[r] : m[1] = l[1]
    BY <1>1, <2>1 DEF TypeOK, OneChip
  <2>4. /\ places' \in Seq(Chips \X (Offsets \cup {0}))
        /\ places' # <<>> /\ Last(places') = l
    BY <1>1, <2>2, PlacesGrow
  <2>5. TypeOK'
    BY <1>1, <1>3, <2>1, <2>2, <2>3, <2>4 DEF TypeOK, Places, manager, given, follow
  <2>6. OneChip' /\ ReachesNamed' /\ (~up => exported = {})' /\ TopicsAreHeard'
    BY <1>3, Unmoved, StillHeard
  <2>7. ReadOn(l[1])'
    BY <1>3, <2>1, <2>2, <2>3 DEF ReadOn, manager
  <2>8. Awaits' /\ CallsForLine' /\ CallsForRequest'
    BY <1>3, <2>2, <2>4, <2>7 DEF Awaits, CallsForLine, CallsForRequest, WithRequest
  <2>9. AtHome'
    BY <1>3, <2>2, <2>6 DEF AtHome, TopicsAreHeard
  <2>10. Watching' /\ PropsFollowed' /\ EdgesFollowed'
    BY <2>2 DEF Watching, PropsFollowed, EdgesFollowed
  <2> QED BY <2>5, <2>6, <2>8, <2>9, <2>10 DEF IInv, CallsInv, FollowInv
<1> QED BY <1>4, <1>5

LEMMA LineCallStep ==
  ASSUME IInv, LineCall
  PROVE  IInv'
<1>1. TypeOK /\ ReachesNamed /\ places # <<>> /\ ReadOn(Last(places)[1])
  BY DEF IInv, CallsInv, CallsForLine, LineCall
<1> DEFINE m == Last(places)
           ls == {m}
<1>2. m \in Chips \X (Offsets \cup {0})
  BY <1>1 DEF TypeOK, Last
<1>3. Accepted(ls) /\ Hit(ls)
  BY DEF LineCall
<1> HIDE DEF m
<1>4. IsFiniteSet(ls) /\ \A x \in ls : x[1] = m[1]
  BY FS_Singleton
<1> HIDE DEF ls
<1>5. ls \in SUBSET (Chips \X (Offsets \cup {0})) /\ ReadOn(m[1])
  BY <1>1, <1>2 DEF ls, m
<1>6. /\ ReachesNamed'
      /\ hits' \in Seq([asked : SUBSET (Chips \X (Offsets \cup {0})),
                        reached : SUBSET Lines, again : BOOLEAN])
  BY <1>1, <1>3, <1>4, <1>5, HitIsRight
<1>7. /\ pc' = "exit" \/ (pc' = "find" /\ cmd' \in {"set", "get"})
      /\ pc' \in Places /\ why' \in Reasons
      /\ UNCHANGED <<manager, moves, inbox, heard, given, chip, id, places, asOf, follow>>
  BY <1>1 DEF LineCall, Exit, TypeOK, Places, Reasons, given
<1>8. TypeOK'
  BY <1>1, <1>6, <1>7 DEF TypeOK, manager, given, follow
<1>9. OneChip' /\ (~up => exported = {})'
  BY <1>7 DEF IInv, CallsInv, AtHome, OneChip, manager
<1>10. TopicsAreHeard'
  BY <1>7, StillHeard
<1> QED BY <1>6, <1>7, <1>8, <1>9, <1>10, Elsewhere DEF IInv, Quiet

LEMMA WholeCallStep ==
  ASSUME IInv, WholeCall
  PROVE  IInv'
<1> DEFINE ls == Range(places)
<1>1. /\ TypeOK /\ ReachesNamed /\ ReadOn(chip)
      /\ \A k \in DOMAIN places : places[k][1] = chip
  BY DEF IInv, CallsInv, CallsForRequest, WithRequest, WholeCall
<1>2. IsFiniteSet(ls) /\ ls \in SUBSET (Chips \X (Offsets \cup {0}))
  BY <1>1, PlacesFinite
<1>3. \A m \in ls : m[1] = chip
  BY <1>1 DEF Range
<1>4. Accepted(ls) /\ Hit(ls)
  BY DEF WholeCall
<1> HIDE DEF ls
<1>5. /\ ReachesNamed'
      /\ hits' \in Seq([asked : SUBSET (Chips \X (Offsets \cup {0})),
                        reached : SUBSET Lines, again : BOOLEAN])
  BY <1>1, <1>2, <1>3, <1>4, HitIsRight
<1>6. /\ pc' = "exit" /\ why' \in Reasons
      /\ UNCHANGED <<manager, moves, inbox, heard, given, chip, id, places, asOf, follow>>
  BY DEF WholeCall, Exit, Reasons
<1>7. TypeOK'
  BY <1>1, <1>5, <1>6 DEF TypeOK, Places, manager, given, follow
<1>8. OneChip' /\ (~up => exported = {})'
  BY <1>6 DEF IInv, CallsInv, AtHome, OneChip, manager
<1>9. TopicsAreHeard'
  BY <1>6, StillHeard
<1> QED BY <1>5, <1>6, <1>7, <1>8, <1>9, Elsewhere DEF IInv, Quiet

\* A command with a request that goes on knows its places' chip as before.
LEMMA RequestOffsetsStep ==
  ASSUME IInv, RequestOffsets
  PROVE  IInv'
<1>0. TypeOK
  BY DEF IInv
<1>1. /\ chip \in Chips /\ ReadOn(chip)
      /\ \A k \in DOMAIN places : places[k][1] = chip
      /\ cmd \in {"get -r", "reconfigure", "monitor", "requests"}
      /\ cmd = "monitor" => heard = {"name"} /\ edges = 0 /\ (up \/ Ended)
      /\ pc = "offsets"
  BY DEF IInv, CallsInv, CallsForRequest, WithRequest, FollowInv, Watching, AtHome,
         RequestOffsets
<1>2. UNCHANGED <<manager, moves, inbox, heard, given, chip, id, asOf, hits, follow>>
  BY DEF RequestOffsets
<1>3. /\ places' \in Seq(Chips \X (Offsets \cup {0}))
      /\ \A k \in DOMAIN places' : places'[k][1] = chip
  <2>1. CASE chip \in exported
    BY <1>0, <1>1, <2>1 DEF RequestOffsets, TypeOK
  <2>2. CASE chip \notin exported
    <3>1. places' = [k \in DOMAIN places |-> <<chip, 0>>]
      BY <2>2 DEF RequestOffsets
    <3>2. DOMAIN places = 1 .. Len(places) /\ Len(places) \in Nat
      BY <1>0 DEF TypeOK
    <3>3. <<chip, 0>> \in Chips \X (Offsets \cup {0})
      BY <1>1
    <3> QED BY <3>1, <3>2, <3>3
  <2> QED BY <2>1, <2>2
<1>4. /\ why' \in Reasons
      /\ \/ pc' = "objects" /\ cmd = "monitor"
         \/ pc' = "exit"
         \/ pc' = "call" /\ cmd \in {"get -r", "reconfigure"}
  BY <1>0, <1>1 DEF RequestOffsets, Exit, TypeOK, Reasons
<1>5. TypeOK'
  BY <1>0, <1>1, <1>2, <1>3, <1>4 DEF TypeOK, Places, manager, given, follow
<1>6. CASE pc' = "exit"
  BY <1>2, <1>5, <1>6, QuietSame DEF Quiet
<1>7. CASE pc' # "exit"
  <2>1. OneChip' /\ ReachesNamed' /\ (~up => exported = {})' /\ TopicsAreHeard'
    BY <1>2, Unmoved, StillHeard
  <2>2. cmd' = cmd /\ chip' = chip /\ ReadOn(chip)'
    BY <1>1, <1>2 DEF ReadOn, manager, given
  <2>3. Awaits' /\ CallsForLine' /\ CallsForRequest'
    BY <1>1, <1>3, <1>4, <1>7, <2>2 DEF Awaits, CallsForLine, CallsForRequest, WithRequest
  <2>4. AtHome'
    BY <1>4, <1>7, <2>1, <2>2 DEF AtHome, TopicsAreHeard
  <2>5. Watching'
    BY <1>1, <1>2, <1>4, <1>7, <2>2 DEF Watching, Ended, manager, follow
  <2>6. PropsFollowed' /\ EdgesFollowed'
    BY <1>4, <1>7 DEF PropsFollowed, EdgesFollowed
  <2> QED BY <1>5, <2>1, <2>3, <2>4, <2>5, <2>6 DEF IInv, CallsInv, FollowInv
<1> QED BY <1>6, <1>7

LEMMA RequestLineFindStep ==
  ASSUME IInv, RequestLineFind
  PROVE  IInv'
<1>0. TypeOK
  BY DEF IInv
<1>1. /\ chip \in Chips /\ ReadOn(chip)
      /\ \A k \in DOMAIN places : places[k][1] = chip
      /\ cmd \in {"set -r", "get -r"} /\ pc = "find"
  BY DEF IInv, CallsInv, CallsForRequest, WithRequest, RequestLineFind
<1>2. UNCHANGED <<manager, moves, inbox, heard, given, chip, id, asOf, hits, follow>>
  BY DEF RequestLineFind
<1>3. PICK l \in Found :
       IF cmd = "get -r" /\ HolderIn(reqs, l) = NoId
         THEN Exit("unmanaged") /\ UNCHANGED places
         ELSE /\ places' = Append(places, l)
              /\ pc' = IF Len(places') = Len(names) THEN "call" ELSE "find"
              /\ UNCHANGED why
  BY DEF RequestLineFind
<1>4. CASE cmd = "get -r" /\ HolderIn(reqs, l) = NoId
  BY <1>1, <1>2, <1>3, <1>4, ExitStep DEF Reasons
<1>5. CASE ~(cmd = "get -r" /\ HolderIn(reqs, l) = NoId)
  <2>1. places' = Append(places, l) /\ pc' \in {"call", "find"} /\ why' = why
    BY <1>3, <1>5
  <2>2. l[1] = chip
    <3>1. chip \in Nat
      BY <1>1
    <3>2. chip # NoChip
      BY <3>1
    <3> QED BY <1>0, <3>2, FoundAre
  <2>3. /\ places' \in Seq(Chips \X (Offsets \cup {0}))
        /\ \A k \in DOMAIN places' : places'[k][1] = chip
    <3>1. /\ Append(places, l) \in Seq(Chips \X (Offsets \cup {0}))
          /\ DOMAIN places = 1 .. Len(places)
          /\ DOMAIN Append(places, l) = 1 .. Len(places) + 1
          /\ Append(places, l)[Len(places) + 1] = l
          /\ \A k \in DOMAIN places : Append(places, l)[k] = places[k]
      BY <1>0, PlacesGrow
    <3>2. Len(places) \in Nat
      BY <1>0 DEF TypeOK
    <3>3. \A k \in 1 .. Len(places) + 1 : k \in 1 .. Len(places) \/ k = Len(places) + 1
      BY <3>2
    <3> QED BY <1>1, <2>1, <2>2, <3>1, <3>3
  <2>4. TypeOK'
    BY <1>0, <1>1, <1>2, <2>1, <2>3 DEF TypeOK, Places, manager, given, follow
  <2>5. OneChip' /\ ReachesNamed' /\ (~up => exported = {})' /\ TopicsAreHeard'
    BY <1>2, Unmoved, StillHeard
  <2>6. cmd' = cmd /\ chip' = chip /\ ReadOn(chip)'
    BY <1>1, <1>2 DEF ReadOn, manager, given
  <2>7. Awaits' /\ CallsForLine' /\ CallsForRequest'
    BY <1>1, <2>1, <2>3, <2>6 DEF Awaits, CallsForLine, CallsForRequest, WithRequest
  <2>8. AtHome'
    BY <1>1, <2>1, <2>5, <2>6 DEF AtHome, TopicsAreHeard
  <2>9. Watching' /\ PropsFollowed' /\ EdgesFollowed'
    BY <1>1, <2>1, <2>6 DEF Watching, PropsFollowed, EdgesFollowed
  <2> QED BY <2>4, <2>5, <2>7, <2>8, <2>9 DEF IInv, CallsInv, FollowInv
<1> QED BY <1>4, <1>5

-----------------------------------------------------------------------------
(* notify and monitor *)

\* The follower subscribes to the signals of its line while only the manager's name was
\* watched: no signal of the line waits yet.
LEMMA FollowBegins ==
  ASSUME IInv, pc \in {"find", "objects"}, cmd \in {"notify", "monitor"}, NEW l,
         l \in Chips \X (Offsets \cup {0}), l[1] \in exported, places' = <<l>>,
         heard' = heard \cup ProxyTopic, pc' = "proxy",
         UNCHANGED <<manager, moves, inbox, given, chip, id, why, asOf, hits, follow>>
  PROVE  IInv'
<1>1. /\ TypeOK /\ heard = {"name"} /\ edges = 0 /\ up /\ TopicsAreHeard
  BY DEF IInv, CallsInv, AtHome, FollowInv, Watching, TopicsAreHeard, TypeOK
<1>2. places' \in Seq(Chips \X (Offsets \cup {0})) /\ places'[1] = l /\ Len(places') = 1
  OBVIOUS
<1>3. /\ heard' = IF cmd = "notify" THEN {"name", "props"} ELSE {"name", "edges"}
      /\ heard' \in SUBSET Topics
  BY <1>1 DEF ProxyTopic, Topics
<1>4. TypeOK'
  BY <1>1, <1>2, <1>3 DEF TypeOK, Places, manager, given, follow
<1>5. OneChip' /\ ReachesNamed' /\ (~up => exported = {})' /\ TopicsAreHeard'
  BY Unmoved, StillHeard
<1>6. cmd' = cmd /\ up' = up /\ edges' = 0 /\ exported' = exported
  BY <1>1 DEF manager, given, follow
<1>7. Awaits' /\ CallsForLine' /\ CallsForRequest'
  BY DEF Awaits, CallsForLine, CallsForRequest, WithRequest
<1>8. AtHome'
  BY <1>2, <1>5, <1>6 DEF AtHome, TopicsAreHeard
<1>9. Watching'
  BY DEF Watching
<1>10. \A k \in DOMAIN inbox' : inbox'[k].topic = "name"
  BY <1>1 DEF TopicsAreHeard
<1>11. PropsFollowed'
  <2>1. PropsAt' = {}
    BY <1>10 DEF PropsAt
  <2>2. LastProps'
    BY <2>1 DEF LastProps
  <2> QED BY <1>1, <1>2, <1>3, <1>6, <2>2 DEF PropsFollowed
<1>12. EdgesFollowed'
  <2>1. EdgesAt' = {}
    BY <1>10 DEF EdgesAt
  <2>2. Printed' = 0
    BY DEF Printed
  <2>3. 1 .. 0 = {}
    OBVIOUS
  <2> QED BY <1>3, <1>6, <2>1, <2>2, <2>3 DEF EdgesFollowed
<1> QED BY <1>4, <1>5, <1>7, <1>8, <1>9, <1>11, <1>12 DEF IInv, CallsInv, FollowInv

LEMMA FollowFindStep ==
  ASSUME IInv, FollowFind
  PROVE  IInv'
<1>1. PICK l \in Found : places' = <<l>>
  BY DEF FollowFind
<1>2. l \in Chips \X (Offsets \cup {0}) /\ l[1] \in exported
  BY FoundAre DEF IInv, Lines
<1> QED BY <1>1, <1>2, FollowBegins DEF FollowFind

LEMMA FollowObjectStep ==
  ASSUME IInv, FollowObject
  PROVE  IInv'
<1>1. CASE chip \in exported
  <2>1. PICK l \in Range(places) : places' = <<l>>
    BY <1>1 DEF FollowObject
  <2>2. /\ cmd = "monitor" /\ \A k \in DOMAIN places : places[k][1] = chip
        /\ pc = "objects"
    BY DEF IInv, CallsInv, AtHome, CallsForRequest, WithRequest, FollowObject
  <2>3. l \in Chips \X (Offsets \cup {0}) /\ l[1] \in exported
    BY <1>1, <2>2, PlacesFinite DEF IInv, Range
  <2>4. /\ heard' = heard \cup ProxyTopic /\ pc' = "proxy"
        /\ UNCHANGED <<manager, moves, inbox, given, chip, id, why, asOf, hits, follow>>
    BY <1>1 DEF FollowObject
  <2> QED BY <2>1, <2>2, <2>3, <2>4, FollowBegins
<1>2. CASE chip \notin exported
  BY <1>2, ExitStep DEF FollowObject, Reasons
<1> QED BY <1>1, <1>2

LEMMA FollowReadStep ==
  ASSUME IInv, FollowRead
  PROVE  IInv'
<1>1. /\ TypeOK /\ PropsFollowed /\ EdgesFollowed /\ pc = "proxy"
      /\ cmd \in {"notify", "monitor"} /\ Len(places) = 1
  BY DEF IInv, CallsInv, AtHome, FollowInv, FollowRead
<1>2. /\ pc' = "loop"
      /\ UNCHANGED <<manager, moves, inbox, heard, given, chip, id, why, places, asOf, hits,
                     edges, gone>>
      /\ shown' = IF cmd = "notify" THEN HolderIn(reqs, places[1]) ELSE 0
  BY DEF FollowRead
<1>3. shown' \in Int
  <2>1. HolderIn(reqs, places[1]) \in Ids \cup {NoId}
    BY HolderType
  <2>2. HolderIn(reqs, places[1]) \in Int
    BY <2>1, NumbersInt
  <2> QED BY <1>2, <2>2
<1>4. TypeOK'
  BY <1>1, <1>2, <1>3 DEF TypeOK, Places, manager, given
<1>5. OneChip' /\ ReachesNamed' /\ (~up => exported = {})' /\ TopicsAreHeard'
  BY <1>2, Unmoved, StillHeard
<1>6. /\ cmd' = cmd /\ up' = up /\ edges' = edges /\ exported' = exported /\ reqs' = reqs
      /\ places' = places /\ inbox' = inbox /\ heard' = heard /\ gone' = gone
  BY <1>2 DEF manager, given
<1>7. Awaits' /\ CallsForLine' /\ CallsForRequest'
  BY <1>2 DEF Awaits, CallsForLine, CallsForRequest, WithRequest
<1>8. AtHome'
  BY <1>1, <1>2, <1>5, <1>6 DEF AtHome, TopicsAreHeard
<1>9. Watching'
  BY <1>2 DEF Watching
<1>10. PropsFollowed'
  <2>1. SUFFICES ASSUME cmd = "notify" PROVE PropsFollowed'
    BY <1>6 DEF PropsFollowed
  <2>2. /\ heard = {"name", "props"}
        /\ gone \/ Ended \/ (up /\ places[1][1] \in exported /\ LastProps)
    BY <1>1, <2>1 DEF PropsFollowed
  <2>3. Ended' <=> Ended
    BY <1>6 DEF Ended
  <2>4. LastProps => LastProps'
    BY <1>2, <1>6, <2>1 DEF LastProps, PropsAt
  <2> QED BY <1>6, <2>2, <2>3, <2>4 DEF PropsFollowed
<1>11. EdgesFollowed'
  <2>1. SUFFICES ASSUME cmd = "monitor" PROVE EdgesFollowed'
    BY <1>6 DEF EdgesFollowed
  <2>2. Printed' = Printed
    BY <1>1, <1>2, <2>1 DEF Printed
  <2>3. EdgesAt' = EdgesAt
    BY <1>6 DEF EdgesAt
  <2> QED BY <1>1, <1>2, <1>6, <2>1, <2>2, <2>3 DEF EdgesFollowed
<1> QED BY <1>4, <1>5, <1>7, <1>8, <1>9, <1>10, <1>11 DEF IInv, CallsInv, FollowInv

\* What waits after the first signal is handled.
LEMMA FirstHandled ==
  ASSUME IInv, inbox # <<>>, inbox' = Tail(inbox), UNCHANGED heard
  PROVE  /\ inbox' \in Seq(Messages) /\ TopicsAreHeard' /\ 1 \in DOMAIN inbox
         /\ Head(inbox) = inbox[1] /\ inbox[1] \in Messages /\ inbox[1].topic \in heard
         /\ \A k \in DOMAIN inbox : k \in Nat /\ 1 <= k
         /\ \A k \in DOMAIN inbox' : k \in Nat /\ 1 <= k
         /\ \A k \in DOMAIN inbox' : k + 1 \in DOMAIN inbox /\ inbox'[k] = inbox[k + 1]
         /\ \A k \in DOMAIN inbox : k # 1 => k - 1 \in DOMAIN inbox' /\ inbox'[k - 1] = inbox[k]
<1>1. inbox \in Seq(Messages) /\ Len(inbox) \in Nat /\ DOMAIN inbox = 1 .. Len(inbox)
      /\ Len(inbox) # 0
  BY DEF IInv, TypeOK
<1>2. inbox' \in Seq(Messages) /\ Len(inbox') = Len(inbox) - 1
      /\ DOMAIN inbox' = 1 .. Len(inbox) - 1
  BY <1>1
<1>3. \A k \in 1 .. Len(inbox) - 1 : k + 1 \in 1 .. Len(inbox) /\ inbox'[k] = inbox[k + 1]
  BY <1>1
<1>4. \A k \in 1 .. Len(inbox) : k # 1 => k - 1 \in 1 .. Len(inbox) - 1 /\ (k - 1) + 1 = k
  BY <1>1
<1>5. \A k \in 1 .. Len(inbox) : k # 1 => inbox'[k - 1] = inbox[k]
  <2> SUFFICES ASSUME NEW k \in 1 .. Len(inbox), k # 1
               PROVE  inbox'[k - 1] = inbox[k]
    OBVIOUS
  <2>1. k - 1 \in 1 .. Len(inbox) - 1 /\ (k - 1) + 1 = k
    BY <1>4
  <2>2. inbox'[k - 1] = inbox[(k - 1) + 1]
    BY <1>3, <2>1
  <2> QED BY <2>1, <2>2
<1>6. \A k \in DOMAIN inbox : inbox[k].topic \in heard
  BY DEF IInv, CallsInv, AtHome
<1>7. TopicsAreHeard'
  BY <1>1, <1>2, <1>3, <1>6 DEF TopicsAreHeard
<1>8. 1 \in 1 .. Len(inbox) /\ Head(inbox) = inbox[1] /\ inbox[1] \in Messages
  BY <1>1
<1> QED BY <1>1, <1>2, <1>3, <1>4, <1>5, <1>6, <1>7, <1>8

LEMMA MessageIs ==
  ASSUME NEW m \in Messages
  PROVE  /\ m.topic = "props" => m.arg \in Ids \cup {NoId}
         /\ m.topic = "edges" => m.arg \in Nat
BY DEF Messages

\* The manager's end stays in the queue until the client exits for it.
LEMMA StillEnded ==
  ASSUME IInv, inbox # <<>>, inbox' = Tail(inbox), UNCHANGED heard, Ended,
         Head(inbox) # Message("name", FALSE)
  PROVE  Ended'
<1>1. PICK k \in DOMAIN inbox : inbox[k] = Message("name", FALSE)
  BY DEF Ended
<1>2. k # 1
  BY <1>1, FirstHandled
<1> QED BY <1>1, <1>2, FirstHandled, ZenonT(60) DEF Ended

LEMMA PropsHandled ==
  ASSUME IInv, pc = "loop", pc' = "loop", cmd = "notify", inbox # <<>>, inbox' = Tail(inbox),
         Head(inbox) # Message("name", FALSE),
         shown' = IF Head(inbox).topic = "props" THEN Head(inbox).arg
                  ELSE IF Head(inbox).topic = "edges" THEN shown + 1 ELSE shown,
         UNCHANGED <<up, exported, reqs, heard, cmd, places, gone>>
  PROVE  PropsFollowed'
<1>1. /\ heard = {"name", "props"}
      /\ gone \/ Ended \/ (up /\ places[1][1] \in exported /\ LastProps)
  BY DEF IInv, FollowInv, PropsFollowed
<1>2. Ended => Ended'
  BY StillEnded
<1>3. ASSUME LastProps PROVE LastProps'
  <2> DEFINE h == HolderIn(reqs, places[1])
  <2>1. /\ \A k \in PropsAt : (\A j \in PropsAt : j <= k) => inbox[k].arg = h
        /\ PropsAt = {} => shown = h
    BY <1>3 DEF LastProps
  <2>2. h' = h
    OBVIOUS
  <2> HIDE DEF h
  <2>3. /\ \A k \in PropsAt' : k + 1 \in PropsAt /\ k \in Nat /\ inbox'[k] = inbox[k + 1]
        /\ \A k \in PropsAt : k \in Nat /\ (k # 1 => k - 1 \in PropsAt')
    BY FirstHandled DEF PropsAt
  <2>4. ASSUME NEW k \in PropsAt', \A j \in PropsAt' : j <= k
        PROVE  inbox'[k].arg = h
    <3>1. k + 1 \in PropsAt /\ k \in Nat /\ inbox'[k] = inbox[k + 1]
      BY <2>3
    <3>2. ASSUME NEW j \in PropsAt PROVE j <= k + 1
      <4>1. j \in Nat /\ (j # 1 => j - 1 \in PropsAt')
        BY <2>3
      <4>2. j # 1 => j - 1 <= k
        BY <2>4, <4>1
      <4> QED BY <3>1, <4>1, <4>2
    <3> QED BY <2>1, <3>1, <3>2
  <2>5. ASSUME PropsAt' = {} PROVE shown' = h
    <3>1. \A k \in PropsAt : k = 1
      BY <2>3, <2>5
    <3>2. CASE Head(inbox).topic = "props"
      <4>1. 1 \in PropsAt
        BY <3>2, FirstHandled DEF PropsAt
      <4>2. inbox[1].arg = h
        BY <2>1, <3>1, <4>1
      <4> QED BY <3>2, <4>2, FirstHandled
    <3>3. CASE Head(inbox).topic # "props"
      <4>1. 1 \notin PropsAt
        BY <3>3, FirstHandled DEF PropsAt
      <4>2. shown = h
        BY <2>1, <3>1, <4>1
      <4>3. Head(inbox).topic # "edges"
        BY <1>1, FirstHandled
      <4> QED BY <3>3, <4>2, <4>3
    <3> QED BY <3>2, <3>3
  <2> QED BY <2>2, <2>4, <2>5 DEF LastProps, h
<1> QED BY <1>1, <1>2, <1>3 DEF PropsFollowed

LEMMA EdgesHandled ==
  ASSUME IInv, pc = "loop", pc' = "loop", cmd = "monitor", inbox # <<>>, inbox' = Tail(inbox),
         shown' = IF Head(inbox).topic = "props" THEN Head(inbox).arg
                  ELSE IF Head(inbox).topic = "edges" THEN shown + 1 ELSE shown,
         UNCHANGED <<heard, cmd, edges>>
  PROVE  EdgesFollowed'
<1> DEFINE arg(k) == inbox[k].arg
<1>1. /\ heard = {"name", "edges"}
      /\ shown \in 0 .. edges
      /\ \A k \in EdgesAt : arg(k) \in shown + 1 .. edges
      /\ \A j, k \in EdgesAt : j < k => arg(j) < arg(k)
      /\ \A v \in shown + 1 .. edges : \E k \in EdgesAt : arg(k) = v
  BY DEF IInv, FollowInv, EdgesFollowed, Printed
<1>2. edges \in Nat /\ shown \in Int
  BY DEF IInv, TypeOK
<1>3. /\ \A k \in EdgesAt' : k + 1 \in EdgesAt /\ k \in Nat /\ k >= 1 /\ inbox'[k] = inbox[k + 1]
      /\ \A k \in EdgesAt : /\ k \in Nat
                            /\ k # 1 => k - 1 \in EdgesAt' /\ inbox'[k - 1] = inbox[k]
      /\ \A k \in EdgesAt : 1 <= k
  BY FirstHandled DEF EdgesAt
<1>4. Head(inbox) = inbox[1] /\ 1 \in DOMAIN inbox /\ inbox[1].topic \in heard
  BY FirstHandled
<1>5. /\ shown' \in 0 .. edges
      /\ \A k \in EdgesAt : k # 1 => arg(k) \in shown' + 1 .. edges
      /\ \A v \in shown' + 1 .. edges : \E k \in EdgesAt : k # 1 /\ arg(k) = v
  <2>1. CASE Head(inbox).topic = "edges"
    <3>1. 1 \in EdgesAt /\ shown' = shown + 1
      BY <1>4, <2>1 DEF EdgesAt
    <3>2. arg(1) \in shown + 1 .. edges
      BY <1>1, <3>1
    <3> HIDE DEF arg
    <3>3. shown + 1 \in shown + 1 .. edges
      BY <1>2, <3>2
    <3>4. PICK k \in EdgesAt : arg(k) = shown + 1
      BY <1>1, <3>3
    <3>5. k = 1
      <4>1. SUFFICES ASSUME k # 1 PROVE FALSE
        OBVIOUS
      <4>2. 1 < k
        BY <1>3, <4>1
      <4>3. arg(1) < arg(k)
        BY <1>1, <3>1, <4>2
      <4> QED BY <1>2, <3>2, <3>4, <4>3
    <3>6. \A j \in EdgesAt : j # 1 => arg(j) \in shown + 2 .. edges
      <4> SUFFICES ASSUME NEW j \in EdgesAt, j # 1 PROVE arg(j) \in shown + 2 .. edges
        OBVIOUS
      <4>1. 1 < j
        BY <1>3
      <4>2. arg(1) < arg(j) /\ arg(j) \in shown + 1 .. edges
        BY <1>1, <3>1, <4>1
      <4> QED BY <1>2, <3>4, <3>5, <4>2
    <3>7. \A v \in shown + 2 .. edges : \E j \in EdgesAt : j # 1 /\ arg(j) = v
      <4> SUFFICES ASSUME NEW v \in shown + 2 .. edges
                   PROVE  \E j \in EdgesAt : j # 1 /\ arg(j) = v
        OBVIOUS
      <4>1. v \in shown + 1 .. edges /\ v # shown + 1
        BY <1>2
      <4>2. PICK j \in EdgesAt : arg(j) = v
        BY <1>1, <4>1
      <4> QED BY <3>4, <3>5, <4>1, <4>2
    <3>8. shown + 1 \in 0 .. edges /\ (shown + 1) + 1 = shown + 2
      BY <1>1, <1>2, <3>3
    <3> QED BY <3>1, <3>6, <3>7, <3>8
  <2>2. CASE Head(inbox).topic # "edges"
    <3>1. 1 \notin EdgesAt /\ shown' = shown
      BY <1>1, <1>4, <2>2 DEF EdgesAt
    <3> QED BY <1>1, <3>1
  <2> QED BY <2>1, <2>2
<1> HIDE DEF arg
<1>6. \A k \in EdgesAt' : k + 1 \in EdgesAt /\ k + 1 # 1 /\ inbox'[k].arg = arg(k + 1)
  <2> TAKE k \in EdgesAt'
  <2>1. k + 1 \in EdgesAt /\ k \in Nat /\ k >= 1 /\ inbox'[k] = inbox[k + 1]
    BY <1>3
  <2>2. k + 1 # 1
    BY <2>1
  <2> QED BY <2>1, <2>2 DEF arg
<1>7. \A k \in EdgesAt' : inbox'[k].arg \in shown' + 1 .. edges
  BY <1>5, <1>6
<1>8. \A j, k \in EdgesAt' : j < k => inbox'[j].arg < inbox'[k].arg
  <2> SUFFICES ASSUME NEW j \in EdgesAt', NEW k \in EdgesAt', j < k
               PROVE  inbox'[j].arg < inbox'[k].arg
    OBVIOUS
  <2>1. j + 1 < k + 1
    BY <1>3
  <2>2. arg(j + 1) < arg(k + 1)
    BY <1>1, <1>6, <2>1
  <2> QED BY <1>6, <2>2
<1>9. \A v \in shown' + 1 .. edges : \E k \in EdgesAt' : inbox'[k].arg = v
  <2> SUFFICES ASSUME NEW v \in shown' + 1 .. edges
               PROVE  \E k \in EdgesAt' : inbox'[k].arg = v
    OBVIOUS
  <2>1. PICK k \in EdgesAt : k # 1 /\ arg(k) = v
    BY <1>5
  <2>2. k - 1 \in EdgesAt' /\ inbox'[k - 1].arg = arg(k)
    BY <1>3, <2>1 DEF arg
  <2> QED BY <2>1, <2>2
<1>10. heard' = {"name", "edges"} /\ edges' = edges /\ Printed' = shown'
  BY <1>1 DEF Printed
<1> HIDE DEF arg
<1> QED BY <1>5, <1>7, <1>8, <1>9, <1>10 DEF EdgesFollowed

LEMMA FollowSignalStep ==
  ASSUME IInv, FollowSignal
  PROVE  IInv'
<1>1. /\ TypeOK /\ cmd \in {"notify", "monitor"} /\ Len(places) = 1
      /\ pc = "loop" /\ inbox # <<>>
  BY DEF IInv, CallsInv, AtHome, FollowSignal
<1>2. /\ inbox' = Tail(inbox)
      /\ IF Head(inbox) = Message("name", FALSE) THEN Exit("vanished") ELSE UNCHANGED <<pc, why>>
      /\ shown' = IF Head(inbox).topic = "props" THEN Head(inbox).arg
                  ELSE IF Head(inbox).topic = "edges" THEN shown + 1 ELSE shown
      /\ UNCHANGED <<manager, moves, heard, given, chip, id, places, asOf, hits,
                     edges, gone>>
  BY DEF FollowSignal
<1>3. /\ inbox' \in Seq(Messages) /\ TopicsAreHeard'
      /\ Head(inbox) = inbox[1] /\ inbox[1] \in Messages
  BY <1>1, <1>2, FirstHandled
<1>4. shown' \in Int
  <2>1. shown \in Int /\ shown + 1 \in Int
    BY <1>1 DEF TypeOK
  <2>2. Head(inbox).topic = "props" => Head(inbox).arg \in Int
    BY <1>3, MessageIs, NumbersInt
  <2> QED BY <1>2, <2>1, <2>2
<1>5. /\ pc' \in {"loop", "exit"} /\ why' \in Reasons
      /\ pc' = "loop" => Head(inbox) # Message("name", FALSE)
  BY <1>1, <1>2 DEF Exit, TypeOK, Reasons
<1>6. TypeOK'
  BY <1>1, <1>2, <1>3, <1>4, <1>5 DEF TypeOK, Places, manager, given
<1>7. CASE pc' = "exit"
  BY <1>2, <1>3, <1>6, <1>7, QuietStep DEF Quiet
<1>8. CASE pc' = "loop"
  <2>1. OneChip' /\ ReachesNamed' /\ (~up => exported = {})'
    BY <1>2, Unmoved
  <2>2. /\ cmd' = cmd /\ places' = places /\ up' = up /\ exported' = exported
        /\ reqs' = reqs /\ edges' = edges /\ gone' = gone /\ heard' = heard
    BY <1>2 DEF manager, given
  <2>3. Awaits' /\ CallsForLine' /\ CallsForRequest'
    BY <1>8 DEF Awaits, CallsForLine, CallsForRequest, WithRequest
  <2>4. AtHome'
    BY <1>1, <1>3, <1>8, <2>1, <2>2 DEF AtHome, TopicsAreHeard
  <2>5. Watching'
    BY <1>8 DEF Watching
  <2>6. PropsFollowed'
    <3>1. CASE cmd = "notify"
      BY <1>1, <1>2, <1>5, <1>8, <2>2, <3>1, PropsHandled
    <3>2. CASE cmd # "notify"
      BY <2>2, <3>2 DEF PropsFollowed
    <3> QED BY <3>1, <3>2
  <2>7. EdgesFollowed'
    <3>1. CASE cmd = "monitor"
      BY <1>1, <1>2, <1>8, <2>2, <3>1, EdgesHandled
    <3>2. CASE cmd # "monitor"
      BY <2>2, <3>2 DEF EdgesFollowed
    <3> QED BY <3>1, <3>2
  <2> QED BY <1>6, <2>1, <2>3, <2>4, <2>5, <2>6, <2>7 DEF IInv, CallsInv, FollowInv
<1> QED BY <1>5, <1>7, <1>8

LEMMA StepsStep ==
  ASSUME IInv, Steps
  PROVE  IInv'
BY ExitSteps, RequestFindStep, RequestCallStep, RequestAwaitStep, LineFindStep, LineCallStep,
   RequestOffsetsStep, RequestLineFindStep, WholeCallStep, ReleaseCallStep, ListStep,
   FindLineStep, InfoFindStep, WaitClientStep, FollowFindStep, FollowObjectStep,
   FollowReadStep, FollowSignalStep, RequestIterateStep, WaitIterateStep
DEF Steps

-----------------------------------------------------------------------------
(* What the others do *)

\* A number that is not given again keeps its lines or loses some.
Losing == \A r \in Ids : /\ grants[r] <= grants'[r]
                         /\ grants'[r] = grants[r] => reqs'[r] \subseteq reqs[r]

LEMMA ReadOnKept ==
  ASSUME IInv, TypeOK', Losing, UNCHANGED <<id, asOf>>, NEW c, ReadOn(c)
  PROVE  /\ id' \in Ids /\ asOf' <= grants'[id']
         /\ grants'[id'] = asOf' => \A l \in reqs'[id'] : l[1] = c
<1>1. /\ id \in Ids /\ asOf \in Nat /\ grants[id] \in Nat /\ grants'[id] \in Nat
      /\ asOf <= grants[id] /\ grants[id] <= grants'[id]
  BY DEF ReadOn, IInv, TypeOK, Losing
<1>2. grants'[id] = asOf => grants[id] = asOf /\ grants'[id] = grants[id]
  BY <1>1
<1> QED BY <1>1, <1>2 DEF ReadOn, Losing

\* What the client knows of its request survives what the others do.
LEMMA OthersCalls ==
  ASSUME IInv, TypeOK', OneChip', TopicsAreHeard', (~up => exported = {})', Losing, ClientStays,
         pc = "start" => edges' = edges
  PROVE  CallsInv'
<1>1. /\ UNCHANGED heard /\ UNCHANGED cmd /\ UNCHANGED chip /\ UNCHANGED id /\ UNCHANGED pc
      /\ UNCHANGED places /\ UNCHANGED asOf /\ UNCHANGED hits
  BY DEF ClientStays, given
<1>2. CallsInv /\ TypeOK
  BY DEF IInv
<1>3. ASSUME NEW c, ReadOn(c)
      PROVE  /\ id' \in Ids /\ asOf' <= grants'[id']
             /\ grants'[id'] = asOf' => \A l \in reqs'[id'] : l[1] = c
  BY <1>1, <1>3, ReadOnKept
<1>4. Awaits'
  BY <1>1, <1>2 DEF CallsInv, Awaits
<1>5. CallsForLine'
  <2>1. SUFFICES ASSUME pc = "call", cmd \in {"set", "get"}
                 PROVE  places # <<>> /\ ReadOn(Last(places)[1])'
    BY <1>1 DEF CallsForLine
  <2>2. places # <<>> /\ ReadOn(Last(places)[1])
    BY <1>2, <2>1 DEF CallsInv, CallsForLine
  <2>3. Last(places')[1] = Last(places)[1]
    BY <1>1
  <2> QED BY <1>3, <2>2, <2>3 DEF ReadOn
<1>6. CallsForRequest'
  <2>1. SUFFICES ASSUME WithRequest
                 PROVE  /\ chip \in Chips /\ ReadOn(chip)'
                        /\ \A k \in DOMAIN places : places[k][1] = chip
    BY <1>1 DEF CallsForRequest, WithRequest
  <2>2. /\ chip \in Chips /\ ReadOn(chip)
        /\ \A k \in DOMAIN places : places[k][1] = chip
    BY <1>2, <2>1 DEF CallsInv, CallsForRequest
  <2> QED BY <1>1, <1>3, <2>2 DEF ReadOn
<1>7. AtHome'
  <2>1. ASSUME pc = "start"
        PROVE  cmd' = "none" /\ inbox' = <<>> /\ heard' = {} /\ places' = <<>> /\ edges' = 0
    <3>1. cmd' = "none" /\ heard' = {} /\ places' = <<>> /\ edges' = 0
      BY <1>1, <1>2, <2>1 DEF CallsInv, AtHome
    <3>2. DOMAIN inbox' = {} /\ inbox' \in Seq(Messages)
      BY <3>1 DEF TopicsAreHeard, TypeOK
    <3>3. Len(inbox') \in Nat /\ DOMAIN inbox' = 1 .. Len(inbox')
      BY <3>2
    <3>4. Len(inbox') = 0
      BY <3>2, <3>3
    <3> QED BY <3>1, <3>2, <3>4
  <2> QED BY <1>1, <1>2, <2>1 DEF CallsInv, AtHome, TopicsAreHeard
<1>8. ReachesNamed'
  BY <1>1, <1>2 DEF CallsInv, ReachesNamed
<1> QED BY <1>4, <1>5, <1>6, <1>7, <1>8 DEF CallsInv

LEMMA Joined ==
  ASSUME NEW T, NEW a \in Seq(Messages), NEW b \in Seq(Messages),
         \A k \in DOMAIN a : a[k].topic \in T, \A k \in DOMAIN b : b[k].topic \in T
  PROVE  a \o b \in Seq(Messages) /\ \A k \in DOMAIN (a \o b) : (a \o b)[k].topic \in T
<1> DEFINE n == Len(a)
           m == Len(b)
           q == a \o b
<1>1. /\ n \in Nat /\ m \in Nat /\ DOMAIN a = 1 .. n /\ DOMAIN b = 1 .. m
      /\ q \in Seq(Messages) /\ DOMAIN q = 1 .. n + m
  OBVIOUS
<1>2. \A k \in 1 .. n + m : IF k <= n THEN q[k] = a[k] ELSE q[k] = b[k - n] /\ k - n \in 1 .. m
  BY <1>1
<1> HIDE DEF n, m, q
<1>3. \A k \in 1 .. n + m : k <= n => k \in 1 .. n
  BY <1>1
<1>4. \A k \in DOMAIN q : q[k].topic \in T
  BY <1>1, <1>2, <1>3
<1> QED BY <1>1, <1>4 DEF q

\* The message about the followed line's request, when it changes.
LEMMA ChangedIs ==
  ASSUME TypeOK, NEW rs
  PROVE  /\ Changed(rs) \in Seq(Messages)
         /\ \A k \in DOMAIN Changed(rs) : Changed(rs)[k].topic = "props" /\ "props" \in heard
         /\ HolderIn(rs, places[1]) = HolderIn(reqs, places[1]) => Changed(rs) = <<>>
         /\ (/\ places # <<>> /\ places[1][1] \in exported /\ "props" \in heard
             /\ HolderIn(rs, places[1]) # HolderIn(reqs, places[1]))
              => /\ Len(Changed(rs)) = 1 /\ Changed(rs)[1].topic = "props"
                 /\ Changed(rs)[1].arg = HolderIn(rs, places[1])
<1> DEFINE h == HolderIn(rs, places[1])
           changes == /\ places # <<>> /\ places[1][1] \in exported
                      /\ h # HolderIn(reqs, places[1])
           s == Signals("props", <<h>>)
<1>1. h \in Ids \cup {NoId}
  BY HolderType
<1>2. Changed(rs) = IF changes THEN s ELSE <<>>
  BY DEF Changed
<1> HIDE DEF h
<1>3. <<h>> \in Seq(Ids \cup {NoId})
  BY <1>1
<1>4. /\ s \in Seq(Messages)
      /\ \A k \in DOMAIN s : s[k].topic = "props" /\ "props" \in heard
  BY <1>3, MessageTypes, SignalsAre
<1>5. "props" \in heard => /\ Len(s) = 1 /\ s[1].topic = "props" /\ s[1].arg = h
  <2> HAVE "props" \in heard
  <2>1. s = [k \in DOMAIN <<h>> |-> Message("props", <<h>>[k])]
    BY DEF Signals
  <2>2. DOMAIN <<h>> = 1 .. 1 /\ 1 \in DOMAIN <<h>> /\ <<h>>[1] = h
    OBVIOUS
  <2>3. s[1] = Message("props", h) /\ DOMAIN s = 1 .. 1
    BY <2>1, <2>2
  <2>4. Len(s) = 1
    BY <1>4, <2>3
  <2> QED BY <2>3, <2>4 DEF Message
<1> HIDE DEF s
<1> QED BY <1>2, <1>4, <1>5 DEF h

LEMMA SameHolder ==
  ASSUME NEW rs, NEW qs, NEW l, \A r \in Ids : l \in rs[r] <=> l \in qs[r]
  PROVE  HolderIn(rs, l) = HolderIn(qs, l)
<1>1. (CHOOSE r \in Ids : l \in rs[r]) = (CHOOSE r \in Ids : l \in qs[r])
  BY Zenon
<1>2. (\E r \in Ids : l \in rs[r]) <=> (\E r \in Ids : l \in qs[r])
  OBVIOUS
<1> QED BY <1>1, <1>2 DEF HolderIn

LEMMA ClientIs ==
  ASSUME ClientStays
  PROVE  /\ UNCHANGED heard /\ UNCHANGED cmd /\ UNCHANGED chip /\ UNCHANGED id /\ UNCHANGED pc
         /\ UNCHANGED places /\ UNCHANGED asOf /\ UNCHANGED hits /\ UNCHANGED shown
         /\ UNCHANGED names /\ UNCHANGED timed /\ UNCHANGED why
BY DEF ClientStays, given

LEMMA OthersType ==
  ASSUME TypeOK, ClientStays, Moving, up' \in BOOLEAN, exported' \in SUBSET Chips,
         reqs' \in [Ids -> SUBSET Lines], grants' \in [Ids -> Nat], inbox' \in Seq(Messages),
         edges' \in Nat, gone' \in BOOLEAN
  PROVE  TypeOK'
<1>1. moves' \in Nat
  BY DEF TypeOK, Moving
<1> QED BY <1>1, ClientIs DEF TypeOK

LEMMA WatchingKept ==
  ASSUME IInv, ClientStays, UNCHANGED edges, Ended => Ended',
         heard = {"name"} /\ up => up' \/ Ended'
  PROVE  Watching'
BY ClientIs DEF IInv, FollowInv, Watching

LEMMA EdgesKept ==
  ASSUME IInv, ClientStays, UNCHANGED edges, NEW msgs \in Seq(Messages),
         inbox' = inbox \o msgs, \A k \in DOMAIN msgs : msgs[k].topic \in heard \ {"edges"}
  PROVE  EdgesFollowed'
<1>1. TypeOK /\ AtHome /\ EdgesFollowed /\ UNCHANGED heard
  BY ClientIs DEF IInv, CallsInv, FollowInv
<1>2. /\ \A k \in DOMAIN inbox : k \in DOMAIN inbox' /\ inbox'[k] = inbox[k]
      /\ \A k \in DOMAIN inbox' : k \notin DOMAIN inbox =>
               /\ k - Len(inbox) \in DOMAIN msgs /\ inbox'[k] = msgs[k - Len(inbox)]
  BY <1>1, Posted
<1>3. EdgesAt' = EdgesAt /\ \A k \in EdgesAt : inbox'[k] = inbox[k]
  BY <1>2 DEF EdgesAt
<1>4. Printed' = Printed
  BY ClientIs DEF Printed
<1> QED BY <1>1, <1>3, <1>4, ClientIs, ZenonT(60) DEF EdgesFollowed

\* The last message about the followed line tells its request, before and after what the
\* others do.
LEMMA PropsKept ==
  ASSUME IInv, ClientStays, NEW msgs \in Seq(Messages), inbox' = inbox \o msgs,
         \A k \in DOMAIN msgs : msgs[k].topic \in heard, gone => gone',
         heard = {"name", "props"} /\ places # <<>> /\ up /\ places[1][1] \in exported =>
           \/ gone' \/ Ended'
           \/ /\ up' /\ places[1][1] \in exported'
              /\ \A k \in DOMAIN msgs : msgs[k].topic # "props"
              /\ HolderIn(reqs', places[1]) = HolderIn(reqs, places[1])
           \/ /\ up' /\ places[1][1] \in exported'
              /\ Len(msgs) = 1 /\ msgs[1].topic = "props"
              /\ msgs[1].arg = HolderIn(reqs', places[1])
  PROVE  PropsFollowed'
<1>1. SUFFICES ASSUME pc \in {"proxy", "loop"}, cmd = "notify"
               PROVE  PropsFollowed'
  BY ClientIs DEF PropsFollowed
<1>2. /\ heard = {"name", "props"} /\ TypeOK /\ AtHome /\ UNCHANGED heard /\ Len(places) = 1
      /\ gone \/ Ended \/ (up /\ places[1][1] \in exported /\ LastProps)
  BY <1>1, ClientIs DEF IInv, CallsInv, AtHome, FollowInv, PropsFollowed
<1>3. /\ Len(inbox) \in Nat
      /\ DOMAIN inbox = 1 .. Len(inbox) /\ DOMAIN inbox' = 1 .. Len(inbox) + Len(msgs)
      /\ \A k \in DOMAIN inbox : k \in DOMAIN inbox' /\ inbox'[k] = inbox[k]
      /\ \A k \in DOMAIN msgs : /\ Len(inbox) + k \in DOMAIN inbox'
                                /\ inbox'[Len(inbox) + k] = msgs[k]
      /\ \A k \in DOMAIN inbox' : k \notin DOMAIN inbox =>
            /\ k - Len(inbox) \in DOMAIN msgs /\ inbox'[k] = msgs[k - Len(inbox)]
      /\ Ended => Ended'
  BY <1>2, Posted
<1> DEFINE h == HolderIn(reqs, places[1])
           g == HolderIn(reqs', places[1])
<1>4. places # <<>>
  <2>1. Len(places) = 1
    BY <1>2
  <2> QED BY <2>1, NotEmpty
<1>5. ASSUME LastProps, \A k \in DOMAIN msgs : msgs[k].topic # "props", g = h
      PROVE  LastProps'
  <2>1. PropsAt' = PropsAt /\ \A k \in PropsAt : inbox'[k] = inbox[k]
    BY <1>3, <1>5 DEF PropsAt
  <2> QED BY <1>5, <2>1, ClientIs DEF LastProps
<1>6. ASSUME Len(msgs) = 1, msgs[1].topic = "props", msgs[1].arg = g
      PROVE  LastProps'
  <2> HIDE DEF g
  <2>1. 1 \in DOMAIN msgs
    BY <1>6
  <2>2. Len(inbox) + 1 \in PropsAt' /\ inbox'[Len(inbox) + 1].arg = g
    BY <1>3, <1>6, <2>1 DEF PropsAt
  <2>3. \A k \in PropsAt' : k \in 1 .. Len(inbox) + 1
    BY <1>3, <1>6 DEF PropsAt
  <2>4. \A k \in PropsAt' : (\A j \in PropsAt' : j <= k) => k = Len(inbox) + 1
    BY <1>3, <2>2, <2>3
  <2>5. \A k \in PropsAt' : (\A j \in PropsAt' : j <= k) => inbox'[k].arg = g
    BY <2>2, <2>4
  <2>6. PropsAt' # {}
    BY <2>2
  <2> QED BY <2>5, <2>6, ClientIs DEF LastProps, g
<1> QED BY <1>2, <1>3, <1>4, <1>5, <1>6, ClientIs DEF PropsFollowed

\* Others request or release lines: the message about the followed line comes last.
LEMMA RequestsChange ==
  ASSUME IInv, ClientStays, Moving, UNCHANGED <<up, exported, edges, gone>>,
         reqs' \in [Ids -> SUBSET Lines], grants' \in [Ids -> Nat], OneChip', Losing,
         NEW t, NEW s \in Seq(Ids), t = Signals("requests", s),
         inbox' = inbox \o (t \o Changed(reqs'))
  PROVE  IInv'
<1>1. TypeOK /\ AtHome /\ (~up => exported = {}) /\ UNCHANGED heard
  BY ClientIs DEF IInv, CallsInv, AtHome
<1> DEFINE w == Changed(reqs')
           msgs == t \o w
<1>2. /\ t \in Seq(Messages) /\ w \in Seq(Messages)
      /\ \A k \in DOMAIN t : t[k].topic = "requests" /\ "requests" \in heard
      /\ \A k \in DOMAIN w : w[k].topic = "props" /\ "props" \in heard
  <2>1. /\ t \in Seq(Messages)
        /\ \A k \in DOMAIN t : t[k].topic = "requests" /\ "requests" \in heard
    BY MessageTypes, SignalsAre
  <2>2. /\ w \in Seq(Messages)
        /\ \A k \in DOMAIN w : w[k].topic = "props" /\ "props" \in heard
    BY <1>1, ChangedIs
  <2> QED BY <2>1, <2>2
<1>3. "requests" \notin heard => t = <<>>
  BY DEF Signals
<1> HIDE DEF w
<1>4. msgs \in Seq(Messages) /\ \A k \in DOMAIN msgs : msgs[k].topic \in heard \ {"edges"}
  BY <1>2, Joined
<1>5. "requests" \notin heard => msgs = w
  BY <1>2, <1>3
<1>6. inbox' = inbox \o msgs
  BY DEF w
<1> HIDE DEF msgs
<1>7. inbox' \in Seq(Messages) /\ TopicsAreHeard' /\ (Ended => Ended')
  BY <1>1, <1>4, <1>6, Posted DEF TopicsAreHeard
<1>8. TypeOK'
  BY <1>1, <1>7, OthersType DEF TypeOK
<1>9. CallsInv'
  BY <1>1, <1>7, <1>8, OthersCalls
<1>10. Watching'
  BY <1>7, WatchingKept
<1>11. EdgesFollowed'
  BY <1>4, <1>6, EdgesKept
<1>12. PropsFollowed'
  <2>1. ASSUME heard = {"name", "props"}, places # <<>>, up, places[1][1] \in exported
        PROVE  /\ up' /\ places[1][1] \in exported'
               /\ \/ /\ \A k \in DOMAIN msgs : msgs[k].topic # "props"
                     /\ HolderIn(reqs', places[1]) = HolderIn(reqs, places[1])
                  \/ /\ Len(msgs) = 1 /\ msgs[1].topic = "props"
                     /\ msgs[1].arg = HolderIn(reqs', places[1])
    <3>1. msgs = Changed(reqs')
      BY <1>5, <2>1 DEF w
    <3>2. /\ HolderIn(reqs', places[1]) = HolderIn(reqs, places[1]) => Changed(reqs') = <<>>
          /\ HolderIn(reqs', places[1]) # HolderIn(reqs, places[1])
              => /\ Len(Changed(reqs')) = 1 /\ Changed(reqs')[1].topic = "props"
                 /\ Changed(reqs')[1].arg = HolderIn(reqs', places[1])
      BY <1>1, <2>1, ChangedIs
    <3> QED BY <2>1, <3>1, <3>2
  <2> QED BY <1>4, <1>6, <2>1, PropsKept
<1> QED BY <1>8, <1>9, <1>10, <1>11, <1>12 DEF IInv, FollowInv

LEMMA OthersRequestStep ==
  ASSUME IInv, NEW lines, OthersRequest(lines)
  PROVE  IInv'
<1>1. /\ Moving /\ Grantable(lines) /\ Grant(lines) /\ ClientStays
      /\ UNCHANGED <<up, exported, edges, gone>>
      /\ inbox' = inbox \o (Signals("requests", <<Granted>>) \o Changed(reqs'))
  BY DEF OthersRequest, Post, Granted
<1>2. TypeOK /\ OneChip
  BY DEF IInv, CallsInv
<1>3. /\ Granted \in Ids /\ reqs[Granted] = Unused
      /\ reqs' = [reqs EXCEPT ![Granted] = lines]
      /\ grants' = [grants EXCEPT ![Granted] = @ + 1]
  BY <1>1, <1>2, GrantedIs
<1>4. reqs' \in [Ids -> SUBSET Lines] /\ grants' \in [Ids -> Nat] /\ OneChip'
  BY <1>1, <1>2, GrantedKeeps
<1>5. <<Granted>> \in Seq(Ids)
  BY <1>3
<1>6. Losing
  <2> SUFFICES ASSUME NEW r \in Ids
               PROVE  /\ grants[r] <= grants'[r]
                      /\ grants'[r] = grants[r] => reqs'[r] \subseteq reqs[r]
    BY DEF Losing
  <2>1. grants[r] \in Nat
    BY <1>2 DEF TypeOK
  <2>2. grants'[r] = IF r = Granted THEN grants[r] + 1 ELSE grants[r]
    BY <1>2, <1>3 DEF TypeOK
  <2>3. r # Granted => reqs'[r] = reqs[r]
    BY <1>2, <1>3 DEF TypeOK
  <2> QED BY <2>1, <2>2, <2>3
<1> QED BY <1>1, <1>4, <1>5, <1>6, RequestsChange

LEMMA OthersReleaseStep ==
  ASSUME IInv, NEW r \in Ids, OthersRelease(r)
  PROVE  IInv'
<1>1. /\ Moving /\ reqs' = [reqs EXCEPT ![r] = Unused] /\ ClientStays
      /\ UNCHANGED <<up, exported, grants, edges, gone>>
      /\ inbox' = inbox \o Changed(reqs')
  BY DEF OthersRelease, Post
<1>2. TypeOK /\ OneChip
  BY DEF IInv, CallsInv
<1>3. /\ reqs' \in [Ids -> SUBSET Lines] /\ grants' \in [Ids -> Nat]
      /\ \A i \in Ids : reqs'[i] \subseteq reqs[i]
  BY <1>1, <1>2 DEF TypeOK
<1>4. OneChip' /\ Losing
  <2>1. \A i \in Ids : grants'[i] = grants[i] /\ grants[i] \in Nat
    BY <1>1, <1>2 DEF TypeOK
  <2>2. \A i \in Ids : grants[i] <= grants'[i]
    BY <2>1
  <2> QED BY <1>2, <1>3, <2>2 DEF OneChip, Losing
<1>5. <<>> \in Seq(Ids) /\ Signals("requests", <<>>) = <<>>
  BY DEF Signals
<1>6. Changed(reqs') \in Seq(Messages)
  BY <1>2, ChangedIs
<1>7. Changed(reqs') = <<>> \o Changed(reqs')
  BY <1>6
<1> QED BY <1>1, <1>3, <1>4, <1>5, <1>7, RequestsChange

\* Others change nothing about the requests of the line that is followed.
LEMMA LinesStay ==
  ASSUME IInv, ClientStays, Moving, up' \in BOOLEAN, exported' \in SUBSET Chips,
         reqs' \in [Ids -> SUBSET Lines], \A r \in Ids : reqs'[r] \subseteq reqs[r],
         UNCHANGED grants, UNCHANGED edges, gone' \in BOOLEAN, gone => gone',
         (~up => exported = {})',
         NEW msgs \in Seq(Messages), inbox' = inbox \o msgs,
         \A k \in DOMAIN msgs : msgs[k].topic \in heard \ {"edges", "props"},
         heard = {"name"} /\ up => up' \/ Ended',
         heard = {"name", "props"} /\ places # <<>> /\ up /\ places[1][1] \in exported =>
           \/ gone' \/ Ended'
           \/ /\ up' /\ places[1][1] \in exported'
              /\ HolderIn(reqs', places[1]) = HolderIn(reqs, places[1])
  PROVE  IInv'
<1>1. TypeOK /\ AtHome /\ OneChip /\ UNCHANGED heard
  BY ClientIs DEF IInv, CallsInv
<1>2. inbox' \in Seq(Messages) /\ TopicsAreHeard' /\ (Ended => Ended')
  BY <1>1, Posted DEF TopicsAreHeard
<1>3. TypeOK'
  BY <1>1, <1>2, OthersType DEF TypeOK
<1>4. OneChip' /\ Losing
  <2>1. \A i \in Ids : grants'[i] = grants[i] /\ grants[i] \in Nat
    BY <1>1 DEF TypeOK
  <2>2. \A i \in Ids : grants[i] <= grants'[i]
    <3> TAKE i \in Ids
    <3>1. grants'[i] = grants[i] /\ grants[i] \in Nat
      BY <2>1
    <3> QED BY <3>1
  <2> QED BY <1>1, <2>2 DEF OneChip, Losing
<1>5. CallsInv'
  BY <1>2, <1>3, <1>4, OthersCalls
<1>6. Watching'
  BY <1>2, WatchingKept
<1>7. EdgesFollowed'
  BY EdgesKept
<1>8. PropsFollowed'
  BY PropsKept
<1> QED BY <1>3, <1>5, <1>6, <1>7, <1>8 DEF IInv, FollowInv

LEMMA ChipAddedStep ==
  ASSUME IInv, NEW c \in Chips, ChipAdded(c)
  PROVE  IInv'
<1> DEFINE msgs == Signals("chips", <<c>>)
<1>1. /\ Moving /\ up /\ exported' = exported \cup {c} /\ inbox' = inbox \o msgs
      /\ ClientStays /\ UNCHANGED <<up, reqs, grants, edges, gone>>
  BY DEF ChipAdded, Post
<1>2. TypeOK
  BY DEF IInv
<1>3. <<c>> \in Seq(Chips)
  OBVIOUS
<1>4. msgs \in Seq(Messages) /\ \A k \in DOMAIN msgs : msgs[k].topic = "chips" /\ "chips" \in heard
  BY <1>3, MessageTypes, SignalsAre
<1> HIDE DEF msgs
<1>5. /\ up' \in BOOLEAN /\ exported' \in SUBSET Chips /\ reqs' \in [Ids -> SUBSET Lines]
      /\ \A r \in Ids : reqs'[r] \subseteq reqs[r]
      /\ gone' \in BOOLEAN /\ (~up => exported = {})'
  BY <1>1, <1>2 DEF TypeOK
<1>6. \A k \in DOMAIN msgs : msgs[k].topic \in heard \ {"edges", "props"}
  BY <1>4
<1> QED BY <1>1, <1>4, <1>5, <1>6, LinesStay

LEMMA ChipRemovedStep ==
  ASSUME IInv, NEW c \in Chips, ChipRemoved(c)
  PROVE  IInv'
<1>1. /\ Moving /\ exported' = exported \ {c} /\ reqs' = Without(c)
      /\ gone' = (gone \/ (places # <<>> /\ places[1][1] = c))
      /\ ClientStays /\ UNCHANGED <<up, grants, inbox, edges>>
  BY DEF ChipRemoved
<1>2. TypeOK /\ (~up => exported = {})
  BY DEF IInv, CallsInv, AtHome
<1>3. /\ up' \in BOOLEAN /\ exported' \in SUBSET Chips /\ reqs' \in [Ids -> SUBSET Lines]
      /\ \A r \in Ids : reqs'[r] \subseteq reqs[r]
      /\ gone' \in BOOLEAN /\ (~up => exported = {})'
  BY <1>1, <1>2 DEF TypeOK, Without
<1> DEFINE msgs == <<>>
<1>4. msgs \in Seq(Messages) /\ inbox' = inbox \o msgs /\ DOMAIN msgs = {}
  BY <1>1, <1>2 DEF TypeOK
<1> HIDE DEF msgs
<1>5. ASSUME places # <<>>, places[1][1] \in exported
      PROVE  \/ gone'
             \/ /\ places[1][1] \in exported'
                /\ HolderIn(reqs', places[1]) = HolderIn(reqs, places[1])
  <2>1. CASE places[1][1] = c
    BY <1>1, <1>5, <2>1
  <2>2. CASE places[1][1] # c
    <3>1. \A r \in Ids : places[1] \in reqs'[r] <=> places[1] \in reqs[r]
      BY <1>1, <2>2 DEF Without
    <3>2. HolderIn(reqs', places[1]) = HolderIn(reqs, places[1])
      BY <3>1, SameHolder
    <3> QED BY <1>1, <1>5, <2>2, <3>2
  <2> QED BY <2>1, <2>2
<1>6. gone => gone'
  BY <1>1, <1>2 DEF TypeOK
<1>7. up' = up /\ UNCHANGED grants /\ UNCHANGED edges
  BY <1>1
<1>8. \A k \in DOMAIN msgs : msgs[k].topic \in heard \ {"edges", "props"}
  BY <1>4
<1>9. ClientStays /\ Moving
  BY <1>1
<1>10. heard = {"name"} /\ up => up' \/ Ended'
  BY <1>7
<1>11. heard = {"name", "props"} /\ places # <<>> /\ up /\ places[1][1] \in exported =>
           \/ gone' \/ Ended'
           \/ /\ up' /\ places[1][1] \in exported'
              /\ HolderIn(reqs', places[1]) = HolderIn(reqs, places[1])
  BY <1>5, <1>7
<1> QED BY <1>3, <1>4, <1>6, <1>7, <1>8, <1>9, <1>10, <1>11, LinesStay

LEMMA NameSignal ==
  ASSUME TypeOK, AtHome, UNCHANGED heard, NEW b \in BOOLEAN
  PROVE  /\ Signals("name", <<b>>) \in Seq(Messages)
         /\ \A k \in DOMAIN Signals("name", <<b>>) :
              Signals("name", <<b>>)[k].topic = "name" /\ "name" \in heard
         /\ "name" \in heard /\ inbox' = inbox \o Signals("name", <<b>>) /\ b = FALSE => Ended'
<1> DEFINE s == Signals("name", <<b>>)
<1>1. <<b>> \in Seq(BOOLEAN)
  OBVIOUS
<1>2. s \in Seq(Messages) /\ \A k \in DOMAIN s : s[k].topic = "name" /\ "name" \in heard
  BY <1>1, MessageTypes, SignalsAre
<1>3. ASSUME "name" \in heard, inbox' = inbox \o s, b = FALSE PROVE Ended'
  <2>1. s = [k \in DOMAIN <<b>> |-> Message("name", <<b>>[k])]
    BY <1>3 DEF Signals
  <2>2. DOMAIN <<b>> = 1 .. 1 /\ 1 \in DOMAIN <<b>> /\ <<b>>[1] = b
    OBVIOUS
  <2>3. 1 \in DOMAIN s /\ s[1] = Message("name", FALSE)
    BY <1>3, <2>1, <2>2
  <2> HIDE DEF s
  <2>4. Len(inbox) + 1 \in DOMAIN inbox' /\ inbox'[Len(inbox) + 1] = s[1]
    BY <1>2, <1>3, <2>3, Posted
  <2> QED BY <2>3, <2>4 DEF Ended
<1> QED BY <1>2, <1>3

LEMMA ManagerStopsStep ==
  ASSUME IInv, ManagerStops
  PROVE  IInv'
<1> DEFINE msgs == Signals("name", <<FALSE>>)
<1>1. /\ Moving /\ up' = FALSE /\ exported' = {} /\ reqs' = [r \in Ids |-> Unused]
      /\ inbox' = inbox \o msgs /\ ClientStays /\ UNCHANGED <<grants, edges, gone>>
  BY DEF ManagerStops, Post
<1>2. TypeOK /\ AtHome /\ UNCHANGED heard
  BY <1>1, ClientIs DEF IInv, CallsInv
<1>3. /\ msgs \in Seq(Messages)
      /\ \A k \in DOMAIN msgs : msgs[k].topic \in heard \ {"edges", "props"}
      /\ "name" \in heard => Ended'
  BY <1>1, <1>2, NameSignal
<1> HIDE DEF msgs
<1>4. /\ up' \in BOOLEAN /\ exported' \in SUBSET Chips /\ reqs' \in [Ids -> SUBSET Lines]
      /\ \A r \in Ids : reqs'[r] \subseteq reqs[r]
      /\ gone' \in BOOLEAN /\ (~up => exported = {})'
  BY <1>1, <1>2 DEF TypeOK
<1> QED BY <1>1, <1>3, <1>4, LinesStay

LEMMA ManagerStartsStep ==
  ASSUME IInv, NEW E \in SUBSET Chips, ManagerStarts(E)
  PROVE  IInv'
<1> DEFINE a == Signals("name", <<TRUE>>)
           q == SetToSeq(E)
           b == Signals("chips", q)
           msgs == a \o b
<1>1. /\ Moving /\ ~up /\ up' = TRUE /\ exported' = E /\ inbox' = inbox \o msgs
      /\ ClientStays /\ UNCHANGED <<reqs, grants, edges, gone>>
  BY DEF ManagerStarts, Post
<1>2. TypeOK /\ AtHome /\ UNCHANGED heard
  BY <1>1, ClientIs DEF IInv, CallsInv
<1>3. a \in Seq(Messages) /\ \A k \in DOMAIN a : a[k].topic \in heard \ {"edges", "props"}
  BY <1>2, NameSignal
<1>4. b \in Seq(Messages) /\ \A k \in DOMAIN b : b[k].topic \in heard \ {"edges", "props"}
  <2>1. q \in Seq(Chips)
    BY ListOfChips
  <2> HIDE DEF q
  <2>2. b \in Seq(Messages) /\ \A k \in DOMAIN b : b[k].topic = "chips" /\ "chips" \in heard
    BY <2>1, MessageTypes, SignalsAre
  <2> QED BY <2>2
<1> HIDE DEF a, b
<1>5. msgs \in Seq(Messages) /\ \A k \in DOMAIN msgs : msgs[k].topic \in heard \ {"edges", "props"}
  BY <1>3, <1>4, Joined
<1> HIDE DEF msgs
<1>6. /\ up' \in BOOLEAN /\ exported' \in SUBSET Chips /\ reqs' \in [Ids -> SUBSET Lines]
      /\ \A r \in Ids : reqs'[r] \subseteq reqs[r]
      /\ gone' \in BOOLEAN /\ (~up => exported = {})'
  BY <1>1, <1>2 DEF TypeOK
<1> QED BY <1>1, <1>5, <1>6, LinesStay

LEMMA EdgeHappensStep ==
  ASSUME IInv, EdgeHappens
  PROVE  IInv'
<1> DEFINE v == edges + 1
           msgs == Signals("edges", <<v>>)
           n == Len(inbox)
<1>1. /\ Moving /\ cmd = "monitor" /\ "edges" \in heard /\ edges' = v /\ inbox' = inbox \o msgs
      /\ ClientStays /\ UNCHANGED manager /\ UNCHANGED gone
  BY DEF EdgeHappens, Post
<1>2. /\ TypeOK /\ AtHome /\ OneChip /\ (~up => exported = {}) /\ UNCHANGED heard
      /\ edges \in Nat
  BY <1>1, ClientIs DEF IInv, CallsInv, AtHome, TypeOK
<1>3. v \in Nat
  BY <1>2
<1> HIDE DEF v
<1>4. <<v>> \in Seq(Nat) /\ DOMAIN <<v>> = 1 .. 1 /\ <<v>>[1] = v
  BY <1>3
<1>5. /\ msgs \in Seq(Messages)
      /\ \A k \in DOMAIN msgs : msgs[k].topic = "edges" /\ "edges" \in heard
  BY <1>4, MessageTypes, SignalsAre, ZenonT(60)
<1>6. DOMAIN msgs = 1 .. 1 /\ msgs[1].arg = v /\ msgs[1].topic = "edges"
  <2>1. msgs = [k \in DOMAIN <<v>> |-> Message("edges", <<v>>[k])]
    BY <1>1 DEF Signals
  <2> QED BY <1>4, <2>1 DEF Message
<1> HIDE DEF msgs
<1>7. /\ inbox' \in Seq(Messages) /\ n \in Nat /\ DOMAIN inbox = 1 .. n
      /\ Len(msgs) \in Nat /\ DOMAIN inbox' = 1 .. n + Len(msgs)
      /\ \A k \in DOMAIN inbox : k \in DOMAIN inbox' /\ inbox'[k] = inbox[k]
      /\ n + 1 \in DOMAIN inbox' /\ inbox'[n + 1] = msgs[1]
      /\ TopicsAreHeard'
  <2>1. \A k \in DOMAIN msgs : msgs[k].topic \in heard
    BY <1>5
  <2>2. 1 \in DOMAIN msgs
    BY <1>6
  <2> HIDE DEF n
  <2>3. TypeOK /\ AtHome /\ UNCHANGED heard /\ inbox' = inbox \o msgs /\ msgs \in Seq(Messages)
    BY <1>1, <1>2, <1>5
  <2> QED BY <2>1, <2>2, <2>3, Posted DEF TopicsAreHeard, n
<1>8. DOMAIN inbox' = 1 .. n + 1
  <2>1. Len(msgs) = 1
    BY <1>5, <1>6
  <2> QED BY <1>7, <2>1
<1> HIDE DEF n
<1>9. TypeOK'
  BY <1>1, <1>2, <1>3, <1>7, OthersType DEF TypeOK, manager
<1>10. CallsInv'
  <2>1. OneChip' /\ (~up => exported = {})'
    BY <1>1, <1>2 DEF OneChip, manager
  <2>2. Losing
    <3>1. \A i \in Ids : grants'[i] = grants[i] /\ grants[i] \in Nat /\ reqs'[i] = reqs[i]
      BY <1>1, <1>2 DEF TypeOK, manager
    <3>2. \A i \in Ids : grants[i] <= grants'[i]
      <4> TAKE i \in Ids
      <4>1. grants'[i] = grants[i] /\ grants[i] \in Nat
        BY <3>1
      <4> QED BY <4>1
    <3> QED BY <3>1, <3>2 DEF Losing
  <2>3. pc # "start"
    BY <1>1, <1>2 DEF AtHome
  <2> QED BY <1>1, <1>7, <1>9, <2>1, <2>2, <2>3, OthersCalls
<1>11. Watching' /\ PropsFollowed'
  <2>1. heard # {"name"}
    BY <1>1
  <2> QED BY <1>1, <2>1, ClientIs DEF IInv, FollowInv, Watching, PropsFollowed
<1>12. EdgesFollowed'
  <2>1. SUFFICES ASSUME pc \in {"proxy", "loop"}
                 PROVE  EdgesFollowed'
    BY <1>1, ClientIs DEF EdgesFollowed
  <2> DEFINE p == Printed
             arg(k) == inbox[k].arg
             argp(k) == inbox'[k].arg
  <2>2. /\ heard = {"name", "edges"}
        /\ p \in 0 .. edges
        /\ \A k \in EdgesAt : arg(k) \in p + 1 .. edges
        /\ \A j, k \in EdgesAt : j < k => arg(j) < arg(k)
        /\ \A x \in p + 1 .. edges : \E k \in EdgesAt : arg(k) = x
    BY <1>1, <2>1 DEF IInv, FollowInv, EdgesFollowed
  <2>3. Printed' = p /\ heard' = heard
    BY <1>1, ClientIs DEF Printed
  <2>4. /\ \A k \in EdgesAt : k \in EdgesAt' /\ argp(k) = arg(k) /\ k \in 1 .. n
        /\ n + 1 \in EdgesAt' /\ argp(n + 1) = v
        /\ \A k \in EdgesAt' : k \in 1 .. n + 1 /\ (k # n + 1 => k \in EdgesAt)
    <3>1. \A k \in EdgesAt : k \in EdgesAt' /\ argp(k) = arg(k) /\ k \in 1 .. n
      BY <1>7 DEF EdgesAt
    <3>2. n + 1 \in EdgesAt' /\ argp(n + 1) = v
      BY <1>6, <1>7 DEF EdgesAt
    <3>3. \A k \in 1 .. n + 1 : k # n + 1 => k \in 1 .. n
      BY <1>7
    <3>4. \A k \in EdgesAt' : k \in 1 .. n + 1 /\ (k # n + 1 => k \in EdgesAt)
      BY <1>7, <1>8, <3>3 DEF EdgesAt
    <3> QED BY <3>1, <3>2, <3>4
  <2> HIDE DEF p, arg, argp, v
  <2>5. v = edges + 1 /\ p \in Int /\ p + 1 <= v /\ p \in 0 .. v /\ v \in p + 1 .. v
    BY <1>2, <2>2 DEF v
  <2>6. \A k \in EdgesAt' : argp(k) \in p + 1 .. v
    <3> TAKE k \in EdgesAt'
    <3>1. CASE k = n + 1
      BY <2>4, <2>5, <3>1
    <3>2. CASE k # n + 1
      <4>1. argp(k) \in p + 1 .. edges
        BY <2>2, <2>4, <3>2
      <4> QED BY <1>2, <2>5, <4>1
    <3> QED BY <3>1, <3>2
  <2>7. \A j, k \in EdgesAt' : j < k => argp(j) < argp(k)
    <3> SUFFICES ASSUME NEW j \in EdgesAt', NEW k \in EdgesAt', j < k
                 PROVE  argp(j) < argp(k)
      OBVIOUS
    <3>1. j # n + 1
      BY <1>7, <2>4
    <3>2. j \in EdgesAt /\ argp(j) = arg(j) /\ arg(j) \in p + 1 .. edges
      BY <2>2, <2>4, <3>1
    <3>3. CASE k = n + 1
      BY <1>2, <2>4, <2>5, <3>2, <3>3
    <3>4. CASE k # n + 1
      <4>1. k \in EdgesAt /\ argp(k) = arg(k)
        BY <2>4, <3>4
      <4> QED BY <2>2, <3>2, <4>1
    <3> QED BY <3>3, <3>4
  <2>8. \A x \in p + 1 .. v : \E k \in EdgesAt' : argp(k) = x
    <3> SUFFICES ASSUME NEW x \in p + 1 .. v PROVE \E k \in EdgesAt' : argp(k) = x
      OBVIOUS
    <3>1. CASE x = v
      BY <2>4, <3>1
    <3>2. CASE x # v
      <4>1. x \in p + 1 .. edges
        BY <1>2, <2>5, <3>2
      <4>2. PICK k \in EdgesAt : arg(k) = x
        BY <2>2, <4>1
      <4> QED BY <2>4, <4>2
    <3> QED BY <3>1, <3>2
  <2>9. edges' = v
    BY <1>1
  <2> QED BY <2>2, <2>3, <2>5, <2>6, <2>7, <2>8, <2>9 DEF EdgesFollowed, argp
<1> QED BY <1>9, <1>10, <1>11, <1>12 DEF IInv, FollowInv

-----------------------------------------------------------------------------
(* Theorems *)

LEMMA InitInv == Init => IInv
<1> SUFFICES ASSUME Init PROVE IInv
  OBVIOUS
<1>1. TypeOK
  <2>1. /\ inbox \in Seq(Messages) /\ names \in Seq(DOMAIN AsOffset)
        /\ places \in Seq(Chips \X (Offsets \cup {0}))
        /\ hits \in Seq([asked : SUBSET (Chips \X (Offsets \cup {0})),
                         reached : SUBSET Lines, again : BOOLEAN])
    BY DEF Init
  <2>2. /\ up \in BOOLEAN /\ exported \in SUBSET Chips
        /\ reqs \in [Ids -> SUBSET Lines] /\ grants \in [Ids -> Nat]
    BY DEF Init
  <2>3. /\ cmd = "none" /\ pc = "start" /\ why = "running" /\ chip = NoChip /\ id = NoId
        /\ moves = 0 /\ heard = {} /\ timed = FALSE /\ asOf = 0 /\ shown = NoId
        /\ edges = 0 /\ gone = FALSE
    BY DEF Init
  <2>4. /\ cmd \in Commands /\ cmd # "detect" /\ pc \in Places /\ why \in Reasons
        /\ heard \in SUBSET Topics /\ timed \in BOOLEAN /\ gone \in BOOLEAN
    BY <2>3 DEF Commands, Places, Reasons
  <2>5. /\ chip \in Chips \cup {NoChip} /\ id \in Ids \cup {NoId} /\ moves \in Nat
        /\ asOf \in Nat /\ shown \in Int /\ edges \in Nat
    BY <2>3
  <2> QED BY <2>1, <2>2, <2>4, <2>5 DEF TypeOK
<1>2. CallsInv
  BY DEF Init, CallsInv, OneChip, Awaits, CallsForLine, CallsForRequest, WithRequest, AtHome,
         ReachesNamed
<1>3. FollowInv
  BY DEF Init, FollowInv, Watching, PropsFollowed, EdgesFollowed
<1> QED BY <1>1, <1>2, <1>3 DEF IInv

LEMMA OthersStep ==
  ASSUME IInv, Others
  PROVE  IInv'
BY OthersRequestStep, OthersReleaseStep, ChipAddedStep, ChipRemovedStep, ManagerStopsStep,
   ManagerStartsStep, EdgeHappensStep
DEF Others

LEMMA UnchangedStep ==
  ASSUME IInv, UNCHANGED vars
  PROVE  IInv'
<1>1. /\ UNCHANGED up /\ UNCHANGED exported /\ UNCHANGED reqs /\ UNCHANGED grants
      /\ UNCHANGED moves /\ UNCHANGED inbox /\ UNCHANGED heard /\ UNCHANGED cmd
      /\ UNCHANGED names /\ UNCHANGED timed /\ UNCHANGED chip /\ UNCHANGED id
      /\ UNCHANGED pc /\ UNCHANGED why /\ UNCHANGED places /\ UNCHANGED asOf
      /\ UNCHANGED hits /\ UNCHANGED shown /\ UNCHANGED edges /\ UNCHANGED gone
  BY DEF vars, manager, given, follow
<1>2. TypeOK'
  BY <1>1 DEF IInv, TypeOK
<1>3. OneChip' /\ Awaits' /\ CallsForLine' /\ CallsForRequest' /\ AtHome' /\ ReachesNamed'
  BY <1>1, ZenonT(60) DEF IInv, CallsInv, OneChip, Awaits, CallsForLine, CallsForRequest, WithRequest,
              ReadOn, AtHome, ReachesNamed
<1>4. Watching' /\ PropsFollowed' /\ EdgesFollowed'
  BY <1>1 DEF IInv, FollowInv, Watching, Ended, PropsFollowed, LastProps, PropsAt,
              EdgesFollowed, EdgesAt, Printed
<1> QED BY <1>2, <1>3, <1>4 DEF IInv, CallsInv, FollowInv

\* Every step of the client and of the others keeps the invariant.
LEMMA StepInv == IInv /\ [Next]_vars => IInv'
BY StartsStep, StepsStep, OthersStep, UnchangedStep, ExitSteps DEF Next

\* In every run of gpiocli, whatever the manager and other clients do meanwhile, what it
\* knows of the request it calls, and what it has printed and is still to print of the line it
\* follows, fit the manager's state.
THEOREM Invariance == Spec => []IInv
<1>1. Init => IInv
  BY InitInv
<1>2. IInv /\ [Next]_vars => IInv'
  BY StepInv
<1> QED BY <1>1, <1>2, PTL DEF Spec

\* The state of the client and of the manager has its type.
THEOREM TypeCorrect == Spec => []TypeOK
<1>1. IInv => TypeOK
  BY DEF IInv
<1> QED BY <1>1, Invariance, PTL

\* A call acts on the lines that were named and on no other, unless the number of the
\* request was given again since the client read it, for any number of requests and
\* changes by others (set.c, get.c, reconfigure.c).
THEOREM CallsReachNamed == Spec => []ReachesNamed
<1>1. IInv => ReachesNamed
  BY DEF IInv, CallsInv
<1> QED BY <1>1, Invariance, PTL

\* When all signals are handled, notify has printed the last request of its line and
\* monitor as many edges as there were, for any number of changes and of edges between
\* the subscription and the main loop (notify.c, monitor.c).
THEOREM FollowsEverything == Spec => []FollowsAll
<1>1. IInv => FollowsAll
  <2> SUFFICES ASSUME IInv, pc = "loop", ~gone, inbox = <<>>
               PROVE  shown = IF cmd = "notify" THEN HolderIn(reqs, places[1]) ELSE edges
    BY DEF FollowsAll
  <2>1. ~Ended /\ PropsAt = {} /\ EdgesAt = {}
    BY DEF Ended, PropsAt, EdgesAt
  <2>2. cmd \in {"notify", "monitor"} /\ edges \in Nat /\ shown \in Int
    BY DEF IInv, CallsInv, AtHome, TypeOK
  <2>3. CASE cmd = "notify"
    BY <2>1, <2>3 DEF IInv, FollowInv, PropsFollowed, LastProps
  <2>4. CASE cmd = "monitor"
    <3>1. /\ shown \in 0 .. edges
          /\ \A v \in shown + 1 .. edges : \E k \in EdgesAt : inbox[k].arg = v
      BY <2>4 DEF IInv, FollowInv, EdgesFollowed, Printed
    <3>2. edges \notin shown + 1 .. edges
      BY <2>1, <3>1
    <3> QED BY <2>2, <2>4, <3>1, <3>2
  <2> QED BY <2>2, <2>3, <2>4
<1> QED BY <1>1, Invariance, PTL
=================================================================================
