--------------------------- MODULE LineConfigProofs ---------------------------
(***************************************************************************)
(* Proofs about LineConfig, for every table size, every set of offsets,    *)
(* settings and values, and every length of the calls' arrays.             *)
(***************************************************************************)
EXTENDS LineConfig, FiniteSetTheorems, SequenceTheorems, WellFoundedInduction, TLAPS

USE BoundsAssumption, ValueAssumption, SettingsAssumption
    DEF BoundsAssumption, ValueAssumption, SettingsAssumption, Null, NodeId

\* A call's array of offsets is a sequence of offsets.
LEMMA SeqOfIsSeq ==
  ASSUME NEW S, NEW n \in Nat, NEW s \in SeqOf(S, n)
  PROVE  s \in Seq(S)
BY DEF SeqOf

\* A non-empty set of nodes has a newest one.
LEMMA NewestNode ==
  ASSUME NEW T \in SUBSET NodeId, T # {}
  PROVE  \E x \in T : \A y \in T : y <= x
<1> DEFINE D == {MaxNodes - t : t \in T}
           R == OpToRel(<, Nat)
<1>1. D \subseteq Nat /\ D # {}
  <2>1. \A t \in T : t \in Int /\ t <= MaxNodes
    OBVIOUS
  <2>2. \A t \in T : MaxNodes - t \in Nat
    BY <2>1
  <2>3. PICK t \in T : TRUE
    OBVIOUS
  <2>4. MaxNodes - t \in D
    OBVIOUS
  <2>5. D \subseteq Nat
    BY <2>2
  <2> QED BY <2>4, <2>5
<1>2. IsWellFoundedOn(R, Nat)
  BY NatLessThanWellFounded
<1>3. \E x \in D : \A y \in D : ~(<<y, x>> \in R)
  <2> HIDE DEF D, R
  <2> QED BY <1>1, <1>2, WFMin
<1>4. PICK x \in D : \A y \in D : ~(<<y, x>> \in R)
  BY <1>3
<1>5. \A y \in D : ~(y < x)
  BY <1>1, <1>4 DEF OpToRel
<1>6. PICK t \in T : x = MaxNodes - t
  OBVIOUS
<1>7. \A y \in T : y <= t
  <2> TAKE y \in T
  <2>1. MaxNodes - y \in D
    OBVIOUS
  <2>2. ~(MaxNodes - y < MaxNodes - t)
    BY <2>1, <1>5, <1>6
  <2>3. y \in Int /\ t \in Int /\ MaxNodes \in Int
    OBVIOUS
  <2> HIDE DEF D, R
  <2> QED BY <2>2, <2>3
<1> QED BY <1>7

\* find_config returns the entry of an offset that has one.
LEMMA FindConfigFound ==
  ASSUME TypeOK, NEW o \in Configured
  PROVE  FindConfig(o) \in DOMAIN slots /\ slots[FindConfig(o)].offset = o
BY DEF FindConfig, Configured

-------------------------------------------------------------------------------
(***************************************************************************)
(* From the links to the walk: the list reaches exactly the live nodes.    *)
(***************************************************************************)
\* A list whose links agree and lead to ever older nodes is reached whole,
\* so that free_refs frees every node once.
LEMMA LinkedReaches ==
  ASSUME TypeOK, Linked
  PROVE  NoLeak
<1>1. Reachable \subseteq live
  <2>1. live \in SUBSET NodeId
    BY DEF TypeOK
  <2>2. head \in live \cup {Null} /\ \A m \in live : next[m] \in live \cup {Null}
    BY DEF Linked
  <2> QED BY <2>1, <2>2 DEF Reachable
<1>2. ASSUME NEW n \in live, NEW S \in SUBSET NodeId,
             head \in S \cup {Null}, \A m \in S : next[m] \in S \cup {Null}
      PROVE  n \in S
  <2> DEFINE T == live \ S
  <2>1. SUFFICES ASSUME n \notin S PROVE FALSE
    OBVIOUS
  <2>2. T \in SUBSET NodeId /\ T # {}
    BY <2>1 DEF TypeOK
  <2>3. PICK x \in T : \A y \in T : y <= x
    <3> HIDE DEF T
    <3> QED BY <2>2, NewestNode
  <2>4. x \in live /\ x \in NodeId /\ live \subseteq NodeId
    BY <2>2
  <2>5. x # head
    BY <1>2, <2>3, <2>4
  <2>6. prev[x] \in live /\ next[prev[x]] = x
    BY <2>4, <2>5 DEF Linked
  <2>7. x < prev[x] /\ prev[x] \in NodeId
    <3>1. prev[x] \in NodeId /\ x \in NodeId
      BY <2>4, <2>6
    <3>2. next[prev[x]] # Null => next[prev[x]] < prev[x]
      BY <2>6 DEF Linked
    <3> QED BY <3>1, <3>2, <2>6
  <2>8. prev[x] \in S
    <3>1. prev[x] \in T => prev[x] <= x
      BY <2>3
    <3>2. x \in Int /\ prev[x] \in Int
      BY <2>4, <2>7
    <3> QED BY <3>1, <3>2, <2>6, <2>7
  <2>9. x \in S
    <3>1. next[prev[x]] \in S \cup {Null}
      BY <1>2, <2>8
    <3> QED BY <3>1, <2>4, <2>6
  <2> QED BY <2>3, <2>9
<1>3. live \subseteq Reachable
  BY <1>2 DEF Reachable, TypeOK
<1> QED BY <1>1, <1>3 DEF NoLeak

-------------------------------------------------------------------------------
\* A new line-config object, gpiod_line_config_new, satisfies the invariant.
LEMMA InitTable == Init => TableInv
<1> SUFFICES ASSUME Init PROVE TableInv
  OBVIOUS
<1> USE DEF Init
<1>1. TypeOK
  BY DEF TypeOK, Blank, NoneYet
<1> QED BY <1>1 DEF TableInv, InCall, Linked, Held, RefcntExact, NoDangling, TableSound

\* Every part of the invariant but the types is about the table, the heap
\* and the call in progress.
LEMMA SameTable ==
  ASSUME TableInv, UNCHANGED <<slots, heap, call>>
  PROVE  InCall' /\ Linked' /\ Held' /\ RefcntExact' /\ NoDangling' /\ TableSound'
<1> USE DEF TableInv, heap, call
<1>1. InCall'      BY DEF InCall
<1>2. Linked'      BY DEF Linked
<1>3. Held'        BY DEF Held
<1>4. RefcntExact' BY DEF RefcntExact, SlotsOf
<1>5. NoDangling'  BY DEF NoDangling
<1>6. TableSound'  BY DEF TableSound
<1> QED BY <1>1, <1>2, <1>3, <1>4, <1>5, <1>6

\* The calls that are refused touch nothing.
LEMMA RefuseInv ==
  ASSUME TableInv, NEW e \in {"EINVAL", "E2BIG", "ENOMEM"}, Refuse(e)
  PROVE  TableInv'
<1>1. TypeOK'
  BY DEF TableInv, Refuse, TypeOK, heap, call
<1> QED BY <1>1, SameTable DEF TableInv, Refuse

\* gpiod_line_config_set_output_values replaces the output values only.
LEMMA SetOutputsInv ==
  ASSUME TableInv, NEW vals \in ValueArgs, SetOutputValues(vals)
  PROVE  TableInv'
<1>1. vals \in Seq(Values \cup {BadValue})
  BY SeqOfIsSeq DEF ValueArgs
<1>2. StoredValues(vals) \in Seq(Values)
  <2>1. CASE BadValue \in ToSet(vals)
    BY <2>1 DEF StoredValues
  <2>2. CASE BadValue \notin ToSet(vals)
    BY <1>1, <2>2 DEF StoredValues, ToSet
  <2> QED BY <2>1, <2>2
<1>3. TypeOK'
  BY <1>2 DEF SetOutputValues, TableInv, TypeOK, heap, call
<1> QED BY <1>3, SameTable DEF TableInv, SetOutputValues

\* gpiod_line_config_reset leaves an empty table, and by LinkedReaches an
\* empty heap.
LEMMA ResetInv ==
  ASSUME TableInv, Reset
  PROVE  TableInv'
<1>1. live' = {}
  BY LinkedReaches DEF TableInv, NoLeak, Reset
<1>2. NoneYet \in Settings
  BY DEF NoneYet
<1>3. TypeOK'
  <2>1. <<>> \in Seq([offset : Offsets, node : NodeId]) /\ <<>> \in Seq(Values)
    OBVIOUS
  <2>2. /\ Blank(NoneYet) \in [NodeId -> Settings]
        /\ Blank(0) \in [NodeId -> Int]
        /\ Blank(Null) \in [NodeId -> NodeId \cup {Null}]
    BY <1>2 DEF Blank
  <2>3. 0 \in 0..MaxNodes
    OBVIOUS
  <2> QED BY <1>1, <2>1, <2>2, <2>3 DEF Reset, TableInv, TypeOK, call
<1> QED
  BY <1>1, <1>3 DEF TableInv, Reset, Idle, InCall, Linked, Held, RefcntExact, NoDangling,
                    TableSound, call

\* When the call that adds settings returns, its node has a reference.
LEMMA AddReturnInv ==
  ASSUME TableInv, AddReturn
  PROVE  TableInv'
<1> USE DEF AddReturn, Idle, heap
<1>1. TypeOK'
  BY DEF TableInv, TypeOK
<1>2. refcnt[cur] > 0
  BY DEF TableInv, TypeOK, InCall
<1>3. Held'
  BY <1>2 DEF TableInv, Held
<1>4. InCall'
  BY DEF InCall
<1>5. Linked'
  BY DEF TableInv, Linked
<1>6. RefcntExact' BY DEF TableInv, RefcntExact, SlotsOf
<1>7. NoDangling'  BY DEF TableInv, NoDangling
<1>8. TableSound'  BY DEF TableInv, TableSound
<1> QED BY <1>1, <1>3, <1>4, <1>5, <1>6, <1>7, <1>8 DEF TableInv

\* The start of the call that adds settings links a node with no reference
\* at the head of the list.
LEMMA AddBeginInv ==
  ASSUME TableInv, NEW offs \in OffsetArgs, NEW s \in Settings, AddBegin(offs, s)
  PROVE  TableInv'
<1> DEFINE n == serial + 1
<1>1. offs \in Seq(Offsets) /\ Len(offs) \in Nat
  BY SeqOfIsSeq DEF OffsetArgs
<1>2. n \in NodeId /\ n \notin live /\ n # head /\ n # Null
  BY DEF AddBegin, TableInv, TypeOK, Linked
<1>3. live \subseteq NodeId /\ head \in live \cup {Null} /\ Len(slots) \in Nat
  BY DEF TableInv, TypeOK, Linked
<1>4. \A m \in live : m # n
  BY <1>2
<1>5. TypeOK'
  <2>1. PushPrev(n) \in [NodeId -> NodeId \cup {Null}]
    BY <1>2 DEF TableInv, TypeOK, PushPrev
  <2>2. /\ [settings EXCEPT ![n] = s] \in [NodeId -> Settings]
        /\ [refcnt EXCEPT ![n] = 0] \in [NodeId -> Int]
        /\ [next EXCEPT ![n] = head] \in [NodeId -> NodeId \cup {Null}]
    BY <1>2 DEF TableInv, TypeOK
  <2>3. n \in 0..MaxNodes /\ live \cup {n} \in SUBSET NodeId
    <3>1. n \in 0..MaxNodes
      BY <1>2
    <3>2. live \cup {n} \in SUBSET NodeId
      <4> HIDE DEF n
      <4> QED BY <1>2, <1>3
    <3> QED BY <3>1, <3>2
  <2>4. /\ UNCHANGED <<slots, outputs>> /\ live' = live \cup {n} /\ ret' = "ok"
        /\ settings' = [settings EXCEPT ![n] = s]
        /\ refcnt' = [refcnt EXCEPT ![n] = 0]
        /\ next' = [next EXCEPT ![n] = head] /\ prev' = PushPrev(n)
        /\ head' = n /\ serial' = n /\ cur' = n /\ args' = offs /\ pos' = 1
    BY DEF AddBegin
  <2> QED BY <1>1, <1>2, <2>1, <2>2, <2>3, <2>4 DEF TableInv, TypeOK
<1>6. InCall'
  BY <1>1, <1>2, <1>3 DEF AddBegin, InCall, Fits
<1>7. Linked'
  <2>1. head' = serial' /\ head' \in live' \cup {Null}
    BY DEF AddBegin
  <2>2. ASSUME NEW m \in live'
        PROVE  /\ m <= serial'
               /\ next'[m] # Null => /\ next'[m] \in live' /\ next'[m] < m
                                     /\ prev'[next'[m]] = m
               /\ m = head' => prev'[m] = Null
               /\ m # head' => prev'[m] \in live' /\ next'[prev'[m]] = m
    <3>1. next' = [next EXCEPT ![n] = head] /\ prev' = PushPrev(n)
          /\ live' = live \cup {n} /\ head' = n /\ serial' = n
      BY DEF AddBegin
    <3>2. next \in [NodeId -> NodeId \cup {Null}] /\ prev \in [NodeId -> NodeId \cup {Null}]
      BY DEF TableInv, TypeOK
    <3>3. CASE m = n
      <4>1. next'[m] = head /\ prev'[m] = Null
        BY <1>2, <1>3, <3>1, <3>2, <3>3 DEF PushPrev
      <4>2. head # Null => head \in live /\ head <= serial /\ prev'[head] = n
        BY <1>2, <1>3, <3>1, <3>2 DEF PushPrev, TableInv, Linked
      <4>3. serial \in Nat /\ head \in Nat
        BY <1>3 DEF TableInv, TypeOK
      <4> QED BY <3>1, <3>3, <4>1, <4>2, <4>3
    <3>4. CASE m # n
      <4>1. m \in live /\ m \in NodeId /\ next'[m] = next[m]
        BY <1>2, <1>3, <3>1, <3>2, <3>4
      <4>2. /\ m <= serial
            /\ next[m] # Null => next[m] \in live /\ next[m] < m /\ prev[next[m]] = m
            /\ m # head => prev[m] \in live /\ next[prev[m]] = m
        BY <4>1 DEF TableInv, Linked
      <4>3. next[m] # Null => prev'[next[m]] = m
        <5> SUFFICES ASSUME next[m] # Null PROVE prev'[next[m]] = m
          OBVIOUS
        <5>1. next[m] # head
          BY <4>2, <1>3, <4>1 DEF TableInv, TypeOK, Linked
        <5> QED BY <4>2, <5>1, <1>2, <1>3, <3>1, <3>2 DEF PushPrev
      <4>4. m # head => prev'[m] = prev[m]
        BY <1>2, <1>3, <3>1, <3>2, <3>4, <4>1 DEF PushPrev
      <4>5. m = head => prev'[m] = n /\ next'[n] = m
        BY <1>2, <1>3, <3>1, <3>2, <3>4, <4>1 DEF PushPrev
      <4>6. m # head => next'[prev[m]] = m
        BY <1>2, <1>3, <3>1, <3>2, <4>2
      <4>7. m <= serial'
        BY <3>1, <4>1, <4>2 DEF TableInv, TypeOK
      <4> QED BY <3>1, <3>4, <4>1, <4>2, <4>3, <4>4, <4>5, <4>6, <4>7
    <3> QED BY <3>3, <3>4
  <2> QED BY <2>1, <2>2 DEF Linked
<1>8. Held'
  BY <1>2, <1>3 DEF AddBegin, TableInv, TypeOK, Held, Idle
<1>9. RefcntExact'
  <2>1. SlotsOf(n) = {}
    BY <1>2, <1>3 DEF TableInv, NoDangling, SlotsOf
  <2>2. \A m : SlotsOf(m)' = SlotsOf(m)
    BY DEF AddBegin, SlotsOf
  <2>3. Cardinality({}) = 0
    BY FS_EmptySet
  <2>4. ASSUME NEW m \in live' PROVE refcnt'[m] = Cardinality(SlotsOf(m)')
    <3>1. CASE m = n
      BY <1>2, <2>1, <2>2, <2>3, <3>1 DEF AddBegin, TableInv, TypeOK
    <3>2. CASE m # n
      BY <1>2, <1>3, <2>2, <3>2 DEF AddBegin, TableInv, TypeOK, RefcntExact
    <3> QED BY <3>1, <3>2
  <2> QED BY <2>4 DEF RefcntExact
<1>10. NoDangling' /\ TableSound'
  BY DEF AddBegin, TableInv, NoDangling, TableSound
<1> QED BY <1>5, <1>6, <1>7, <1>8, <1>9, <1>10 DEF TableInv

\* A new entry at the table's end adds one to the count of its node.
LEMMA AddNewOffsetInv ==
  ASSUME TableInv, AddNewOffset
  PROVE  TableInv'
<1> DEFINE k == Len(slots) + 1
           e == [offset |-> args[pos], node |-> cur]
<1>1. /\ cur \in NodeId /\ cur = head /\ cur \in live /\ pos \in 1..Len(args)
      /\ args[pos] \in Offsets /\ args[pos] \notin Configured
      /\ Len(slots) \in Nat /\ Len(args) \in Nat
  BY SMTT(30) DEF AddNewOffset, InLoop, TableInv, TypeOK, InCall, Linked
<1>2. /\ slots' = Append(slots, e)
      /\ refcnt' = [refcnt EXCEPT ![cur] = @ + 1]
      /\ pos' = pos + 1
      /\ UNCHANGED <<outputs, live, settings, prev, next, head, serial, cur, args, ret>>
  BY DEF AddNewOffset
<1>3. e \in [offset : Offsets, node : NodeId]
  BY <1>1
<1>4. slots \in Seq([offset : Offsets, node : NodeId]) /\ refcnt \in [NodeId -> Int]
  BY DEF TableInv, TypeOK
<1>5. /\ slots' \in Seq([offset : Offsets, node : NodeId])
      /\ Len(slots') = k /\ DOMAIN slots' = DOMAIN slots \cup {k}
      /\ k \notin DOMAIN slots
      /\ slots'[k] = e /\ \A i \in DOMAIN slots : slots'[i] = slots[i]
  BY <1>2, <1>3, <1>4, SMTT(30)
<1>6. TypeOK'
  BY <1>1, <1>2, <1>4, <1>5, SMTT(30) DEF TableInv, TypeOK
<1>7. \A n \in live : refcnt[n] = Cardinality(SlotsOf(n)) /\ IsFiniteSet(SlotsOf(n))
  <2>1. IsFiniteSet(1..Len(slots))
    BY <1>1, FS_Interval
  <2>2. \A n : SlotsOf(n) \in SUBSET (1..Len(slots))
    BY <1>4 DEF SlotsOf
  <2> QED BY <2>1, <2>2, FS_Subset DEF TableInv, RefcntExact
<1>8. /\ SlotsOf(cur)' = SlotsOf(cur) \cup {k} /\ k \notin SlotsOf(cur)
      /\ \A n : n # cur => SlotsOf(n)' = SlotsOf(n)
  <2> HIDE DEF k
  <2>1. slots'[k].node = cur /\ cur' = cur
    BY <1>2, <1>5
  <2> HIDE DEF e
  <2> QED BY <1>5, <2>1 DEF SlotsOf
<1>9. refcnt'[cur] = refcnt[cur] + 1 /\ \A n \in NodeId : n # cur => refcnt'[n] = refcnt[n]
  BY <1>1, <1>2, <1>4
<1>10. RefcntExact'
  <2>1. Cardinality(SlotsOf(cur) \cup {k}) = Cardinality(SlotsOf(cur)) + 1
    BY <1>1, <1>7, <1>8, FS_AddElement
  <2>2. live' = live /\ live \subseteq NodeId /\ cur' = cur
    BY <1>2 DEF TableInv, TypeOK
  <2>3. ASSUME NEW n \in live PROVE refcnt'[n] = Cardinality(SlotsOf(n)')
    BY <1>1, <1>7, <1>8, <1>9, <2>1, <2>2
  <2> QED BY <2>2, <2>3 DEF RefcntExact
<1>11. refcnt[cur] >= 0
  BY <1>1, <1>7, FS_CardinalityType
<1>12. InCall'
  <2>1. cur # Null /\ args # <<>> /\ Len(slots) + Len(args) - (pos - 1) <= LinesMax
    BY <1>1 DEF TableInv, InCall
  <2>2. pos' \in 1..(Len(args) + 1) /\ Len(slots') + Len(args) - (pos' - 1) <= LinesMax
    BY <1>1, <1>2, <1>5, <2>1
  <2>3. refcnt'[cur] > 0
    BY <1>1, <1>4, <1>9, <1>11
  <2> HIDE DEF k, e
  <2> QED BY <1>1, <1>2, <2>1, <2>2, <2>3 DEF InCall
<1>13. Linked'
  BY <1>2 DEF TableInv, Linked
<1>14. Held'
  BY <1>1, <1>2, <1>9 DEF TableInv, TypeOK, Held
<1>15. NoDangling'
  BY <1>1, <1>2, <1>5 DEF TableInv, NoDangling
<1>16. TableSound'
  <2>1. Len(slots') <= LinesMax
    BY <1>1, <1>5 DEF TableInv, InCall
  <2>2. ASSUME NEW i \in DOMAIN slots', NEW j \in DOMAIN slots',
               slots'[i].offset = slots'[j].offset
        PROVE  i = j
    <3>1. \A h \in DOMAIN slots : slots[h].offset # e.offset
      BY <1>1 DEF Configured
    <3> QED BY <1>5, <2>2, <3>1 DEF TableInv, TableSound
  <2> QED BY <2>1, <2>2 DEF TableSound
<1> QED BY <1>6, <1>10, <1>12, <1>13, <1>14, <1>15, <1>16 DEF TableInv

(***************************************************************************)
(* An offset that is configured moves from its old node to the new one.    *)
(* The facts that both outcomes for the old node share come first.         *)
(***************************************************************************)
Move ==
  LET i == FindConfig(args[pos]) IN
  /\ InLoop /\ args[pos] \in Configured
  /\ refcnt' = Moved(i)
  /\ slots' = [slots EXCEPT ![i].node = cur]
  /\ pos' = pos + 1
  /\ UNCHANGED <<outputs, settings, head, serial, cur, args, ret>>

\* In the loop of an add, the entry that moves leaves a live node with exact
\* counts on both sides, and the table stays well formed.
LEMMA MoveFacts ==
  ASSUME TableInv, Move, NEW i \in 1..Len(slots), i = FindConfig(args[pos])
  PROVE  /\ slots[i].node \in live
         /\ cur \in live /\ cur = head /\ cur # Null /\ refcnt'[cur] > 0
         /\ slots' \in Seq([offset : Offsets, node : NodeId])
         /\ DOMAIN slots' = DOMAIN slots /\ Len(slots') = Len(slots)
         /\ \A j \in DOMAIN slots :
              /\ slots'[j].offset = slots[j].offset
              /\ slots'[j].node = IF j = i THEN cur ELSE slots[j].node
         /\ refcnt' \in [NodeId -> Int]
         /\ \A n \in live : refcnt'[n] = Cardinality(SlotsOf(n)') /\ refcnt'[n] \in Nat
         /\ \A n \in NodeId : n # cur /\ n # slots[i].node => refcnt'[n] = refcnt[n]
         /\ InCall' /\ TableSound'
<1> DEFINE old == slots[i].node
           Slot == [offset : Offsets, node : NodeId]
           e == [slots[i] EXCEPT !.node = cur]
<1>1. slots \in Seq(Slot) /\ args \in Seq(Offsets) /\ refcnt \in [NodeId -> Int]
      /\ live \subseteq NodeId
  BY DEF TableInv, TypeOK
<1>2. Len(slots) \in Nat /\ Len(args) \in Nat /\ DOMAIN slots = 1..Len(slots)
  BY <1>1
<1>3. /\ cur \in NodeId /\ cur = head /\ cur \in live /\ cur # Null
      /\ pos \in 1..Len(args) /\ args # <<>>
      /\ Len(slots) + Len(args) - (pos - 1) <= LinesMax
  BY <1>2 DEF Move, InLoop, TableInv, TypeOK, InCall, Linked
<1>4. old \in live /\ old \in NodeId /\ slots[i] \in Slot
  BY <1>1, <1>2, ElementOfSeq DEF TableInv, NoDangling
<1>5. /\ slots' = [slots EXCEPT ![i].node = cur]
      /\ refcnt' = [[refcnt EXCEPT ![cur] = @ + 1] EXCEPT ![old] = @ - 1]
      /\ pos' = pos + 1 /\ UNCHANGED <<head, cur, args>>
  BY DEF Move, Moved
<1>6. /\ slots' \in Seq(Slot)
      /\ DOMAIN slots' = 1..Len(slots) /\ Len(slots') = Len(slots)
      /\ \A j \in 1..Len(slots) : /\ slots'[j].offset = slots[j].offset
                                  /\ slots'[j].node = IF j = i THEN cur ELSE slots[j].node
  <2>1. slots' = [slots EXCEPT ![i] = e]
    BY <1>5
  <2>2. e \in Slot /\ e.offset = slots[i].offset /\ e.node = cur
    BY <1>3, <1>4
  <2> HIDE DEF e, Slot
  <2>3. /\ slots' \in Seq(Slot) /\ Len(slots') = Len(slots)
        /\ \A j \in 1..Len(slots) : slots'[j] = IF j = i THEN e ELSE slots[j]
    BY <1>1, <2>1, <2>2, ExceptSeq
  <2>4. DOMAIN slots' = 1..Len(slots')
    BY <2>3
  <2> QED BY <2>2, <2>3, <2>4
<1>7. /\ refcnt' \in [NodeId -> Int]
      /\ \A n \in NodeId : n # cur /\ n # old => refcnt'[n] = refcnt[n]
      /\ old = cur => refcnt'[cur] = refcnt[cur]
      /\ old # cur => refcnt'[cur] = refcnt[cur] + 1 /\ refcnt'[old] = refcnt[old] - 1
  <2>1. cur \in NodeId /\ old \in NodeId
    BY <1>3, <1>4
  <2>2. refcnt' = [[refcnt EXCEPT ![cur] = @ + 1] EXCEPT ![old] = @ - 1]
    BY <1>5
  <2> HIDE DEF old
  <2>3. refcnt[cur] \in Int /\ refcnt[old] \in Int
    BY <1>1, <2>1
  <2> DEFINE f == [refcnt EXCEPT ![cur] = @ + 1]
  <2>4. /\ f \in [NodeId -> Int] /\ f[cur] = refcnt[cur] + 1
        /\ \A n \in NodeId : n # cur => f[n] = refcnt[n]
    BY <1>1, <2>1, <2>3
  <2>5. refcnt' = [f EXCEPT ![old] = f[old] - 1]
    BY <2>2
  <2> HIDE DEF f
  <2>6. /\ refcnt' \in [NodeId -> Int] /\ refcnt'[old] = f[old] - 1
        /\ \A n \in NodeId : n # old => refcnt'[n] = f[n]
    <3>1. f[old] \in Int
      BY <2>1, <2>4
    <3> QED BY <2>1, <2>4, <2>5, <3>1
  <2>7. old = cur => refcnt'[cur] = refcnt[cur]
    BY <2>1, <2>3, <2>4, <2>6
  <2>8. old # cur => refcnt'[cur] = refcnt[cur] + 1 /\ refcnt'[old] = refcnt[old] - 1
    BY <2>1, <2>3, <2>4, <2>6
  <2> QED BY <2>4, <2>6, <2>7, <2>8
<1>8. \A n \in live : /\ refcnt[n] = Cardinality(SlotsOf(n)) /\ IsFiniteSet(SlotsOf(n))
                      /\ refcnt[n] \in Nat
  <2>1. IsFiniteSet(1..Len(slots))
    BY <1>2, FS_Interval
  <2>2. \A n : SlotsOf(n) \in SUBSET (1..Len(slots))
    BY <1>2 DEF SlotsOf
  <2>3. \A n : IsFiniteSet(SlotsOf(n))
    BY <2>1, <2>2, FS_Subset
  <2> QED BY <2>3, FS_CardinalityType DEF TableInv, RefcntExact
<1>9. i \in SlotsOf(old)
  BY <1>2 DEF SlotsOf
<1>10. \A n : /\ SlotsOf(n) = {j \in 1..Len(slots) : slots[j].node = n}
            /\ SlotsOf(n)' = {j \in 1..Len(slots) : slots'[j].node = n}
  BY <1>2, <1>6 DEF SlotsOf
<1>11. ASSUME old = cur
       PROVE  refcnt'[cur] > 0 /\ \A n \in live : refcnt'[n] = Cardinality(SlotsOf(n)')
  <2>1. \A j \in 1..Len(slots) : slots'[j].node = slots[j].node
    BY <1>6, <1>11
  <2>2. \A n : SlotsOf(n)' = SlotsOf(n)
    BY <1>10, <2>1
  <2>3. \A n \in live : refcnt'[n] = refcnt[n]
    BY <1>1, <1>7, <1>11
  <2>4. \A n \in live : refcnt'[n] = Cardinality(SlotsOf(n)')
    BY <1>8, <2>2, <2>3
  <2>5. refcnt[cur] # 0
    BY <1>3, <1>8, <1>9, <1>11, FS_EmptySet
  <2>6. refcnt'[cur] > 0
    <3>1. refcnt[cur] \in Nat
      BY <1>3, <1>8
    <3> QED BY <1>7, <1>11, <2>5, <3>1
  <2> QED BY <2>4, <2>6
<1>12. ASSUME old # cur
       PROVE  refcnt'[cur] > 0 /\ \A n \in live : refcnt'[n] = Cardinality(SlotsOf(n)')
  <2>1. PICK c, o : c = cur /\ o = old
    OBVIOUS
  <2>2. c # o /\ slots[i].node = o /\ c \in live /\ o \in live
    BY <1>3, <1>4, <1>12, <2>1
  <2>3. \A j \in 1..Len(slots) : slots'[j].node = IF j = i THEN c ELSE slots[j].node
    BY <1>6, <2>1
  <2>4. SlotsOf(c)' = SlotsOf(c) \cup {i} /\ i \notin SlotsOf(c)
    BY <1>10, <2>2, <2>3
  <2>5. SlotsOf(o)' = SlotsOf(o) \ {i} /\ i \in SlotsOf(o)
    BY <1>10, <2>2, <2>3
  <2>6. ASSUME NEW n, n # c, n # o PROVE SlotsOf(n)' = SlotsOf(n)
    BY <1>10, <2>2, <2>3, <2>6
  <2>7. /\ Cardinality(SlotsOf(c) \cup {i}) = Cardinality(SlotsOf(c)) + 1
        /\ Cardinality(SlotsOf(o) \ {i}) = Cardinality(SlotsOf(o)) - 1
    BY <1>8, <2>2, <2>4, <2>5, FS_AddElement, FS_RemoveElement
  <2>8. refcnt'[c] = refcnt[c] + 1 /\ refcnt'[o] = refcnt[o] - 1
    BY <1>7, <1>12, <2>1
  <2>9. ASSUME NEW n \in live PROVE refcnt'[n] = Cardinality(SlotsOf(n)')
    <3>1. CASE n = c
      BY <1>8, <2>4, <2>7, <2>8, <3>1
    <3>2. CASE n = o
      BY <1>8, <2>5, <2>7, <2>8, <3>2
    <3>3. CASE n # c /\ n # o
      <4>1. refcnt'[n] = refcnt[n]
        BY <1>1, <1>7, <2>1, <3>3
      <4> QED BY <1>8, <2>6, <3>3, <4>1
    <3> QED BY <3>1, <3>2, <3>3
  <2>10. refcnt'[cur] > 0
    <3>1. refcnt[c] \in Nat
      BY <2>2, <1>8
    <3> QED BY <2>1, <2>8, <3>1
  <2> QED BY <2>9, <2>10
<1>13. refcnt'[cur] > 0 /\ \A n \in live : refcnt'[n] = Cardinality(SlotsOf(n)')
  BY <1>11, <1>12
<1>14. InCall'
  <2>1. pos' \in 1..(Len(args) + 1) /\ Len(slots') + Len(args) - (pos' - 1) <= LinesMax
    <3>1. Len(slots') = Len(slots) /\ pos' = pos + 1 /\ pos \in 1..Len(args)
      BY <1>3, <1>5, <1>6
    <3> QED BY <1>2, <1>3, <3>1
  <2> QED BY <1>3, <1>5, <1>13, <2>1 DEF InCall
<1>15. TableSound'
  BY <1>2, <1>6 DEF TableInv, TableSound
<1>16. \A n \in live : refcnt'[n] \in Nat
  <2>1. IsFiniteSet(1..Len(slots))
    BY <1>2, FS_Interval
  <2>2. \A n : SlotsOf(n)' \in SUBSET (1..Len(slots))
    BY <1>10
  <2>3. \A n : IsFiniteSet(SlotsOf(n)')
    BY <2>1, <2>2, FS_Subset
  <2> QED BY <1>13, <2>3, FS_CardinalityType
<1> QED BY <1>2, <1>3, <1>4, <1>6, <1>7, <1>13, <1>14, <1>15, <1>16

\* An entry that moves to the new node leaves its old node other entries.
LEMMA AddKeepOldInv ==
  ASSUME TableInv, AddKeepOld
  PROVE  TableInv'
<1> DEFINE i == FindConfig(args[pos])
<1>1. Move /\ ~FreesOld(i) /\ UNCHANGED <<live, prev, next>>
  BY DEF AddKeepOld, Move, Repointed
<1>2. i \in 1..Len(slots)
  <2>1. TypeOK /\ args[pos] \in Configured
    BY <1>1 DEF TableInv, Move
  <2>2. DOMAIN slots = 1..Len(slots)
    BY <2>1 DEF TypeOK
  <2> QED BY <2>1, <2>2, FindConfigFound
<1>3. PICK k \in 1..Len(slots) : k = FindConfig(args[pos])
  BY <1>2
<1> DEFINE old == slots[k].node
<1>4. /\ old \in live /\ cur \in live
      /\ slots' \in Seq([offset : Offsets, node : NodeId])
      /\ DOMAIN slots' = DOMAIN slots
      /\ \A j \in DOMAIN slots : slots'[j].node = IF j = k THEN cur ELSE slots[j].node
      /\ refcnt' \in [NodeId -> Int] /\ refcnt'[cur] > 0
      /\ \A n \in live : refcnt'[n] = Cardinality(SlotsOf(n)') /\ refcnt'[n] \in Nat
      /\ \A n \in NodeId : n # cur /\ n # old => refcnt'[n] = refcnt[n]
      /\ InCall' /\ TableSound'
  BY <1>1, <1>3, MoveFacts
<1>5. TypeOK'
  <2>1. pos' \in Nat
    <3>1. pos' = pos + 1
      BY <1>1 DEF Move
    <3>2. pos \in Nat
      BY DEF TableInv, TypeOK
    <3> QED BY <3>1, <3>2
  <2>2. UNCHANGED <<outputs, settings, head, serial, cur, args, ret>>
    BY <1>1 DEF Move
  <2> HIDE DEF old, i
  <2> QED BY <1>1, <1>4, <2>1, <2>2 DEF TableInv, TypeOK
<1>6. RefcntExact'
  BY <1>1, <1>4 DEF RefcntExact
<1>7. NoDangling'
  BY <1>1, <1>4 DEF TableInv, NoDangling
<1>8. Linked'
  BY <1>1 DEF TableInv, Linked, Move
<1>9. Held'
  <2>1. live' = live /\ cur' = cur /\ live \subseteq NodeId
    BY <1>1 DEF Move, TableInv, TypeOK
  <2>2. refcnt'[old] # 0
    BY <1>1, <1>3 DEF FreesOld, Move
  <2>3. refcnt'[old] > 0
    BY <1>4, <2>2, SMTT(30)
  <2> HIDE DEF old
  <2>4. ASSUME NEW n \in live PROVE refcnt'[n] > 0 \/ n = cur
    BY <1>4, <2>1, <2>3 DEF TableInv, Held
  <2> QED BY <2>1, <2>4 DEF Held
<1> QED BY <1>4, <1>5, <1>6, <1>7, <1>8, <1>9 DEF TableInv

\* The node that loses its last offset is not the head, so both its links
\* may be closed over it without touching the head.
LEMMA AddFreeOldInv ==
  ASSUME TableInv, AddFreeOld
  PROVE  TableInv'
<1> DEFINE i == FindConfig(args[pos])
<1>1. /\ Move /\ FreesOld(i)
      /\ next' = UnlinkNext(slots[i].node) /\ prev' = UnlinkPrev(slots[i].node)
      /\ live' = live \ {slots[i].node}
  BY DEF AddFreeOld, Move, Repointed
<1>2. i \in 1..Len(slots)
  <2>1. TypeOK /\ args[pos] \in Configured
    BY <1>1 DEF TableInv, Move
  <2>2. DOMAIN slots = 1..Len(slots)
    BY <2>1 DEF TypeOK
  <2> QED BY <2>1, <2>2, FindConfigFound
<1>3. PICK k \in 1..Len(slots) : k = i
  BY <1>2
<1>4. /\ slots[k].node \in live /\ cur \in live /\ cur = head
      /\ slots' \in Seq([offset : Offsets, node : NodeId])
      /\ DOMAIN slots' = DOMAIN slots
      /\ \A j \in DOMAIN slots :
            slots'[j].node = IF j = k THEN cur ELSE slots[j].node
      /\ refcnt' \in [NodeId -> Int] /\ refcnt'[cur] > 0
      /\ \A n \in live : refcnt'[n] = Cardinality(SlotsOf(n)') /\ refcnt'[n] \in Nat
      /\ \A n \in NodeId : n # cur /\ n # slots[k].node => refcnt'[n] = refcnt[n]
      /\ InCall' /\ TableSound'
  <2> HIDE DEF i
  <2>1. k = FindConfig(args[pos])
    BY <1>3 DEF i
  <2> QED BY <1>1, <2>1, MoveFacts
<1>5. PICK o : o = slots[k].node
  OBVIOUS
<1>6. refcnt'[o] = 0
  BY <1>1, <1>3, <1>5 DEF FreesOld, Move
<1>7. /\ o \in live /\ o \in NodeId /\ o # head /\ o # cur /\ live \subseteq NodeId
      /\ live' = live \ {o} /\ next' = UnlinkNext(o) /\ prev' = UnlinkPrev(o)
      /\ UNCHANGED <<outputs, settings, head, serial, cur, args, ret>>
  <2>1. UNCHANGED <<outputs, settings, head, serial, cur, args, ret>>
    BY <1>1 DEF Move
  <2>2. o = slots[i].node
    BY <1>3, <1>5
  <2>3. live' = live \ {o} /\ next' = UnlinkNext(o) /\ prev' = UnlinkPrev(o)
    BY <1>1, <2>2
  <2>4. live \subseteq NodeId
    BY DEF TableInv, TypeOK
  <2>5. o \in live /\ o # cur /\ cur = head
    BY <1>4, <1>5, <1>6
  <2> QED BY <2>1, <2>3, <2>4, <2>5
<1>8. /\ next \in [NodeId -> NodeId \cup {Null}] /\ prev \in [NodeId -> NodeId \cup {Null}]
      /\ head = serial /\ head \in live
      /\ \A n \in live :
           /\ n <= serial
           /\ next[n] # Null => next[n] \in live /\ next[n] < n /\ prev[next[n]] = n
           /\ n = head => prev[n] = Null
           /\ n # head => prev[n] \in live /\ next[prev[n]] = n
  BY <1>4 DEF TableInv, TypeOK, Linked
<1> HIDE DEF i
<1>9. TypeOK'
  <2>1. pos' \in Nat
    <3>1. pos' = pos + 1
      BY <1>1 DEF Move
    <3>2. pos \in Nat
      BY DEF TableInv, TypeOK
    <3> QED BY <3>1, <3>2
  <2>2. next' \in [NodeId -> NodeId \cup {Null}]
    BY <1>7, <1>8 DEF UnlinkNext
  <2>3. prev' \in [NodeId -> NodeId \cup {Null}]
    BY <1>7, <1>8 DEF UnlinkPrev
  <2> QED BY <1>4, <1>7, <2>1, <2>2, <2>3 DEF TableInv, TypeOK
<1>10. Linked'
  <2> DEFINE p == prev[o]
             q == next[o]
  <2>1. p \in live /\ p \in NodeId /\ p # o /\ p # Null /\ next[p] = o /\ o < p
    <3>1. p \in live /\ next[p] = o
      BY <1>7, <1>8
    <3>2. o # Null
      BY <1>7
    <3> QED BY <1>7, <1>8, <3>1, <3>2
  <2>2. q # Null => q \in live /\ q \in NodeId /\ q < o /\ prev[q] = o /\ q # head /\ q # p
    BY <1>7, <1>8, <2>1
  <2>3. next' = [next EXCEPT ![p] = q]
    BY <1>7, <2>1 DEF UnlinkNext
  <2>4. prev' = IF q # Null THEN [prev EXCEPT ![q] = p] ELSE prev
    BY <1>7 DEF UnlinkPrev
  <2> HIDE DEF p, q
  <2>5. next'[p] = q /\ \A n \in NodeId : n # p => next'[n] = next[n]
    BY <1>8, <2>1, <2>3
  <2>6. /\ q # Null => prev'[q] = p
        /\ \A n \in NodeId : n # q => prev'[n] = prev[n]
    BY <1>8, <2>2, <2>4
  <2>7. ASSUME NEW n \in live'
        PROVE  /\ n <= serial'
               /\ next'[n] # Null => /\ next'[n] \in live' /\ next'[n] < n
                                     /\ prev'[next'[n]] = n
               /\ n = head' => prev'[n] = Null
               /\ n # head' => prev'[n] \in live' /\ next'[prev'[n]] = n
    <3>1. n \in live /\ n # o /\ n \in NodeId /\ n <= serial /\ head' = head /\ serial' = serial
      BY <1>7, <1>8
    <3>2. next'[n] # Null => next'[n] \in live' /\ next'[n] < n /\ prev'[next'[n]] = n
      <4>1. CASE n = p
        <5>1. q # Null => q \in Int /\ q < o /\ o < p /\ o \in Int /\ p \in Int
          BY <1>7, <2>1, <2>2
        <5>2. q # Null => q < p /\ q # o
          BY <5>1
        <5> QED BY <1>7, <2>2, <2>5, <2>6, <4>1, <5>2
      <4>2. CASE n # p
        <5>1. next'[n] = next[n]
          BY <2>5, <3>1, <4>2
        <5>2. next[n] # Null => /\ next[n] \in live /\ next[n] \in NodeId
                                /\ next[n] < n /\ prev[next[n]] = n
          BY <1>7, <1>8, <3>1
        <5>3. next[n] # Null => next[n] # o
          BY <5>2, <4>2 DEF p
        <5>4. next[n] # Null => next[n] # q
          BY <2>2, <3>1, <5>2
        <5> QED BY <1>7, <2>6, <5>1, <5>2, <5>3, <5>4
      <4> QED BY <4>1, <4>2
    <3>3. n = head => prev'[n] = Null
      BY <1>8, <2>2, <2>4, <2>6, <3>1
    <3>4. n # head => prev'[n] \in live' /\ next'[prev'[n]] = n
      <4>1. CASE n = q
        BY <1>7, <2>1, <2>2, <2>5, <2>6, <3>1, <4>1
      <4>2. CASE n # q
        <5>1. prev'[n] = prev[n]
          BY <2>6, <3>1, <4>2
        <5>2. n # head => prev[n] \in live /\ prev[n] \in NodeId /\ next[prev[n]] = n
          BY <1>7, <1>8, <3>1
        <5>3. n # head => prev[n] # o
          BY <5>2, <4>2 DEF q
        <5>4. n # head => prev[n] # p
          BY <5>2, <2>1, <3>1
        <5> QED BY <1>7, <2>5, <5>1, <5>2, <5>3, <5>4
      <4> QED BY <4>1, <4>2
    <3> QED BY <3>1, <3>2, <3>3, <3>4
  <2>8. head' = serial' /\ head' \in live' \cup {Null}
    BY <1>7, <1>8
  <2> QED BY <2>7, <2>8 DEF Linked
<1>11. RefcntExact'
  BY <1>4, <1>7 DEF RefcntExact
<1>12. NoDangling'
  <2>1. \A j \in DOMAIN slots : slots'[j].node \in live
    BY <1>4 DEF TableInv, NoDangling
  <2>2. SlotsOf(o)' = {}
    <3>1. SlotsOf(o)' \subseteq 1..Len(slots)
      <4>1. DOMAIN slots = 1..Len(slots)
        BY DEF TableInv, TypeOK
      <4>2. SlotsOf(o)' = {j \in DOMAIN slots' : slots'[j].node = o}
        BY DEF SlotsOf
      <4> QED BY <1>4, <4>1, <4>2
    <3>2. IsFiniteSet(1..Len(slots))
      <4>1. Len(slots) \in Nat
        BY DEF TableInv, TypeOK
      <4> QED BY <4>1, FS_Interval
    <3>3. IsFiniteSet(SlotsOf(o)')
      BY <3>1, <3>2, FS_Subset
    <3> QED BY <1>4, <1>6, <1>7, <3>3, FS_EmptySet
  <2>3. \A j \in DOMAIN slots' : slots'[j].node # o
    BY <2>2 DEF SlotsOf
  <2> QED BY <1>4, <1>7, <2>1, <2>3 DEF NoDangling
<1>13. Held'
  <2>1. ASSUME NEW n \in live' PROVE refcnt'[n] > 0 \/ n = cur'
    BY <1>4, <1>5, <1>7, <2>1 DEF TableInv, Held
  <2> QED BY <2>1 DEF Held
<1> QED BY <1>4, <1>9, <1>10, <1>11, <1>12, <1>13 DEF TableInv

-------------------------------------------------------------------------------
\* Every step of every operation keeps the table, counts and list agreeing.
LEMMA StepTable == TableInv /\ [Next]_vars => TableInv'
<1> SUFFICES ASSUME TableInv, [Next]_vars PROVE TableInv'
  OBVIOUS
<1>1. CASE AddNoOffsets
  BY <1>1, RefuseInv DEF AddNoOffsets
<1>2. ASSUME NEW offs \in OffsetArgs, AddTooMany(offs) PROVE TableInv'
  BY <1>2, RefuseInv DEF AddTooMany
<1>3. ASSUME NEW offs \in OffsetArgs, AddNoMemory(offs) PROVE TableInv'
  BY <1>3, RefuseInv DEF AddNoMemory
<1>4. ASSUME NEW offs \in OffsetArgs, NEW s \in Settings, AddBegin(offs, s) PROVE TableInv'
  BY <1>4, AddBeginInv
<1>5. CASE AddNewOffset
  BY <1>5, AddNewOffsetInv
<1>6. CASE AddKeepOld
  BY <1>6, AddKeepOldInv
<1>7. CASE AddFreeOld
  BY <1>7, AddFreeOldInv
<1>8. CASE AddReturn
  BY <1>8, AddReturnInv
<1>9. ASSUME NEW vals \in ValueArgs, SetOutputValues(vals) PROVE TableInv'
  BY <1>9, SetOutputsInv
<1>10. ASSUME NEW vals \in ValueArgs, SetOutputValuesBadArgs(vals) PROVE TableInv'
  BY <1>10, RefuseInv DEF SetOutputValuesBadArgs
<1>11. CASE Reset
  BY <1>11, ResetInv
<1>12. CASE UNCHANGED vars
  <2>1. UNCHANGED <<slots, heap, call>> /\ TypeOK'
    BY <1>12 DEF vars, heap, call, TableInv, TypeOK
  <2> QED BY <2>1, SameTable DEF TableInv
<1> QED BY <1>1, <1>2, <1>3, <1>4, <1>5, <1>6, <1>7, <1>8, <1>9, <1>10, <1>11, <1>12 DEF Next

-------------------------------------------------------------------------------
(***************************************************************************)
(* Lists of offsets: ascending lists, and the first occurrences of a list. *)
(***************************************************************************)
\* A list in strictly ascending order, up to its n-th member.
Increasing(p, n) == \A j, k \in 1..n : j < k => p[j] < p[k]

\* The lists p, of length m, and q, of length n, have the same members.
SameMembers(p, m, q, n) ==
  /\ \A j \in 1..m : \E k \in 1..n : q[k] = p[j]
  /\ \A k \in 1..n : \E j \in 1..m : p[j] = q[k]

\* A non-empty set of naturals has a least element.
LEMMA LeastMember ==
  ASSUME NEW T \in SUBSET Nat, T # {}
  PROVE  \E x \in T : \A y \in T : x <= y
<1> DEFINE R == OpToRel(<, Nat)
<1>1. IsWellFoundedOn(R, Nat)
  BY NatLessThanWellFounded
<1>2. \E x \in T : \A y \in T : ~(<<y, x>> \in R)
  <2> HIDE DEF R
  <2> QED BY <1>1, WFMin
<1>3. PICK x \in T : \A y \in T : ~(<<y, x>> \in R)
  BY <1>2
<1>4. \A y \in T : ~(y < x)
  BY <1>3 DEF OpToRel
<1> QED BY <1>4

\* Ascending lists the members of the set, each once and in order.
LEMMA AscendingSorts ==
  ASSUME NEW S \in SUBSET Nat, IsFiniteSet(S)
  PROVE  LET q == Ascending(S) n == Cardinality(S) IN
         /\ n \in Nat /\ q \in [1..n -> S]
         /\ Increasing(q, n)
         /\ \A x \in S : \E k \in 1..n : q[k] = x
<1> DEFINE n == Cardinality(S)
           Upto(x) == {y \in S : y <= x}
           rank == [x \in S |-> Cardinality(Upto(x))]
<1>1. n \in Nat
  BY FS_CardinalityType
<1>2. \A x \in S : IsFiniteSet(Upto(x)) /\ rank[x] \in 1..n
  <2> TAKE x \in S
  <2>1. Upto(x) \in SUBSET S /\ x \in Upto(x)
    OBVIOUS
  <2>2. IsFiniteSet(Upto(x)) /\ Cardinality(Upto(x)) <= n
    BY <2>1, FS_Subset
  <2>3. Cardinality(Upto(x)) \in Nat /\ Cardinality(Upto(x)) # 0
    BY <2>1, <2>2, FS_CardinalityType, FS_EmptySet
  <2> QED BY <1>1, <2>2, <2>3
<1>3. \A x, y \in S : x < y => rank[x] < rank[y]
  <2> SUFFICES ASSUME NEW x \in S, NEW y \in S, x < y PROVE rank[x] < rank[y]
    OBVIOUS
  <2>1. Upto(x) \in SUBSET Upto(y) /\ y \in Upto(y) /\ y \notin Upto(x)
    <3>1. x \in Nat /\ y \in Nat /\ \A z \in S : z \in Nat
      OBVIOUS
    <3>2. \A z \in S : z <= x => z <= y
      BY <3>1
    <3>3. y <= y /\ ~(y <= x)
      BY <3>1
    <3> QED BY <3>2, <3>3
  <2>2. Cardinality(Upto(x)) <= Cardinality(Upto(y)) /\ Cardinality(Upto(x)) # Cardinality(Upto(y))
    BY <2>1, <1>2, FS_Subset
  <2> QED BY <2>2, <1>2
<1>4. \A x, y \in S : rank[x] = rank[y] => x = y
  <2> SUFFICES ASSUME NEW x \in S, NEW y \in S, rank[x] = rank[y], x # y PROVE FALSE
    OBVIOUS
  <2>1. x < y \/ y < x
    OBVIOUS
  <2>2. rank[x] < rank[y] \/ rank[y] < rank[x]
    BY <2>1, <1>3
  <2>3. rank[x] \in Int /\ rank[y] \in Int
    BY <1>2
  <2> HIDE DEF rank
  <2> QED BY <2>2, <2>3
<1>5. \A k \in 1..n : \E x \in S : rank[x] = k
  <2>1. rank \in [S -> 1..n]
    BY <1>2
  <2>2. rank \in Injection(S, 1..n)
    <3> HIDE DEF rank
    <3> QED BY <2>1, <1>4 DEF Injection, IsInjective
  <2>3. IsFiniteSet(1..n) /\ Cardinality(1..n) = n
    BY <1>1, FS_Interval
  <2>4. rank \in Surjection(S, 1..n)
    <3> HIDE DEF rank
    <3> QED BY <2>2, <2>3, FS_Injection
  <2> HIDE DEF rank
  <2> QED BY <2>4 DEF Surjection
<1>6. \A k \in 1..n : Ascending(S)[k] \in S /\ rank[Ascending(S)[k]] = k
  <2> TAKE k \in 1..n
  <2>1. PICK x \in S : rank[x] = k
    BY <1>5
  <2>2. Ascending(S)[k] = CHOOSE z \in S : Cardinality(Upto(z)) = k
    BY DEF Ascending
  <2>3. Cardinality(Upto(x)) = k
    BY <2>1
  <2> HIDE DEF Upto
  <2> QED BY <2>2, <2>3
<1>7. Ascending(S) \in [1..n -> S]
  <2>1. \A k \in 1..n : (CHOOSE z \in S : Cardinality({y \in S : y <= z}) = k) \in S
    BY <1>6 DEF Ascending
  <2> QED BY <2>1 DEF Ascending
<1>8. \A j, k \in 1..n : j < k => Ascending(S)[j] < Ascending(S)[k]
  <2> SUFFICES ASSUME NEW j \in 1..n, NEW k \in 1..n, j < k,
                      ~(Ascending(S)[j] < Ascending(S)[k]) PROVE FALSE
    OBVIOUS
  <2> DEFINE x == Ascending(S)[j]  y == Ascending(S)[k]
  <2>1. x \in S /\ y \in S /\ rank[x] = j /\ rank[y] = k
    BY <1>6
  <2> HIDE DEF x, y, rank
  <2>2. y < x \/ y = x
    <3>1. x \in Nat /\ y \in Nat /\ ~(x < y)
      BY <2>1 DEF x, y
    <3> QED BY <3>1
  <2>3. rank[y] < rank[x] \/ rank[y] = rank[x]
    BY <2>1, <2>2, <1>3
  <2> QED BY <2>1, <2>3
<1>9. \A x \in S : \E k \in 1..n : Ascending(S)[k] = x
  <2> TAKE x \in S
  <2> DEFINE k == rank[x]
  <2>1. k \in 1..n
    BY <1>2
  <2>2. Ascending(S)[k] \in S /\ rank[Ascending(S)[k]] = rank[x]
    BY <2>1, <1>6
  <2>3. Ascending(S)[k] = x
    <3> HIDE DEF rank
    <3> QED BY <2>2, <1>4
  <2> QED BY <2>1, <2>3
<1> QED BY <1>1, <1>7, <1>8, <1>9 DEF Increasing

\* Two lists in ascending order that have the same members are the same.
LEMMA AscendingUnique ==
  ASSUME NEW m \in Nat, NEW n \in Nat,
         NEW p \in [1..m -> Nat], NEW q \in [1..n -> Nat],
         Increasing(p, m), Increasing(q, n), SameMembers(p, m, q, n)
  PROVE  p = q
<1>1. ASSUME NEW x \in Nat \ {0}, x <= m, x <= n,
             \A y \in Nat \ {0} : y < x => p[y] = q[y]
      PROVE  p[x] = q[x]
  <2>1. x \in 1..m /\ x \in 1..n
    BY <1>1
  <2>2. PICK k \in 1..n : q[k] = p[x]
    BY <2>1 DEF SameMembers
  <2>3. PICK j \in 1..m : p[j] = q[x]
    BY <2>1 DEF SameMembers
  <2>4. ~(k < x)
    <3> SUFFICES ASSUME k < x PROVE FALSE
      OBVIOUS
    <3>1. k \in Nat \ {0} /\ k \in 1..m
      BY <1>1
    <3>2. p[k] = q[k]
      BY <3>1, <1>1
    <3>3. p[k] < p[x] /\ p[k] \in Nat
      BY <2>1, <3>1 DEF Increasing
    <3> QED BY <2>2, <3>2, <3>3
  <2>5. ~(j < x)
    <3> SUFFICES ASSUME j < x PROVE FALSE
      OBVIOUS
    <3>1. j \in Nat \ {0} /\ j \in 1..n
      BY <1>1
    <3>2. p[j] = q[j]
      BY <3>1, <1>1
    <3>3. q[j] < q[x] /\ q[j] \in Nat
      BY <2>1, <3>1 DEF Increasing
    <3> QED BY <2>3, <3>2, <3>3
  <2>6. p[x] \in Nat /\ q[x] \in Nat /\ p[j] \in Nat /\ q[k] \in Nat
    BY <2>1
  <2>7. k \in Nat /\ j \in Nat /\ (k = x \/ x < k) /\ (j = x \/ x < j)
    BY <2>4, <2>5
  <2>8. (x < k => q[x] < q[k]) /\ (x < j => p[x] < p[j])
    BY <2>1 DEF Increasing
  <2>9. PICK u \in Nat, v \in Nat : u = p[x] /\ v = q[x]
    BY <2>6
  <2>10. v <= u
    <3>1. CASE k = x
      BY <2>2, <2>9, <3>1
    <3>2. CASE x < k
      BY <2>2, <2>8, <2>9, <3>2
    <3> QED BY <2>7, <3>1, <3>2
  <2>11. u <= v
    <3>1. CASE j = x
      BY <2>3, <2>9, <3>1
    <3>2. CASE x < j
      BY <2>3, <2>8, <2>9, <3>2
    <3> QED BY <2>7, <3>1, <3>2
  <2>12. u = v
    BY <2>10, <2>11
  <2> QED BY <2>9, <2>12
<1>2. \A x \in Nat \ {0} : x <= m /\ x <= n => p[x] = q[x]
  <2> DEFINE D == {k \in Nat \ {0} : k <= m /\ k <= n /\ p[k] # q[k]}
  <2>1. D \in SUBSET Nat
    OBVIOUS
  <2>2. ASSUME D # {} PROVE FALSE
    <3>1. \E x \in D : \A y \in D : x <= y
      <4> HIDE DEF D
      <4> QED BY <2>1, <2>2, LeastMember
    <3>2. PICK x \in Nat \ {0} : /\ x <= m /\ x <= n /\ p[x] # q[x]
                               /\ \A y \in D : x <= y
      BY <3>1
    <3>3. ASSUME NEW y \in Nat \ {0}, y < x PROVE p[y] = q[y]
      <4>1. ~(x <= y) /\ y <= m /\ y <= n
        BY <3>2, <3>3
      <4>2. y \notin D
        BY <3>2, <4>1
      <4> QED BY <4>1, <4>2
    <3> QED BY <1>1, <3>2, <3>3
  <2> QED BY <2>2
<1>3. ~(m < n)
  <2> SUFFICES ASSUME m < n PROVE FALSE
    OBVIOUS
  <2>1. m + 1 \in 1..n
    OBVIOUS
  <2>2. PICK j \in 1..m : p[j] = q[m + 1]
    BY <2>1 DEF SameMembers
  <2>3. j \in Nat \ {0} /\ j <= m /\ j <= n /\ j \in 1..n /\ j < m + 1
    OBVIOUS
  <2>4. p[j] = q[j]
    BY <1>2, <2>3
  <2>5. q[j] < q[m + 1] /\ q[j] \in Nat
    BY <2>1, <2>3 DEF Increasing
  <2> QED BY <2>2, <2>4, <2>5
<1>4. ~(n < m)
  <2> SUFFICES ASSUME n < m PROVE FALSE
    OBVIOUS
  <2>1. n + 1 \in 1..m
    OBVIOUS
  <2>2. PICK j \in 1..n : q[j] = p[n + 1]
    BY <2>1 DEF SameMembers
  <2>3. j \in Nat \ {0} /\ j <= m /\ j <= n /\ j \in 1..m /\ j < n + 1
    OBVIOUS
  <2>4. p[j] = q[j]
    BY <1>2, <2>3
  <2>5. p[j] < p[n + 1] /\ p[j] \in Nat
    BY <2>1, <2>3 DEF Increasing
  <2> QED BY <2>2, <2>4, <2>5
<1>5. m = n
  BY <1>3, <1>4
<1>6. \A k \in 1..m : p[k] = q[k]
  BY <1>2, <1>5
<1> QED BY <1>5, <1>6

\* The places of the first occurrences, listed in order.
Lists(a, m, s) ==
  /\ a \in [1..m -> Nat] /\ Increasing(a, m)
  /\ \A k \in 1..m : a[k] \in FirstIndices(s)
  /\ \A j \in FirstIndices(s) : \E k \in 1..m : a[k] = j

LEMMA FirstIndicesFinite ==
  ASSUME NEW S, NEW s \in Seq(S)
  PROVE  /\ FirstIndices(s) \in SUBSET (1..Len(s)) /\ FirstIndices(s) \in SUBSET Nat
         /\ IsFiniteSet(FirstIndices(s)) /\ Cardinality(FirstIndices(s)) <= Len(s)
<1>1. FirstIndices(s) \in SUBSET (1..Len(s)) /\ Len(s) \in Nat
  BY DEF FirstIndices
<1>2. IsFiniteSet(1..Len(s)) /\ Cardinality(1..Len(s)) = Len(s)
  <2>1. PICK n \in Nat : n = Len(s)
    BY <1>1
  <2>2. IsFiniteSet(1..n) /\ Cardinality(1..n) = n
    BY FS_Interval
  <2> QED BY <2>1, <2>2
<1>3. IsFiniteSet(FirstIndices(s)) /\ Cardinality(FirstIndices(s)) <= Cardinality(1..Len(s))
  BY <1>1, <1>2, FS_Subset
<1>4. FirstIndices(s) \in SUBSET Nat
  <2>1. \A j \in 1..Len(s) : j \in Nat
    OBVIOUS
  <2> QED BY <1>1, <2>1
<1> QED BY <1>1, <1>2, <1>3, <1>4

\* FirstOccurrences follows a list of the places of first occurrences.
LEMMA FirstOccurrencesHas ==
  ASSUME NEW S, NEW s \in Seq(S)
  PROVE  \E m, a :
           /\ m \in Nat /\ m = Cardinality(FirstIndices(s)) /\ Lists(a, m, s)
           /\ FirstOccurrences(s) = [k \in 1..m |-> s[a[k]]]
<1> DEFINE T == FirstIndices(s)
           a == Ascending(T)
           m == Cardinality(T)
<1>1. T \in SUBSET Nat /\ IsFiniteSet(T)
  BY FirstIndicesFinite
<1>2. /\ m \in Nat /\ a \in [1..m -> T] /\ Increasing(a, m)
      /\ \A x \in T : \E k \in 1..m : a[k] = x
  <2> HIDE DEF T
  <2> QED BY <1>1, AscendingSorts
<1>3. Lists(a, m, s)
  <2> HIDE DEF a, m
  <2> QED BY <1>1, <1>2 DEF Lists
<1>4. FirstOccurrences(s) = [k \in 1..m |-> s[a[k]]]
  <2>1. FirstOccurrences(s) = [k \in DOMAIN a |-> s[a[k]]]
    BY DEF FirstOccurrences
  <2>2. DOMAIN a = 1..m
    <3> HIDE DEF a, m
    <3> QED BY <1>2
  <2> HIDE DEF a, m
  <2> QED BY <2>1, <2>2
<1>5. m \in Nat /\ a \in [1..m -> Nat]
  <2> HIDE DEF a, m
  <2> QED BY <1>2, <1>3 DEF Lists
<1> HIDE DEF a
<1> QED BY <1>3, <1>4, <1>5

\* ... and there is only one.
LEMMA FirstOccurrencesIs ==
  ASSUME NEW S, NEW s \in Seq(S), NEW m \in Nat, NEW a, Lists(a, m, s)
  PROVE  FirstOccurrences(s) = [k \in 1..m |-> s[a[k]]]
<1>1. PICK n, b :
        /\ n \in Nat /\ Lists(b, n, s)
        /\ FirstOccurrences(s) = [k \in 1..n |-> s[b[k]]]
  BY FirstOccurrencesHas
<1>2. SameMembers(a, m, b, n)
  BY <1>1 DEF Lists, SameMembers
<1>3. /\ a \in [1..m -> Nat] /\ Increasing(a, m)
      /\ b \in [1..n -> Nat] /\ Increasing(b, n)
  BY <1>1 DEF Lists
<1>4. a = b
  BY <1>1, <1>2, <1>3, AscendingUnique
<1>5. DOMAIN a = 1..m /\ DOMAIN b = 1..n
  BY <1>3
<1>6. 1..n = 1..m
  BY <1>4, <1>5
<1> QED BY <1>1, <1>4, <1>6

\* g matches the first occurrences in s with those in t, in order.
Matches(g, s, t) ==
  /\ g \in [FirstIndices(s) -> FirstIndices(t)]
  /\ \A i, j \in FirstIndices(s) : i < j => g[i] < g[j]
  /\ \A j \in FirstIndices(s) : t[g[j]] = s[j]
  /\ \A j \in FirstIndices(t) : \E i \in FirstIndices(s) : g[i] = j

\* Two sequences whose first occurrences correspond, in order, have the
\* same list of them.
LEMMA Reindexed ==
  ASSUME NEW S, NEW s \in Seq(S), NEW t \in Seq(S), NEW g, Matches(g, s, t)
  PROVE  FirstOccurrences(s) = FirstOccurrences(t)
<1>1. PICK m, a :
        /\ m \in Nat /\ Lists(a, m, s)
        /\ FirstOccurrences(s) = [k \in 1..m |-> s[a[k]]]
  BY FirstOccurrencesHas
<1> DEFINE b == [k \in 1..m |-> g[a[k]]]
<1>2. \A k \in 1..m : a[k] \in FirstIndices(s) /\ b[k] = g[a[k]] /\ b[k] \in FirstIndices(t)
  BY <1>1 DEF Lists, Matches
<1>3. b \in [1..m -> Nat]
  <2>1. FirstIndices(t) \in SUBSET Nat
    BY FirstIndicesFinite
  <2> QED BY <1>2, <2>1
<1>4. Increasing(b, m)
  <2> SUFFICES ASSUME NEW j \in 1..m, NEW k \in 1..m, j < k PROVE b[j] < b[k]
    BY DEF Increasing
  <2>1. a[j] < a[k]
    BY <1>1 DEF Lists, Increasing
  <2> QED BY <1>2, <2>1 DEF Matches
<1>5. \A j \in FirstIndices(t) : \E k \in 1..m : b[k] = j
  <2> TAKE j \in FirstIndices(t)
  <2>1. PICK i \in FirstIndices(s) : g[i] = j
    BY DEF Matches
  <2>2. PICK k \in 1..m : a[k] = i
    BY <1>1 DEF Lists
  <2> QED BY <2>1, <2>2
<1>6. Lists(b, m, t)
  <2> HIDE DEF b
  <2> QED BY <1>2, <1>3, <1>4, <1>5 DEF Lists
<1>7. \A k \in 1..m : t[b[k]] = s[a[k]]
  BY <1>2 DEF Matches
<1> HIDE DEF b
<1>8. FirstOccurrences(t) = [k \in 1..m |-> t[b[k]]]
  BY <1>1, <1>6, FirstOccurrencesIs
<1> QED BY <1>1, <1>7, <1>8

\* A sequence that repeats nothing.
Distinct(s) == \A i, j \in 1..Len(s) : s[i] = s[j] => i = j

LEMMA FirstOccurrencesOfDistinct ==
  ASSUME NEW S, NEW s \in Seq(S), Distinct(s)
  PROVE  FirstOccurrences(s) = s
<1>1. Len(s) \in Nat /\ DOMAIN s = 1..Len(s) /\ s = [k \in 1..Len(s) |-> s[k]]
  OBVIOUS
<1>2. FirstIndices(s) = 1..Len(s)
  <2>1. ASSUME NEW j \in 1..Len(s), NEW k \in 1..j - 1 PROVE s[k] # s[j]
    <3>1. k \in 1..Len(s) /\ k # j
      BY <1>1
    <3> QED BY <3>1 DEF Distinct
  <2> QED BY <1>1, <2>1 DEF FirstIndices
<1> DEFINE a == [k \in 1..Len(s) |-> k]
<1>3. Lists(a, Len(s), s)
  <2>1. \A k \in 1..Len(s) : a[k] = k
    OBVIOUS
  <2>2. a \in [1..Len(s) -> Nat]
    OBVIOUS
  <2> HIDE DEF a
  <2> QED BY <1>2, <2>1, <2>2 DEF Lists, Increasing
<1>4. FirstOccurrences(s) = [k \in 1..Len(s) |-> s[a[k]]]
  <2> HIDE DEF a
  <2> QED BY <1>1, <1>3, FirstOccurrencesIs
<1> QED BY <1>1, <1>4

LEMMA FirstOccurrencesMembers ==
  ASSUME NEW S, NEW s \in Seq(S)
  PROVE  /\ FirstOccurrences(s) \in Seq(S)
         /\ Len(FirstOccurrences(s)) <= Len(s)
         /\ ToSet(FirstOccurrences(s)) = ToSet(s)
<1>1. PICK m, a :
        /\ m \in Nat /\ m = Cardinality(FirstIndices(s)) /\ Lists(a, m, s)
        /\ FirstOccurrences(s) = [k \in 1..m |-> s[a[k]]]
  BY FirstOccurrencesHas
<1>2. \A k \in 1..m : a[k] \in FirstIndices(s) /\ a[k] \in 1..Len(s) /\ s[a[k]] \in S
  <2>1. FirstIndices(s) \in SUBSET (1..Len(s))
    BY FirstIndicesFinite
  <2>2. \A j \in 1..Len(s) : s[j] \in S
    OBVIOUS
  <2>3. \A k \in 1..m : a[k] \in FirstIndices(s)
    BY <1>1 DEF Lists
  <2> QED BY <2>1, <2>2, <2>3
<1>3. FirstOccurrences(s) \in [1..m -> S]
  BY <1>1, <1>2
<1>4. FirstOccurrences(s) \in Seq(S) /\ Len(FirstOccurrences(s)) = m
  BY <1>1, <1>3
<1>5. m <= Len(s)
  BY <1>1, FirstIndicesFinite
<1>6. \A x \in ToSet(FirstOccurrences(s)) : x \in ToSet(s)
  <2> TAKE x \in ToSet(FirstOccurrences(s))
  <2>1. PICK k \in 1..m : x = s[a[k]]
    BY <1>1, <1>3 DEF ToSet
  <2> QED BY <1>2, <2>1 DEF ToSet
<1>7. \A x \in ToSet(s) : x \in ToSet(FirstOccurrences(s))
  <2> TAKE x \in ToSet(s)
  <2> DEFINE T == {j \in 1..Len(s) : s[j] = x}
  <2>1. T \in SUBSET Nat /\ T # {}
    BY DEF ToSet
  <2>2. \E j \in T : \A k \in T : j <= k
    <3> HIDE DEF T
    <3> QED BY <2>1, LeastMember
  <2>3. PICK j \in 1..Len(s) : s[j] = x /\ \A k \in T : j <= k
    BY <2>2
  <2>4. ASSUME NEW k \in 1..j - 1 PROVE s[k] # s[j]
    <3>1. k \in 1..Len(s) /\ ~(j <= k)
      OBVIOUS
    <3> QED BY <2>3, <3>1
  <2>5. j \in FirstIndices(s)
    BY <2>4 DEF FirstIndices
  <2>6. PICK k \in 1..m : a[k] = j
    BY <1>1, <2>5 DEF Lists
  <2>7. FirstOccurrences(s)[k] = x
    BY <1>1, <2>3, <2>6
  <2> QED BY <1>3, <2>7 DEF ToSet
<1> QED BY <1>4, <1>5, <1>6, <1>7

\* Once every offset of the arguments is configured, they add nothing.
LEMMA NothingNew ==
  ASSUME NEW S, NEW s \in Seq(S), Distinct(s), NEW t \in Seq(S),
         \A j \in 1..Len(t) : \E i \in 1..Len(s) : s[i] = t[j]
  PROVE  FirstOccurrences(s \o t) = s
<1> DEFINE u == s \o t
           n == Len(s)
<1>1. /\ u \in Seq(S) /\ n \in Nat /\ Len(t) \in Nat /\ Len(u) = n + Len(t)
      /\ \A j \in 1..n : u[j] = s[j]
      /\ \A j \in 1..Len(u) : j > n => u[j] = t[j - n]
  OBVIOUS
<1>2. FirstIndices(u) = 1..n
  <2>1. ASSUME NEW j \in 1..n PROVE j \in FirstIndices(u)
    <3>1. ASSUME NEW k \in 1..j - 1 PROVE u[k] # u[j]
      <4>1. k \in 1..n /\ k # j
        BY <1>1
      <4>2. s[k] # s[j]
        BY <4>1 DEF Distinct
      <4> QED BY <1>1, <4>1, <4>2
    <3> QED BY <1>1, <3>1 DEF FirstIndices
  <2>2. ASSUME NEW j \in FirstIndices(u), ~(j \in 1..n) PROVE FALSE
    <3>1. j \in 1..Len(u) /\ \A k \in 1..j - 1 : u[k] # u[j]
      BY <1>1 DEF FirstIndices
    <3>2. j > n /\ j - n \in 1..Len(t) /\ u[j] = t[j - n]
      BY <1>1, <2>2, <3>1
    <3>3. PICK i \in 1..n : s[i] = t[j - n]
      BY <3>2
    <3>4. i \in 1..j - 1
      BY <1>1, <3>1, <3>2
    <3>5. u[i] = u[j]
      BY <1>1, <3>2, <3>3
    <3> QED BY <3>1, <3>4, <3>5
  <2> QED BY <2>1, <2>2
<1> DEFINE a == [k \in 1..n |-> k]
<1>3. Lists(a, n, u)
  <2>1. \A k \in 1..n : a[k] = k
    OBVIOUS
  <2>2. a \in [1..n -> Nat]
    OBVIOUS
  <2> HIDE DEF a, n, u
  <2> QED BY <1>2, <2>1, <2>2 DEF Lists, Increasing
<1>4. FirstOccurrences(u) = [k \in 1..n |-> u[a[k]]]
  <2> HIDE DEF a, u, n
  <2> QED BY <1>1, <1>3, FirstOccurrencesIs
<1>5. FirstOccurrences(u) = [k \in 1..n |-> s[k]]
  BY <1>1, <1>4
<1> QED BY <1>5

\* Moving the first new argument to the end of the list, before the
\* arguments, changes no first occurrence.
LEMMA NewGoesLast ==
  ASSUME NEW S, NEW s \in Seq(S), Distinct(s), NEW t \in Seq(S), NEW p \in 1..Len(t),
         \A i \in 1..Len(s) : s[i] # t[p],
         \A j \in 1..p - 1 : \E i \in 1..Len(s) : s[i] = t[j]
  PROVE  FirstOccurrences(s \o t) = FirstOccurrences(Append(s, t[p]) \o t)
<1> DEFINE u == s \o t
           v == Append(s, t[p]) \o t
           n == Len(s)
           g(j) == IF j <= n THEN j ELSE IF j = n + p THEN n + 1 ELSE j + 1
<1>1. /\ u \in Seq(S) /\ n \in Nat /\ Len(t) \in Nat /\ p \in Nat /\ Len(u) = n + Len(t)
      /\ \A j \in 1..n : u[j] = s[j]
      /\ \A j \in 1..Len(t) : u[n + j] = t[j]
  OBVIOUS
<1>2. /\ v \in Seq(S) /\ Len(v) = n + 1 + Len(t)
      /\ \A j \in 1..n : v[j] = s[j]
      /\ v[n + 1] = t[p]
      /\ \A j \in 1..Len(t) : v[n + 1 + j] = t[j]
  <2>1. t[p] \in S
    OBVIOUS
  <2>2. /\ Append(s, t[p]) \in Seq(S) /\ Len(Append(s, t[p])) = n + 1
        /\ \A j \in 1..n : Append(s, t[p])[j] = s[j]
        /\ Append(s, t[p])[n + 1] = t[p]
    BY <2>1
  <2> DEFINE w == Append(s, t[p])
  <2> HIDE DEF w
  <2>3. w \in Seq(S) /\ Len(w) = n + 1 /\ w[n + 1] = t[p] /\ \A j \in 1..n : w[j] = s[j]
    BY <2>2 DEF w
  <2>4. w \o t \in Seq(S) /\ Len(w \o t) = n + 1 + Len(t)
    <3>1. w \o t \in Seq(S) /\ Len(w \o t) = Len(w) + Len(t)
      BY <2>3, ConcatProperties
    <3> QED BY <2>3, <3>1
  <2>5. \A j \in 1..n + 1 : (w \o t)[j] = w[j]
    BY <1>1, <2>3
  <2>6. \A j \in 1..Len(t) : (w \o t)[n + 1 + j] = t[j]
    BY <1>1, <2>3
  <2>7. v = w \o t
    BY DEF w
  <2> HIDE DEF v
  <2> QED BY <1>1, <2>3, <2>4, <2>5, <2>6, <2>7
<1>3. \A j \in 1..Len(u) : j <= n \/ (j - n \in 1..Len(t) /\ j = n + (j - n))
  BY <1>1
<1>4. \A j \in 1..Len(v) : \/ j <= n \/ j = n + 1
                           \/ (j - n - 1 \in 1..Len(t) /\ j = n + 1 + (j - n - 1))
  BY <1>1, <1>2
<1> HIDE DEF u, v
\* The first occurrences of each, in terms of the arguments' places.
<1> DEFINE New(j) == /\ \A i \in 1..n : s[i] # t[j]
                     /\ \A k \in 1..j - 1 : t[k] # t[j]
<1>5. \A j \in 1..n : j \in FirstIndices(u) /\ j \in FirstIndices(v)
  <2> SUFFICES ASSUME NEW j \in 1..n PROVE j \in FirstIndices(u) /\ j \in FirstIndices(v)
    OBVIOUS
  <2>1. ASSUME NEW k \in 1..j - 1 PROVE s[k] # s[j] /\ k \in 1..n
    <3>1. k \in 1..n /\ k # j
      BY <1>1
    <3> QED BY <3>1 DEF Distinct
  <2>2. \A k \in 1..j - 1 : u[k] # u[j] /\ v[k] # v[j]
    BY <1>1, <1>2, <2>1
  <2>3. j \in DOMAIN u /\ j \in DOMAIN v
    BY <1>1, <1>2
  <2> QED BY <2>2, <2>3 DEF FirstIndices
<1>6. \A j \in 1..Len(t) : n + j \in FirstIndices(u) <=> New(j)
  <2> SUFFICES ASSUME NEW j \in 1..Len(t) PROVE n + j \in FirstIndices(u) <=> New(j)
    OBVIOUS
  <2>1. n + j \in DOMAIN u /\ u[n + j] = t[j]
    BY <1>1
  <2>2. ASSUME n + j \in FirstIndices(u) PROVE New(j)
    <3>1. \A k \in 1..n + j - 1 : u[k] # u[n + j]
      BY <2>2 DEF FirstIndices
    <3>2. \A i \in 1..n : i \in 1..n + j - 1 /\ u[i] = s[i]
      BY <1>1
    <3>3. \A k \in 1..j - 1 : n + k \in 1..n + j - 1 /\ k \in 1..Len(t) /\ u[n + k] = t[k]
      BY <1>1
    <3> QED BY <2>1, <3>1, <3>2, <3>3
  <2>3. ASSUME New(j) PROVE n + j \in FirstIndices(u)
    <3>1. ASSUME NEW k \in 1..n + j - 1 PROVE u[k] # u[n + j]
      <4>1. CASE k <= n
        <5>1. k \in 1..n
          BY <1>1, <4>1
        <5> QED BY <1>1, <2>1, <2>3, <5>1
      <4>2. CASE ~(k <= n)
        <5>1. k - n \in 1..j - 1 /\ k - n \in 1..Len(t) /\ k = n + (k - n)
          BY <1>1, <4>2
        <5>2. u[k] = t[k - n] /\ t[k - n] # t[j]
          BY <1>1, <2>3, <5>1
        <5> QED BY <2>1, <5>2
      <4> QED BY <4>1, <4>2
    <3> QED BY <2>1, <3>1 DEF FirstIndices
  <2> QED BY <2>2, <2>3
<1>7. n + 1 \in FirstIndices(v)
  <2>1. n + 1 \in DOMAIN v /\ \A k \in 1..n + 1 - 1 : v[k] # v[n + 1]
    BY <1>1, <1>2
  <2> QED BY <2>1 DEF FirstIndices
<1>8. \A j \in 1..Len(t) : n + 1 + j \in FirstIndices(v) <=> New(j) /\ t[j] # t[p]
  <2> SUFFICES ASSUME NEW j \in 1..Len(t)
               PROVE n + 1 + j \in FirstIndices(v) <=> New(j) /\ t[j] # t[p]
    OBVIOUS
  <2>1. n + 1 + j \in DOMAIN v /\ v[n + 1 + j] = t[j]
    BY <1>1, <1>2
  <2>2. ASSUME n + 1 + j \in FirstIndices(v) PROVE New(j) /\ t[j] # t[p]
    <3>1. \A k \in 1..n + 1 + j - 1 : v[k] # v[n + 1 + j]
      BY <2>2 DEF FirstIndices
    <3>2. \A i \in 1..n : i \in 1..n + 1 + j - 1 /\ v[i] = s[i]
      BY <1>1, <1>2
    <3>3. \A k \in 1..j - 1 : /\ n + 1 + k \in 1..n + 1 + j - 1 /\ k \in 1..Len(t)
                              /\ v[n + 1 + k] = t[k]
      <4> TAKE k \in 1..j - 1
      <4>1. k \in 1..Len(t) /\ n + 1 + k \in 1..n + 1 + j - 1
        BY <1>1
      <4> QED BY <1>2, <4>1
    <3>4. n + 1 \in 1..n + 1 + j - 1
      BY <1>1
    <3> QED BY <1>2, <2>1, <3>1, <3>2, <3>3, <3>4
  <2>3. ASSUME New(j), t[j] # t[p] PROVE n + 1 + j \in FirstIndices(v)
    <3>1. ASSUME NEW k \in 1..n + 1 + j - 1 PROVE v[k] # v[n + 1 + j]
      <4>1. CASE k <= n
        <5>1. k \in 1..n
          BY <1>1, <4>1
        <5> QED BY <1>2, <2>1, <2>3, <5>1
      <4>2. CASE k = n + 1
        BY <1>2, <2>1, <2>3, <4>2
      <4>3. CASE k > n + 1
        <5>1. k - n - 1 \in 1..j - 1 /\ k - n - 1 \in 1..Len(t) /\ k = n + 1 + (k - n - 1)
          BY <1>1, <4>3
        <5>2. v[k] = t[k - n - 1] /\ t[k - n - 1] # t[j]
          BY <1>2, <2>3, <5>1
        <5> QED BY <2>1, <5>2
      <4>4. k <= n \/ k = n + 1 \/ k > n + 1
        BY <1>1
      <4> QED BY <4>1, <4>2, <4>3, <4>4
    <3> QED BY <2>1, <3>1 DEF FirstIndices
  <2> QED BY <2>2, <2>3
<1>9. New(p) /\ \A j \in 1..Len(t) : New(j) => p <= j
  <2>1. ASSUME NEW j \in 1..Len(t), New(j), ~(p <= j) PROVE FALSE
    <3>1. j \in 1..p - 1
      BY <2>1
    <3> QED BY <2>1, <3>1
  <2>2. ASSUME NEW k \in 1..p - 1 PROVE t[k] # t[p]
    OBVIOUS
  <2> QED BY <2>1, <2>2
<1>10. \A j \in 1..Len(t) : New(j) /\ j # p => p < j /\ t[j] # t[p]
  <2> SUFFICES ASSUME NEW j \in 1..Len(t), New(j), j # p PROVE p < j /\ t[j] # t[p]
    OBVIOUS
  <2>1. p < j
    BY <1>1, <1>9
  <2>2. p \in 1..j - 1
    BY <1>1, <2>1
  <2> QED BY <2>1, <2>2
<1> HIDE DEF New
<1>11. \A j \in FirstIndices(u) : j \in 1..Len(u)
  BY <1>1 DEF FirstIndices
<1>12. \A j \in FirstIndices(v) : j \in 1..Len(v)
  BY <1>2 DEF FirstIndices
<1>13. \A j \in FirstIndices(u) :
          \/ j \in 1..n
          \/ j = n + p
          \/ \E k \in 1..Len(t) : j = n + k /\ New(k) /\ k # p /\ p < k /\ t[k] # t[p]
  <2> TAKE j \in FirstIndices(u)
  <2>1. j \in 1..Len(u)
    BY <1>11
  <2>2. CASE j <= n
    BY <1>1, <2>1, <2>2
  <2>3. CASE ~(j <= n)
    <3>1. PICK k \in 1..Len(t) : j = n + k
      BY <1>3, <2>1, <2>3
    <3>2. New(k)
      BY <1>6, <3>1
    <3> QED BY <1>10, <3>1, <3>2
  <2> QED BY <2>2, <2>3
<1> DEFINE f == [j \in FirstIndices(u) |-> g(j)]
<1>14. \A j \in FirstIndices(u) : f[j] \in FirstIndices(v) /\ v[f[j]] = u[j]
  <2> TAKE j \in FirstIndices(u)
  <2>1. CASE j \in 1..n
    <3>1. f[j] = j
      BY <1>1, <2>1
    <3> QED BY <1>1, <1>2, <1>5, <2>1, <3>1
  <2>2. CASE j = n + p
    <3>1. f[j] = n + 1
      BY <1>1, <2>2
    <3> QED BY <1>1, <1>2, <1>7, <2>2, <3>1
  <2>3. ASSUME NEW k \in 1..Len(t), j = n + k, New(k), k # p, t[k] # t[p]
        PROVE f[j] \in FirstIndices(v) /\ v[f[j]] = u[j]
    <3>1. f[j] = n + 1 + k
      BY <1>1, <2>3
    <3>2. n + 1 + k \in FirstIndices(v) /\ v[n + 1 + k] = t[k] /\ u[n + k] = t[k]
      BY <1>1, <1>2, <1>8, <2>3
    <3> QED BY <2>3, <3>1, <3>2
  <2> QED BY <1>13, <2>1, <2>2, <2>3
<1>15. \A i, j \in FirstIndices(u) : i < j => f[i] < f[j]
  <2> SUFFICES ASSUME NEW i \in FirstIndices(u), NEW j \in FirstIndices(u), i < j
               PROVE f[i] < f[j]
    OBVIOUS
  <2>1. i \in Nat /\ j \in Nat
    BY <1>1, <1>11
  <2>2. f[i] = g(i) /\ f[j] = g(j)
    OBVIOUS
  <2>3. ASSUME NEW z \in FirstIndices(u) PROVE z <= n \/ z >= n + p
    <3>1. CASE \E k \in 1..Len(t) : z = n + k /\ p < k
      BY <1>1, <3>1
    <3>2. CASE z = n + p \/ z \in 1..n
      BY <1>1, <3>2
    <3> QED BY <1>13, <3>1, <3>2
  <2> HIDE DEF f
  <2> QED BY <1>1, <2>1, <2>2, <2>3
<1>16. \A j \in FirstIndices(v) : \E i \in FirstIndices(u) : f[i] = j
  <2> TAKE j \in FirstIndices(v)
  <2>1. CASE j <= n
    <3>1. j \in 1..n
      BY <1>12, <2>1, <1>1, <1>2
    <3>2. j \in FirstIndices(u) /\ f[j] = j
      BY <1>5, <3>1, <2>1
    <3> QED BY <3>2
  <2>2. CASE j = n + 1
    <3>1. n + p \in FirstIndices(u)
      BY <1>6, <1>9
    <3>2. f[n + p] = n + 1
      BY <1>1, <3>1
    <3> QED BY <2>2, <3>1, <3>2
  <2>3. CASE ~(j <= n) /\ j # n + 1
    <3>1. PICK k \in 1..Len(t) : j = n + 1 + k
      BY <1>4, <1>12, <2>3
    <3>2. New(k) /\ k # p
      BY <1>8, <3>1
    <3>3. n + k \in FirstIndices(u)
      BY <1>6, <3>2
    <3>4. f[n + k] = n + 1 + k
      BY <1>1, <3>2, <3>3
    <3> QED BY <3>1, <3>3, <3>4
  <2> QED BY <2>1, <2>2, <2>3
<1>17. f \in [FirstIndices(u) -> FirstIndices(v)]
  BY <1>14
<1> HIDE DEF f
<1>18. u \in Seq(S) /\ v \in Seq(S)
  BY <1>1, <1>2
<1>19. Matches(f, u, v)
  BY <1>14, <1>15, <1>16, <1>17 DEF Matches
<1>20. FirstOccurrences(u) = FirstOccurrences(v)
  BY <1>18, <1>19, Reindexed
<1> QED BY <1>20 DEF u, v

-------------------------------------------------------------------------------
(***************************************************************************)
(* The add loop, offset by offset.                                         *)
(***************************************************************************)
\* What the add loop does to the table, offset by offset: one entry more,
\* or one entry moved, and the rest as it was.
Advances ==
  /\ InLoop /\ pos' = pos + 1 /\ args' = args /\ cur' = cur
  /\ UNCHANGED <<settings, outputs>>
  /\ \/ /\ args[pos] \notin Configured
        /\ slots' = Append(slots, [offset |-> args[pos], node |-> cur])
     \/ /\ args[pos] \in Configured
        /\ slots' = [slots EXCEPT ![FindConfig(args[pos])].node = cur]

LEMMA LoopAdvances == AddNewOffset \/ AddKeepOld \/ AddFreeOld => Advances
BY DEF AddNewOffset, AddKeepOld, AddFreeOld, Advances, Repointed

\* The loop's index is in the array, and the call's offsets are offsets.
LEMMA InLoopFacts ==
  ASSUME TableInv, Advances
  PROVE  /\ cur \in NodeId /\ args \in Seq(Offsets) /\ pos \in 1..Len(args)
         /\ args[pos] \in Offsets /\ pos \in Nat
         /\ slots \in Seq([offset : Offsets, node : NodeId])
<1>1. cur # Null /\ pos <= Len(args)
  BY DEF Advances, InLoop
<1>2. cur \in NodeId /\ args \in Seq(Offsets) /\ pos \in 1..(Len(args) + 1)
  BY <1>1 DEF TableInv, TypeOK, InCall
<1>3. pos \in 1..Len(args)
  BY <1>1, <1>2
<1>4. args[pos] \in Offsets /\ slots \in Seq([offset : Offsets, node : NodeId])
  BY <1>2, <1>3 DEF TableInv, TypeOK
<1> QED BY <1>2, <1>3, <1>4

\* The entries after an iteration: those before it, except that the entry of
\* the offset just done points to the call's node.
LEMMA EntriesAfter ==
  ASSUME TableInv, Advances
  PROVE  /\ Len(slots) \in Nat /\ DOMAIN slots = 1..Len(slots)
         /\ DOMAIN slots \subseteq DOMAIN slots'
         /\ \A i \in DOMAIN slots : slots'[i].offset = slots[i].offset
         /\ \A i \in DOMAIN slots :
               slots[i].offset # args[pos] => slots'[i].node = slots[i].node
         /\ \E i \in DOMAIN slots' : slots'[i].offset = args[pos] /\ slots'[i].node = cur
         /\ \A i \in DOMAIN slots : slots[i].node = cur => slots'[i].node = cur
         /\ \A i \in DOMAIN slots' : i \notin DOMAIN slots => slots'[i].offset = args[pos]
<1>1. /\ cur \in NodeId /\ args[pos] \in Offsets
      /\ slots \in Seq([offset : Offsets, node : NodeId])
  BY InLoopFacts
<1>2. Len(slots) \in Nat /\ DOMAIN slots = 1..Len(slots)
  BY <1>1
<1>3. CASE /\ args[pos] \notin Configured
           /\ slots' = Append(slots, [offset |-> args[pos], node |-> cur])
  <2> DEFINE n == Len(slots)
             e == [offset |-> args[pos], node |-> cur]
  <2>1. e \in [offset : Offsets, node : NodeId]
    BY <1>1
  <2>2. /\ DOMAIN slots' = 1..(n + 1) /\ \A i \in 1..n : slots'[i] = slots[i]
        /\ slots'[n + 1] = e
    <3> HIDE DEF e
    <3> QED BY <1>1, <1>3, <2>1 DEF e
  <2>3. e.offset = args[pos] /\ e.node = cur
    OBVIOUS
  <2>4. \A i \in 1..n : i \in 1..(n + 1)
    BY <1>2
  <2>5. \A i \in 1..(n + 1) : i \notin 1..n => i = n + 1
    BY <1>2
  <2>6. n + 1 \in 1..(n + 1)
    BY <1>2
  <2> HIDE DEF e, n
  <2>7. DOMAIN slots = 1..n
    BY <1>2 DEF n
  <2> QED BY <1>2, <2>2, <2>3, <2>4, <2>5, <2>6, <2>7
<1>4. CASE /\ args[pos] \in Configured
           /\ slots' = [slots EXCEPT ![FindConfig(args[pos])].node = cur]
  <2>1. PICK k : k = FindConfig(args[pos]) /\ k \in DOMAIN slots /\ slots[k].offset = args[pos]
    BY <1>4, FindConfigFound DEF TableInv
  <2> DEFINE Slot == [offset : Offsets, node : NodeId]
             e == [slots[k] EXCEPT !.node = cur]
  <2>2. k \in 1..Len(slots) /\ slots[k] \in Slot
    BY <1>1, <1>2, <2>1, ElementOfSeq
  <2>3. slots' = [slots EXCEPT ![k] = e]
    BY <1>4, <2>1
  <2>4. e \in Slot /\ e.offset = slots[k].offset /\ e.node = cur
    BY <1>1, <2>2
  <2> HIDE DEF e, Slot
  <2>5. /\ slots' \in Seq(Slot) /\ Len(slots') = Len(slots)
        /\ \A j \in 1..Len(slots) : slots'[j] = IF j = k THEN e ELSE slots[j]
    BY <1>1, <2>2, <2>3, <2>4, ExceptSeq DEF Slot
  <2>6. DOMAIN slots' = 1..Len(slots)
    BY <2>5
  <2> QED BY <1>2, <2>1, <2>2, <2>4, <2>5, <2>6
<1> QED BY <1>3, <1>4 DEF Advances

\* What is done stays done.
LEMMA ProcessedStep ==
  ASSUME IInv, [Next]_vars
  PROVE  Processed'
<1>1. CASE UNCHANGED <<slots, call>>
  BY <1>1 DEF IInv, Processed, call
<1>2. CASE Advances
  <2> SUFFICES ASSUME NEW j \in 1..pos' - 1
               PROVE  \E i \in DOMAIN slots' : slots'[i].offset = args'[j] /\ slots'[i].node = cur'
    BY DEF Processed
  <2>1. cur' = cur /\ args' = args /\ pos' = pos + 1 /\ cur # Null /\ pos \in Nat
    BY <1>2, InLoopFacts DEF Advances, InLoop, IInv
  <2>2. CASE j = pos
    BY <1>2, <2>1, <2>2, EntriesAfter DEF IInv
  <2>3. CASE j # pos
    <3>1. j \in 1..pos - 1
      BY <2>1, <2>3
    <3>2. PICK i \in DOMAIN slots : slots[i].offset = args[j] /\ slots[i].node = cur
      BY <2>1, <3>1 DEF IInv, Processed
    <3>3. i \in DOMAIN slots' /\ slots'[i].offset = args[j] /\ slots'[i].node = cur
      BY <1>2, <3>2, EntriesAfter DEF IInv
    <3> QED BY <2>1, <3>3
  <2> QED BY <2>2, <2>3
<1>3. ASSUME pos' = 1 PROVE Processed'
  BY <1>3 DEF Processed
<1>4. ASSUME NEW offs \in OffsetArgs, NEW s \in Settings, AddBegin(offs, s) PROVE Processed'
  BY <1>3, <1>4 DEF AddBegin
<1>5. CASE AddReturn
  BY <1>3, <1>5 DEF AddReturn
<1>6. ASSUME NEW e, Refuse(e) PROVE Processed'
  BY <1>1, <1>6 DEF Refuse
<1>7. ASSUME NEW vals \in ValueArgs, SetOutputValues(vals) \/ SetOutputValuesBadArgs(vals)
      PROVE Processed'
  BY <1>1, <1>6, <1>7 DEF SetOutputValues, SetOutputValuesBadArgs
<1>8. CASE Reset
  <2>1. cur' = Null
    BY <1>8 DEF Reset, Idle, call
  <2> QED BY <2>1 DEF Processed
<1>9. CASE AddNoOffsets
  BY <1>6, <1>9 DEF AddNoOffsets
<1>10. ASSUME NEW offs \in OffsetArgs, AddTooMany(offs) \/ AddNoMemory(offs) PROVE Processed'
  BY <1>6, <1>10 DEF AddTooMany, AddNoMemory
<1>11. CASE UNCHANGED vars
  BY <1>1, <1>11 DEF vars, call
<1>12. CASE AddNewOffset \/ AddKeepOld \/ AddFreeOld
  BY <1>2, <1>12, LoopAdvances
<1> QED BY <1>4, <1>5, <1>7, <1>8, <1>9, <1>10, <1>11, <1>12 DEF Next

\* An object just created satisfies the invariant (gpiod_line_config_new).
THEOREM InitInv == Init => IInv
<1>1. Init => Processed
  BY DEF Init, Processed
<1> QED BY <1>1, InitTable DEF IInv

\* Every step of every operation preserves the invariant.
THEOREM StepInv == IInv /\ [Next]_vars => IInv'
BY StepTable, ProcessedStep DEF IInv

-------------------------------------------------------------------------------
(***************************************************************************)
(* The object implements the ordered map its user sees.                    *)
(***************************************************************************)
\* The map, as ImplementsPromise reads it from the object.
Listed == [i \in DOMAIN slots |-> slots[i].offset]
Order == FirstOccurrences(Listed \o args)
NodeOf(o) == IF o \in Pending THEN cur ELSE slots[FindConfig(o)].node
Conf == [o \in Configured \cup Pending |-> settings[NodeOf(o)]]

\* The specification's helpers are the object's.
LEMMA SameHelpers ==
  /\ \A s : Promise!FirstOccurrences(s) = FirstOccurrences(s)
  /\ \A s : Promise!ToSet(s) = ToSet(s)
  /\ \A S, n : Promise!SeqOf(S, n) = SeqOf(S, n)
<1>1. \A S : Promise!Ascending(S) = Ascending(S)
  <2>1. \A T : Promise!Cardinality(T) = Cardinality(T)
    BY DEF Cardinality, Promise!Cardinality
  <2>2. ASSUME NEW S, NEW k
        PROVE (CHOOSE x \in S : Promise!Cardinality({y \in S : y <= x}) = k)
                = CHOOSE x \in S : Cardinality({y \in S : y <= x}) = k
    BY <2>1, Zenon
  <2>3. ASSUME NEW S
        PROVE Promise!Ascending(S) = Ascending(S)
    <3>1. Promise!Cardinality(S) = Cardinality(S)
      BY <2>1
    <3> DEFINE f(k) == CHOOSE x \in S : Promise!Cardinality({y \in S : y <= x}) = k
               g(k) == CHOOSE x \in S : Cardinality({y \in S : y <= x}) = k
    <3>2. /\ Promise!Ascending(S) = [k \in 1..Promise!Cardinality(S) |-> f(k)]
          /\ Ascending(S) = [k \in 1..Cardinality(S) |-> g(k)]
      BY DEF Ascending, Promise!Ascending
    <3>3. \A k : f(k) = g(k)
      BY <2>2
    <3> HIDE DEF f, g
    <3> QED BY <3>1, <3>2, <3>3
  <2> QED BY <2>3
<1>2. \A s : Promise!FirstIndices(s) = FirstIndices(s)
  BY DEF FirstIndices, Promise!FirstIndices
<1>3. \A s : Promise!FirstOccurrences(s) = FirstOccurrences(s)
  BY <1>1, <1>2 DEF FirstOccurrences, Promise!FirstOccurrences
<1>4. \A s : Promise!ToSet(s) = ToSet(s)
  BY DEF ToSet, Promise!ToSet
<1>5. \A S, n : Promise!SeqOf(S, n) = SeqOf(S, n)
  BY DEF SeqOf, Promise!SeqOf
<1> QED BY <1>3, <1>4, <1>5

LEMMA MapInit == Init => Promise!SpecInit
<1> SUFFICES ASSUME Init PROVE Promise!SpecInit
  OBVIOUS
<1>1. slots = <<>> /\ args = <<>> /\ outputs = <<>> /\ cur = Null
  BY DEF Init
<1>2. Configured = {} /\ Pending = {}
  BY <1>1 DEF Configured, Pending, Idle
<1>3. Listed \o args = <<>>
  <2>1. Listed = <<>>
    BY <1>1 DEF Listed
  <2> QED BY <1>1, <2>1
<1>4. Order = <<>>
  <2>1. <<>> \in Seq(Offsets) /\ Distinct(<<>>)
    BY DEF Distinct
  <2> QED BY <1>3, <2>1, FirstOccurrencesOfDistinct DEF Order
<1>5. Conf = <<>>
  BY <1>2 DEF Conf
<1> QED BY <1>1, <1>4, <1>5 DEF Promise!SpecInit, Order, Conf, Listed, NodeOf

\* The entries' offsets, in the table's order, are distinct.
LEMMA ListedFacts ==
  ASSUME TableInv
  PROVE  /\ Listed \in Seq(Offsets) /\ Len(Listed) = Len(slots) /\ Distinct(Listed)
         /\ slots \in Seq([offset : Offsets, node : NodeId])
         /\ DOMAIN slots = 1..Len(slots) /\ Len(slots) \in Nat
         /\ \A i \in 1..Len(slots) : Listed[i] = slots[i].offset
         /\ args \in Seq(Offsets)
<1>1. slots \in Seq([offset : Offsets, node : NodeId]) /\ args \in Seq(Offsets)
  BY DEF TableInv, TypeOK
<1>2. DOMAIN slots = 1..Len(slots) /\ Len(slots) \in Nat
  BY <1>1
<1>3. \A i \in 1..Len(slots) : slots[i].offset \in Offsets
  <2> TAKE i \in 1..Len(slots)
  <2>1. slots[i] \in [offset : Offsets, node : NodeId]
    BY <1>1, ElementOfSeq
  <2> QED BY <2>1
<1>4. Listed = [i \in 1..Len(slots) |-> slots[i].offset]
  BY <1>2 DEF Listed
<1>5. Listed \in [1..Len(slots) -> Offsets]
  BY <1>3, <1>4
<1>6. Listed \in Seq(Offsets) /\ Len(Listed) = Len(slots)
  BY <1>2, <1>5
<1>7. Distinct(Listed)
  BY <1>2, <1>4, <1>6 DEF Distinct, TableInv, TableSound
<1> QED BY <1>1, <1>2, <1>4, <1>6, <1>7

\* An entry is found under its offset when no other entry has it.
LEMMA EntryFound ==
  ASSUME NEW sl, NEW i \in DOMAIN sl, \A j \in DOMAIN sl : sl[j].offset = sl[i].offset => j = i
  PROVE  (CHOOSE k \in DOMAIN sl : sl[k].offset = sl[i].offset) = i
OBVIOUS

\* The iterations of the loop leave every offset with the settings it is
\* going to have.
LEMMA SameConf ==
  ASSUME IInv, TableInv', Advances
  PROVE  Conf' = Conf
<1>1. cur' = cur /\ args' = args /\ settings' = settings
  BY DEF Advances
<1>2. Pending' = Pending /\ args[pos] \in Pending
  <2>1. pos \in 1..Len(args) /\ args \in Seq(Offsets)
    BY InLoopFacts DEF IInv
  <2>2. args[pos] \in ToSet(args)
    BY <2>1 DEF ToSet
  <2> QED BY <1>1, <2>2 DEF Pending, Idle, Advances, InLoop
<1>3. Configured' = Configured \cup {args[pos]}
  <2>1. Configured' = {slots'[i].offset : i \in DOMAIN slots'}
    BY DEF Configured
  <2> QED BY <2>1, EntriesAfter DEF IInv, Configured
<1>4. ASSUME NEW o \in Configured, o \notin Pending PROVE NodeOf(o)' = NodeOf(o)
  <2>1. PICK i : i = FindConfig(o) /\ i \in DOMAIN slots /\ slots[i].offset = o
    BY <1>4, FindConfigFound DEF IInv, TableInv
  <2>2. i \in DOMAIN slots' /\ slots'[i].offset = o /\ slots'[i].node = slots[i].node
    BY <1>2, <1>4, <2>1, EntriesAfter DEF IInv
  <2>3. \A j \in DOMAIN slots' : slots'[j].offset = slots'[i].offset => j = i
    BY <2>2 DEF TableInv, TableSound
  <2>4. (CHOOSE k \in DOMAIN slots' : slots'[k].offset = slots'[i].offset) = i
    BY <2>2, <2>3, EntryFound
  <2>5. FindConfig(o)' = i
    BY <1>3, <1>4, <2>2, <2>4 DEF FindConfig
  <2> QED BY <1>2, <1>4, <2>1, <2>2, <2>5 DEF NodeOf
<1>5. ASSUME NEW o \in Pending PROVE NodeOf(o)' = NodeOf(o)
  BY <1>1, <1>2, <1>5 DEF NodeOf
<1>6. \A o \in Configured \cup Pending : NodeOf(o)' = NodeOf(o)
  BY <1>4, <1>5
<1>7. (Configured \cup Pending)' = Configured \cup Pending
  BY <1>2, <1>3
<1> QED BY <1>1, <1>6, <1>7 DEF Conf

\* ... and the order in which they will be listed.
LEMMA SameOrder ==
  ASSUME IInv, Advances
  PROVE  Order' = Order
<1>1. /\ args \in Seq(Offsets) /\ pos \in 1..Len(args) /\ args[pos] \in Offsets
      /\ cur \in NodeId /\ pos \in Nat
  BY InLoopFacts DEF IInv
<1>2. /\ Listed \in Seq(Offsets) /\ Len(Listed) = Len(slots) /\ Distinct(Listed)
      /\ slots \in Seq([offset : Offsets, node : NodeId])
      /\ DOMAIN slots = 1..Len(slots) /\ Len(slots) \in Nat
      /\ \A i \in 1..Len(slots) : Listed[i] = slots[i].offset
  BY ListedFacts DEF IInv
<1>3. CASE /\ args[pos] \notin Configured
           /\ slots' = Append(slots, [offset |-> args[pos], node |-> cur])
  <2> DEFINE e == [offset |-> args[pos], node |-> cur]
             n == Len(slots)
  <2>1. e \in [offset : Offsets, node : NodeId] /\ e.offset = args[pos]
    BY <1>1
  <2>2. slots' = Append(slots, e)
    BY <1>3
  <2> HIDE DEF e
  <2>3. /\ DOMAIN slots' = 1..(n + 1) /\ \A i \in 1..n : slots'[i] = slots[i]
        /\ slots'[n + 1] = e
    BY <1>2, <2>1, <2>2
  <2>4. Listed' = [i \in 1..(n + 1) |-> slots'[i].offset]
    BY <2>3 DEF Listed
  <2>5. /\ Append(Listed, args[pos]) = [i \in 1..(n + 1) |-> Append(Listed, args[pos])[i]]
        /\ \A i \in 1..n : Append(Listed, args[pos])[i] = Listed[i]
        /\ Append(Listed, args[pos])[n + 1] = args[pos]
    BY <1>1, <1>2
  <2>6. \A i \in 1..(n + 1) : slots'[i].offset = Append(Listed, args[pos])[i]
    <3> TAKE i \in 1..(n + 1)
    <3>1. CASE i = n + 1
      BY <2>1, <2>3, <2>5, <3>1
    <3>2. CASE i # n + 1
      <4>1. i \in 1..n
        BY <1>2, <3>2
      <4> QED BY <1>2, <2>3, <2>5, <4>1
    <3> QED BY <3>1, <3>2
  <2>7. Listed' = Append(Listed, args[pos])
    BY <2>4, <2>5, <2>6
  <2>8. \A i \in 1..Len(Listed) : Listed[i] # args[pos]
    BY <1>2, <1>3 DEF Configured
  <2>9. \A j \in 1..pos - 1 : \E i \in 1..Len(Listed) : Listed[i] = args[j]
    BY <1>2, <1>3 DEF IInv, Processed, Advances, InLoop
  <2>10. FirstOccurrences(Listed \o args) = FirstOccurrences(Append(Listed, args[pos]) \o args)
    BY <1>1, <1>2, <2>8, <2>9, NewGoesLast
  <2> QED BY <2>7, <2>10 DEF Order, Advances
<1>4. CASE /\ args[pos] \in Configured
           /\ slots' = [slots EXCEPT ![FindConfig(args[pos])].node = cur]
  <2>1. DOMAIN slots' = DOMAIN slots
    BY <1>4
  <2>2. \A i \in DOMAIN slots : slots'[i].offset = slots[i].offset
    BY EntriesAfter DEF IInv
  <2>3. Listed' = Listed
    BY <2>1, <2>2 DEF Listed
  <2> QED BY <2>3 DEF Order, Advances
<1> QED BY <1>3, <1>4 DEF Advances

\* Between calls no argument is pending, and the table is listed as it is.
LEMMA IdleMap ==
  ASSUME TableInv, Idle
  PROVE  args = <<>> /\ Pending = {} /\ Order = Listed
<1>1. args = <<>> /\ Pending = {}
  BY DEF TableInv, InCall, Idle, Pending
<1>2. Listed \in Seq(Offsets) /\ Distinct(Listed)
  BY ListedFacts
<1>3. Listed \o <<>> = Listed
  BY <1>2
<1> QED BY <1>1, <1>2, <1>3, FirstOccurrencesOfDistinct DEF Order

\* The start of an add is the whole of it to the user.
LEMMA AddBeginMaps ==
  ASSUME IInv, NEW offs \in OffsetArgs, NEW s \in Settings, AddBegin(offs, s)
  PROVE  Promise!Add(offs, s)
<1> DEFINE n == serial + 1
<1>1. offs \in Seq(Offsets) /\ Len(offs) \in Nat
  BY SeqOfIsSeq DEF OffsetArgs
<1>2. Idle /\ args = <<>> /\ Pending = {} /\ Order = Listed
  BY IdleMap DEF IInv, AddBegin
<1>3. /\ slots' = slots /\ outputs' = outputs /\ args' = offs /\ cur' = n /\ cur' # Null
      /\ settings' = [settings EXCEPT ![n] = s] /\ Len(slots) + Len(offs) <= LinesMax
      /\ offs # <<>>
  <2>1. serial \in Nat
    BY DEF IInv, TableInv, TypeOK
  <2> QED BY <2>1 DEF AddBegin, Fits
<1>4. Pending' = ToSet(offs) /\ Configured' = Configured /\ Listed' = Listed
  BY <1>3 DEF Pending, Idle, Configured, Listed
<1>5. /\ Listed \in Seq(Offsets) /\ Len(Listed) = Len(slots) /\ Len(slots) \in Nat
      /\ \A i \in 1..Len(slots) : Listed[i] = slots[i].offset
      /\ slots \in Seq([offset : Offsets, node : NodeId]) /\ DOMAIN slots = 1..Len(slots)
  BY ListedFacts DEF IInv
<1>6. Order' = FirstOccurrences(Order \o offs)
  BY <1>2, <1>3, <1>4 DEF Order
<1> DEFINE t == Listed \o offs
<1>7. /\ t \in Seq(Offsets) /\ Len(t) = Len(slots) + Len(offs)
      /\ ToSet(t) = Configured \cup ToSet(offs)
  <2>1. /\ t \in Seq(Offsets) /\ Len(t) = Len(Listed) + Len(offs)
        /\ \A i \in 1..Len(Listed) + Len(offs) :
              t[i] = IF i <= Len(Listed) THEN Listed[i] ELSE offs[i - Len(Listed)]
    BY <1>1, <1>5, ConcatProperties
  <2>2. Range(t) = Range(Listed) \cup Range(offs)
    BY <1>1, <1>5, RangeConcatenation
  <2>3. ToSet(t) = Range(t) /\ ToSet(offs) = Range(offs) /\ ToSet(Listed) = Range(Listed)
    BY DEF ToSet, Range
  <2>4. ToSet(Listed) = Configured
    <3>1. DOMAIN Listed = DOMAIN slots
      BY DEF Listed
    <3>2. \A i \in DOMAIN slots : Listed[i] = slots[i].offset
      BY DEF Listed
    <3> QED BY <3>1, <3>2 DEF ToSet, Configured
  <2> HIDE DEF t
  <2> QED BY <1>5, <2>1, <2>2, <2>3, <2>4
<1>8. ToSet(Order') = Configured \cup ToSet(offs)
  <2>1. ToSet(FirstOccurrences(t)) = ToSet(t)
    <3> HIDE DEF t
    <3> QED BY <1>7, FirstOccurrencesMembers
  <2>2. Order' = FirstOccurrences(t)
    BY <1>2, <1>6
  <2> HIDE DEF t
  <2> QED BY <1>7, <2>1, <2>2
<1>9. n \in NodeId /\ n \notin live /\ settings \in [NodeId -> Settings]
  <2>1. serial \in 0..MaxNodes /\ serial < MaxNodes /\ settings \in [NodeId -> Settings]
    BY DEF AddBegin, IInv, TableInv, TypeOK
  <2>2. \A m \in live : m <= serial
    BY DEF IInv, TableInv, Linked
  <2> QED BY <2>1, <2>2
<1>10. ASSUME NEW o \in Configured \cup ToSet(offs)
       PROVE  settings'[NodeOf(o)'] = IF o \in ToSet(offs) THEN s ELSE Conf[o]
  <2>1. CASE o \in ToSet(offs)
    BY <1>3, <1>4, <1>9, <2>1 DEF NodeOf
  <2>2. CASE o \notin ToSet(offs)
    <3>1. FindConfig(o)' = FindConfig(o) /\ o \in Configured
      BY <1>3, <1>4, <1>10, <2>2 DEF FindConfig
    <3>2. PICK m : m = slots[FindConfig(o)].node
      OBVIOUS
    <3>3. m \in live /\ m \in NodeId
      BY <3>1, <3>2, FindConfigFound DEF IInv, TableInv, NoDangling, TypeOK
    <3>4. NodeOf(o) = m /\ NodeOf(o)' = m
      BY <1>2, <1>3, <1>4, <2>2, <3>1, <3>2 DEF NodeOf
    <3>5. settings'[m] = settings[m]
      BY <1>3, <1>9, <3>3
    <3> QED BY <1>2, <2>2, <3>1, <3>4, <3>5 DEF Conf
  <2> QED BY <2>1, <2>2
<1>11. Conf' = [o \in ToSet(Order') |-> IF o \in ToSet(offs) THEN s ELSE Conf[o]]
  <2>1. Conf' = [o \in Configured \cup ToSet(offs) |-> settings'[NodeOf(o)']]
    BY <1>4 DEF Conf
  <2> QED BY <1>8, <1>10, <2>1
<1>12. /\ Order' = Promise!FirstOccurrences(Order \o offs)
       /\ Conf' = [o \in Promise!ToSet(Order') |->
                     IF o \in Promise!ToSet(offs) THEN s ELSE Conf[o]]
  BY <1>6, <1>11, SameHelpers
<1>13. Len(Order) + Len(offs) <= LinesMax
  BY <1>2, <1>3, <1>5
<1> QED BY <1>1, <1>3, <1>12, <1>13
        DEF Promise!Add, Promise!Room, Order, Conf, Listed, NodeOf

\* The return of an add shows the user nothing new.
LEMMA AddReturnMaps ==
  ASSUME IInv, AddReturn
  PROVE  Order' = Order /\ Conf' = Conf /\ outputs' = outputs
<1>1. /\ cur # Null /\ pos > Len(args) /\ cur' = Null /\ args' = <<>>
      /\ slots' = slots /\ settings' = settings /\ outputs' = outputs
  BY DEF AddReturn, Idle, heap
<1>2. /\ Listed \in Seq(Offsets) /\ Len(Listed) = Len(slots) /\ Len(slots) \in Nat
      /\ \A i \in 1..Len(slots) : Listed[i] = slots[i].offset
      /\ DOMAIN slots = 1..Len(slots) /\ Distinct(Listed) /\ args \in Seq(Offsets)
  BY ListedFacts DEF IInv
<1>3. pos = Len(args) + 1 /\ Len(args) \in Nat
  BY <1>1, <1>2 DEF IInv, TableInv, InCall
<1>4. \A j \in 1..Len(args) :
        \E i \in DOMAIN slots : slots[i].offset = args[j] /\ slots[i].node = cur
  BY <1>1, <1>3 DEF IInv, Processed
<1>5. Order = Listed
  <2>1. \A j \in 1..Len(args) : \E i \in 1..Len(Listed) : Listed[i] = args[j]
    BY <1>2, <1>4
  <2> QED BY <1>2, <2>1, NothingNew DEF Order
<1>6. Order' = Listed
  <2>1. Listed \o <<>> = Listed
    BY <1>2
  <2>2. Order' = FirstOccurrences(Listed)
    BY <1>1, <2>1 DEF Order, Listed
  <2> QED BY <1>2, <2>2, FirstOccurrencesOfDistinct
<1>7. Pending = ToSet(args) /\ Pending' = {} /\ Configured' = Configured
  BY <1>1 DEF Pending, Idle, Configured
<1>8. Pending \subseteq Configured
  BY <1>2, <1>4, <1>7 DEF ToSet, Configured
<1>9. ASSUME NEW o \in Configured PROVE NodeOf(o)' = NodeOf(o)
  <2>1. FindConfig(o)' = FindConfig(o)
    BY <1>1, <1>7 DEF FindConfig
  <2>2. NodeOf(o)' = slots[FindConfig(o)].node
    BY <1>1, <1>7, <2>1 DEF NodeOf
  <2>3. CASE o \in Pending
    <3>1. PICK j \in 1..Len(args) : args[j] = o
      BY <1>2, <1>7, <2>3 DEF ToSet
    <3>2. PICK i \in DOMAIN slots : slots[i].offset = o /\ slots[i].node = cur
      BY <1>4, <3>1
    <3>3. FindConfig(o) \in DOMAIN slots /\ slots[FindConfig(o)].offset = o
      BY <1>9, FindConfigFound DEF IInv, TableInv
    <3>4. FindConfig(o) = i
      BY <3>2, <3>3 DEF IInv, TableInv, TableSound
    <3> QED BY <2>2, <2>3, <3>2, <3>4 DEF NodeOf
  <2>4. CASE o \notin Pending
    BY <2>2, <2>4 DEF NodeOf
  <2> QED BY <2>3, <2>4
<1>10. Conf' = Conf
  <2>1. (Configured \cup Pending)' = Configured \cup Pending /\ Configured \cup Pending = Configured
    BY <1>7, <1>8
  <2> QED BY <1>1, <1>9, <2>1 DEF Conf
<1> QED BY <1>1, <1>5, <1>6, <1>10

\* Nor does what leaves the object alone.
LEMMA SameMap ==
  ASSUME UNCHANGED <<slots, settings, cur, args>>
  PROVE  Order' = Order /\ Conf' = Conf
<1>1. Configured' = Configured /\ Pending' = Pending /\ Listed' = Listed
  BY DEF Configured, Pending, Idle, Listed
<1>2. \A o : NodeOf(o)' = NodeOf(o)
  BY <1>1 DEF NodeOf, FindConfig
<1> QED BY <1>1, <1>2 DEF Order, Conf

\* The output values set are those of the specification.
LEMMA SetOutputsMaps ==
  ASSUME IInv, NEW vals \in ValueArgs, SetOutputValues(vals)
  PROVE  \E v \in Promise!SeqOf(Values, MaxArg) : Promise!SetValues(v)
<1>1. /\ UNCHANGED <<slots, settings, cur, args>> /\ outputs' = StoredValues(vals)
      /\ Len(vals) <= LinesMax
  BY DEF SetOutputValues, heap, call
<1>2. PICK n \in 0..MaxArg : vals \in [1..n -> Values \cup {BadValue}]
  BY DEF ValueArgs, SeqOf
<1>3. StoredValues(vals) \in SeqOf(Values, MaxArg) /\ Len(StoredValues(vals)) <= LinesMax
  <2>1. CASE BadValue \in ToSet(vals)
    <3>1. <<>> \in [1..0 -> Values]
      OBVIOUS
    <3>2. <<>> \in SeqOf(Values, MaxArg)
      BY <3>1 DEF SeqOf
    <3> QED BY <2>1, <3>2 DEF StoredValues
  <2>2. CASE BadValue \notin ToSet(vals)
    <3>1. \A i \in 1..n : vals[i] # BadValue
      BY <1>2, <2>2 DEF ToSet
    <3>2. vals \in [1..n -> Values]
      BY <1>2, <3>1
    <3> QED BY <1>1, <1>2, <2>2, <3>2 DEF StoredValues, SeqOf
  <2> QED BY <2>1, <2>2
<1>4. Order' = Order /\ Conf' = Conf
  BY <1>1, SameMap
<1>5. Promise!SetValues(StoredValues(vals))
  BY <1>1, <1>3, <1>4 DEF Promise!SetValues, Order, Conf, Listed, NodeOf
<1> QED BY <1>3, <1>5, SameHelpers

\* A reset clears the map.
LEMMA ResetMaps ==
  ASSUME IInv, Reset
  PROVE  Promise!Clear
<1>1. Idle /\ slots' = <<>> /\ outputs' = <<>> /\ cur' = cur /\ args' = args
  BY DEF Reset, call
<1>2. args = <<>>
  BY <1>1, IdleMap DEF IInv
<1>3. Configured' = {} /\ Pending' = {}
  BY <1>1 DEF Configured, Pending, Idle
<1>4. Listed' = <<>>
  BY <1>1 DEF Listed
<1>5. (Listed \o args)' = <<>>
  BY <1>1, <1>2, <1>4
<1>6. Order' = <<>>
  <2>1. <<>> \in Seq(Offsets) /\ Distinct(<<>>)
    BY DEF Distinct
  <2> QED BY <1>5, <2>1, FirstOccurrencesOfDistinct DEF Order
<1>7. Conf' = <<>>
  BY <1>3 DEF Conf
<1> QED BY <1>1, <1>6, <1>7 DEF Promise!Clear, Order, Conf, Listed, NodeOf

\* Every step is a step of the map, or shows nothing of itself.
LEMMA StepMaps ==
  ASSUME IInv, TableInv', [Next]_vars
  PROVE  [Idle /\ Promise!SpecNext]_(Promise!svars)
<1> DEFINE Shows == Idle /\ Promise!SpecNext
           Stutters == Order' = Order /\ Conf' = Conf /\ outputs' = outputs
<1>1. Stutters => UNCHANGED Promise!svars
  BY DEF Promise!svars, Order, Conf, Listed, NodeOf
<1>2. ASSUME UNCHANGED <<slots, settings, cur, args, outputs>> PROVE Stutters
  BY <1>2, SameMap
<1>3. ASSUME NEW offs \in OffsetArgs, NEW s \in Settings, AddBegin(offs, s) PROVE Shows
  <2>1. Promise!Add(offs, s)
    BY <1>3, AddBeginMaps
  <2>2. offs \in Promise!SeqOf(Offsets, MaxArg)
    BY SameHelpers DEF OffsetArgs
  <2> QED BY <1>3, <2>1, <2>2 DEF Promise!SpecNext, AddBegin
<1>4. ASSUME AddNewOffset \/ AddKeepOld \/ AddFreeOld PROVE Stutters
  <2>1. Advances
    BY <1>4, LoopAdvances
  <2> QED BY <2>1, SameConf, SameOrder DEF Advances
<1>5. ASSUME AddReturn PROVE Stutters
  BY <1>5, AddReturnMaps
<1>6. ASSUME NEW vals \in ValueArgs, SetOutputValues(vals) PROVE Shows
  BY <1>6, SetOutputsMaps DEF Promise!SpecNext, SetOutputValues
<1>7. ASSUME Reset PROVE Shows
  BY <1>7, ResetMaps DEF Promise!SpecNext, Reset
<1>8. ASSUME NEW e, Refuse(e) PROVE Stutters
  BY <1>2, <1>8 DEF Refuse, heap, call
<1>9. ASSUME AddNoOffsets PROVE Stutters
  BY <1>8, <1>9 DEF AddNoOffsets
<1>10. ASSUME NEW offs \in OffsetArgs, AddTooMany(offs) \/ AddNoMemory(offs) PROVE Stutters
  BY <1>8, <1>10 DEF AddTooMany, AddNoMemory
<1>11. ASSUME NEW vals \in ValueArgs, SetOutputValuesBadArgs(vals) PROVE Stutters
  BY <1>8, <1>11 DEF SetOutputValuesBadArgs
<1>12. ASSUME UNCHANGED vars PROVE Stutters
  BY <1>2, <1>12 DEF vars, heap, call
<1> HIDE DEF Shows, Stutters
<1>13. Shows \/ Stutters
  BY <1>3, <1>4, <1>5, <1>6, <1>7, <1>9, <1>10, <1>11, <1>12 DEF Next
<1> QED BY <1>1, <1>13 DEF Shows

\* Every reachable state satisfies the inductive invariant.
THEOREM Invariance == Spec => []IInv
<1>1. Init => IInv
  BY InitInv
<1>2. IInv /\ [Next]_vars => IInv'
  BY StepInv
<1> QED BY <1>1, <1>2, PTL DEF Spec

\* The object implements the ordered map.
THEOREM Implements == Spec => ImplementsPromise
<1>1. Init => Promise!SpecInit
  BY MapInit
<1>2. IInv /\ IInv' /\ [Next]_vars => [Idle /\ Promise!SpecNext]_(Promise!svars)
  BY StepMaps DEF IInv
<1> QED BY <1>1, <1>2, Invariance, PTL DEF Spec, ImplementsPromise

\* The variables keep their types.
THEOREM TypeCorrect == Spec => []TypeOK
<1>1. IInv => TypeOK
  BY DEF IInv, TableInv
<1> QED BY <1>1, Invariance, PTL

\* A settings node's count is the number of entries that share it, and no
\* entry points to freed memory, through any sequence of calls.
THEOREM CountsCorrect == Spec => []RefcntExact /\ []NoDangling
<1>1. IInv => RefcntExact /\ NoDangling
  BY DEF IInv, TableInv
<1> QED BY <1>1, Invariance, PTL

\* The list holds exactly the allocated nodes, so that a reset or a free
\* releases all of them, each once.
THEOREM NothingLeaks == Spec => []NoLeak
<1>1. IInv => NoLeak
  BY LinkedReaches DEF IInv, TableInv
<1> QED BY <1>1, Invariance, PTL

\* The table has one entry per offset and never outgrows its array.
THEOREM TableCorrect == Spec => []TableSound
<1>1. IInv => TableSound
  BY DEF IInv, TableInv
<1> QED BY <1>1, Invariance, PTL
===============================================================================
