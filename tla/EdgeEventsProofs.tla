---------------------------- MODULE EdgeEventsProofs ---------------------------
(***************************************************************************)
(* Proofs about the reading of edge events, for any number of lines, any   *)
(* queue and any buffer.                                                   *)
(***************************************************************************)
EXTENDS EdgeEvents, TLAPS

\* What a read takes from the head of a queue, and what it leaves there.
LEMMA Split ==
  ASSUME NEW S, NEW q \in Seq(S), NEW n \in 0..Len(q)
  PROVE  LET rest == SubSeq(q, n + 1, Len(q)) IN
         /\ rest \in Seq(S) /\ Len(rest) = Len(q) - n
         /\ \A i \in 1..n : SubSeq(q, 1, n)[i] = q[i]
         /\ \A i \in 1..Len(rest) : rest[i] = q[i + n]
OBVIOUS

\* A blank event is none that the kernel queued.
LEMMA ZeroedIsNoEvent == Zeroed \notin Event
<1> SUFFICES ASSUME Zeroed \in Event PROVE FALSE OBVIOUS
<1>1. Zeroed.type \in {"rising", "falling"} BY DEF Event
<1> QED BY <1>1 DEF Zeroed

\* A blank buffer has no event that could be out of place.
LEMMA BlankBuffer ==
  ASSUME NEW n \in Nat
  PROVE  /\ Blank(n) \in Seq(Event \cup {Zeroed}) /\ Len(Blank(n)) = n
         /\ \A i \in DOMAIN Blank(n) : Blank(n)[i] = Zeroed
BY DEF Blank

\* Before the first edge nothing is queued, delivered or dropped.
LEMMA InitInv == Init => IInv
<1> SUFFICES ASSUME Init PROVE IInv OBVIOUS
<1> USE EdgeAssumption DEF Init
<1>1. TypeOK BY DEF TypeOK
<1>2. InOrder /\ NoneMissing /\ AllNumbered BY DEF InOrder, NoneMissing, AllNumbered
<1> QED BY <1>1, <1>2 DEF IInv

\* An edge is queued, at the cost of the oldest event if the queue is full.
LEMMA EdgeInv ==
  ASSUME IInv, NEW l \in Lines, NEW type \in {"rising", "falling"}, Edge(l, type)
  PROVE  IInv'
<1> DEFINE e == [line |-> l, type |-> type, seqno |-> seqno + 1,
                 lineSeqno |-> lineSeqno[l] + 1]
           drop == IF Len(queue) = QueueSize THEN 1 ELSE 0
           kept == IF Len(queue) = QueueSize THEN Tail(queue) ELSE queue
           NumberedNow(f) == f.seqno <= seqno' /\ f.lineSeqno <= lineSeqno'[f.line]
<1> USE EdgeAssumption
<1>1. /\ queue \in Seq(Event) /\ Len(queue) <= QueueSize
      /\ seqno \in 0..MaxSeqno /\ lineSeqno \in [Lines -> 0..MaxSeqno]
      /\ delivered \in Nat /\ lost \in Nat
  BY DEF IInv, TypeOK
<1>2. lineSeqno[l] <= seqno BY DEF IInv, AllNumbered
<1>3. /\ seqno < MaxSeqno /\ seqno' = seqno + 1
      /\ lineSeqno' = [lineSeqno EXCEPT ![l] = @ + 1]
      /\ queue' = Append(kept, e)
      /\ lost' = lost + drop
      /\ capacity' = capacity /\ events' = events /\ numEvents' = numEvents
      /\ delivered' = delivered
  BY <1>1 DEF Edge, buffer
<1>4. e \in Event BY <1>1, <1>2, <1>3, SMTT(30) DEF Event
<1>5. /\ kept \in Seq(Event) /\ Len(kept) = Len(queue) - drop /\ Len(kept) < QueueSize
      /\ \A i \in 1..Len(kept) : kept[i] = queue[i + drop]
  BY <1>1
<1> HIDE DEF e, kept, drop
<1>6. /\ queue' \in Seq(Event) /\ Len(queue') = Len(kept) + 1
      /\ \A i \in 1..Len(kept) : queue'[i] = kept[i]
      /\ queue'[Len(kept) + 1] = e
  BY <1>3, <1>4, <1>5
<1>7. drop \in 0..1 BY DEF drop
<1>8. TypeOK'
  <2>1. Len(queue') <= QueueSize BY <1>1, <1>5, <1>6
  <2>2. seqno' \in 0..MaxSeqno /\ lineSeqno' \in [Lines -> 0..MaxSeqno]
    BY <1>1, <1>2, <1>3
  <2>3. lost' \in Nat /\ delivered' \in Nat BY <1>1, <1>3, <1>7
  <2>4. /\ capacity \in 0..MaxCapacity /\ numEvents \in 0..capacity
        /\ events \in Seq(Event \cup {Zeroed}) /\ Len(events) = capacity
    BY DEF IInv, TypeOK
  <2>5. /\ capacity' \in 0..MaxCapacity /\ numEvents' \in 0..capacity'
        /\ events' \in Seq(Event \cup {Zeroed}) /\ Len(events') = capacity'
    BY <2>4, <1>3
  <2> QED BY <1>6, <2>1, <2>2, <2>3, <2>5 DEF TypeOK
<1>9. NoneMissing'
  <2>1. delivered + Len(queue) + lost = seqno BY DEF IInv, NoneMissing
  <2>2. Len(queue') = Len(queue) - drop + 1 BY <1>5, <1>6
  <2> HIDE DEF drop
  <2>3. delivered' + Len(queue') + lost' = seqno'
    BY <2>1, <2>2, <1>1, <1>3, <1>7
  <2> QED BY <2>3 DEF NoneMissing
<1>10. e.seqno = seqno + 1 /\ e.lineSeqno = lineSeqno[l] + 1 /\ e.line = l
  BY DEF e
<1>11. \A f \in Event : Numbered(f) => Older(f, e) /\ NumberedNow(f)
  BY <1>1, <1>3, <1>10 DEF Numbered, Older, Event
<1>12. NumberedNow(e)
  BY <1>1, <1>3, <1>10
<1>13. /\ \A i \in 1..Len(queue) : queue[i] \in Event /\ Numbered(queue[i])
       /\ \A i \in DOMAIN events : events[i] # Zeroed =>
            events[i] \in Event /\ Numbered(events[i])
  BY <1>1 DEF IInv, TypeOK, AllNumbered
<1>14. \A i \in 1..Len(kept) : kept[i] \in Event /\ Numbered(kept[i])
  BY <1>1, <1>5, <1>7, <1>13
<1>15. AllNumbered'
  <2>1. \A i \in 1..(Len(kept) + 1) : NumberedNow(queue'[i])
    <3> SUFFICES ASSUME NEW i \in 1..(Len(kept) + 1) PROVE NumberedNow(queue'[i])
      OBVIOUS
    <3> HIDE DEF NumberedNow
    <3>1. CASE i = Len(kept) + 1 BY <3>1, <1>6, <1>12
    <3>2. CASE i \in 1..Len(kept) BY <3>2, <1>6, <1>14, <1>11
    <3> QED BY <3>1, <3>2, <1>5
  <2>2. \A i \in DOMAIN events : events[i] # Zeroed => NumberedNow(events[i])
    BY <1>11, <1>13
  <2>3. \A k \in Lines : lineSeqno'[k] <= seqno'
    <3>1. \A k \in Lines : lineSeqno[k] <= seqno BY DEF IInv, AllNumbered
    <3> QED BY <3>1, <1>1, <1>3
  <2> QED BY <2>1, <2>2, <2>3, <1>3, <1>6 DEF AllNumbered, Numbered
<1>16. InOrder'
  <2>1. \A i, j \in 1..Len(kept) : i < j => Older(kept[i], kept[j])
    <3>1. \A i, j \in 1..Len(queue) : i < j => Older(queue[i], queue[j])
      BY <1>1 DEF IInv, InOrder
    <3> SUFFICES ASSUME NEW i \in 1..Len(kept), NEW j \in 1..Len(kept), i < j
                 PROVE  Older(kept[i], kept[j])
      OBVIOUS
    <3>2. /\ i + drop \in 1..Len(queue) /\ j + drop \in 1..Len(queue)
          /\ i + drop < j + drop
      BY <1>1, <1>5, <1>7
    <3>3. kept[i] = queue[i + drop] /\ kept[j] = queue[j + drop] BY <1>5
    <3> QED BY <3>1, <3>2, <3>3
  <2>2. \A i, j \in DOMAIN queue' : i < j => Older(queue'[i], queue'[j])
    <3> SUFFICES ASSUME NEW i \in 1..(Len(kept) + 1), NEW j \in 1..(Len(kept) + 1), i < j
                 PROVE  Older(queue'[i], queue'[j])
      BY <1>6
    <3>1. i \in 1..Len(kept) BY <1>5
    <3>2. CASE j = Len(kept) + 1 BY <3>1, <3>2, <1>6, <1>14, <1>11
    <3>3. CASE j \in 1..Len(kept) BY <3>1, <3>3, <1>6, <2>1
    <3> QED BY <3>2, <3>3, <1>5
  <2>3. \A i \in DOMAIN events, j \in DOMAIN queue' :
          events[i] # Zeroed => Older(events[i], queue'[j])
    <3> SUFFICES ASSUME NEW i \in DOMAIN events, NEW j \in 1..(Len(kept) + 1),
                        events[i] # Zeroed
                 PROVE  Older(events[i], queue'[j])
      BY <1>6
    <3>1. CASE j = Len(kept) + 1 BY <3>1, <1>6, <1>13, <1>11
    <3>2. CASE j \in 1..Len(kept)
      <4>1. j + drop \in 1..Len(queue) /\ queue'[j] = queue[j + drop]
        BY <3>2, <1>1, <1>5, <1>6, <1>7
      <4>2. \A k \in 1..Len(queue) : Older(events[i], queue[k])
        BY <1>1 DEF IInv, InOrder
      <4> QED BY <4>1, <4>2
    <3> QED BY <3>1, <3>2, <1>5
  <2>4. \A i, j \in DOMAIN events : events[i] # Zeroed /\ events[j] # Zeroed /\ i < j
          => Older(events[i], events[j])
    BY DEF IInv, InOrder
  <2>5. events' = events BY <1>3 DEF buffer
  <2> QED BY <2>2, <2>3, <2>4, <2>5 DEF InOrder, Older
<1> QED BY <1>8, <1>9, <1>15, <1>16 DEF IInv

\* A buffer that is blank, of whatever length and count, is in order.
LEMMA BlankInv ==
  ASSUME IInv, UNCHANGED <<kernel, delivered>>,
         capacity' \in 0..MaxCapacity, events' = Blank(capacity'),
         numEvents' \in 0..capacity'
  PROVE  IInv'
<1>1. capacity' \in Nat BY EdgeAssumption
<1>2. /\ events' \in Seq(Event \cup {Zeroed}) /\ Len(events') = capacity'
      /\ \A i \in DOMAIN events' : events'[i] = Zeroed
  BY <1>1, BlankBuffer
<1>3. TypeOK' BY <1>2 DEF IInv, TypeOK, kernel
<1>4. InOrder' BY <1>2 DEF IInv, InOrder, Older, kernel
<1>5. NoneMissing' BY DEF IInv, NoneMissing, kernel
<1>6. AllNumbered' BY <1>2 DEF IInv, AllNumbered, Numbered, kernel
<1> QED BY <1>3, <1>4, <1>5, <1>6 DEF IInv

\* A read moves the oldest events of the queue, no more than the buffer has
\* room for.
LEMMA ReadInv ==
  ASSUME IInv, NEW max \in 0..MaxAsked, ReadFd(max)
  PROVE  IInv'
<1> DEFINE n == Least(AskedFor(max), Len(queue))
<1> USE EdgeAssumption
<1>1. /\ queue \in Seq(Event) /\ Len(queue) <= QueueSize
      /\ seqno \in 0..MaxSeqno /\ lineSeqno \in [Lines -> 0..MaxSeqno]
      /\ delivered \in Nat /\ lost \in Nat /\ capacity \in 0..MaxCapacity
  BY DEF IInv, TypeOK
<1>2. n \in 1..Len(queue) /\ n <= capacity
  BY <1>1 DEF ReadFd, Least, AskedFor
<1>3. /\ events' = [i \in 1..capacity |-> IF i <= n THEN Taken(n)[i] ELSE Zeroed]
      /\ numEvents' = n /\ delivered' = delivered + n
      /\ queue' = SubSeq(queue, n + 1, Len(queue))
      /\ seqno' = seqno /\ lineSeqno' = lineSeqno /\ lost' = lost
      /\ capacity' = capacity
  <2>1. Least(n, capacity) = n BY <1>1, <1>2 DEF Least
  <2> QED BY <2>1 DEF ReadFd
<1> HIDE DEF n
<1>4. n \in 0..Len(queue) BY <1>2
<1>5. /\ queue' \in Seq(Event) /\ Len(queue') = Len(queue) - n
      /\ \A i \in 1..Len(queue') : queue'[i] = queue[i + n]
      /\ \A i \in 1..n : Taken(n)[i] = queue[i]
  BY <1>1, <1>3, <1>4, Split DEF Taken
<1>6. /\ DOMAIN events' = 1..capacity
      /\ \A i \in 1..capacity : events'[i] # Zeroed => i \in 1..n /\ events'[i] = queue[i]
      /\ \A i \in 1..capacity : events'[i] \in Event \cup {Zeroed}
  <2>1. \A i \in 1..n : Taken(n)[i] \in Event BY <1>1, <1>2, <1>5
  <2> QED BY <2>1, <1>1, <1>2, <1>3, <1>5
<1>7. TypeOK'
  <2>1. events' \in Seq(Event \cup {Zeroed}) /\ Len(events') = capacity
    BY <1>1, <1>3, <1>6
  <2>2. Len(queue') <= QueueSize /\ delivered' \in Nat
    BY <1>1, <1>2, <1>3, <1>5
  <2>3. numEvents' \in 0..capacity BY <1>1, <1>2, <1>3
  <2> QED BY <2>1, <2>2, <2>3, <1>1, <1>3, <1>5 DEF TypeOK
<1>8. NoneMissing'
  <2>1. delivered + Len(queue) + lost = seqno BY DEF IInv, NoneMissing
  <2>2. Len(queue) \in Nat /\ n \in Nat BY <1>1, <1>2
  <2>3. delivered' + Len(queue') + lost' = seqno'
    <3>1. Len(queue') = Len(queue) - n BY <1>5
    <3>2. delivered' = delivered + n /\ lost' = lost /\ seqno' = seqno BY <1>3
    <3>3. delivered \in Nat /\ lost \in Nat BY <1>1
    <3> QED BY <3>1, <3>2, <3>3, <2>1, <2>2
  <2> QED BY <2>3 DEF NoneMissing
<1>8a. \A i \in 1..Len(queue') :
         i + n \in 1..Len(queue) /\ i + n > n /\ queue'[i] = queue[i + n]
  <2>1. Len(queue) \in Nat /\ n \in Nat BY <1>1, <1>2
  <2>2. \A i \in 1..Len(queue') : i + n \in 1..Len(queue) /\ i + n > n
    BY <2>1, <1>5
  <2> QED BY <2>2, <1>5
<1>9. \A i, j \in 1..Len(queue) : i < j => Older(queue[i], queue[j])
  BY <1>1 DEF IInv, InOrder
<1>10. InOrder'
  <2>1. \A i, j \in 1..capacity : events'[i] # Zeroed /\ events'[j] # Zeroed /\ i < j
          => Older(events'[i], events'[j])
    BY <1>1, <1>2, <1>6, <1>9
  <2>2. \A i, j \in 1..Len(queue') : i < j => Older(queue'[i], queue'[j])
    <3> SUFFICES ASSUME NEW i \in 1..Len(queue'), NEW j \in 1..Len(queue'), i < j
                 PROVE  Older(queue'[i], queue'[j])
      OBVIOUS
    <3>1. i + n < j + n BY <1>2
    <3> QED BY <3>1, <1>9, <1>8a
  <2>3. \A i \in 1..capacity, j \in 1..Len(queue') :
          events'[i] # Zeroed => Older(events'[i], queue'[j])
    <3> SUFFICES ASSUME NEW i \in 1..capacity, NEW j \in 1..Len(queue'),
                        events'[i] # Zeroed
                 PROVE  Older(events'[i], queue'[j])
      OBVIOUS
    <3>1. i \in 1..Len(queue) /\ i < j + n /\ events'[i] = queue[i]
      BY <1>1, <1>2, <1>6
    <3> QED BY <3>1, <1>9, <1>8a
  <2> QED BY <1>5, <1>6, <2>1, <2>2, <2>3 DEF InOrder, Older
<1>11. AllNumbered'
  <2>1. \A i \in 1..Len(queue) : Numbered(queue[i]) BY <1>1 DEF IInv, AllNumbered
  <2>3. \A i \in 1..Len(queue') :
          queue'[i].seqno <= seqno /\ queue'[i].lineSeqno <= lineSeqno[queue'[i].line]
    BY <1>8a, <2>1 DEF Numbered
  <2>4. \A i \in 1..capacity : events'[i] # Zeroed =>
          events'[i].seqno <= seqno /\ events'[i].lineSeqno <= lineSeqno[events'[i].line]
    BY <1>1, <1>2, <1>6, <2>1 DEF Numbered
  <2>5. \A l \in Lines : lineSeqno[l] <= seqno BY DEF IInv, AllNumbered
  <2> QED BY <1>3, <1>5, <1>6, <2>3, <2>4, <2>5 DEF AllNumbered, Numbered
<1> QED BY <1>7, <1>8, <1>10, <1>11 DEF IInv

\* Every step preserves the invariant; one that touches nothing does too.
LEMMA StepInv == IInv /\ [Next]_vars => IInv'
<1> SUFFICES ASSUME IInv, [Next]_vars PROVE IInv' OBVIOUS
<1> USE EdgeAssumption
<1>1. CASE \E l \in Lines, type \in {"rising", "falling"} : Edge(l, type)
  BY <1>1, EdgeInv
<1>2. CASE \E n \in 0..MaxAsked : BufferNew(n)
  <2> PICK n \in 0..MaxAsked : BufferNew(n) BY <1>2
  <2>1. CapacityFor(n) \in 0..MaxCapacity BY DEF CapacityFor, Least
  <2> QED BY <2>1, BlankInv DEF BufferNew
<1>3. CASE \E n \in 0..MaxAsked : ReadFd(n) BY <1>3, ReadInv
<1>4. CASE \E n \in 0..MaxAsked : ReadFails(n)
  <2> PICK n \in 0..MaxAsked : ReadFails(n) BY <1>4
  <2>1. capacity \in 0..MaxCapacity /\ numEvents \in 0..capacity
    BY DEF IInv, TypeOK
  <2> QED BY <2>1, BlankInv DEF ReadFails
<1>5. CASE BufferFree
  <2>1. Blank(0) = <<>> BY DEF Blank
  <2> QED BY <1>5, <2>1, BlankInv DEF BufferFree
<1>6. CASE UNCHANGED vars
  <2>1. TypeOK' BY <1>6 DEF IInv, TypeOK, vars, kernel, buffer
  <2>2. InOrder' BY <1>6 DEF IInv, InOrder, Older, vars, kernel, buffer
  <2>3. NoneMissing' BY <1>6 DEF IInv, NoneMissing, vars, kernel, buffer
  <2>4. AllNumbered' BY <1>6 DEF IInv, AllNumbered, Numbered, vars, kernel, buffer
  <2> QED BY <2>1, <2>2, <2>3, <2>4 DEF IInv
<1> QED BY <1>1, <1>2, <1>3, <1>4, <1>5, <1>6 DEF Next

\* Every reachable state satisfies the inductive invariant.
THEOREM Invariance == Spec => []IInv
<1>1. Init => IInv BY InitInv
<1>2. IInv /\ [Next]_vars => IInv' BY StepInv
<1> QED BY <1>1, <1>2, PTL DEF Spec

\* A client sees the edges in the order in which they happened, whatever
\* the sizes of the kernel's queue and of its own buffer.
THEOREM OrderKept == Spec => []InOrder
<1>1. IInv => InOrder BY DEF IInv
<1> QED BY <1>1, Invariance, PTL

\* An edge is lost only where the kernel's queue overflows.
THEOREM NothingSkipped == Spec => []NoneMissing
<1>1. IInv => NoneMissing BY DEF IInv
<1> QED BY <1>1, Invariance, PTL
===============================================================================
