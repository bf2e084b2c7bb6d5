------------------------------- MODULE EdgeEvents ------------------------------
(***************************************************************************)
(* Edge events of a line request on their way to a client                  *)
(* (lib/edge-event.c): the kernel queues them on the request's file, a     *)
(* read moves some of them to the client's buffer, and the client looks at *)
(* the buffer's events until its next read.                                *)
(***************************************************************************)
EXTENDS Integers, Sequences, FiniteSets

CONSTANTS
  Lines,           \* offsets of the request
  QueueSize,       \* events the kernel queues for the request
  DefaultCapacity, \* capacity of a buffer created with none, 64 in the code
  MaxCapacity,     \* EVENT_BUFFER_MAX_CAPACITY, 1024 in the code
  MaxAsked,        \* bound: capacity and number of events a client asks for
  MaxSeqno         \* bound: edges

ASSUME EdgeAssumption ==
  /\ QueueSize \in Nat \ {0} /\ MaxCapacity \in Nat \ {0}
  /\ DefaultCapacity \in 1..MaxCapacity
  /\ MaxAsked \in Nat /\ MaxSeqno \in Nat

VARIABLES
  queue,      \* kernel: events not read yet
  seqno,      \* kernel: events of the request so far
  lineSeqno,  \* kernel: and of each line
  capacity,   \* the buffer's capacity, 0 if there is no buffer
  events,     \* its events
  numEvents,  \* how many it says they are
  delivered,  \* history: events read so far
  lost        \* history: events the kernel dropped so far

kernel == <<queue, seqno, lineSeqno, lost>>
buffer == <<capacity, events, numEvents>>
vars == <<kernel, buffer, delivered>>

Event == [line : Lines, type : {"rising", "falling"},
          seqno : 1..MaxSeqno, lineSeqno : 1..MaxSeqno]

\* An event all of whose bytes are zero: its type is none of the types.
Zeroed == [type |-> "none"]
Blank(n) == [i \in 1..n |-> Zeroed]

TypeOK ==
  /\ queue \in Seq(Event) /\ Len(queue) <= QueueSize
  /\ seqno \in 0..MaxSeqno /\ lineSeqno \in [Lines -> 0..MaxSeqno]
  /\ capacity \in 0..MaxCapacity
  /\ events \in Seq(Event \cup {Zeroed}) /\ Len(events) = capacity
  /\ numEvents \in 0..capacity
  /\ delivered \in Nat /\ lost \in Nat

Init ==
  /\ queue = <<>> /\ seqno = 0 /\ lineSeqno = [l \in Lines |-> 0]
  /\ capacity = 0 /\ events = <<>> /\ numEvents = 0
  /\ delivered = 0 /\ lost = 0

Least(m, n) == IF m < n THEN m ELSE n

\* An edge on a line.  A full queue drops its oldest event.
Edge(l, type) ==
  LET e == [line |-> l, type |-> type, seqno |-> seqno + 1, lineSeqno |-> lineSeqno[l] + 1]
      full == Len(queue) = QueueSize
  IN /\ seqno < MaxSeqno
     /\ seqno' = seqno + 1
     /\ lineSeqno' = [lineSeqno EXCEPT ![l] = @ + 1]
     /\ queue' = Append(IF full THEN Tail(queue) ELSE queue, e)
     /\ lost' = IF full THEN lost + 1 ELSE lost
     /\ UNCHANGED <<buffer, delivered>>

\* gpiod_edge_event_buffer_new, gpiod_edge_event_buffer_free
CapacityFor(asked) ==
  IF asked = 0 THEN DefaultCapacity ELSE Least(asked, MaxCapacity)
BufferNew(asked) ==
  /\ capacity = 0
  /\ capacity' = CapacityFor(asked)
  /\ events' = Blank(capacity') /\ numEvents' = 0
  /\ UNCHANGED <<kernel, delivered>>
BufferFree ==
  /\ capacity # 0
  /\ capacity' = 0 /\ events' = <<>> /\ numEvents' = 0
  /\ UNCHANGED <<kernel, delivered>>

(***************************************************************************)
(* gpiod_edge_event_buffer_read_fd.  The buffer is zeroed before anything  *)
(* can fail.  The file gives as many of the oldest events as there are and *)
(* as were asked for.                                                      *)
(***************************************************************************)
AskedForUncapped(max) == max
AskedFor(max) == Least(max, capacity)

TakenNewest(n) == SubSeq(queue, Len(queue) - n + 1, Len(queue))
Taken(n) == SubSeq(queue, 1, n)

ReadFd(max) ==
  LET n == Least(AskedFor(max), Len(queue)) IN
  /\ capacity # 0 /\ n > 0
  /\ events' = [i \in 1..capacity |-> IF i <= n THEN Taken(n)[i] ELSE Zeroed]
  /\ numEvents' = Least(n, capacity)
  /\ queue' = SubSeq(queue, n + 1, Len(queue))
  /\ delivered' = delivered + numEvents'
  /\ UNCHANGED <<seqno, lineSeqno, lost, capacity>>

\* The read fails: asked for no event, or interrupted, or told not to block,
\* or the chip is gone while there is none.  The count stays as it was.
ReadFails(max) ==
  /\ capacity # 0
  /\ AskedFor(max) = 0 \/ queue = <<>>
  /\ events' = Blank(capacity)
  /\ UNCHANGED <<kernel, capacity, numEvents, delivered>>

Next ==
  \/ \E l \in Lines, type \in {"rising", "falling"} : Edge(l, type)
  \/ \E n \in 0..MaxAsked : BufferNew(n) \/ ReadFd(n) \/ ReadFails(n)
  \/ BufferFree

Spec == Init /\ [][Next]_vars

-------------------------------------------------------------------------------
\* Event e happened before event f, over the request and over its line.
Older(e, f) ==
  e.seqno < f.seqno /\ (e.line = f.line => e.lineSeqno < f.lineSeqno)

\* The events in the buffer are in the order in which they happened, and so
\* are those still queued, which are later: a client that reads in a loop
\* sees the edges of the request in order, and so those of each line.
InOrder ==
  LET held == {i \in DOMAIN events : events[i] # Zeroed} IN
  /\ \A i, j \in held : i < j => Older(events[i], events[j])
  /\ \A i, j \in DOMAIN queue : i < j => Older(queue[i], queue[j])
  /\ \A i \in held, j \in DOMAIN queue : Older(events[i], queue[j])

\* Each edge was delivered, is queued or was dropped by the kernel: a read
\* takes from the file no more than the buffer holds.
NoneMissing == delivered + Len(queue) + lost = seqno

\* No event is ahead of the kernel's counters.
Numbered(e) == e.seqno <= seqno /\ e.lineSeqno <= lineSeqno[e.line]
AllNumbered ==
  /\ \A l \in Lines : lineSeqno[l] <= seqno
  /\ \A i \in DOMAIN queue : Numbered(queue[i])
  /\ \A i \in DOMAIN events : events[i] # Zeroed => Numbered(events[i])

\* The inductive invariant.
IInv == TypeOK /\ InOrder /\ NoneMissing /\ AllNumbered

===============================================================================
