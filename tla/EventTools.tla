----------------------------- MODULE EventTools ---------------------------------
(***************************************************************************)
(* gpiomon and gpionotify (tools/gpiomon.c, tools/gpionotify.c): find the  *)
(* lines, request them or watch them chip by chip, then poll the chips and *)
(* print what happens on the lines, until enough was printed, nothing      *)
(* happens for the idle timeout, or a read fails.                          *)
(*                                                                         *)
(* gpiomon takes up to a buffer of edge events from each flagged request,  *)
(* gpionotify one info event from each flagged chip, and passes over those *)
(* of another type than the one asked for.  Events go on while the files   *)
(* are opened, between poll and read, and in the middle of a batch.  The   *)
(* kernel drops the oldest edge event of a full queue and the newest info  *)
(* event.                                                                  *)
(***************************************************************************)
EXTENDS LineResolver

CONSTANTS
  BatchSize,   \* EVENT_BUF_SIZE of gpiomon
  QueueSize,   \* the kernel's event queue of a request or a chip
  Wanted,      \* numbers of events to wait for; 0 for no limit
  MaxEvents    \* bound: events on all chips that are remembered; with no limit on those
               \* to print, they are forgotten at times, so that events never end

ASSUME EventToolsAssumption ==
  /\ {BatchSize, QueueSize, MaxEvents} \subseteq Nat \ {0}
  /\ Wanted \subseteq Nat

VARIABLES
  tool,        \* the program that runs
  opts,        \* its limit, idle timeout and type of event
  files,       \* requests or chips that are polled: live, or dead (device gone)
  watched,     \* gpionotify: lines watched of the last of them
  queue,       \* the kernel: the events of each file
  made,        \* ... and how many there were
  flagged,     \* the files poll found ready and the loop did not come to yet
  turn,        \* main's i: the file the loop is at
  batch,       \* events read and not printed
  told,        \* events printed: file, number on it, name printed
  passed,      \* history: events passed over, by file
  lost         \* history: events the kernel dropped, by file

evars == <<tool, opts, files, watched, queue, made, flagged, turn, batch, told, passed,
           lost>>

EventTool == {"gpiomon", "gpionotify"}
AnyType   == "any"
Types(t)  == IF t = "gpiomon" THEN {"edge"} ELSE {"requested", "released"}
NoOpts    == [wanted |-> 0, idle |-> FALSE, type |-> AnyType]

EventInit ==
  /\ tool = "none" /\ opts = NoOpts
  /\ files = <<>> /\ watched = 0 /\ queue = <<>> /\ made = <<>>
  /\ flagged = {} /\ turn = 1 /\ batch = <<>>
  /\ told = <<>> /\ passed = <<>> /\ lost = <<>>

Opening  == Len(files)
AllOpen  == /\ Opening = Len(chips)
            /\ tool = "gpionotify" => watched = Len(LinesOf(Opening - 1))

\* the lines of a file whose events reach it
Heard(f) == IF tool = "gpionotify" /\ f = Opening
              THEN Range(SubSeq(LinesOf(f - 1), 1, watched))
              ELSE Range(LinesOf(f - 1))

-----------------------------------------------------------------------------
(* Options, requests and watches *)

\* the kinds of edges are asked of the kernel: all that come are printed
MonOptions ==
  [wanted : Wanted, idle : BOOLEAN, type : {AnyType}]

\* the type of event is left to the program
NotifyOptions ==
  [wanted : Wanted, idle : BOOLEAN, type : {AnyType, "requested"}]

EventOptions(t, o) ==
  /\ pc = "values"
  /\ tool' = t /\ opts' = o
  /\ pc' = "open"
  /\ UNCHANGED <<StayedOn, files, watched, queue, made, flagged,
                 turn, batch, told, passed, lost>>

NewFile ==
  /\ files' = Append(files, "live")
  /\ queue' = Append(queue, <<>>) /\ made' = Append(made, 0)
  /\ passed' = Append(passed, {}) /\ lost' = Append(lost, {})

ChipHasLines(c) ==
  \A k \in Range(LinesOf(c)) : lines[k].offset < Len(dev[chips[c + 1]])

\* the lines of the next chip are requested together
OpenRequest ==
  /\ pc = "open" /\ tool = "gpiomon" /\ ~AllOpen
  /\ ChipHasLines(Opening)
  /\ NewFile
  /\ UNCHANGED <<rvars, tool, opts, watched, flagged, turn, batch, told>>

\* the next chip is opened, then its lines are watched one by one
OpenWatch ==
  /\ pc = "open" /\ tool = "gpionotify" /\ Opening < Len(chips)
  /\ Opening > 0 => watched = Len(LinesOf(Opening - 1))
  /\ IsGpiochip(chips[Opening + 1])
  /\ NewFile
  /\ watched' = 0
  /\ UNCHANGED <<rvars, tool, opts, flagged, turn, batch, told>>

NextWatched == lines[LinesOf(Opening - 1)[watched + 1]].offset

WatchLine ==
  /\ pc = "open" /\ tool = "gpionotify" /\ Opening > 0
  /\ watched < Len(LinesOf(Opening - 1))
  /\ files[Opening] = "live" /\ NextWatched < Len(dev[chips[Opening]])
  /\ watched' = watched + 1
  /\ UNCHANGED <<rvars, tool, opts, files, queue, made, flagged, turn, batch, told,
                 passed, lost>>

\* a chip is gone, a line is busy, or another chip has not that many lines
OpenFails ==
  /\ pc = "open" /\ ~AllOpen
  /\ Die("request")
  /\ UNCHANGED <<dev, moves, LookupState, evars>>

StartPolling ==
  /\ pc = "open" /\ AllOpen
  /\ pc' = "poll"
  /\ UNCHANGED <<StayedOn, evars>>

-----------------------------------------------------------------------------
(* The loop *)

Ready == {f \in DOMAIN files : queue[f] # <<>> \/ files[f] = "dead"}

Poll ==
  /\ pc = "poll" /\ Ready # {}
  /\ flagged' = Ready
  /\ turn' = 1 /\ pc' = "round"
  /\ UNCHANGED <<StayedOn, tool, opts, files, watched, queue, made, batch,
                 told, passed, lost>>

IdleTimeout ==
  /\ pc = "poll" /\ opts.idle /\ Ready = {}
  /\ pc' = "done"
  /\ UNCHANGED <<StayedOn, evars>>

EndRound ==
  /\ pc = "round" /\ turn > Len(files)
  /\ pc' = "poll" /\ flagged' = {}
  /\ UNCHANGED <<StayedOn, tool, opts, files, watched, queue, made, turn,
                 batch, told, passed, lost>>

SkipFile ==
  /\ pc = "round" /\ turn <= Len(files) /\ turn \notin flagged
  /\ turn' = turn + 1
  /\ UNCHANGED <<rvars, tool, opts, files, watched, queue, made, flagged, batch, told,
                 passed, lost>>

AtMost(q) == LET most == IF tool = "gpiomon" THEN BatchSize ELSE 1
             IN  IF Len(q) < most THEN Len(q) ELSE most

ReadBatch ==
  /\ pc = "round" /\ turn \in flagged
  /\ files[turn] = "live"
  /\ batch' = SubSeq(queue[turn], 1, AtMost(queue[turn]))
  /\ queue' = [queue EXCEPT ![turn] = SubSeq(@, AtMost(@) + 1, Len(@))]
  /\ pc' = "print"
  /\ UNCHANGED <<StayedOn, tool, opts, files, watched, made, flagged,
                 turn, told, passed, lost>>

ReadBatchFails ==
  /\ pc = "round" /\ turn \in flagged
  /\ files[turn] = "dead"
  /\ Die("io")
  /\ UNCHANGED <<dev, moves, LookupState, evars>>

\* get_line_name: the name read when the line was found
NameAt(f, o) == seen[chips[f]][o + 1]

\* Mutant: one event more is printed.
EnoughLate(n) == opts.wanted > 0 /\ n > opts.wanted
Enough(n) == opts.wanted > 0 /\ n >= opts.wanted

\* Mutant: poll again after one of the files that are ready.
AfterPrintPoll ==
  IF Enough(Len(told) + 1)
    THEN pc' = "done" /\ UNCHANGED turn
    ELSE /\ pc' = IF Len(batch) = 1 THEN "poll" ELSE pc
         /\ UNCHANGED turn

\* Mutant: the loop goes on to the next file after one event.
AfterPrintOne ==
  IF Enough(Len(told) + 1) THEN pc' = "done" /\ UNCHANGED turn
                           ELSE pc' = "round" /\ turn' = turn + 1

\* the event printed is the last one wanted, the last of its batch, or neither
AfterPrint ==
  IF Enough(Len(told) + 1)
    THEN pc' = "done" /\ UNCHANGED turn
    ELSE IF Len(batch) = 1
           THEN pc' = "round" /\ turn' = turn + 1
           ELSE UNCHANGED <<pc, turn>>

\* event_print: the line and its name, and of gpionotify the type of event
Printed(f, e) == [file |-> f, n |-> e.n, name |-> NameAt(f, e.offset)]
InfoPrinted(f, e) ==
  [file |-> f, n |-> e.n, name |-> NameAt(f, e.offset), type |-> e.type]

PrintEvent ==
  /\ pc = "print"
  /\ opts.type \in {AnyType, Head(batch).type}
  /\ told' = Append(told, IF tool = "gpiomon" THEN Printed(turn, Head(batch))
                                              ELSE InfoPrinted(turn, Head(batch)))
  /\ batch' = Tail(batch)
  /\ AfterPrint
  /\ UNCHANGED <<StayedOn, tool, opts, files, watched, queue, made,
                 flagged, passed, lost>>

\* an event of another type is not counted
PassOver ==
  /\ pc = "print"
  /\ opts.type \notin {AnyType, Head(batch).type}
  /\ passed' = [passed EXCEPT ![turn] = @ \cup {Head(batch).n}]
  /\ batch' = Tail(batch)
  /\ pc' = "round" /\ turn' = turn + 1
  /\ UNCHANGED <<StayedOn, tool, opts, files, watched, queue, made,
                 flagged, told, lost>>

EventsDone ==
  /\ pc = "done"
  /\ Die("ok")
  /\ UNCHANGED <<dev, moves, LookupState, evars>>

-----------------------------------------------------------------------------
(* The world *)

\* the kernel's linereq_put_event and lineinfo_changed_notify
Happens(f, k, type) ==
  LET event == [n |-> made[f] + 1, offset |-> lines[k].offset, type |-> type]
      full  == Len(queue[f]) = QueueSize
  IN  /\ pc # "exit" /\ files[f] = "live" /\ k \in Heard(f)
      /\ FoldSeq(+, 0, made) < MaxEvents
      /\ made' = [made EXCEPT ![f] = @ + 1]
      /\ IF full /\ tool = "gpionotify"
           THEN lost' = [lost EXCEPT ![f] = @ \cup {event.n}] /\ UNCHANGED queue
           ELSE /\ queue' = [queue EXCEPT ![f] =
                               Append(IF full THEN Tail(@) ELSE @, event)]
                /\ lost' = IF full
                             THEN [lost EXCEPT ![f] = @ \cup {queue[f][1].n}]
                             ELSE lost
      /\ UNCHANGED <<rvars, tool, opts, files, watched, flagged, turn, batch, told,
                     passed>>

\* What was printed, passed over or dropped is forgotten, and the events that wait are
\* numbered from 1: no step of a program, but what lets a file be busy for ever.
Forget ==
  /\ pc \in {"poll", "round"} /\ opts.wanted = 0
  /\ \E f \in DOMAIN files : made[f] > Len(queue[f])
  /\ queue' = [f \in DOMAIN files |->
                 [j \in DOMAIN queue[f] |-> [queue[f][j] EXCEPT !.n = j]]]
  /\ made' = [f \in DOMAIN files |-> Len(queue[f])]
  /\ told' = <<>>
  /\ passed' = [f \in DOMAIN files |-> {}] /\ lost' = [f \in DOMAIN files |-> {}]
  /\ UNCHANGED <<rvars, tool, opts, files, watched, flagged, turn, batch>>

FilesDie(p) ==
  files' = [f \in DOMAIN files |-> IF chips[f] = p THEN "dead" ELSE files[f]]

-----------------------------------------------------------------------------

EventStep ==
  \/ OpenRequest \/ OpenWatch \/ WatchLine \/ OpenFails \/ StartPolling
  \/ Poll \/ IdleTimeout \/ EndRound \/ SkipFile
  \/ ReadBatch \/ ReadBatchFails \/ PrintEvent \/ PassOver \/ EventsDone

EventNext ==
  \/ \E o \in MonOptions : EventOptions("gpiomon", o)
  \/ \E o \in NotifyOptions : EventOptions("gpionotify", o)
  \/ EventStep
  \/ \E f \in DOMAIN files, k \in DOMAIN lines, type \in Types(tool) :
       Happens(f, k, type)
  \/ Forget

-----------------------------------------------------------------------------
(* Properties *)

Numbers(s) == [j \in DOMAIN s |-> s[j].n]
Increasing(s) == \A j, k \in DOMAIN s : j < k => s[j] < s[k]
Waiting(f)   == f \in DOMAIN queue /\ queue[f] # <<>>
Unprinted(f) == IF f = turn THEN Numbers(batch) ELSE <<>>

Coming(f)    == Unprinted(f) \o Numbers(queue[f])

\* The events of file f are printed in the order in which they happened, and before
\* those that were read and not printed and those in the queue, which are in order too.
InOrder(f) ==
  /\ Increasing(Coming(f))
  /\ \A j \in {j \in DOMAIN told : told[j].file = f} :
       /\ \A k \in DOMAIN Coming(f) : told[j].n < Coming(f)[k]
       /\ \A k \in DOMAIN told : told[k].file = f /\ j < k => told[j].n < told[k].n

EventsOf(f) ==
  {told[j].n : j \in {j \in DOMAIN told : told[j].file = f}}
  \cup passed[f] \cup lost[f] \cup {queue[f][j].n : j \in DOMAIN queue[f]}
  \cup (IF f = turn THEN {batch[j].n : j \in DOMAIN batch} ELSE {})

\* Each event of a line was printed once, or is in the buffer or in the queue, in this
\* order and in the order in which they happened, or is of another type, or was dropped
\* by a full queue: with several files polled in turn into one buffer, batches that end
\* anywhere, and events that come while the others are read (main of gpiomon and of
\* gpionotify).
NothingSkipped ==
  \A f \in DOMAIN files :
    /\ InOrder(f)
    /\ EventsOf(f) = 1 .. made[f]
    /\ opts.type = AnyType => passed[f] = {}

\* The program prints no more events than it was asked to wait for, counted over all
\* chips and without those of another type, and ends well only when it has printed
\* them or when the idle timeout was asked for: "exit after processing num events".
StopsForCause ==
  /\ opts.wanted > 0 => Len(told) <= opts.wanted
  /\ why = "ok" /\ tool \in EventTool =>
       opts.idle \/ (opts.wanted > 0 /\ Len(told) = opts.wanted)

\* However busy the files are, each that has an event is read, and the event printed or
\* passed over, before the program polls and reads for ever without it: a round comes to
\* every file that poll found ready (the loops over pollfds of gpiomon and gpionotify).
\* Reads take the first event of the queue, so each event's turn comes.
TakenUp(f) == pc = "print" /\ turn = f
AllHeard == \A p \in Paths : Waiting(p + 1) ~> (TakenUp(p + 1) \/ pc = "exit")
=================================================================================
