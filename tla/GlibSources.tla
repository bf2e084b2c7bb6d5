----------------------------- MODULE GlibSources --------------------------------
(***************************************************************************)
(* The GLib bindings (bindings/glib/chip.c, line-request.c): chip and line *)
(* request objects, each with an event source on the file of its handle,   *)
(* and the main loop that calls them back.                                 *)
(*                                                                         *)
(* The loop polls file descriptors, which the kernel gives out lowest      *)
(* first: a source whose file was closed is ready again when another file  *)
(* gets its number.  Signal handlers call the library: they may close,     *)
(* release, watch, request and drop objects in the middle of a batch of    *)
(* events.  An action of the user is enabled outside the loop and in       *)
(* handlers; a method that returns an error changes nothing and has no     *)
(* action.  What follows the use of something that was given up is         *)
(* undefined: a behaviour ends there.                                      *)
(***************************************************************************)
EXTENDS Integers, Sequences, FiniteSets, FiniteSetsExt

CONSTANTS
  Chips, Requests, \* objects
  NumFds,          \* file descriptors
  BufSize,         \* event_buf_size
  MaxEvents        \* bound: events that happen on all lines

ASSUME GlibAssumption ==
  /\ IsFiniteSet(Chips) /\ IsFiniteSet(Requests) /\ Chips \cap Requests = {}
  /\ {NumFds, BufSize, MaxEvents} \subseteq Nat \ {0}
  /\ NumFds >= Cardinality(Chips \cup Requests)
  /\ {"free", "none"} \cap (Chips \cup Requests) = {}

VARIABLES
  life,        \* absent, alive, or gone: finalized
  ref,         \* objects the user holds a reference to
  handle,      \* none, valid, null (chip closed), freed (request released)
  source,      \* objects whose source is attached to the main context
  fd,          \* the descriptor a source polls
  file,        \* the kernel: whose file a descriptor is, or Free
  on,          \* the kernel: objects of which lines are watched or edges detected
  queue,       \* the kernel: how many events wait in the file of an object
  made,        \* how many there were on all of them
  pc,          \* user (outside the loop), dispatch, handler
  ready,       \* sources still to be dispatched
  running,     \* the object whose handler runs
  batch,       \* how many events are in its buffer, with the one it handles
  fault        \* history: what was used after it was given up

objects == <<life, ref, handle, source, fd, fault>>
kernel  == <<file, on, queue, made>>
loop    == <<pc, ready, running, batch>>
vars    == <<objects, kernel, loop>>

Objects == Chips \cup Requests
Free    == "free"
None    == "none"
Fds     == 0 .. NumFds - 1
Faults  == {"none", "method", "source", "assert", "freed handle", "freed buffer",
            "released twice"}

TypeOK ==
  /\ life \in [Objects -> {"absent", "alive", "gone"}]
  /\ ref \subseteq Objects /\ source \subseteq Objects /\ on \subseteq Objects
  /\ handle \in [Objects -> {"none", "valid", "null", "freed"}]
  /\ fd \in [Objects -> Fds] /\ file \in [Fds -> Objects \cup {Free}]
  /\ queue \in [Objects -> 0 .. MaxEvents] /\ made \in 0 .. MaxEvents
  /\ pc \in {"user", "dispatch", "handler"}
  /\ ready \subseteq Objects /\ running \in Objects \cup {None}
  /\ batch \in 0 .. BufSize
  /\ fault \in Faults

Init ==
  /\ life = [o \in Objects |-> "absent"] /\ ref = {}
  /\ handle = [o \in Objects |-> "none"] /\ fd = [o \in Objects |-> 0]
  /\ source = {} /\ file = [f \in Fds |-> Free] /\ on = {}
  /\ queue = [o \in Objects |-> 0] /\ made = 0
  /\ pc = "user" /\ ready = {} /\ running = None /\ batch = 0
  /\ fault = "none"

-----------------------------------------------------------------------------
(* Calls of the user *)

User == pc \in {"user", "handler"} /\ fault = "none"

\* open(2) and the line request ioctl give the lowest free descriptor
LowestFree == Min({f \in Fds : file[f] = Free})

\* the object is made on a new file, and a source for it is attached
Constructed(o) ==
  /\ life[o] = "absent"
  /\ life' = [life EXCEPT ![o] = "alive"]
  /\ ref' = ref \cup {o}
  /\ handle' = [handle EXCEPT ![o] = "valid"]
  /\ fd' = [fd EXCEPT ![o] = LowestFree]
  /\ file' = [file EXCEPT ![LowestFree] = o]
  /\ source' = source \cup {o}
  /\ UNCHANGED <<on, queue, made, fault, loop>>

ChipNew(c) == User /\ Constructed(c)

\* the chip cannot be opened: g_initable_new drops the object and returns the error
ChipNewFails(c) ==
  /\ User /\ life[c] = "absent"
  /\ life' = [life EXCEPT ![c] = "gone"]
  /\ UNCHANGED <<ref, handle, source, fd, fault, kernel, loop>>

\* Mutant: a request's methods do not look.
IsClosedChipsOnly(o) == handle[o] = "null"
\* gpiodglib_chip_is_closed, gpiodglib_line_request_is_released: every method of a
\* closed object sets an error instead of using the handle
IsClosed(o) == handle[o] \in {"null", "freed"}

\* _gpiodglib_line_request_new: the object owns the handle the library returned
RequestNew(r) == Constructed(r)

ChipRequestLines(c, r) ==
  /\ User /\ c \in ref /\ ~IsClosed(c)
  /\ RequestNew(r)

Uses(o) == fault' = IF handle[o] = "valid" THEN fault ELSE "method"

\* watch and unwatch the lines of a chip, or reconfigure a request with and without
\* edge detection; getting information and values uses the handle and no more
Listen(o) ==
  /\ User /\ o \in ref /\ ~IsClosed(o) /\ o \notin on
  /\ on' = on \cup {o}
  /\ Uses(o)
  /\ UNCHANGED <<life, ref, handle, source, fd, file, queue, made, loop>>

Unlisten(o) ==
  /\ User /\ o \in ref /\ ~IsClosed(o) /\ o \in on
  /\ on' = on \ {o}
  /\ Uses(o)
  /\ UNCHANGED <<life, ref, handle, source, fd, file, queue, made, loop>>

\* Mutant: the file of a request is closed only when it is released by name.
CloseFileNot(o) == UNCHANGED <<file, on>>

\* gpiod_chip_close, gpiod_line_request_release: the descriptor is given back and the
\* kernel forgets the watches or stops the edges
CloseFile(o) ==
  /\ file' = [f \in Fds |-> IF file[f] = o THEN Free ELSE file[f]]
  /\ on' = on \ {o}

\* the source is unreferenced and stays attached
ChipClose(c) ==
  /\ User /\ c \in ref /\ handle[c] = "valid"
  /\ handle' = [handle EXCEPT ![c] = "null"]
  /\ CloseFile(c)
  /\ UNCHANGED <<life, ref, source, fd, fault, queue, made, loop>>

\* ... and so it does here; the handle stays, and a second release frees it again
RequestRelease(r) ==
  /\ User /\ r \in ref
  /\ \/ /\ handle[r] = "valid"
        /\ handle' = [handle EXCEPT ![r] = "freed"]
        /\ CloseFile(r)
        /\ UNCHANGED fault
     \/ /\ handle[r] = "freed"
        /\ fault' = "released twice"
        /\ UNCHANGED <<handle, file, on>>
  /\ UNCHANGED <<life, ref, source, fd, queue, made, loop>>

\* Mutant: only the reference to the source is given up.
SourceAfterDisposeKept(o) == source
SourceAfterDispose(o) == source \ {o}

\* _dispose and _finalize: the source goes by its id, the handle unless it is gone
Finalized(o) ==
  /\ life' = [life EXCEPT ![o] = "gone"]
  /\ source' = SourceAfterDispose(o)
  /\ ready' = ready \cap source'
  /\ handle' = [handle EXCEPT ![o] = IF @ = "valid" THEN "freed" ELSE @]
  /\ IF handle[o] = "valid" THEN CloseFile(o) ELSE UNCHANGED <<file, on>>

\* g_object_unref: an emission holds a reference of its own
Unref(o) ==
  /\ User /\ o \in ref
  /\ ref' = ref \ {o}
  /\ IF running = o
       THEN UNCHANGED <<life, handle, source, file, on, ready>>
       ELSE Finalized(o)
  /\ UNCHANGED <<fd, fault, queue, made, pc, running, batch>>

-----------------------------------------------------------------------------
(* The main loop *)

\* the descriptor of a source is readable, whosever file it is now
Readable(o) == file[fd[o]] # Free /\ queue[file[fd[o]]] > 0

Iterate ==
  /\ pc = "user" /\ fault = "none"
  /\ \E o \in source : Readable(o)
  /\ ready' = {o \in source : Readable(o)}
  /\ pc' = "dispatch"
  /\ UNCHANGED <<objects, kernel, running, batch>>

EndIteration ==
  /\ pc = "dispatch" /\ ready = {} /\ fault = "none"
  /\ pc' = "user"
  /\ UNCHANGED <<objects, kernel, ready, running, batch>>

\* one info event, or a buffer of edge events
AtMost(o) == Min({queue[o], IF o \in Chips THEN 1 ELSE BufSize})

\* Mutant: a failed read removes the source.
AfterFailedReadRemoved(o) == source \ {o}
\* the callback returns TRUE all the same
AfterFailedRead(o) == source

Dispatch(o) ==
  /\ pc = "dispatch" /\ fault = "none" /\ o \in ready /\ handle[o] = "valid"
  /\ ready' = ready \ {o}
  /\ \/ /\ batch' = AtMost(o)
        /\ queue' = [queue EXCEPT ![o] = @ - AtMost(o)]
        /\ running' = o /\ pc' = "handler"
        /\ UNCHANGED source
     \/ /\ source' = AfterFailedRead(o)
        /\ UNCHANGED <<batch, queue, running, pc>>
  /\ UNCHANGED <<life, ref, handle, fd, fault, file, on, made>>

\* the callback runs on an object that was closed: the library asserts that there is a
\* chip, and reads the file number out of a request that was freed
DispatchClosed(o) ==
  /\ pc = "dispatch" /\ fault = "none" /\ o \in ready /\ handle[o] # "valid"
  /\ fault' = IF life[o] = "gone" THEN "source"
              ELSE IF o \in Chips THEN "assert" ELSE "freed handle"
  /\ ready' = ready \ {o}
  /\ UNCHANGED <<life, ref, handle, source, fd, kernel, pc, running, batch>>

\* the handler returns, and the emission's reference goes
HandlerReturns ==
  /\ pc = "handler" /\ fault = "none" /\ running \in ref
  /\ batch' = batch - 1
  /\ IF batch = 1 THEN pc' = "dispatch" /\ running' = None
                  ELSE UNCHANGED <<pc, running>>
  /\ UNCHANGED <<objects, kernel, ready>>

\* ... which was the last, in the handler of the last event of the batch
HandlerDropped ==
  /\ pc = "handler" /\ fault = "none" /\ running \notin ref /\ batch = 1
  /\ Finalized(running)
  /\ pc' = "dispatch" /\ running' = None /\ batch' = 0
  /\ UNCHANGED <<ref, fd, fault, queue, made>>

\* ... or before: the loop over the batch goes on in a buffer that went with the object
HandlerDroppedEarly ==
  /\ pc = "handler" /\ fault = "none" /\ running \notin ref /\ batch > 1
  /\ fault' = "freed buffer"
  /\ UNCHANGED <<life, ref, handle, source, fd, kernel, loop>>

-----------------------------------------------------------------------------

\* the kernel: an event on the lines of an object
Happens(o) ==
  /\ fault = "none" /\ o \in on /\ made < MaxEvents
  /\ made' = made + 1
  /\ queue' = [queue EXCEPT ![o] = @ + 1]
  /\ UNCHANGED <<objects, file, on, loop>>

LoopStep ==
  \/ Iterate \/ EndIteration \/ HandlerReturns \/ HandlerDropped \/ HandlerDroppedEarly
  \/ \E o \in Objects : Dispatch(o) \/ DispatchClosed(o)

Next ==
  \/ \E c \in Chips : ChipNew(c) \/ ChipNewFails(c) \/ ChipClose(c)
  \/ \E c \in Chips, r \in Requests : ChipRequestLines(c, r)
  \/ \E r \in Requests : RequestRelease(r)
  \/ \E o \in Objects : Listen(o) \/ Unlisten(o) \/ Unref(o) \/ Happens(o)
  \/ LoopStep

\* the loop is run again and again, handlers return, and a read that may succeed does
\* not fail for ever
Fairness ==
  /\ WF_vars(LoopStep)
  /\ \A o \in Objects : SF_vars(Dispatch(o) /\ pc' = "handler")

Spec == Init /\ [][Next]_vars /\ Fairness

-----------------------------------------------------------------------------
(* Properties *)

\* What a program has closed or released, it has dropped whenever the loop goes on to
\* another source, and it never drops an object in its own handler while more of its events
\* are to be emitted.
Dropped ==
  /\ pc = "dispatch" => \A o \in ref : handle[o] = "valid"
  /\ pc = "handler" /\ batch > 1 => running \in ref

\* A program that drops what it gives up in time, and releases no request twice, never
\* makes the bindings use what was given up: objects may be closed, released and dropped
\* in any order, also in handlers, with their own sources ready in the same iteration and
\* with descriptors that are used again (_dispose, _finalize, is_closed, is_released).
\* One that does not meets the faults of DispatchClosed and HandlerDroppedEarly.
SafeIfDropped == Dropped => fault \in {"none", "released twice"}

\* A descriptor is open exactly as long as its object has its handle: nothing leaks when
\* objects are dropped unclosed, and nothing of another object is closed with them.
FilesOwned ==
  \A o \in Objects :
    {f \in Fds : file[f] = o} = IF handle[o] = "valid" THEN {fd[o]} ELSE {}

\* An event of an object that stays open and referenced is emitted at last, whatever
\* reads fail in between and whatever other objects are busy (the callbacks return TRUE).
Emitted ==
  \A o \in Objects :
    queue[o] > 0 ~> (queue[o] = 0 \/ handle[o] # "valid" \/ fault # "none")

\* assert(chip) in gpiod_chip_read_info_event: the library is never asked to read the
\* events of a chip that was closed.
ChipAsserted == fault # "assert"
=================================================================================
