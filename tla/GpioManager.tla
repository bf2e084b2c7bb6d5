----------------------------- MODULE GpioManager ------------------------------
(***************************************************************************)
(* The gpio-manager daemon (dbus/manager): it exports one D-Bus object per *)
(* GPIO chip, following udev, one per line of each chip, following the     *)
(* kernel's line-info events, and one per line request made by a client.   *)
(*                                                                         *)
(* The daemon is one thread running a main loop: an action is one callback *)
(* it dispatches, or one iteration of the enumeration it does at start.    *)
(* Everything else runs at the same time as the daemon and is external:    *)
(* chips come and go, udev queues the news, other processes take and drop  *)
(* lines, the kernel queues line-info events on the daemon's chip handles. *)
(***************************************************************************)
EXTENDS Integers, Sequences, FiniteSets, SequencesExt, OffsetLists

CONSTANTS
  Chips,      \* chip names, the keys of the daemon's chip table
  Lines,      \* line offsets of every chip
  MaxPlugs,   \* bound: times a chip is plugged in
  MaxReq,     \* bound: greatest request id the daemon gets to allocate
  MaxUevents, \* bound: uevents queued
  InfoFifo,   \* events the kernel queues on a chip handle before it drops any
  MaxDeaths   \* bound: times the daemon is stopped from outside

ASSUME ManagerAssumption ==
  /\ MaxPlugs \in Nat /\ MaxReq \in Nat /\ MaxUevents \in Nat
  /\ InfoFifo \in Nat /\ MaxDeaths \in Nat
  /\ Lines \subseteq Nat /\ IsFiniteSet(Lines)

VARIABLES
  \* outside the daemon
  present,   \* the instance of each chip that is plugged in, 0 if none
  plugs,     \* instances of each chip so far
  uevents,   \* udev events the daemon has not received yet
  owner,     \* the kernel's holder of each line
  infoq,     \* line-info events queued on the daemon's chip handles
  lost,      \* lines of a chip whose last event the kernel dropped
  deaths,
  \* the daemon
  status,    \* "off", "init" (created, bus not acquired), "starting", "running"
  pending,   \* chips the enumeration at start has yet to process
  chips,     \* the chip table: the instance each exported chip has open, or 0
  lines,     \* properties of each exported line object: used, managed, path
  reqs,      \* the request table: id -> chip, instance and lines held
  ids,       \* req_id_root: the ids in use
  asserted   \* an assertion of the daemon failed

kernel == <<present, plugs, owner>>
info == <<infoq, lost>>
tables == <<chips, lines, reqs, ids>>
vars == <<kernel, uevents, info, deaths, status, pending, tables, asserted>>

Nobody == -1
Other == -2          \* another process, or a kernel driver
NoPath == -1
Ids == 0..MaxReq
Holders == Ids \cup {Nobody, Other}

TypeOK ==
  /\ present \in [Chips -> 0..MaxPlugs] /\ plugs \in [Chips -> 0..MaxPlugs]
  /\ uevents \in Seq([action : {"bind", "unbind"}, chip : Chips])
  /\ owner \in [Chips -> [Lines -> Holders]]
  /\ infoq \in [Chips -> Seq([line : Lines, used : BOOLEAN])]
  /\ lost \in [Chips -> SUBSET Lines]
  /\ deaths \in 0..MaxDeaths
  /\ status \in {"off", "init", "starting", "running"}
  /\ pending \in SUBSET Chips
  /\ chips \in [Chips -> 0..MaxPlugs]
  /\ lines \in [Chips -> [Lines -> [used : BOOLEAN, managed : BOOLEAN,
                                    path : Ids \cup {NoPath}]]]
  /\ ids \in SUBSET Ids
  /\ DOMAIN reqs \subseteq Ids
  /\ \A id \in DOMAIN reqs :
       reqs[id] \in [chip : Chips, inst : 1..MaxPlugs, held : SUBSET Lines \ {{}}]
  /\ asserted \in BOOLEAN

BlankLine == [used |-> FALSE, managed |-> FALSE, path |-> NoPath]
FreeLines == [l \in Lines |-> Nobody]

Init ==
  /\ present \in [Chips -> {0, 1}] /\ plugs = present
  /\ uevents = <<>>
  /\ owner = [c \in Chips |-> FreeLines]
  /\ infoq = [c \in Chips |-> <<>>] /\ lost = [c \in Chips |-> {}]
  /\ deaths = 0
  /\ status = "off" /\ pending = {}
  /\ chips = [c \in Chips |-> 0]
  /\ lines = [c \in Chips |-> [l \in Lines |-> BlankLine]]
  /\ reqs = <<>> /\ ids = {}
  /\ asserted = FALSE

-------------------------------------------------------------------------------
(***************************************************************************)
(* The kernel, udev and the other processes.                               *)
(***************************************************************************)
\* The daemon's handle on chip c is on the instance that is plugged in.
Open(c) == chips[c] # 0 /\ chips[c] = present[c]

\* The lines in S change: an event for each is queued on the daemon's handle,
\* in the order of offsets, as far as the queue has room.
Notify(c, S, used) ==
  LET order == Ascending(S)
      room  == InfoFifo - Len(infoq[c])
      kept  == SubSeq(order, 1, IF Len(order) < room THEN Len(order) ELSE room)
  IN IF ~Open(c) THEN UNCHANGED info
     ELSE /\ infoq' = [infoq EXCEPT ![c] =
                        @ \o [i \in 1..Len(kept) |-> [line |-> kept[i], used |-> used]]]
          /\ lost' = [lost EXCEPT ![c] = (@ \ S) \cup (S \ Range(kept))]

PlugIn(c) ==
  /\ present[c] = 0 /\ plugs[c] < MaxPlugs /\ Len(uevents) < MaxUevents
  /\ plugs' = [plugs EXCEPT ![c] = @ + 1]
  /\ present' = [present EXCEPT ![c] = plugs[c] + 1]
  /\ uevents' = Append(uevents, [action |-> "bind", chip |-> c])
  /\ UNCHANGED <<owner, info, deaths, status, pending, tables, asserted>>

\* The chip's lines go with it; the daemon keeps a handle on nothing.
Unplug(c) ==
  /\ present[c] # 0 /\ Len(uevents) < MaxUevents
  /\ present' = [present EXCEPT ![c] = 0]
  /\ owner' = [owner EXCEPT ![c] = FreeLines]
  /\ infoq' = [infoq EXCEPT ![c] = <<>>]
  /\ lost' = [lost EXCEPT ![c] = {}]
  /\ uevents' = Append(uevents, [action |-> "unbind", chip |-> c])
  /\ UNCHANGED <<plugs, deaths, status, pending, tables, asserted>>

OtherTakes(c, l) ==
  /\ present[c] # 0 /\ owner[c][l] = Nobody
  /\ owner' = [owner EXCEPT ![c][l] = Other]
  /\ Notify(c, {l}, TRUE)
  /\ UNCHANGED <<present, plugs, uevents, deaths, status, pending, tables, asserted>>

OtherDrops(c, l) ==
  /\ present[c] # 0 /\ owner[c][l] = Other
  /\ owner' = [owner EXCEPT ![c][l] = Nobody]
  /\ Notify(c, {l}, FALSE)
  /\ UNCHANGED <<present, plugs, uevents, deaths, status, pending, tables, asserted>>

\* The daemon's process is gone: the kernel takes its lines back.
ProcessGone ==
  /\ owner' = [c \in Chips |-> [l \in Lines |->
                 IF owner[c][l] \in Ids THEN Nobody ELSE owner[c][l]]]
  /\ infoq' = [c \in Chips |-> <<>>] /\ lost' = [c \in Chips |-> {}]
  /\ chips' = [c \in Chips |-> 0]
  /\ lines' = [c \in Chips |-> [l \in Lines |-> BlankLine]]
  /\ reqs' = <<>> /\ ids' = {}
  /\ status' = "off" /\ pending' = {}

\* Stopped by a signal, or by g_error when the bus or its name is lost.
Die ==
  /\ status # "off" /\ deaths < MaxDeaths
  /\ deaths' = deaths + 1
  /\ ProcessGone
  /\ UNCHANGED <<present, plugs, uevents, asserted>>

\* udev has nobody to deliver an event to.
UeventLost ==
  /\ status = "off" /\ uevents # <<>>
  /\ uevents' = Tail(uevents)
  /\ UNCHANGED <<kernel, info, deaths, status, pending, tables, asserted>>

-------------------------------------------------------------------------------
(***************************************************************************)
(* Creation and start.                                                     *)
(***************************************************************************)
\* main: the daemon is created and with it the udev client, which listens
\* from now on.  The service is restarted whenever it ends.
DaemonNew ==
  /\ status = "off"
  /\ status' = "init" /\ asserted' = FALSE
  /\ UNCHANGED <<kernel, uevents, info, deaths, pending, tables>>

\* No handler is connected to the udev client before the daemon is started.
UeventIgnored ==
  /\ status = "init" /\ uevents # <<>>
  /\ uevents' = Tail(uevents)
  /\ UNCHANGED <<kernel, info, deaths, status, pending, tables, asserted>>

\* The chips udev lists.
EnumeratedNone == {}
Enumerated == {c \in Chips : present[c] # 0}

\* gpiodbus_daemon_start: the handler is connected, then the chips there
\* are get enumerated.
Start ==
  /\ status = "init"
  /\ status' = "starting"
  /\ pending' = Enumerated
  /\ UNCHANGED <<kernel, uevents, info, deaths, tables, asserted>>

(***************************************************************************)
(* gpiodbus_daemon_export_chip: open the chip, watch and export its lines, *)
(* enter it in the table.  Opening fails if the chip is gone by now.       *)
(***************************************************************************)
ExportedLineUnread(c, l) == BlankLine
ExportedLine(c, l) == [BlankLine EXCEPT !.used = owner[c][l] # Nobody]

ExportChip(c) ==
  \/ /\ present[c] = 0
     /\ UNCHANGED <<owner, info, tables, asserted>>
  \/ /\ present[c] # 0 /\ chips[c] = 0
     /\ chips' = [chips EXCEPT ![c] = present[c]]
     /\ lines' = [lines EXCEPT ![c] = [l \in Lines |-> ExportedLine(c, l)]]
     /\ UNCHANGED <<owner, info, reqs, ids, asserted>>

\* It is in the table already: g_assert ends the process.
ExportAsserts(c) ==
  /\ present[c] # 0 /\ chips[c] # 0
  /\ asserted' = TRUE
  /\ ProcessGone

ProcessChipDev(c) ==
  /\ status = "starting" /\ c \in pending
  /\ \/ /\ ExportChip(c)
        /\ pending' = pending \ {c}
        /\ UNCHANGED status
     \/ ExportAsserts(c)
  /\ UNCHANGED <<present, plugs, uevents, deaths>>

Started ==
  /\ status = "starting" /\ pending = {}
  /\ status' = "running"
  /\ UNCHANGED <<kernel, uevents, info, deaths, pending, tables, asserted>>

-------------------------------------------------------------------------------
(***************************************************************************)
(* The main loop.                                                          *)
(***************************************************************************)
\* The lines of chip c the requests in R hold in the kernel.
HeldBy(R, c) == UNION {reqs[id].held : id \in {i \in R : reqs[i].chip = c}}
OnInstance(R, c) == {id \in R : reqs[id].chip = c /\ reqs[id].inst = present[c]}

\* gpiodbus_daemon_request_data_free, for every request in R: the line
\* objects are unmanaged, the id is free again, the lines are released.
LinesKeepPath(R) ==
  [c \in Chips |-> [l \in Lines |->
     IF l \in HeldBy(R, c) THEN [lines[c][l] EXCEPT !.managed = FALSE] ELSE lines[c][l]]]
LinesUnmanaged(R) ==
  [c \in Chips |-> [l \in Lines |->
     IF l \in HeldBy(R, c) THEN [lines[c][l] EXCEPT !.managed = FALSE, !.path = NoPath]
                           ELSE lines[c][l]]]
LinesNotReleased(R) == owner
LinesReleased(R) ==
  [c \in Chips |-> [l \in Lines |->
     IF l \in HeldBy(OnInstance(R, c), c) THEN Nobody ELSE owner[c][l]]]
IdFreeForgotten(R) == ids
IdFree(R) == ids \ R
FreeRequests(R) ==
  /\ reqs' = [id \in DOMAIN reqs \ R |-> reqs[id]]
  /\ ids' = IdFree(R)
  /\ owner' = LinesReleased(R)

\* gpiodbus_daemon_chip_data_free: the chip's requests go first, then its
\* line objects and its handle, with the events queued there.
RequestsOf(c) == {id \in DOMAIN reqs : reqs[id].chip = c}
UnexportChip(c) ==
  \/ /\ chips[c] = 0
     /\ UNCHANGED <<owner, info, tables>>
  \/ /\ chips[c] # 0
     /\ FreeRequests(RequestsOf(c))
     /\ chips' = [chips EXCEPT ![c] = 0]
     /\ lines' = [LinesUnmanaged(RequestsOf(c)) EXCEPT ![c] = [l \in Lines |-> BlankLine]]
     /\ infoq' = [infoq EXCEPT ![c] = <<>>]
     /\ lost' = [lost EXCEPT ![c] = {}]

\* gpiodbus_daemon_on_uevent
OnUevent ==
  LET e == Head(uevents) IN
  /\ status = "running" /\ uevents # <<>>
  /\ uevents' = Tail(uevents)
  /\ \/ e.action = "bind" /\ ExportChip(e.chip) /\ UNCHANGED <<status, pending>>
     \/ e.action = "bind" /\ ExportAsserts(e.chip)
     \/ e.action = "unbind" /\ UnexportChip(e.chip) /\ UNCHANGED <<status, pending, asserted>>
  /\ UNCHANGED <<present, plugs, deaths>>

\* gpiodbus_daemon_on_info_event: the line object takes the properties the
\* event carries.  They say nothing of who manages the line.
OnInfoEvent(c) ==
  LET e == Head(infoq[c]) IN
  /\ status = "running" /\ chips[c] # 0 /\ infoq[c] # <<>>
  /\ lines' = [lines EXCEPT ![c][e.line].used = e.used]
  /\ infoq' = [infoq EXCEPT ![c] = Tail(@)]
  /\ UNCHANGED <<kernel, lost, uevents, deaths, status, pending, chips, reqs, ids, asserted>>

\* gpiodbus_id_alloc: the lowest id that is not in use.
IdAlloc == CHOOSE i \in 0..(MaxReq + 1) : i \notin ids /\ \A j \in 0..(i - 1) : j \in ids

\* The library refuses a request of no lines, the kernel one of a line that
\* is taken or of a chip that is gone.
Granted(c, S) == S # {} /\ Open(c) /\ \A l \in S : owner[c][l] = Nobody

\* gpiodbus_daemon_handle_request_lines.  A refused request changes nothing.
HandleRequestLines(c, S) ==
  LET id == IdAlloc IN
  /\ status = "running" /\ chips[c] # 0 /\ Granted(c, S)
  /\ id \in Ids
  /\ owner' = [owner EXCEPT ![c] = [l \in Lines |-> IF l \in S THEN id ELSE @[l]]]
  /\ Notify(c, S, TRUE)
  /\ ids' = ids \cup {id}
  /\ reqs' = [i \in DOMAIN reqs \cup {id} |->
                IF i = id THEN [chip |-> c, inst |-> chips[c], held |-> S] ELSE reqs[i]]
  /\ lines' = [lines EXCEPT ![c] = [l \in Lines |->
                 IF l \in S THEN [@[l] EXCEPT !.managed = TRUE, !.path = id] ELSE @[l]]]
  /\ UNCHANGED <<present, plugs, uevents, deaths, status, pending, chips, asserted>>

\* gpiodbus_daemon_handle_release_lines, on any request object there is.
HandleReleaseLines(id) ==
  /\ status = "running" /\ id \in DOMAIN reqs
  /\ FreeRequests({id})
  /\ lines' = LinesUnmanaged({id})
  /\ IF reqs[id].inst = present[reqs[id].chip]
     THEN Notify(reqs[id].chip, reqs[id].held, FALSE) ELSE UNCHANGED info
  /\ UNCHANGED <<present, plugs, uevents, deaths, status, pending, chips, asserted>>

-------------------------------------------------------------------------------
Environment ==
  \/ \E c \in Chips : PlugIn(c) \/ Unplug(c)
  \/ \E c \in Chips, l \in Lines : OtherTakes(c, l) \/ OtherDrops(c, l)
  \/ UeventLost

Daemon ==
  \/ DaemonNew \/ Start \/ Started
  \/ UeventIgnored
  \/ \E c \in Chips : ProcessChipDev(c)
  \/ OnUevent
  \/ \E c \in Chips : OnInfoEvent(c)

Clients ==
  \/ \E c \in Chips, S \in SUBSET Lines : HandleRequestLines(c, S)
  \/ \E id \in Ids : HandleReleaseLines(id)

Next == Environment \/ Daemon \/ Clients \/ Die

(***************************************************************************)
(* systemd restarts the service, the main loop dispatches what is queued   *)
(* (events of one chip do not hold back those of another), and start runs  *)
(* to its end.  Nothing is assumed of the environment and the clients.     *)
(***************************************************************************)
Fairness ==
  /\ WF_vars(DaemonNew) /\ WF_vars(Start) /\ WF_vars(Started)
  /\ WF_vars(UeventLost)
  /\ WF_vars(OnUevent)
  /\ \A c \in Chips : WF_vars(ProcessChipDev(c)) /\ WF_vars(OnInfoEvent(c))

Spec == Init /\ [][Next]_vars /\ Fairness

-------------------------------------------------------------------------------
(***************************************************************************)
(* Correctness.                                                            *)
(***************************************************************************)
\* Request id holds line l of chip c.
Holds(id, c, l) == id \in DOMAIN reqs /\ reqs[id].chip = c /\ l \in reqs[id].held

\* A line object says it is managed, and by which request, exactly when that
\* request is in the request table and holds the line.
ManagedMirrors ==
  \A c \in Chips, l \in Lines :
    /\ lines[c][l].managed <=> lines[c][l].path # NoPath
    /\ \A id \in Ids : lines[c][l].path = id <=> Holds(id, c, l)

\* The kernel lines the daemon's process owns are exactly those its requests
\* hold on the instance of the chip that is plugged in: no release, removal
\* of a chip or restart leaves a line taken that nobody can give back.
OwnershipMatches ==
  \A c \in Chips, l \in Lines, id \in Ids :
    owner[c][l] = id <=> Holds(id, c, l) /\ reqs[id].inst = present[c]

\* The ids in use are those of the requests there are: an id is neither lost
\* when its request goes nor free to be given out while it lives.
IdsMatch == ids = DOMAIN reqs

\* A chip is never exported twice, what the daemon asserts.
NoAssert == ~asserted

\* When the daemon runs and has received every uevent, the chips it exports
\* are those plugged in, each on its present instance.
QuiescentMirror ==
  status = "running" /\ uevents = <<>> => chips = present

\* When every info event of a chip has been received, each line object says
\* whether the line is used, unless the kernel dropped the line's last event.
UsedFresh ==
  \A c \in Chips : Open(c) /\ infoq[c] = <<>> =>
    \A l \in Lines \ lost[c] : lines[c][l].used <=> owner[c][l] # Nobody

\* A chip that is plugged in and stays gets exported, across restarts too.
PlugSeen ==
  \A c \in Chips, g \in 1..MaxPlugs :
    present[c] = g ~> chips[c] = g \/ present[c] # g
===============================================================================
