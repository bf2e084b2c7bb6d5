------------------------------ MODULE GpioCli -----------------------------------
(***************************************************************************)
(* gpiocli, the command-line client of gpio-manager (dbus/client): wait,   *)
(* request, set, get, reconfigure, release, notify and monitor, and the    *)
(* listings detect, find, info and requests, run against a manager that    *)
(* stops and starts, chips that come and go, and other clients that        *)
(* request and release lines.                                              *)
(*                                                                         *)
(* The client sees the manager through copies of its objects, each taken   *)
(* at one moment, through calls, and through signals that wait in order    *)
(* until its main loop runs.  What it read may be old when it calls: the   *)
(* number of a request is given again once the request is released.        *)
(***************************************************************************)
EXTENDS Integers, Sequences, FiniteSets, FiniteSetsExt, SequencesExt

CONSTANTS
  Chips,       \* chip objects, numbered in the order of their paths
  Offsets,     \* lines of a chip
  NameOf,      \* the name of each line
  AsOffset,    \* the offset a name given by the user stands for, or -1
  Ids,         \* numbers of requests
  NameLists,   \* lines a user names
  MaxMoves     \* bound: changes that others make

Lines == Chips \X Offsets

ASSUME CliAssumption ==
  /\ Chips \subseteq Nat /\ Offsets \subseteq Nat /\ Ids \subseteq Nat
  /\ IsFiniteSet(Chips) /\ IsFiniteSet(Offsets) /\ IsFiniteSet(Ids)
  /\ DOMAIN NameOf = Lines
  /\ NameLists \subseteq Seq(DOMAIN AsOffset)
  /\ MaxMoves \in Nat

VARIABLES
  up,          \* the manager has its name on the bus
  exported,    \* its chip objects
  reqs,        \* its request objects: the lines of each
  grants,      \* history: how often each number was given
  moves,
  inbox,       \* signals that wait for the client's main loop
  heard,       \* the signals it is subscribed to
  cmd,         \* the command that runs
  names, chip, id, timed, \* its lines, chip, request and timeout, as given or found
  pc, why,
  places,      \* the lines found
  asOf,        \* history: grants of id when its request was read
  hits,        \* history: the lines that calls acted on, and whether id was given again
  shown,       \* notify: the request last printed; monitor: the edges printed
  edges,       \* history: edges of a monitored line since the client subscribed
  gone         \* history: the chip of the followed line was removed

manager == <<up, exported, reqs, grants>>
given   == <<cmd, names, timed>>
follow  == <<shown, edges, gone>>
vars    == <<manager, moves, inbox, heard, given, chip, id, pc, why, places, asOf,
             hits, follow>>

NoChip == -1
NoId   == -1
Unused == {}              \* the lines of a number that is not given

Commands == {"none", "wait", "request", "set", "get", "set -r", "get -r",
             "reconfigure", "release", "detect", "requests", "find", "info",
             "notify", "monitor"}
Places == {"start", "find", "await", "requested", "call", "offsets", "objects",
           "chips", "list", "name", "client", "chip", "proxy", "loop", "exit"}
Reasons == {"running", "ok", "nomanager", "notfound", "refused", "timeout",
            "unmanaged", "norequest", "vanished"}
Topics == {"requests", "chips", "name", "props", "edges"}
Messages ==
  [topic : {"requests"}, arg : Ids] \cup [topic : {"chips"}, arg : Chips]
    \cup [topic : {"name"}, arg : BOOLEAN]
    \cup [topic : {"props"}, arg : Ids \cup {NoId}] \cup [topic : {"edges"}, arg : Nat]

TypeOK ==
  /\ up \in BOOLEAN /\ exported \in SUBSET Chips
  /\ reqs \in [Ids -> SUBSET Lines] /\ grants \in [Ids -> Nat] /\ moves \in Nat
  /\ inbox \in Seq(Messages) /\ heard \in SUBSET Topics
  /\ cmd \in Commands /\ pc \in Places /\ why \in Reasons
  /\ cmd = "detect" => names \in Seq(Chips)
  /\ cmd # "detect" => names \in Seq(DOMAIN AsOffset)
  /\ chip \in Chips \cup {NoChip} /\ id \in Ids \cup {NoId} /\ timed \in BOOLEAN
  /\ places \in Seq(Chips \X (Offsets \cup {0}))
  /\ asOf \in Nat /\ shown \in Int /\ edges \in Nat /\ gone \in BOOLEAN
  /\ hits \in Seq([asked : SUBSET (Chips \X (Offsets \cup {0})),
                   reached : SUBSET Lines, again : BOOLEAN])

Init ==
  /\ up \in BOOLEAN
  /\ exported = IF up THEN Chips ELSE {}
  /\ reqs = [r \in Ids |-> Unused] /\ grants = [r \in Ids |-> 0] /\ moves = 0
  /\ inbox = <<>> /\ heard = {}
  /\ cmd = "none" /\ names = <<>> /\ chip = NoChip /\ id = NoId /\ timed = FALSE
  /\ pc = "start" /\ why = "running" /\ places = <<>>
  /\ asOf = 0 /\ hits = <<>> /\ shown = NoId /\ edges = 0
  /\ gone = FALSE

-----------------------------------------------------------------------------
(* The manager, as its clients see it *)

Message(topic, arg) == [topic |-> topic, arg |-> arg]

\* the signals of one topic, as far as the client is subscribed to them
Signals(topic, ags) ==
  IF topic \in heard THEN [k \in DOMAIN ags |-> Message(topic, ags[k])] ELSE <<>>
Post(msgs) == inbox' = inbox \o msgs

HolderIn(rs, line) ==
  IF \E r \in Ids : line \in rs[r] THEN CHOOSE r \in Ids : line \in rs[r] ELSE NoId
Taken == UNION {reqs[r] : r \in Ids}

\* the properties of the line that is followed
Changed(rs) ==
  IF places # <<>> /\ places[1][1] \in exported
       /\ HolderIn(rs, places[1]) # HolderIn(reqs, places[1])
    THEN Signals("props", <<HolderIn(rs, places[1])>>) ELSE <<>>

\* the lowest number that is free
Grant(lines) ==
  LET r == Min({r \in Ids : reqs[r] = Unused})
  IN  /\ reqs' = [reqs EXCEPT ![r] = lines]
      /\ grants' = [grants EXCEPT ![r] = @ + 1]

Grantable(lines) ==
  /\ \E r \in Ids : reqs[r] = Unused
  /\ lines \cap Taken = {} /\ lines # {}
  /\ \E c \in exported : lines \subseteq {c} \X Offsets

Moving == moves < MaxMoves /\ pc # "exit" /\ moves' = moves + 1
ClientStays == UNCHANGED <<heard, given, chip, id, pc, why, places, asOf, hits, shown>>

OthersRequest(lines) ==
  /\ Moving /\ up /\ Grantable(lines)
  /\ Grant(lines)
  /\ Post(Signals("requests", <<Min({r \in Ids : reqs[r] = Unused})>>)
            \o Changed(reqs'))
  /\ ClientStays /\ UNCHANGED <<up, exported, edges, gone>>

OthersRelease(r) ==
  /\ Moving /\ reqs[r] # Unused
  /\ reqs' = [reqs EXCEPT ![r] = Unused]
  /\ Post(Changed(reqs'))
  /\ ClientStays /\ UNCHANGED <<up, exported, grants, edges, gone>>

ChipAdded(c) ==
  /\ Moving /\ up /\ c \notin exported
  /\ exported' = exported \cup {c}
  /\ Post(Signals("chips", <<c>>))
  /\ ClientStays /\ UNCHANGED <<up, reqs, grants, edges, gone>>

Without(c) == [r \in Ids |-> reqs[r] \ ({c} \X Offsets)]

ChipRemoved(c) ==
  /\ Moving /\ c \in exported
  /\ exported' = exported \ {c}
  /\ reqs' = Without(c)
  /\ gone' = (gone \/ (places # <<>> /\ places[1][1] = c))
  /\ ClientStays /\ UNCHANGED <<up, grants, inbox, edges>>

ManagerStops ==
  /\ Moving /\ up
  /\ up' = FALSE /\ exported' = {} /\ reqs' = [r \in Ids |-> Unused]
  /\ Post(Signals("name", <<FALSE>>))
  /\ ClientStays /\ UNCHANGED <<grants, edges, gone>>

\* an object manager client reads the objects of the new owner, in no
\* certain order
ManagerStarts(E) ==
  /\ Moving /\ ~up
  /\ up' = TRUE /\ exported' = E
  /\ Post(Signals("name", <<TRUE>>) \o Signals("chips", SetToSeq(E)))
  /\ ClientStays /\ UNCHANGED <<reqs, grants, edges, gone>>

EdgeHappens ==
  /\ Moving /\ cmd = "monitor" /\ "edges" \in heard /\ places[1] \in Taken
  /\ edges' = edges + 1
  /\ Post(Signals("edges", <<edges + 1>>))
  /\ ClientStays /\ UNCHANGED <<manager, gone>>

Others ==
  \/ \E c \in Chips : \E offsets \in SUBSET Offsets : OthersRequest({c} \X offsets)
  \/ \E r \in Ids : OthersRelease(r)
  \/ \E c \in Chips : ChipAdded(c) \/ ChipRemoved(c)
  \/ ManagerStops
  \/ \E E \in SUBSET Chips : ManagerStarts(E)
  \/ EdgeHappens

-----------------------------------------------------------------------------
(* The client: what all commands share *)

Exit(reason) == pc' = "exit" /\ why' = reason

\* check_manager, for every command but wait
Begin(c, ns, next) ==
  /\ pc = "start"
  /\ cmd' = c /\ names' = ns
  /\ IF up THEN pc' = next /\ UNCHANGED why ELSE Exit("nomanager")
  /\ UNCHANGED <<manager, moves, places, asOf, hits, follow>>

\* get_line_obj_by_name_for_chip: a line of that name or offset, in no certain order
OnChip(c, n) == {l \in {c} \X Offsets : NameOf[l] = n \/ AsOffset[n] = l[2]}

\* the first chip that has such a line, in the order of their paths
FirstHaving(n) ==
  LET having == {c \in exported : OnChip(c, n) # {}}
  IN  IF having = {} THEN {} ELSE OnChip(Min(having), n)

\* get_line_obj_by_name: no offsets without a chip
FirstNamed(n) == IF AsOffset[n] = -1 THEN FirstHaving(n) ELSE {}

Found == IF chip = NoChip THEN FirstNamed(names[Len(places) + 1])
         ELSE IF chip \in exported THEN OnChip(chip, names[Len(places) + 1])
         ELSE {}

NotFound ==
  /\ pc = "find" /\ cmd # "find" /\ Len(places) < Len(names) /\ Found = {}
  /\ Exit("notfound")
  /\ UNCHANGED <<manager, moves, inbox, heard, given, chip, id, places, asOf, hits,
                 follow>>

-----------------------------------------------------------------------------
(* request *)

RequestStart(ns, c) ==
  /\ Begin("request", ns, "find")
  /\ chip' = c
  /\ UNCHANGED <<inbox, heard, id, timed>>

\* the chip of the first line is the chip of all
RequestFind ==
  /\ pc = "find" /\ cmd = "request" /\ Len(places) < Len(names)
  /\ \E l \in Found :
       /\ places' = Append(places, l)
       /\ chip' = l[1]
  /\ UNCHANGED <<manager, moves, inbox, heard, given, id, pc, why, asOf, hits,
                 follow>>

RequestCall ==
  /\ pc = "find" /\ cmd = "request" /\ Len(places) = Len(names)
  /\ up /\ chip \in exported /\ Grantable(Range(places))
  /\ Grant(Range(places))
  /\ id' = Min({r \in Ids : reqs[r] = Unused}) /\ asOf' = grants'[id']
  /\ pc' = "await"
  /\ UNCHANGED <<up, exported, moves, inbox, heard, given, chip, why, places, hits,
                 follow>>

RequestRefused ==
  /\ pc = "find" /\ cmd = "request" /\ Len(places) = Len(names)
  /\ Exit("refused")
  /\ UNCHANGED <<manager, moves, inbox, heard, given, chip, id, places, asOf, hits,
                 follow>>

\* wait_for_request: the requests there are, then those that are added.  The manager makes
\* the object before it answers the call (daemon.c:665): the client waits only if the
\* request is gone again, for its number to be given anew or for the timeout.
RequestAwait ==
  /\ pc = "await"
  /\ heard' = heard \cup {"requests"}
  /\ IF reqs[id] # Unused THEN Exit("ok") ELSE pc' = "requested" /\ UNCHANGED why
  /\ UNCHANGED <<manager, moves, inbox, given, chip, id, places, asOf, hits, follow>>

\* one iteration of the main loop handles the signals that are there
RequestIterate(n) ==
  /\ pc = "requested" /\ n \in 1 .. Len(inbox)
  /\ inbox' = SubSeq(inbox, n + 1, Len(inbox))
  /\ IF \E k \in 1 .. n : inbox[k] = Message("requests", id)
       THEN Exit("ok") ELSE UNCHANGED <<pc, why>>
  /\ UNCHANGED <<manager, moves, heard, given, chip, id, places, asOf, hits, follow>>

RequestTimeout ==
  /\ pc = "requested"
  /\ Exit("timeout")
  /\ UNCHANGED <<manager, moves, inbox, heard, given, chip, id, places, asOf, hits,
                 follow>>

-----------------------------------------------------------------------------
(* set and get, line by line *)

SetStart(ns) ==
  /\ Begin("set", ns, "find")
  /\ UNCHANGED <<inbox, heard, chip, id, timed>>

GetStart(ns) ==
  /\ Begin("get", ns, "find")
  /\ UNCHANGED <<inbox, heard, chip, id, timed>>

\* Mutant: the request of the first line is used for all.
RequestPathFirst(l) == IF id # NoId THEN id ELSE HolderIn(reqs, l)
RequestPath(l) == HolderIn(reqs, l)

\* the copy of the line object tells its request
LineFind ==
  /\ pc = "find" /\ cmd \in {"set", "get"}
  /\ \E l \in Found :
       IF HolderIn(reqs, l) = NoId
         THEN Exit("unmanaged") /\ UNCHANGED <<places, id, asOf>>
         ELSE /\ places' = Append(places, l)
              /\ id' = RequestPath(l) /\ asOf' = grants[id']
              /\ pc' = "call" /\ UNCHANGED why
  /\ UNCHANGED <<manager, moves, inbox, heard, given, chip, hits, follow>>

\* the lines of request r that are at the offsets of ls
Meant(r, ls) == {l \in reqs[r] : \E m \in ls : m[2] = l[2]}
Accepted(ls) == up /\ Cardinality(Meant(id, ls)) = Cardinality(ls)
Hit(ls) == hits' = Append(hits, [asked |-> ls, reached |-> Meant(id, ls),
                                 again |-> grants[id] # asOf])

\* the call names the request and the offset
LineCall ==
  /\ pc = "call" /\ cmd \in {"set", "get"}
  /\ Accepted({Last(places)})
  /\ Hit({Last(places)})
  /\ IF Len(places) = Len(names) THEN Exit("ok") ELSE pc' = "find" /\ UNCHANGED why
  /\ UNCHANGED <<manager, moves, inbox, heard, given, chip, id, places, asOf, follow>>

-----------------------------------------------------------------------------
(* set, get, reconfigure and release of a request *)

\* get_request_obj: the object of that number
OnRequest(c, r, ns, next) ==
  /\ pc = "start"
  /\ cmd' = c /\ names' = ns
  /\ IF up /\ reqs[r] # Unused
       THEN /\ id' = r /\ asOf' = grants[r]
            /\ chip' = (CHOOSE l \in reqs[r] : TRUE)[1]
            /\ places' = IF ns = <<>> THEN SetToSeq(reqs[r]) ELSE <<>>
            /\ pc' = next /\ UNCHANGED why
       ELSE Exit("norequest") /\ UNCHANGED <<id, asOf, chip, places>>
  /\ UNCHANGED <<manager, moves, timed, hits, follow>>

Deaf == UNCHANGED <<inbox, heard>>
ByNames(ns) == IF ns = <<>> THEN "offsets" ELSE "find"

SetOnRequest(r, ns) == OnRequest("set -r", r, ns, "find") /\ Deaf
GetOnRequest(r, ns) == OnRequest("get -r", r, ns, ByNames(ns)) /\ Deaf
ReconfigureStart(r) == OnRequest("reconfigure", r, <<>>, "offsets") /\ Deaf
ReleaseStart(r)     == OnRequest("release", r, <<>>, "call") /\ Deaf

\* get_request_offsets: a line object that is gone gives offset 0
RequestOffsets ==
  /\ pc = "offsets"
  /\ IF chip \in exported THEN UNCHANGED places
     ELSE places' = [k \in DOMAIN places |-> <<chip, 0>>]
  /\ CASE cmd = "monitor"  -> pc' = "objects" /\ UNCHANGED why
       [] cmd = "requests" -> Exit("ok")
       [] OTHER            -> pc' = "call" /\ UNCHANGED why
  /\ UNCHANGED <<manager, moves, inbox, heard, given, chip, id, asOf, hits, follow>>

RequestLineFind ==
  /\ pc = "find" /\ cmd \in {"set -r", "get -r"} /\ Len(places) < Len(names)
  /\ \E l \in Found :
       IF cmd = "get -r" /\ HolderIn(reqs, l) = NoId
         THEN Exit("unmanaged") /\ UNCHANGED places
         ELSE /\ places' = Append(places, l)
              /\ pc' = IF Len(places') = Len(names) THEN "call" ELSE "find"
              /\ UNCHANGED why
  /\ UNCHANGED <<manager, moves, inbox, heard, given, chip, id, asOf, hits, follow>>

\* one call for all lines
WholeCall ==
  /\ pc = "call" /\ cmd \in {"set -r", "get -r", "reconfigure"}
  /\ Accepted(Range(places))
  /\ Hit(Range(places))
  /\ Exit("ok")
  /\ UNCHANGED <<manager, moves, inbox, heard, given, chip, id, places, asOf, follow>>

ReleaseCall ==
  /\ pc = "call" /\ cmd = "release"
  /\ up /\ reqs[id] # Unused
  /\ reqs' = [reqs EXCEPT ![id] = Unused]
  /\ Exit("ok")
  /\ UNCHANGED <<up, exported, grants, moves, inbox, heard, given, chip, id, places,
                 asOf, hits, follow>>

\* the request is gone, or has no such lines
CallRefused ==
  /\ pc = "call"
  /\ IF cmd = "release" THEN reqs[id] = Unused
     ELSE ~Accepted(IF cmd \in {"set", "get"} THEN {Last(places)} ELSE Range(places))
  /\ Exit("refused")
  /\ UNCHANGED <<manager, moves, inbox, heard, given, chip, id, places, asOf, hits,
                 follow>>

-----------------------------------------------------------------------------
(* detect, requests, find and info *)

\* its names are those of chips
DetectStart(named) ==
  /\ Begin("detect", SetToSeq(named), "chips")
  /\ UNCHANGED <<inbox, heard, chip, id, timed>>

\* all chips are read at once, and each of those named must be there
DetectChips ==
  /\ pc = "chips"
  /\ Exit(IF Range(names) \subseteq exported THEN "ok" ELSE "notfound")
  /\ UNCHANGED <<manager, moves, inbox, heard, given, chip, id, places, asOf, hits,
                 follow>>

\* every request is shown in the same way: one of them is followed
RequestsStart(r) ==
  /\ reqs[r] # Unused
  /\ OnRequest("requests", r, <<>>, "offsets") /\ Deaf

FindStart(n) ==
  /\ Begin("find", <<n>>, "find")
  /\ UNCHANGED <<inbox, heard, chip, id, timed>>

InfoStart(ns, c) ==
  /\ Begin("info", ns, IF ns = <<>> THEN "list" ELSE "find")
  /\ chip' = c
  /\ UNCHANGED <<inbox, heard, id, timed>>

\* the lines of the chip given, or of all, unless a chip that was named is not there
List ==
  /\ pc = "list"
  /\ LET listed == IF chip = NoChip THEN exported ELSE {chip} \cap exported
     IN  IF chip # NoChip /\ listed = {} THEN Exit("notfound") /\ UNCHANGED places
         ELSE /\ places' = SetToSeq(listed \X Offsets)
              /\ Exit("ok")
  /\ UNCHANGED <<manager, moves, inbox, heard, given, chip, id, asOf, hits, follow>>

\* find looks a number up as an offset too, on the first chip that has it
FindLine ==
  /\ pc = "find" /\ cmd = "find"
  /\ IF FirstHaving(names[1]) = {} THEN Exit("notfound") /\ UNCHANGED places
     ELSE \E l \in FirstHaving(names[1]) : places' = <<l>> /\ Exit("ok")
  /\ UNCHANGED <<manager, moves, inbox, heard, given, chip, id, asOf, hits, follow>>

InfoFind ==
  /\ pc = "find" /\ cmd = "info"
  /\ \E l \in Found : places' = Append(places, l)
  /\ IF Len(places') = Len(names) THEN Exit("ok") ELSE UNCHANGED <<pc, why>>
  /\ UNCHANGED <<manager, moves, inbox, heard, given, chip, id, asOf, hits, follow>>

-----------------------------------------------------------------------------
(* wait *)

\* the watch reports at once whether the name has an owner
NameWatched == heard' = {"name"} /\ inbox' = <<Message("name", up)>>

WaitStart(c, t) ==
  /\ pc = "start"
  /\ cmd' = "wait" /\ chip' = c /\ timed' = t
  /\ NameWatched
  /\ pc' = "name"
  /\ UNCHANGED <<manager, moves, names, id, why, places, asOf, hits, follow>>

\* on_name_vanished: it looks for the chip that was found, not for the one missing
VanishedDies(n) ==
  \E k \in 1 .. n : /\ inbox[k] = Message("name", FALSE)
                    /\ chip # NoChip
                    /\ \E j \in 1 .. k - 1 : inbox[j] = Message("chips", chip)

WaitIterate(n) ==
  /\ cmd = "wait" /\ pc \in {"name", "chip"} /\ n \in 1 .. Len(inbox)
  /\ inbox' = SubSeq(inbox, n + 1, Len(inbox))
  /\ LET Seen(m) == \E k \in 1 .. n : inbox[k] = m
     IN  IF VanishedDies(n) THEN Exit("vanished")
         ELSE IF pc = "name" /\ Seen(Message("name", TRUE))
           THEN IF chip = NoChip THEN Exit("ok") ELSE pc' = "client" /\ UNCHANGED why
         ELSE IF pc = "chip" /\ Seen(Message("chips", chip)) THEN Exit("ok")
         ELSE UNCHANGED <<pc, why>>
  /\ UNCHANGED <<manager, moves, heard, given, chip, id, places, asOf, hits, follow>>

\* Mutant: chips that are there already are not looked at.
ChipThereNever == FALSE
ChipThere == chip \in exported

WaitClient ==
  /\ pc = "client"
  /\ heard' = heard \cup {"chips"}
  /\ IF ChipThere THEN Exit("ok") ELSE pc' = "chip" /\ UNCHANGED why
  /\ UNCHANGED <<manager, moves, inbox, given, chip, id, places, asOf, hits, follow>>

WaitTimeout ==
  /\ cmd = "wait" /\ timed /\ pc \in {"name", "chip"}
  /\ Exit("timeout")
  /\ UNCHANGED <<manager, moves, inbox, heard, given, chip, id, places, asOf, hits,
                 follow>>

-----------------------------------------------------------------------------
(* notify and monitor *)

FollowStart(c, n, k) ==
  /\ Begin(c, <<n>>, "find")
  /\ chip' = k
  /\ NameWatched
  /\ UNCHANGED <<id, timed>>

MonitorOnRequest(r, ns) == OnRequest("monitor", r, ns, ByNames(ns)) /\ NameWatched

\* Mutant: a proxy that is made without the signals of its object.
ProxyTopicNone == {}
\* a proxy subscribes to the signals of its object before it reads the properties
ProxyTopic == IF cmd = "notify" THEN {"props"} ELSE {"edges"}

FollowFind ==
  /\ pc = "find" /\ cmd \in {"notify", "monitor"}
  /\ \E l \in Found : places' = <<l>>
  /\ heard' = heard \cup ProxyTopic
  /\ pc' = "proxy"
  /\ UNCHANGED <<manager, moves, inbox, given, chip, id, why, asOf, hits, follow>>

\* one of the lines of the request, by the path of its object
FollowObject ==
  /\ pc = "objects"
  /\ IF chip \in exported
       THEN /\ \E l \in Range(places) : places' = <<l>>
            /\ heard' = heard \cup ProxyTopic
            /\ pc' = "proxy" /\ UNCHANGED why
       ELSE Exit("notfound") /\ UNCHANGED <<places, heard>>
  /\ UNCHANGED <<manager, moves, inbox, given, chip, id, asOf, hits, follow>>

\* the properties are read, and notify prints them
FollowRead ==
  /\ pc = "proxy" /\ places[1][1] \in exported
  /\ cmd = "monitor" => places[1] \in Taken
  /\ shown' = IF cmd = "notify" THEN HolderIn(reqs, places[1]) ELSE 0
  /\ pc' = "loop"
  /\ UNCHANGED <<manager, moves, inbox, heard, given, chip, id, why, places, asOf, hits,
                 edges, gone>>

\* the line is gone, or one that monitor does not take: not managed, or without edges
FollowRefused ==
  /\ pc = "proxy" /\ (cmd = "monitor" \/ places[1][1] \notin exported)
  /\ Exit("refused")
  /\ UNCHANGED <<manager, moves, inbox, heard, given, chip, id, places, asOf, hits,
                 follow>>

\* each change and each edge is printed; the manager's end ends the client
FollowSignal ==
  /\ pc = "loop" /\ inbox # <<>>
  /\ inbox' = Tail(inbox)
  /\ LET m == Head(inbox)
     IN  /\ IF m = Message("name", FALSE) THEN Exit("vanished") ELSE UNCHANGED <<pc, why>>
         /\ shown' = IF m.topic = "props" THEN m.arg
                     ELSE IF m.topic = "edges" THEN shown + 1 ELSE shown
  /\ UNCHANGED <<manager, moves, heard, given, chip, id, places, asOf, hits,
                 edges, gone>>

-----------------------------------------------------------------------------

Starts ==
  \/ \E ns \in NameLists : SetStart(ns) \/ GetStart(ns)
  \/ \E ns \in NameLists, c \in Chips \cup {NoChip} : RequestStart(ns, c)
  \/ \E named \in SUBSET Chips : DetectStart(named)
  \/ \E ns \in NameLists \cup {<<>>}, c \in Chips \cup {NoChip} : InfoStart(ns, c)
  \/ \E r \in Ids : RequestsStart(r) \/ ReconfigureStart(r) \/ ReleaseStart(r)
                        \/ GetOnRequest(r, <<>>)
  \/ \E r \in Ids, ns \in NameLists : SetOnRequest(r, ns) \/ GetOnRequest(r, ns)
  \/ \E r \in Ids, ns \in {<<>>} \cup {ns \in NameLists : Len(ns) = 1} :
       MonitorOnRequest(r, ns)
  \/ \E c \in Chips \cup {NoChip}, t \in BOOLEAN : WaitStart(c, t)
  \/ \E n \in UNION {Range(ns) : ns \in NameLists} :
       \/ FindStart(n)
       \/ FollowStart("monitor", n, NoChip)
       \/ \E c \in Chips \cup {NoChip} : FollowStart("notify", n, c)

Steps ==
  \/ NotFound \/ RequestFind \/ RequestCall \/ RequestRefused \/ RequestAwait
  \/ LineFind \/ LineCall \/ RequestOffsets \/ RequestLineFind \/ WholeCall
  \/ ReleaseCall \/ CallRefused \/ DetectChips \/ List \/ FindLine \/ InfoFind
  \/ WaitClient \/ FollowFind \/ FollowObject \/ FollowRead \/ FollowRefused \/ FollowSignal
  \/ \E n \in 1 .. Len(inbox) : RequestIterate(n) \/ WaitIterate(n)

Next == Starts \/ Steps \/ RequestTimeout \/ WaitTimeout \/ Others

\* the client runs on, and its timers expire
Fairness == WF_vars(Steps) /\ WF_vars(RequestTimeout) /\ WF_vars(WaitTimeout)

Spec == Init /\ [][Next]_vars /\ Fairness

-----------------------------------------------------------------------------
(* Properties *)

\* A call to set, get or reconfigure acts on the lines that the user named and on no
\* other, however long ago the client read its objects, unless the number of the request
\* was given again in between (set.c, get.c, reconfigure.c, get_request_offsets).
ReachesNamed ==
  \A k \in DOMAIN hits : hits[k].again \/ hits[k].reached = hits[k].asked

\* When all signals are handled notify has printed the last change of the line's
\* request and monitor as many edges as there were, also those that fall between the
\* subscription and the main loop (connect_line, connect_edge_event), as long as the
\* chip of the line stays.
FollowsAll ==
  pc = "loop" /\ ~gone /\ inbox = <<>> =>
    shown = IF cmd = "notify" THEN HolderIn(reqs, places[1]) ELSE edges

Waiting == cmd = "wait" /\ pc # "exit"
Present == up /\ (chip = NoChip \/ chip \in exported)

\* A wait ends once what it waits for has come to stay, however the manager and the
\* chip came and went before (wait.c).
WaitSees == (<>[]Present) => (Waiting ~> pc = "exit")

\* The manager's end is reported to a client that waits for a chip: "gpio-manager
\* vanished while waiting for chip" (wait.c:72).
WaitNoticesVanish == (pc = "chip" /\ ~up) ~> (pc = "exit" \/ up)

-----------------------------------------------------------------------------
(* The inductive invariants of the proofs *)

\* the lines of a request are on one chip
OneChip == \A r \in Ids : \A l, m \in reqs[r] : l[1] = m[1]

\* the number was read, and if it was not given again the lines it had then, all on
\* chip c, can only have become fewer
ReadOn(c) ==
  /\ id \in Ids /\ asOf <= grants[id]
  /\ grants[id] = asOf => \A l \in reqs[id] : l[1] = c

\* what a command knows of the request whose number it holds
Awaits == pc \in {"await", "requested"} => id \in Ids
CallsForLine ==
  pc = "call" /\ cmd \in {"set", "get"} => places # <<>> /\ ReadOn(Last(places)[1])
WithRequest ==
  \/ pc \in {"offsets", "objects"}
  \/ pc \in {"find", "call"} /\ cmd \in {"set -r", "get -r", "reconfigure"}
CallsForRequest ==
  WithRequest => /\ chip \in Chips /\ ReadOn(chip)
                 /\ \A k \in DOMAIN places : places[k][1] = chip

\* who is where: nothing has happened at the start; get_request_offsets serves four
\* commands; a release holds a number; the other commands follow no line
AtHome ==
  /\ pc = "start" =>
       cmd = "none" /\ inbox = <<>> /\ heard = {} /\ places = <<>> /\ edges = 0
  /\ pc = "offsets" => cmd \in {"get -r", "reconfigure", "monitor", "requests"}
  /\ pc = "objects" => cmd = "monitor"
  /\ pc \in {"proxy", "loop"} => cmd \in {"notify", "monitor"} /\ Len(places) = 1
  /\ pc = "call" => cmd \in {"set", "get", "set -r", "get -r", "reconfigure", "release"}
  /\ pc = "call" /\ cmd = "release" => id \in Ids
  /\ ~up => exported = {}
  /\ \A k \in DOMAIN inbox : inbox[k].topic \in heard

CallsInv == OneChip /\ Awaits /\ CallsForLine /\ CallsForRequest /\ AtHome /\ ReachesNamed

\* the manager's end waits to be handled
Ended == \E k \in DOMAIN inbox : inbox[k] = Message("name", FALSE)

\* before a line is followed only the manager's name is watched
Watching ==
  pc \in {"find", "offsets", "objects"} /\ cmd \in {"notify", "monitor"} =>
    /\ heard = {"name"} /\ edges = 0
    /\ up \/ Ended

\* the last change of the line's request that waits, or the value read, is the present one
PropsAt == {k \in DOMAIN inbox : inbox[k].topic = "props"}
LastProps ==
  /\ \A k \in PropsAt : (\A j \in PropsAt : j <= k) => inbox[k].arg = HolderIn(reqs, places[1])
  /\ pc = "loop" /\ PropsAt = {} => shown = HolderIn(reqs, places[1])
PropsFollowed ==
  pc \in {"proxy", "loop"} /\ cmd = "notify" =>
    /\ heard = {"name", "props"}
    /\ gone \/ Ended \/ (up /\ places[1][1] \in exported /\ LastProps)

\* the edges that wait are those not printed yet, in order
EdgesAt == {k \in DOMAIN inbox : inbox[k].topic = "edges"}
Printed == IF pc = "proxy" THEN 0 ELSE shown
EdgesFollowed ==
  pc \in {"proxy", "loop"} /\ cmd = "monitor" =>
    /\ heard = {"name", "edges"}
    /\ Printed \in 0 .. edges
    /\ \A k \in EdgesAt : inbox[k].arg \in Printed + 1 .. edges
    /\ \A j, k \in EdgesAt : j < k => inbox[j].arg < inbox[k].arg
    /\ \A v \in Printed + 1 .. edges : \E k \in EdgesAt : inbox[k].arg = v

FollowInv == Watching /\ PropsFollowed /\ EdgesFollowed

IInv == TypeOK /\ CallsInv /\ FollowInv
=================================================================================
