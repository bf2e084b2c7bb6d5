------------------------------ MODULE LineConfig ------------------------------
(***************************************************************************)
(* The line-config object of the core library (lib/line-config.c): the     *)
(* table of configured lines, and the reference-counted settings nodes the *)
(* table's entries share.                                                  *)
(*                                                                         *)
(* One call of gpiod_line_config_add_line_settings allocates one settings  *)
(* node, pushes it on the object's doubly linked list and makes every      *)
(* given offset point to it.  A node that loses its last offset is         *)
(* unlinked and freed on the way, inside the same loop.  The loop is       *)
(* modelled one offset per step, so that the invariants hold at every      *)
(* iteration and not only between calls.                                   *)
(*                                                                         *)
(* A node is named by the serial number of its allocation since the last   *)
(* reset, so that a freed node is never confused with a later one.         *)
(***************************************************************************)
EXTENDS Integers, Sequences, FiniteSets, OffsetLists

CONSTANTS
  Offsets,    \* line offsets a caller may name
  Settings,   \* values of a gpiod_line_settings object, opaque here
  Values,     \* valid output values
  BadValue,   \* an output value out of the enum's range
  LinesMax,   \* LINES_MAX: size of the line_configs array (64 in the code)
  MaxNodes,   \* bound: allocations between two resets
  MaxArg      \* bound: length of the offset and value arrays of a call

ASSUME BoundsAssumption == LinesMax \in Nat /\ MaxNodes \in Nat /\ MaxArg \in Nat
ASSUME ValueAssumption == BadValue \notin Values
ASSUME SettingsAssumption == Settings # {}

Null == 0
NodeId == 1..MaxNodes

VARIABLES
  slots,     \* line_configs[0..num_configs-1], as records [offset, node]
  outputs,   \* output_values[0..num_output_values-1]
  live,      \* the nodes that are allocated
  settings,  \* node->settings
  refcnt,    \* node->refcnt
  prev,      \* node->prev
  next,      \* node->next
  head,      \* config->sref_list
  serial,    \* allocations since the last reset
  cur,       \* the node of the add call in progress, Null between calls
  args,      \* the offsets given to the add call in progress
  pos,       \* the loop's index into them, from 1
  ret        \* what the last call returned (once begun, an add succeeds)

heap == <<live, settings, refcnt, prev, next, head, serial>>
call == <<cur, args, pos>>
vars == <<slots, outputs, heap, call, ret>>

Configured == {slots[i].offset : i \in DOMAIN slots}
SlotsOf(n) == {i \in DOMAIN slots : slots[i].node = n}

(***************************************************************************)
(* find_config: the entry of an offset, or the first unused one.           *)
(***************************************************************************)
FindConfig(o) ==
  IF o \in Configured THEN CHOOSE i \in DOMAIN slots : slots[i].offset = o
                      ELSE Len(slots) + 1

\* The nodes a walk along next visits from the head of the list.
Reachable ==
  {n \in NodeId : \A S \in SUBSET NodeId :
      (head \in S \cup {Null} /\ \A m \in S : next[m] \in S \cup {Null}) => n \in S}

TypeOK ==
  /\ slots \in Seq([offset : Offsets, node : NodeId])
  /\ outputs \in Seq(Values)
  /\ live \in SUBSET NodeId
  /\ settings \in [NodeId -> Settings]
  /\ refcnt \in [NodeId -> Int]
  /\ prev \in [NodeId -> NodeId \cup {Null}]
  /\ next \in [NodeId -> NodeId \cup {Null}]
  /\ head \in NodeId \cup {Null}
  /\ serial \in 0..MaxNodes
  /\ cur \in NodeId \cup {Null}
  /\ args \in Seq(Offsets)
  /\ pos \in Nat
  /\ ret \in {"ok", "EINVAL", "E2BIG", "ENOMEM"}

\* Memory that is not allocated: its contents do not matter.
Blank(v) == [n \in NodeId |-> v]
NoneYet == CHOOSE s \in Settings : TRUE

Init ==
  /\ slots = <<>> /\ outputs = <<>>
  /\ live = {} /\ head = Null /\ serial = 0
  /\ settings = Blank(NoneYet) /\ refcnt = Blank(0)
  /\ prev = Blank(Null) /\ next = Blank(Null)
  /\ cur = Null /\ args = <<>> /\ pos = 1 /\ ret = "ok"

Idle == cur = Null
InLoop == cur # Null /\ pos <= Len(args)

-------------------------------------------------------------------------------
(***************************************************************************)
(* gpiod_line_config_add_line_settings                                     *)
(***************************************************************************)
Fits(offs) == Len(slots) + Len(offs) <= LinesMax

Refuse(errno) ==
  /\ Idle
  /\ ret' = errno
  /\ UNCHANGED <<slots, outputs, heap, call>>

\* No offsets, or more than the table could hold if all of them were new.
AddNoOffsets == Refuse("EINVAL")
AddTooMany(offs) == offs # <<>> /\ ~Fits(offs) /\ Refuse("E2BIG")

\* Either malloc fails; the half-built node is freed before returning.
AddNoMemory(offs) == offs # <<>> /\ Fits(offs) /\ Refuse("ENOMEM")

\* The node is allocated with no reference and pushed at the list's head.
PushPrevUnset(n) == [prev EXCEPT ![n] = Null]
PushPrev(n) == IF head # Null THEN [prev EXCEPT ![head] = n, ![n] = Null]
                              ELSE [prev EXCEPT ![n] = Null]
AddBegin(offs, s) ==
  LET n == serial + 1 IN
  /\ Idle
  /\ serial < MaxNodes
  /\ offs # <<>> /\ Fits(offs)
  /\ live' = live \cup {n}
  /\ settings' = [settings EXCEPT ![n] = s]
  /\ refcnt' = [refcnt EXCEPT ![n] = 0]
  /\ next' = [next EXCEPT ![n] = head]
  /\ prev' = PushPrev(n)
  /\ head' = n /\ serial' = n
  /\ cur' = n /\ args' = offs /\ pos' = 1
  /\ ret' = "ok"
  /\ UNCHANGED <<slots, outputs>>

\* The loop body, for an offset that is not configured yet ...
AddNewOffset ==
  LET o == args[pos] IN
  /\ InLoop
  /\ o \notin Configured
  /\ slots' = Append(slots, [offset |-> o, node |-> cur])
  /\ refcnt' = [refcnt EXCEPT ![cur] = @ + 1]
  /\ pos' = pos + 1
  /\ UNCHANGED <<outputs, live, settings, prev, next, head, serial, cur, args, ret>>

\* ... and for one that is, whose entry gives up the node it pointed to.
MovedUncounted(i) == [refcnt EXCEPT ![cur] = @ + 1]
Moved(i) ==
  LET old == slots[i].node
      taken == [refcnt EXCEPT ![cur] = @ + 1]
  IN  [taken EXCEPT ![old] = @ - 1]

FreesOld(i) == Moved(i)[slots[i].node] = 0

RepointedNot(i) == slots
Repointed(i) == [slots EXCEPT ![i].node = cur]

AddKeepOld ==
  LET i == FindConfig(args[pos])
  IN  /\ InLoop
      /\ args[pos] \in Configured
      /\ ~FreesOld(i)
      /\ refcnt' = Moved(i)
      /\ slots' = Repointed(i)
      /\ pos' = pos + 1
      /\ UNCHANGED <<outputs, live, settings, prev, next, head, serial, cur, args, ret>>

UnlinkNext(n) == IF prev[n] # Null THEN [next EXCEPT ![prev[n]] = next[n]] ELSE next
UnlinkPrevUnset(n) == prev
UnlinkPrev(n) == IF next[n] # Null THEN [prev EXCEPT ![next[n]] = prev[n]] ELSE prev

\* The node lost its last offset: it is unlinked and freed.  The list's
\* head is not touched, the code relies on old never being the head.
AddFreeOld ==
  LET i == FindConfig(args[pos])
      old == slots[i].node
  IN  /\ InLoop
      /\ args[pos] \in Configured
      /\ FreesOld(i)
      /\ refcnt' = Moved(i)
      /\ slots' = Repointed(i)
      /\ next' = UnlinkNext(old)
      /\ prev' = UnlinkPrev(old)
      /\ live' = live \ {old}
      /\ pos' = pos + 1
      /\ UNCHANGED <<outputs, settings, head, serial, cur, args, ret>>

AddReturn ==
  /\ ~Idle /\ pos > Len(args)
  /\ cur' = Null /\ args' = <<>> /\ pos' = 1
  /\ UNCHANGED <<slots, outputs, heap, ret>>

-------------------------------------------------------------------------------
(***************************************************************************)
(* gpiod_line_config_set_output_values: the values are copied one by one;  *)
(* an invalid one drops the whole set, the one set earlier included.       *)
(***************************************************************************)
StoredValues(vals) == IF BadValue \in ToSet(vals) THEN <<>> ELSE vals

SetOutputValues(vals) ==
  /\ Idle
  /\ vals # <<>> /\ Len(vals) <= LinesMax
  /\ outputs' = StoredValues(vals)
  /\ ret' = IF BadValue \in ToSet(vals) THEN "EINVAL" ELSE "ok"
  /\ UNCHANGED <<slots, heap, call>>

SetOutputValuesBadArgs(vals) ==
  /\ vals = <<>> \/ Len(vals) > LinesMax
  /\ Refuse("EINVAL")

(***************************************************************************)
(* gpiod_line_config_reset: free_refs frees what it reaches from the       *)
(* list's head, then the object is zeroed.  gpiod_line_config_free does    *)
(* the same and then frees the object.                                     *)
(***************************************************************************)
Reset ==
  /\ Idle
  /\ live' = live \ Reachable
  /\ slots' = <<>> /\ outputs' = <<>>
  /\ head' = Null
  /\ IF live' = {}
     THEN /\ serial' = 0 /\ settings' = Blank(NoneYet) /\ refcnt' = Blank(0)
          /\ prev' = Blank(Null) /\ next' = Blank(Null)
     ELSE UNCHANGED <<serial, settings, refcnt, prev, next>>
  /\ ret' = "ok"
  /\ UNCHANGED call

\* gpiod_line_config_get_line_settings: the settings of an entry, and the
\* output value that overrides theirs when one was set for its index.
NoSettings == [found |-> FALSE]
Lookup(o) ==
  IF o \notin Configured THEN NoSettings
  ELSE LET i == FindConfig(o)
           s == settings[slots[i].node]
       IN  IF i <= Len(outputs)
           THEN [found |-> TRUE, settings |-> s, override |-> TRUE, value |-> outputs[i]]
           ELSE [found |-> TRUE, settings |-> s, override |-> FALSE]

-------------------------------------------------------------------------------
OffsetArgs == SeqOf(Offsets, MaxArg)
ValueArgs == SeqOf(Values \cup {BadValue}, MaxArg)

Next ==
  \/ AddNoOffsets
  \/ \E offs \in OffsetArgs :
        \/ AddTooMany(offs)
        \/ AddNoMemory(offs)
        \/ \E s \in Settings : AddBegin(offs, s)
  \/ AddNewOffset \/ AddKeepOld \/ AddFreeOld \/ AddReturn
  \/ \E vals \in ValueArgs : SetOutputValues(vals) \/ SetOutputValuesBadArgs(vals)
  \/ Reset

Spec == Init /\ [][Next]_vars

-------------------------------------------------------------------------------
\* A node's count is the number of entries that point to it, at every
\* iteration of the add loop: it is freed by its last offset, not before.
RefcntExact == \A n \in live : refcnt[n] = Cardinality(SlotsOf(n))

\* No entry points to a node that was freed, so reading settings back and
\* encoding them for the kernel never touch freed memory.
NoDangling == \A i \in DOMAIN slots : slots[i].node \in live

\* The list reaches the allocated nodes and no other: a reset frees each of
\* them, frees none twice, and follows no freed node's links.
NoLeak == live = Reachable

\* Every offset has one entry, and the entries of the calls so far and of
\* the one in progress stay within the array.
TableSound ==
  /\ \A i, j \in DOMAIN slots : slots[i].offset = slots[j].offset => i = j
  /\ Len(slots) <= LinesMax

(***************************************************************************)
(* The inductive strengthening of the above, used by the proofs.           *)
(***************************************************************************)
\* The call in progress fills the newest node, has room for what is left of
\* its offsets, and holds a reference once the first one is done.
InCall ==
  IF cur = Null THEN args = <<>>
  ELSE /\ cur = head /\ args # <<>> /\ pos \in 1..(Len(args) + 1)
       /\ pos > 1 => refcnt[cur] > 0
       /\ Len(slots) + Len(args) - (pos - 1) <= LinesMax

\* prev and next agree, next leads to older nodes, and the head is the
\* newest node: it is never the one the add loop frees.
Linked ==
  /\ head = serial
  /\ head \in live \cup {Null}
  /\ \A n \in live :
       /\ n <= serial
       /\ next[n] # Null => next[n] \in live /\ next[n] < n /\ prev[next[n]] = n
       /\ n = head => prev[n] = Null
       /\ n # head => prev[n] \in live /\ next[prev[n]] = n

\* Nothing is kept without an offset that needs it.
Held == \A n \in live : refcnt[n] > 0 \/ n = cur

\* Between two iterations of the add loop the table, the counts and the
\* list agree.
TableInv ==
  /\ TypeOK /\ InCall /\ Linked /\ Held
  /\ RefcntExact /\ NoDangling /\ TableSound

\* The offsets the call in progress has done share its node, and none of
\* its later iterations takes an entry away from it.
Processed ==
  cur # Null =>
    \A j \in 1..pos - 1 : \E i \in DOMAIN slots :
      slots[i].offset = args[j] /\ slots[i].node = cur

\* The inductive invariant.
IInv == TableInv /\ Processed

\* The user sees the ordered map of LineConfigSpec: an add takes effect as a
\* whole when it starts, and the iterations that carry it out, its return
\* included, change nothing the user sees.
Pending == IF Idle THEN {} ELSE ToSet(args)
Promise == INSTANCE LineConfigSpec WITH
  order <- FirstOccurrences([i \in DOMAIN slots |-> slots[i].offset] \o args),
  conf  <- [o \in Configured \cup Pending |->
              settings[IF o \in Pending THEN cur ELSE slots[FindConfig(o)].node]],
  outs  <- outputs
ImplementsPromise ==
  Promise!SpecInit /\ [][Idle /\ Promise!SpecNext]_(Promise!svars)

===============================================================================
