------------------------------ MODULE LineRequest ------------------------------
(***************************************************************************)
(* A client that requests lines of a chip, reads, sets and reconfigures    *)
(* them and releases them (lib/chip.c, lib/line-request.c), with the       *)
(* line-config object it does it by, and the kernel that serves it.        *)
(* A library call is one action; the kernel, which the lines belong to,    *)
(* and the other users of the chip's lines are external.                   *)
(***************************************************************************)
EXTENDS LineConfigUapi

VARIABLES
  requested, \* the request object's offsets, <<>> if there is no request
  fd,        \* kernel: the lines of the open request file, <<>> if none is
  line       \* kernel: the chip's lines

config == <<order, conf, outs>>
vars == <<config, requested, fd, line>>

TypeOK ==
  /\ UapiTypeOK /\ DOMAIN line = Offsets
  /\ requested \in Seq(Offsets) /\ fd \in Seq(Offsets)
  /\ \A o \in Offsets :
       /\ line[o].user \in {"nobody", "fd", "other"}
       /\ line[o].output \in BOOLEAN /\ line[o].value \in {0, 1}
       /\ line[o].flags \subseteq LineFlags /\ line[o].debounce \in 0..(PeriodMod - 1)

FreeLine == [user |-> "nobody", output |-> FALSE, flags |-> {}, debounce |-> 0, value |-> 0]

Init ==
  /\ SpecInit
  /\ requested = <<>> /\ fd = <<>>
  /\ line = [o \in Offsets |-> FreeLine]

\* A call that fails with an error number changes nothing.
Fail == UNCHANGED vars

\* The client changes its line-config object (LineConfigSpec).
Configure == SpecNext /\ UNCHANGED <<requested, fd, line>>

-------------------------------------------------------------------------------
(***************************************************************************)
(* The kernel's side of the requests.                                      *)
(***************************************************************************)
\* What it accepts for one line.
ValidFlags(f) ==
  /\ ~({"INPUT", "OUTPUT"} \subseteq f)
  /\ f \cap {"EDGE_RISING", "EDGE_FALLING"} # {} => "INPUT" \in f
  /\ f \cap {"OPEN_DRAIN", "OPEN_SOURCE"} # {} => "OUTPUT" \in f
  /\ f \cap {"BIAS_DISABLED", "BIAS_PULL_UP", "BIAS_PULL_DOWN"} # {} =>
       f \cap {"INPUT", "OUTPUT"} # {}
KernelAccepts(u, n) ==
  /\ n > 0
  /\ \A i \in 1..n :
       /\ ValidFlags(KernelFlags(u, i))
       /\ KernelDebounce(u, i) # 0 => "INPUT" \in KernelFlags(u, i)

\* A line after its part of a request or of a new configuration; one whose
\* direction is not asked for keeps it.
Directed(f) == f \cap {"INPUT", "OUTPUT"} # {}
Applied(l, u, i) ==
  LET f == KernelFlags(u, i)
  IN [l EXCEPT !.flags = f,
               !.debounce = KernelDebounce(u, i),
               !.output = IF Directed(f) THEN "OUTPUT" \in f ELSE @,
               !.value = IF "OUTPUT" \in f THEN KernelValue(u, i) ELSE @]

IndexIn(offs, o) == CHOOSE i \in DOMAIN offs : offs[i] = o

\* The last reference to the request file is closed.
LinesFreed(offs, lines) ==
  [o \in Offsets |-> IF o \in ToSet(offs)
                     THEN [lines[o] EXCEPT !.user = "nobody", !.flags = {}, !.debounce = 0]
                     ELSE lines[o]]

-------------------------------------------------------------------------------
(***************************************************************************)
(* gpiod_chip_request_lines                                                *)
(***************************************************************************)
Encoded == ToUapi(PerLine, outs)

RequestTooBig == requested = <<>> /\ ~Encoded.ok /\ Fail  \* E2BIG

RequestRejected ==
  /\ requested = <<>> /\ Encoded.ok
  /\ ~KernelAccepts(Encoded, Len(order))
  /\ Fail  \* EINVAL

RequestBusy ==
  /\ requested = <<>> /\ Encoded.ok
  /\ KernelAccepts(Encoded, Len(order))
  /\ \E o \in ToSet(order) : line[o].user # "nobody"
  /\ Fail  \* EBUSY

LinesTaken ==
  [o \in Offsets |-> IF o \in ToSet(order)
                     THEN [Applied(line[o], Encoded, IndexIn(order, o)) EXCEPT !.user = "fd"]
                     ELSE line[o]]

KernelGrants ==
  /\ requested = <<>> /\ Encoded.ok
  /\ KernelAccepts(Encoded, Len(order))
  /\ \A o \in ToSet(order) : line[o].user = "nobody"

RequestLines ==
  /\ KernelGrants
  /\ fd' = order /\ line' = LinesTaken
  /\ requested' = order
  /\ UNCHANGED config

\* gpiod_line_request_from_uapi has no memory for the object: the file the
\* kernel opened is closed again.
FileLeftOpen == [fd |-> order, line |-> LinesTaken]
FileClosed == [fd |-> <<>>, line |-> LinesFreed(order, LinesTaken)]
RequestNoMemory ==
  /\ KernelGrants
  /\ fd' = FileClosed.fd /\ line' = FileClosed.line
  /\ UNCHANGED <<config, requested>>

(***************************************************************************)
(* gpiod_line_request_reconfigure_lines                                    *)
(***************************************************************************)
OffsetsSameSet == ToSet(requested) = ToSet(order)
OffsetsEqual == requested = order

ReconfigureTooBig == requested # <<>> /\ ~Encoded.ok /\ Fail  \* E2BIG
OffsetsRefused == requested # <<>> /\ Encoded.ok /\ ~OffsetsEqual
ReconfigureOtherLines == OffsetsRefused /\ Fail  \* EINVAL
ReconfigureRejected ==
  /\ requested # <<>> /\ Encoded.ok /\ OffsetsEqual
  /\ ~KernelAccepts(Encoded, Len(fd))
  /\ Fail  \* EINVAL

\* The kernel may leave alone the lines no direction is asked for.
Reconfigured(skip) ==
  [o \in Offsets |->
     IF o \notin ToSet(fd) THEN line[o]
     ELSE LET i == IndexIn(fd, o)
          IN IF skip /\ ~Directed(KernelFlags(Encoded, i)) THEN line[o]
             ELSE Applied(line[o], Encoded, i)]
ReconfigureLines ==
  /\ requested # <<>> /\ Encoded.ok /\ OffsetsEqual
  /\ KernelAccepts(Encoded, Len(fd))
  /\ \E skip \in BOOLEAN : line' = Reconfigured(skip)
  /\ UNCHANGED <<config, requested, fd>>

-------------------------------------------------------------------------------
(***************************************************************************)
(* gpiod_line_request_set_values_subset and get_values_subset.  Values     *)
(* travel as bits by index in the request; an offset given twice takes the *)
(* last of its values.                                                     *)
(***************************************************************************)
OffsetToBit(o) == IndexIn(requested, o)
Mask(offs) == {OffsetToBit(offs[i]) : i \in DOMAIN offs}
BitsAsGiven(offs, vals) == {i \in DOMAIN vals : vals[i] = 1}
LastPlaces(offs) == {i \in DOMAIN offs : \A j \in (i + 1)..Len(offs) : offs[j] # offs[i]}
Bits(offs, vals) == {OffsetToBit(offs[i]) : i \in {j \in LastPlaces(offs) : vals[j] = 1}}

\* One of the offsets is not requested, or (the kernel) there is none.
ValuesBadOffsets(offs) ==
  /\ requested # <<>>
  /\ offs = <<>> \/ ~(ToSet(offs) \subseteq ToSet(requested))
  /\ Fail  \* EINVAL

SetValuesNotOutput(offs) ==
  /\ offs # <<>> /\ ToSet(offs) \subseteq ToSet(requested)
  /\ \E b \in Mask(offs) : ~line[fd[b]].output
  /\ Fail  \* EPERM

SetValuesSubset(offs, vals) ==
  /\ offs # <<>> /\ ToSet(offs) \subseteq ToSet(requested)
  /\ Len(vals) = Len(offs)
  /\ \A b \in Mask(offs) : line[fd[b]].output
  /\ line' = [o \in Offsets |->
                IF o \in ToSet(fd) /\ IndexIn(fd, o) \in Mask(offs)
                THEN [line[o] EXCEPT !.value = IF IndexIn(fd, o) \in Bits(offs, vals) THEN 1 ELSE 0]
                ELSE line[o]]
  /\ UNCHANGED <<config, requested, fd>>

\* The kernel packs the values of the lines in the mask at their own bits.
KernelBits(mask) == {b \in mask : line[fd[b]].value = 1}
ValuesPacked(offs) == [i \in DOMAIN offs |-> IF i \in KernelBits(Mask(offs)) THEN 1 ELSE 0]
ValuesAt(offs) ==
  [i \in DOMAIN offs |-> IF OffsetToBit(offs[i]) \in KernelBits(Mask(offs)) THEN 1 ELSE 0]

GetValuesSubset(offs) ==
  offs # <<>> /\ ToSet(offs) \subseteq ToSet(requested) /\ UNCHANGED vars

\* gpiod_line_request_release
Release ==
  /\ requested # <<>>
  /\ fd' = <<>> /\ line' = LinesFreed(fd, line)
  /\ requested' = <<>>
  /\ UNCHANGED config

-------------------------------------------------------------------------------
\* Other users take and drop lines, and the world drives the inputs.
OtherTakes(o) ==
  /\ line[o].user = "nobody"
  /\ line' = [line EXCEPT ![o].user = "other"]
  /\ UNCHANGED <<config, requested, fd>>
OtherDrops(o) ==
  /\ line[o].user = "other"
  /\ line' = [line EXCEPT ![o].user = "nobody"]
  /\ UNCHANGED <<config, requested, fd>>
Driven(o) ==
  /\ ~line[o].output
  /\ line' = [line EXCEPT ![o].value = 1 - @]
  /\ UNCHANGED <<config, requested, fd>>

OffsetArgs == SeqOf(Offsets, MaxArg)
ValueArgs == SeqOf({0, 1}, MaxArg)

Next ==
  \/ Configure
  \/ RequestTooBig \/ RequestRejected \/ RequestBusy \/ RequestLines \/ RequestNoMemory
  \/ ReconfigureTooBig \/ ReconfigureOtherLines \/ ReconfigureRejected \/ ReconfigureLines
  \/ \E offs \in OffsetArgs :
       \/ ValuesBadOffsets(offs) \/ SetValuesNotOutput(offs) \/ GetValuesSubset(offs)
       \/ \E vals \in ValueArgs : SetValuesSubset(offs, vals)
  \/ Release
  \/ \E o \in Offsets : OtherTakes(o) \/ OtherDrops(o) \/ Driven(o)

Spec == Init /\ [][Next]_vars

-------------------------------------------------------------------------------
\* The kernel's lines are held for the request object exactly while it is
\* there: a request that fails halfway leaves no line taken that no later
\* release could free.
HeldWhileRequested ==
  \A o \in Offsets : line[o].user = "fd" <=> o \in ToSet(requested)

\* Once lines are requested or reconfigured, each line that a direction was
\* asked for is as the configuration reads for its offset at that moment,
\* whatever the order in which the configuration was put together.
AsConfigured(o) ==
  LET s == GetLineSettings(IndexIn(order, o))
  IN /\ line[o].flags = MakeKernelFlags(s)
     /\ line[o].debounce = s.debounce % PeriodMod
     /\ line[o].output = (s.direction = "output")
     /\ line[o].output => line[o].value = s.value
ConfigReachesLines ==
  [][RequestLines \/ ReconfigureLines =>
       \A o \in ToSet(order) : Directed(MakeKernelFlags(conf[o])) => AsConfigured(o)']_vars

\* Setting values drives each line named to the last value given for it and
\* no other line, wherever the line stands in the request.
SetReachesNamedLines ==
  [][\A offs \in OffsetArgs, vals \in ValueArgs :
       SetValuesSubset(offs, vals) =>
         /\ \A i \in DOMAIN offs :
              (\A j \in (i + 1)..Len(offs) : offs[j] # offs[i])
                => line'[offs[i]].value = vals[i]
         /\ \A o \in Offsets \ ToSet(offs) : line'[o] = line[o]]_vars

\* Getting values returns, place by place, those of the lines named.
GetReadsNamedLines ==
  \A offs \in OffsetArgs : ToSet(offs) \subseteq ToSet(requested) =>
    ValuesAt(offs) = [i \in DOMAIN offs |-> line[offs[i]].value]

===============================================================================
