---------------------------- MODULE LineConfigSpec ----------------------------
(***************************************************************************)
(* What a line-config object promises its user (include/gpiod.h, "Line     *)
(* configuration objects"; lib/line-config.c): an ordered map from offsets *)
(* to settings, and a set of output values that override those of the      *)
(* settings by position.  Adding settings is one step, however the         *)
(* implementation shares and counts the settings it stores.                *)
(***************************************************************************)
EXTENDS Integers, Sequences, FiniteSets, OffsetLists

CONSTANTS Offsets, Settings, Values, LinesMax, MaxArg

VARIABLES
  order,    \* configured offsets, in the order they were first assigned
  conf,     \* the settings of each configured offset
  outs      \* output values, by position in order

svars == <<order, conf, outs>>

SpecInit == order = <<>> /\ conf = <<>> /\ outs = <<>>

\* All the offsets get the settings, the others keep theirs; the new ones
\* go last, in the order given.  There must be room for all of them, also for
\* those that are repeated or configured already.
Room(offs) == Len(order) + Len(offs) <= LinesMax
Add(offs, s) ==
  /\ offs # <<>> /\ Room(offs)
  /\ order' = FirstOccurrences(order \o offs)
  /\ conf' = [o \in ToSet(order') |-> IF o \in ToSet(offs) THEN s ELSE conf[o]]
  /\ UNCHANGED outs

SetValues(vals) ==
  /\ Len(vals) <= LinesMax
  /\ outs' = vals
  /\ UNCHANGED <<order, conf>>

Clear == order' = <<>> /\ conf' = <<>> /\ outs' = <<>>

SpecNext ==
  \/ \E offs \in SeqOf(Offsets, MaxArg), s \in Settings : Add(offs, s)
  \/ \E vals \in SeqOf(Values, MaxArg) : SetValues(vals)
  \/ Clear

Behaviour == SpecInit /\ [][SpecNext]_svars
===============================================================================
