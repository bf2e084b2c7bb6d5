----------------------------- MODULE MCEdgeEvents ------------------------------
(***************************************************************************)
(* Two lines, a kernel queue of three events that five edges overflow, and *)
(* buffers of one or two events that clients ask three of.                 *)
(***************************************************************************)
EXTENDS EdgeEvents, TLC

CONSTANTS l1, l2
MCLines == {l1, l2}
Symmetry == Permutations(MCLines)
===============================================================================
