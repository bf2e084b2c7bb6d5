----------------------------- MODULE MCLineConfig -----------------------------
(***************************************************************************)
(* A small line-config object: a table of three entries for four offsets,  *)
(* so that one more would overrun it; three allocations between resets, so *)
(* that nodes are freed from the middle and from the tail of the list      *)
(* while the newest one is being filled; calls of up to two offsets,       *)
(* repeated ones included.                                                 *)
(***************************************************************************)
EXTENDS LineConfig

CONSTANTS o1, o2, o3, o4, s1, s2, bad
MCOffsets == {o1, o2, o3, o4}
MCSettings == {s1, s2}
MCValues == {1}
Symmetry == Permutations(MCOffsets)
===============================================================================
