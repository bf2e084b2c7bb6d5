---------------------------- MODULE MCLineRequest ------------------------------
(***************************************************************************)
(* A chip of two lines and a client with four settings: an input with      *)
(* edges and a debounce period, an output, one that says nothing of the    *)
(* direction, and one that the kernel rejects, an open drain of no         *)
(* direction.  Two attributes are all there is, so that some               *)
(* configurations are too big; lists of up to two offsets or values, with  *)
(* repetitions, name the lines of a request in any order.  A value set by  *)
(* position is 0, the output's own is 1.                                   *)
(***************************************************************************)
EXTENDS LineRequest

CONSTANTS o1, o2
MCOffsets == {o1, o2}
MCValues == {0}
Symmetry == Permutations(MCOffsets)

AsIs == [direction |-> "as_is", edge |-> "none", bias |-> "as_is",
         drive |-> "push_pull", active_low |-> FALSE, clock |-> "monotonic",
         debounce |-> 0, value |-> 0]
MCSettings ==
  {[AsIs EXCEPT !.active_low = TRUE],
   [AsIs EXCEPT !.drive = "open_drain"],
   [AsIs EXCEPT !.direction = "input", !.edge = "rising", !.debounce = 13],
   [AsIs EXCEPT !.direction = "output", !.value = 1]}
===============================================================================
