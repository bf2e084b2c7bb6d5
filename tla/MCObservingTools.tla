---------------------------- MODULE MCObservingTools ----------------------------
(***************************************************************************)
(* Two paths, chips of two lines that share the name One, which is also    *)
(* the offset 1, and ids that alternate between the chips.  Three events   *)
(* on all chips, queues of two, batches of two: a batch that is not full,  *)
(* one that is, and a full queue all happen.  One chip is removed or       *)
(* replaced at any point.                                                  *)
(***************************************************************************)
EXTENDS ObservingTools

CONSTANTS A, B, One, X

MCNames == {A, B, One}
MCAsOffset == [n \in MCNames |-> IF n = One THEN 1 ELSE -1]
MCLayouts == {<<B, One>>, <<One, A>>}
MCReplacements == {<<B, One>>}
MCIdLists == {<<One>>, <<A, One, B>>}
MCSearches == {<<FALSE, FALSE>>}
=================================================================================
