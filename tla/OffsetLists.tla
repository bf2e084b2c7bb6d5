----------------------------- MODULE OffsetLists ------------------------------
(***************************************************************************)
(* Lists of line offsets, as the library and its callers keep them.        *)
(***************************************************************************)
EXTENDS Integers, Sequences, FiniteSets, SequencesExt

\* The members of a finite set of numbers in ascending order.
Ascending(S) ==
  [k \in 1..Cardinality(S) |-> CHOOSE x \in S : Cardinality({y \in S : y <= x}) = k]

\* Where a sequence has a value that it does not have before.
FirstIndices(s) == {j \in DOMAIN s : \A k \in 1..j - 1 : s[k] # s[j]}

\* A sequence without its repetitions: the first occurrences, in order.
FirstOccurrences(s) ==
  LET a == Ascending(FirstIndices(s)) IN [k \in DOMAIN a |-> s[a[k]]]
===============================================================================
