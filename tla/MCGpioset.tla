---------------------------- MODULE MCGpioset -----------------------------------
(***************************************************************************)
(* Two paths, chips of one to three lines.  Names A and B, and One, which  *)
(* is also the offset 1 and is found at other offsets and at offset 1.     *)
(* Names are used twice on a chip and on two chips, a chip may hold none   *)
(* of the names, and ids alternate between the chips.  One chip is removed *)
(* or replaced at any point.  Schedules of up to three periods with zeros  *)
(* first, in the middle and last, and periods below the hold period.       *)
(***************************************************************************)
EXTENDS Gpioset

CONSTANTS A, B, One, X

MCNames == {A, B, One}
MCAsOffset == [n \in MCNames |-> IF n = One THEN 1 ELSE -1]
MCLayouts == {<<A, X, B>>, <<B, One>>, <<One, A>>, <<A, A>>}
MCReplacements == {<<B, One>>}
MCIdLists == {<<A>>, <<One>>, <<A, One>>, <<B, A>>, <<A, A>>, <<A, One, B>>}
MCStartValues == {<<"off", "0", "on">>, <<"1", "inactive", "true">>, <<"0", "2", "1">>}
MCSchedules == {<<>>, <<0>>, <<1>>, <<1, 0>>, <<0, 1>>, <<1, 0, 0>>}
MCHolds == {0, 2}
=================================================================================
