---------------------------- MODULE MCGpioManager ------------------------------
(***************************************************************************)
(* A manager of one chip of two lines.  The chip is plugged in up to       *)
(* twice, so that a request can outlive the instance it was made on; two   *)
(* request ids, so that an id is used again; queues of two uevents, so     *)
(* that unbind and bind wait together, and of two info events, so that a   *)
(* request of both lines can overflow it; one death, with a restart.  The  *)
(* system stops when the bounds are used up.                               *)
(***************************************************************************)
EXTENDS GpioManager

CONSTANT c1
OneChip == {c1}
TwoLines == {0, 1}
===============================================================================
