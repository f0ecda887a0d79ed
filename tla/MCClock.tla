------------------------------ MODULE MCClock -------------------------------
(* The clock with words of 16 values and an int of 8. *)
EXTENDS Clock
=============================================================================
