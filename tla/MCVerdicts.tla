----------------------------- MODULE MCVerdicts -----------------------------
(* Every kind of device, with two poor things at most, and one collect.     *)
EXTENDS Verdicts

=============================================================================
