--------------------------- MODULE MCUserChannel ---------------------------
(* Model-checking instance of UserChannel. *)
EXTENDS UserChannel

CONSTANTS w1, w2

MCSessions == {w1, w2}
=============================================================================
