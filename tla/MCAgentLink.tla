---------------------------- MODULE MCAgentLink ----------------------------
(* Model-checking instance of AgentLink. *)
EXTENDS AgentLink

CONSTANTS w1, w2, w3

MCSessions == {w1, w2, w3}
MCTwo == {w1, w2}
=============================================================================
