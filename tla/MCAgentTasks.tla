---------------------------- MODULE MCAgentTasks ----------------------------
(* Model-checking instance of AgentTasks. *)
EXTENDS AgentTasks

CONSTANTS k1, h1

OneTask == {k1}
OneWorker == {h1}
=============================================================================
