-------------------------- MODULE MCAgentEnrolment --------------------------
(* Model-checking instance of AgentEnrolment. *)
EXTENDS AgentEnrolment, TLC

CONSTANTS a1, a2, t1, t2, t3

TwoAgents == {a1, a2}
ThreeThreads == {t1, t2, t3}
Symmetric == Permutations(TwoAgents) \cup Permutations(ThreeThreads)
=============================================================================
