------------------------- MODULE MCCollectPipeline -------------------------
(* Model-checking instance of CollectPipeline. *)
EXTENDS CollectPipeline

CONSTANTS h1, h2, h3, a1

OneHost == {h1}
TwoHosts == {h1, h2}
ThreeHosts == {h1, h2, h3}
OneAddress == {a1}
SameIp == [h \in Hosts |-> a1]
=============================================================================
