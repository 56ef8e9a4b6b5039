---------------------------- MODULE MCGeneration ----------------------------
(* An analyzer that starts with an operator's anchor, for TLC.             *)
EXTENDS GenerationAccumulation

MCInterval == [t \in 1 .. LastTs |-> 2 ^ (t - 1)]
MCOperatorAnchor == {[ts |-> 3, val |-> 9, source |-> "operator"]}
MCSingles == {{t} : t \in 1 .. LastTs}
=============================================================================
