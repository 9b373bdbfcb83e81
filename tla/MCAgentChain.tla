---------------------------- MODULE MCAgentChain -----------------------------
(***************************************************************************)
(* Instances of AgentChain for TLC.                                        *)
(***************************************************************************)
EXTENDS AgentChain, TLC

CONSTANTS s1, s2

SecondIsLine == {[epoch |-> 1, seq |-> 2]}
TwoRequests == {s1, s2}
=============================================================================
