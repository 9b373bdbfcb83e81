----------------------------- MODULE MCAgentKeys -----------------------------
(***************************************************************************)
(* An instance of AgentKeys for TLC.                                       *)
(***************************************************************************)
EXTENDS AgentKeys, TLC

CONSTANTS a1, p1, s1, s2

OneServer == {a1}
OneClient == {p1}
TwoRequests == {s1, s2}

KeysOfEach == [m \in Machines |-> IF m = a1 THEN 1 ELSE 2]
CodesOfEach == [m \in Machines |-> IF m = a1 THEN 2 ELSE 0]

Symmetry == Permutations(Slots)
=============================================================================
