--------------------------- MODULE MCRuleBackfill ---------------------------
(***************************************************************************)
(* Instances of RuleBackfill for TLC.                                      *)
(***************************************************************************)
EXTENDS RuleBackfill, TLC

CONSTANTS a, b, j1, w1, w2

TwoRules == {a, b}
OneJob == {j1}
TwoWorkers == {w1, w2}

AllOrNothing == {{}, Events}
OneSaved == [r \in RuleIds |-> IF r = a THEN Events ELSE Absent]
=============================================================================
