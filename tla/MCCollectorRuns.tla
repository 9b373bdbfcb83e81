-------------------------- MODULE MCCollectorRuns --------------------------
(***************************************************************************)
(* Instances of CollectorRuns for TLC.  Runs and ticks are interchangeable *)
(* in the safety runs; the liveness run uses no symmetry.                  *)
(***************************************************************************)
EXTENDS CollectorRuns, TLC

CONSTANTS r1, r2, t1, t2

TwoRuns == {r1, r2}
OneTick == {t1}
TwoTicks == {t1, t2}
Nothing == {}
FirstRecord == {1}
Never == {FALSE}

Symmetry == Permutations(Runs) \cup Permutations(Ticks)
=============================================================================
