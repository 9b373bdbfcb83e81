-------------------------- MODULE MCEvidenceStorage --------------------------
(***************************************************************************)
(* Instances of EvidenceStorage for TLC.                                   *)
(***************************************************************************)
EXTENDS EvidenceStorage, TLC

CONSTANTS o1, o2, e1, d1, w1, w2, k1, k2

TwoObjects == {o1, o2}
OneEvent == {e1}
OneDocument == {d1}
OneWriter == {w1}
TwoWriters == {w1, w2}
OneCleaner == {k1}
TwoCleaners == {k1, k2}

Symmetry == Permutations(Objects) \cup Permutations(Writers) \cup Permutations(Cleaners)
=============================================================================
