--------------------------- MODULE MCEvidencePurge ---------------------------
(***************************************************************************)
(* Instances of EvidencePurge for TLC.                                     *)
(***************************************************************************)
EXTENDS EvidencePurge, TLC

CONSTANTS s1, k1, k2

NewestIsDiary == {LastEvent}
KeepOneOrTwo == {1, 2}
OneSession == {s1}
TwoRunners == {k1, k2}
=============================================================================
