--------------------------- MODULE MCMailCollection --------------------------
(***************************************************************************)
(* Instances of MailCollection for TLC.                                    *)
(***************************************************************************)
EXTENDS MailCollection, TLC

CONSTANTS w1, w2

TwoWorkers == {w1, w2}
SecondIsUnreadable == {2}
=============================================================================
