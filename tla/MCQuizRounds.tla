---------------------------- MODULE MCQuizRounds ----------------------------
(* Instances of QuizRounds. *)
EXTENDS QuizRounds, TLC

CONSTANTS p1, p2, s1, s2, r1

TwoPeople == {p1, p2}
OneRound == {r1}
TwoSlots == {s1, s2}

Symmetric == Permutations({p1, p2}) \cup Permutations({s1, s2})
=============================================================================
