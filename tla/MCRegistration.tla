--------------------------- MODULE MCRegistration ---------------------------
(* Instances of Registration for TLC. *)
EXTENDS Registration

CONSTANTS s1, s2, slugA, slugB, e1

OneSaga == {s1}
TwoSagas == {s1, s2}
TwoSlugs == <<slugA, slugB>>
OneEmail == {e1}
=============================================================================
