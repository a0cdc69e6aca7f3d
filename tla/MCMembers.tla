----------------------------- MODULE MCMembers -----------------------------
(* Instances of Members for TLC. *)
EXTENDS Members, TLC

CONSTANTS u1, u2, r1, r2, c1

TwoUsers == {u1, u2}
OneRequest == {r1}
TwoRequests == {r1, r2}
OneRole == {c1}
NoRole == {}
OnePermission == {"tenant:manage"}

Slots == Permutations(Request)
=============================================================================
