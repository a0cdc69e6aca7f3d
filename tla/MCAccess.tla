------------------------------ MODULE MCAccess ------------------------------
\* Instances of Access for TLC.
EXTENDS Access

CONSTANTS u1, u2, r1, r2

TwoUsers == {u1, u2}
TwoRoles == {r1, r2}
\* A permission the member routes ask for, and a wildcard.
InviteAndBranches == {<<"user", "invite">>, <<"branch", "*">>}
AllAndLess == {[r \in TwoRoles |-> IF r = r1 THEN InviteAndBranches ELSE less] :
                  less \in {{}, {<<"user", "invite">>}}}
=============================================================================
