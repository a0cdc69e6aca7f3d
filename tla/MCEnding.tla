------------------------------ MODULE MCEnding ------------------------------
(***************************************************************************)
(* What must end: registrations and boots. They share no table, so a       *)
(* behaviour runs one of the two, which its first state chooses, and the   *)
(* other's state stays as it is.                                           *)
(***************************************************************************)
EXTENDS Registration, Seeding

CONSTANTS s1, s2, slugA, slugB, e1, i1, i2, owner, member, p, q, z

TwoSagas == {s1, s2}
TwoSlugs == <<slugA, slugB>>
OneEmail == {e1}

TwoInstances == {i1, i2}
TwoRoles == {owner, member}
ThreePermissions == {p, q, z}
New == [r \in TwoRoles |-> IF r = owner THEN {p} ELSE {p, q}]
Old == [r \in TwoRoles |-> IF r = owner THEN {p, z} ELSE {p}]
TwoVersions == {New, Old}

VARIABLE focus
endingVars == <<vars, seedVars, focus>>

\* One initial state of Seeding, of two versions, where nothing boots.
SeedRests ==
    /\ version = [i \in Instance |-> IF i = i1 THEN New ELSE Old]
    /\ roleRows = {} /\ permRows = {}
    /\ boot = [i \in Instance |-> [Booting EXCEPT !.at = "dead"]]
    /\ alone = [i \in Instance |-> TRUE]
    /\ rowsMade = 0 /\ deaths = 0

EndingInit ==
    /\ Init
    /\ \/ focus = "registration" /\ SeedRests
       \/ focus = "boot" /\ SeedInit

InRegistration(A) == focus = "registration" /\ A /\ UNCHANGED <<seedVars, focus>>
InBoot(A) == focus = "boot" /\ A /\ UNCHANGED <<vars, focus>>

EndingNext == InRegistration(Next) \/ InBoot(SeedNext)

EndingSpec ==
    /\ EndingInit /\ [][EndingNext]_endingVars
    /\ \A s \in Saga : WF_endingVars(InRegistration(Step(s)))
    /\ \A i \in Instance : WF_endingVars(InBoot(Starts(i))) /\ WF_endingVars(InBoot(SeedStep(i)))
=============================================================================
