------------------------------ MODULE MCFaults ------------------------------
(***************************************************************************)
(* Statements that fail half-way: registrations, and the handlers of       *)
(* members and their profiles. They share no variable, so a behaviour runs *)
(* one of the two, which its first state chooses, and the other's state    *)
(* stays as it is.                                                         *)
(***************************************************************************)
EXTENDS MCRegistration, Profiles, TLC

CONSTANTS u1, u2, p1, r1, r2

TwoUsers == {u1, u2}
OnePin == {p1}
TwoRequests == {r1, r2}
\* Registrations are alike, and so are handlers.
FaultsSymmetry == Permutations(TwoSagas) \cup Permutations(TwoRequests)

VARIABLE focus
faultVars == <<vars, profileVars, focus>>

FaultsInit ==
    /\ Init
    /\ ProfilesInit
    /\ \/ focus = "registration" /\ account = {Founder}
       \/ focus = "profiles"

FaultsNext ==
    /\ \/ focus = "registration" /\ Next /\ UNCHANGED profileVars
       \/ focus = "profiles" /\ ProfilesNext /\ UNCHANGED vars
    /\ UNCHANGED focus

FaultsSpec == FaultsInit /\ [][FaultsNext]_faultVars

\* Every table and handler of the two parts stays in its domain.
TypesOK == TypeOK /\ ProfilesTypeOK
=============================================================================
