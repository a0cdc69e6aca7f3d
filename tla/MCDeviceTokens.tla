--------------------------- MODULE MCDeviceTokens ---------------------------
(* Instances of DeviceTokens for TLC. *)
EXTENDS DeviceTokens, TLC

CONSTANTS u1, u2, t1, t2, b1, b2, k1, k2, r1, r2

OneUser == {u1}
TwoUsers == {u1, u2}
OneTenant == {t1}
TwoTenants == {t1, t2}
TwoTokens == {k1, k2}
OneToken == {k1}
OneRequest == {r1}
TwoRequests == {r1, r2}
NoOne == {}
FirstUser == {u1}

\* One tenant: its main branch and another one.
OneTenantBranches == {b1, b2}
OneTenantOf == [b \in OneTenantBranches |-> t1]
OneTenantMain == [t \in OneTenant |-> b1]
OneTenantFounder == [t \in OneTenant |-> u1]
MainOnly == {b1}
MainOnlyOf == [b \in MainOnly |-> t1]

\* Two tenants of one founder, with a main branch each.
TwoTenantBranches == {b1, b2}
TwoTenantOf == (b1 :> t1) @@ (b2 :> t2)
TwoTenantMain == (t1 :> b1) @@ (t2 :> b2)
TwoTenantFounder == [t \in TwoTenants |-> u1]

Hashes == Permutations(Request) \cup Permutations(Token)
=============================================================================
