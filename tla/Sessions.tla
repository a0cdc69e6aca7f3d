------------------------------ MODULE Sessions ------------------------------
(***************************************************************************)
(* What a device is promised (README "How auth works", Introspect's rules, *)
(* the comments of RemoveMember, SetMemberStatus and SetTenantStatus): a   *)
(* session belongs to one user in one tenant, ends with its logout or with *)
(* every other session of that user in that tenant, and never comes back;  *)
(* suspending a tenant only pauses its sessions.                           *)
(***************************************************************************)
CONSTANTS User, Tenant, Token, None

VARIABLES
    session,  \* token -> the session it opens
    paused    \* suspended tenants

SessionType ==
    /\ session \in [Token -> [user : User, tenant : Tenant, ended : BOOLEAN] \cup {None}]
    /\ paused \subseteq Tenant

SessionInit == session = [k \in Token |-> None] /\ paused = {}

Open(k) == session[k] # None /\ ~session[k].ended

SessionsOf(u, t) == {k \in Token : Open(k) /\ session[k].user = u /\ session[k].tenant = t}

Valid(k) == Open(k) /\ session[k].tenant \notin paused

Start(k, u, t) ==
    /\ session[k] = None
    /\ session' = [session EXCEPT ![k] = [user |-> u, tenant |-> t, ended |-> FALSE]]
    /\ UNCHANGED paused

End(S) ==
    /\ session' = [k \in Token |-> IF k \in S THEN [session[k] EXCEPT !.ended = TRUE] ELSE session[k]]
    /\ UNCHANGED paused

SignOut(k) == Open(k) /\ End({k})

SignOutEverywhere(u, t) == End(SessionsOf(u, t))

Pause(t, on) ==
    /\ paused' = IF on THEN paused \cup {t} ELSE paused \ {t}
    /\ UNCHANGED session

SessionNext ==
    \/ \E k \in Token, u \in User, t \in Tenant : Start(k, u, t)
    \/ \E k \in Token : SignOut(k)
    \/ \E u \in User, t \in Tenant : SignOutEverywhere(u, t)
    \/ \E t \in Tenant, on \in BOOLEAN : Pause(t, on)

SessionSpec == SessionInit /\ [][SessionNext]_<<session, paused>>
=============================================================================
