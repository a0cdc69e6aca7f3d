------------------------------- MODULE Access -------------------------------
(***************************************************************************)
(* What a request may do: Introspect (internal/auth/introspect.go) reads   *)
(* a device token, its tenant, two users, their memberships, a role and    *)
(* its permissions one statement at a time while other requests change     *)
(* them; Core caches the answer, lets requests through on it, and the      *)
(* handlers of Handlers.tla check it again.                                *)
(*                                                                         *)
(* One device of one tenant, one acting user at a time. A finished call    *)
(* stands for the cached answer until it expires. The branch scope and the *)
(* last-used stamp of the token decide nothing here and are left out.      *)
(***************************************************************************)
EXTENDS Handlers

CONSTANTS
    User,             \* who may unlock the device
    Owner,            \* the user the token was issued to
    Role, Grant,      \* role rows, and the permissions they may list
    Seeded,           \* the permissions the roles may start with
    None,
    MaxWrites,        \* bound: statements of other requests
    MaxReadFaults     \* bound: reads that fail

ASSUME AccessAssumption ==
    /\ Owner \in User
    /\ None \notin Role /\ User \cap Role = {}
    /\ Seeded \subseteq [Role -> SUBSET Grant]
    /\ MaxWrites \in Nat /\ MaxReadFaults \in Nat

VARIABLES
    tokenLive,        \* the device token is not revoked
    tenantOn,         \* its tenant is active
    membership,       \* user -> [role, active], or None
    platformAdmin,    \* the users with is_platform_admin
    rolePerms,        \* role -> its permission rows, or None without the role row
    call,             \* the introspection, then its cached answer
    was, lacked,      \* history: facts that held, that failed, during the call
    accessWrites, readFaults

tables == <<tokenLive, tenantOn, membership, platformAdmin, rolePerms>>
accessVars == <<tables, call, was, lacked, accessWrites, readFaults>>

Active(u) == membership[u] # None /\ membership[u].active

----------------------------------------------------------------------------
\* The facts an answer is made of.

Fact ==
    {<<"token">>, <<"tenant">>} \cup ({"active", "admin"} \X User)
    \cup ({"holds"} \X User \X Role) \cup ({"row"} \X Role) \cup ({"has"} \X Role \X Grant)
    \cup ({"can"} \X User \X Grant)

Holds(f) ==
    \/ f[1] = "token"  /\ tokenLive
    \/ f[1] = "tenant" /\ tenantOn
    \/ f[1] = "active" /\ Active(f[2])
    \/ f[1] = "admin"  /\ f[2] \in platformAdmin
    \/ f[1] = "holds"  /\ Active(f[2]) /\ membership[f[2]].role = f[3]
    \/ f[1] = "row"    /\ rolePerms[f[2]] # None
    \/ f[1] = "has"    /\ rolePerms[f[2]] # None /\ f[3] \in rolePerms[f[2]]
    \/ /\ f[1] = "can" /\ Active(f[2])
       /\ rolePerms[membership[f[2]].role] # None /\ f[3] \in rolePerms[membership[f[2]].role]

Facts == {f \in Fact : Holds(f)}

\* History: starts with a call, and is frozen with its answer.
Watch ==
    \/ call'.pc = "idle" /\ was' = {} /\ lacked' = {}
    \/ call'.pc # "idle" /\ call.pc = "done" /\ UNCHANGED <<was, lacked>>
    \/ /\ call'.pc # "idle" /\ call.pc # "done"
       /\ LET mine == {f \in Fact : Len(f) > 1 /\ f[2] \in User => f[2] \in {Owner, call'.acting}}
          IN  /\ was' = was \cup (mine \cap Facts')
              /\ lacked' = lacked \cup (mine \ Facts')

----------------------------------------------------------------------------
\* The introspection. pc: idle, token, tenant, owner, ownerMembership,
\* membership, admin, role, permissions, done.

Idle == [pc |-> "idle", acting |-> None, ownerAdmin |-> FALSE, role |-> None,
         outcome |-> None, type |-> None, permissions |-> {}, failed |-> FALSE]

AccessInit ==
    /\ tokenLive = TRUE
    /\ tenantOn = TRUE
    /\ membership \in [User -> {None} \cup [role : Role, active : {TRUE}]]
    /\ platformAdmin \in SUBSET {Owner}
    /\ rolePerms \in Seeded
    /\ call = Idle
    /\ was = {} /\ lacked = {}
    /\ accessWrites = 0
    /\ readFaults = 0

Refused(c, message) == [c EXCEPT !.pc = "done", !.outcome = message]

\* One read that leaves the answer `then` when it finds what it asks for, and
\* `else` when it does not or fails: most of Introspect tells these not apart.
Reading(at, found, then, else) ==
    /\ call.pc = at
    /\ \/ call' = (IF found THEN then ELSE else) /\ readFaults' = readFaults
       \/ /\ readFaults < MaxReadFaults
          /\ call' = [else EXCEPT !.failed = TRUE]
          /\ readFaults' = readFaults + 1
    /\ UNCHANGED <<tables, accessWrites>>

Introspect(u) ==
    /\ call.pc = "idle"
    /\ call' = [call EXCEPT !.pc = "token", !.acting = u]
    /\ UNCHANGED <<tables, accessWrites, readFaults>>

ReadToken == Reading("token", tokenLive, [call EXCEPT !.pc = "tenant"], Refused(call, "invalid token"))

ReadTenant == Reading("tenant", tenantOn, [call EXCEPT !.pc = "owner"], Refused(call, "invalid token"))

ReadOwner ==
    Reading("owner", Owner \in platformAdmin,
            [call EXCEPT !.pc = "ownerMembership", !.ownerAdmin = TRUE],
            [call EXCEPT !.pc = "ownerMembership"])

\* What follows once the acting user's membership (None for a platform admin
\* without one) and user type are known.
Resolved(c, role, admin) ==
    LET r == [c EXCEPT !.role = role, !.type = IF admin THEN "platform_admin" ELSE "tenant_user"]
    IN  IF role = None THEN [r EXCEPT !.pc = "done", !.outcome = "ok"] ELSE [r EXCEPT !.pc = "role"]

RoleHeld(u) == IF Active(u) THEN membership[u].role ELSE None

AfterOwner(c, role) ==
    IF c.acting = Owner THEN Resolved(c, role, c.ownerAdmin) ELSE [c EXCEPT !.pc = "membership"]

ReadOwnerMembership ==
    Reading("ownerMembership", Active(Owner),
            AfterOwner(call, RoleHeld(Owner)),
            IF call.ownerAdmin THEN AfterOwner(call, None) ELSE Refused(call, "membership revoked"))

\* Slip: the acting user is taken on trust.
ReadMembership_Trusting ==
    Reading("membership", TRUE, [call EXCEPT !.pc = "admin", !.role = RoleHeld(call.acting)], call)

ReadMembership ==
    Reading("membership", Active(call.acting),
            [call EXCEPT !.pc = "admin", !.role = RoleHeld(call.acting)],
            Refused(call, "membership revoked"))

\* Slip: the owner's user type is answered.
ReadActing_Owner ==
    Reading("admin", TRUE, Resolved(call, call.role, call.ownerAdmin),
            Resolved(call, call.role, call.ownerAdmin))

\* A failed read leaves the owner's user type in place.
ReadActing ==
    Reading("admin", TRUE, Resolved(call, call.role, call.acting \in platformAdmin),
            Resolved(call, call.role, call.ownerAdmin))

\* resolveRole: the row, then its permissions.
ReadRole ==
    Reading("role", rolePerms[call.role] # None, [call EXCEPT !.pc = "permissions"], Refused(call, "error"))

RowsOf(role) == IF rolePerms[role] = None THEN {} ELSE rolePerms[role]

ReadPermissions ==
    /\ call.pc = "permissions"
    /\ Reading("permissions", TRUE,
               [call EXCEPT !.pc = "done", !.outcome = "ok",
                            !.permissions = WithBaseline(RowsOf(call.role))],
               Refused(call, "error"))

\* Core drops its cached answer.
Expire ==
    /\ call.pc = "done"
    /\ call' = Idle
    /\ UNCHANGED <<tables, accessWrites, readFaults>>

IntrospectStep ==
    \/ ReadToken \/ ReadTenant \/ ReadOwner \/ ReadOwnerMembership \/ ReadMembership
    \/ ReadActing \/ ReadRole \/ ReadPermissions

----------------------------------------------------------------------------
\* Single statements of other requests.

Writing ==
    /\ accessWrites < MaxWrites
    /\ accessWrites' = accessWrites + 1
    /\ UNCHANGED <<call, readFaults>>

RevokeToken ==
    /\ Writing /\ tokenLive
    /\ tokenLive' = FALSE
    /\ UNCHANGED <<tenantOn, membership, platformAdmin, rolePerms>>

WriteTenantStatus ==
    /\ Writing
    /\ tenantOn' = ~tenantOn
    /\ UNCHANGED <<tokenLive, membership, platformAdmin, rolePerms>>

\* AddMember, UpdateMemberRole, SetMemberStatus and RemoveMember, each its write.
WriteMembership(u) ==
    /\ Writing
    /\ \E m \in {None} \cup [role : {r \in Role : rolePerms[r] # None}, active : BOOLEAN] :
          /\ m # membership[u]
          /\ membership[u] = None => m.active
          /\ membership' = [membership EXCEPT ![u] = m]
    /\ UNCHANGED <<tokenLive, tenantOn, platformAdmin, rolePerms>>

WriteAdmin(u) ==
    /\ Writing
    /\ platformAdmin' = (IF u \in platformAdmin THEN platformAdmin \ {u} ELSE platformAdmin \cup {u})
    /\ UNCHANGED <<tokenLive, tenantOn, membership, rolePerms>>

\* replacePermissions and DeleteRole: all the rows go in one statement.
ClearPermissions(r) ==
    /\ Writing
    /\ rolePerms[r] \notin {None, {}}
    /\ rolePerms' = [rolePerms EXCEPT ![r] = {}]
    /\ UNCHANGED <<tokenLive, tenantOn, membership, platformAdmin>>

\* replacePermissions and syncPermissions: row by row.
InsertPermission(r, p) ==
    /\ Writing
    /\ rolePerms[r] # None /\ p \notin rolePerms[r]
    /\ rolePerms' = [rolePerms EXCEPT ![r] = @ \cup {p}]
    /\ UNCHANGED <<tokenLive, tenantOn, membership, platformAdmin>>

DropPermission(r, p) ==
    /\ Writing
    /\ rolePerms[r] # None /\ p \in rolePerms[r]
    /\ rolePerms' = [rolePerms EXCEPT ![r] = @ \ {p}]
    /\ UNCHANGED <<tokenLive, tenantOn, membership, platformAdmin>>

\* DeleteRole: a role nobody holds, its permissions gone.
DropRole(r) ==
    /\ Writing
    /\ rolePerms[r] = {}
    /\ \A u \in User : membership[u] # None => membership[u].role # r
    /\ rolePerms' = [rolePerms EXCEPT ![r] = None]
    /\ UNCHANGED <<tokenLive, tenantOn, membership, platformAdmin>>

AccessWrite ==
    \/ RevokeToken \/ WriteTenantStatus
    \/ \E u \in User : WriteMembership(u) \/ WriteAdmin(u)
    \/ \E r \in Role : ClearPermissions(r) \/ DropRole(r)
    \/ \E r \in Role, p \in Grant : InsertPermission(r, p) \/ DropPermission(r, p)

AccessNext ==
    /\ (\E u \in User : Introspect(u)) \/ IntrospectStep \/ Expire \/ AccessWrite
    /\ Watch

AccessSpec ==
    /\ AccessInit /\ [][AccessNext]_accessVars
    /\ WF_accessVars(IntrospectStep /\ Watch)
    /\ WF_accessVars(Expire /\ Watch)

----------------------------------------------------------------------------
\* Properties.

Answered == call.pc = "done"
Accepted == Answered /\ call.outcome = "ok"

\* Every variable stays in its domain.
AccessTypeOK ==
    /\ tokenLive \in BOOLEAN /\ tenantOn \in BOOLEAN
    /\ membership \in [User -> {None} \cup [role : Role, active : BOOLEAN]]
    /\ platformAdmin \subseteq User
    /\ rolePerms \in [Role -> {None} \cup SUBSET Grant]
    /\ call.acting \in User \cup {None} /\ call.role \in Role \cup {None}
    /\ call.permissions \subseteq Grant \cup BaselinePermissions
    /\ was \subseteq Fact /\ lacked \subseteq Fact
    /\ accessWrites \in 0..MaxWrites /\ readFaults \in 0..MaxReadFaults

(***************************************************************************)
(* introspect.go:13-20: a refusal says why. "invalid token" is answered    *)
(* only if the token was revoked or the tenant off at some moment of the   *)
(* call, "membership revoked" only if the owner or the acting user was not *)
(* an active member, an error only if the role went away: unless a read    *)
(* failed, which the code reports in the same words.                       *)
(***************************************************************************)
RefusalsFounded ==
    Answered /\ ~call.failed =>
        /\ call.outcome = "invalid token" => {<<"token">>, <<"tenant">>} \cap lacked # {}
        /\ call.outcome = "membership revoked" =>
              \/ <<"active", Owner>> \in lacked /\ <<"admin", Owner>> \in lacked
              \/ call.acting # Owner /\ <<"active", call.acting>> \in lacked
        /\ call.outcome = "error" => <<"row", call.role>> \in lacked

(***************************************************************************)
(* An accepted answer is made of facts that held during its call, however  *)
(* the reads fall between other requests' writes: token, tenant, owner,    *)
(* the acting user's membership and role, each permission. Role and        *)
(* permission held together unless both changed during the call.           *)
(***************************************************************************)
AnswersFounded ==
    Accepted =>
        /\ {<<"token">>, <<"tenant">>} \subseteq was
        /\ <<"active", Owner>> \in was \/ <<"admin", Owner>> \in was
        /\ <<"active", call.acting>> \in was \/ call.acting = Owner
        /\ call.role # None => <<"holds", call.acting, call.role>> \in was
        /\ \A p \in call.permissions \ BaselinePermissions :
              /\ <<"has", call.role, p>> \in was
              /\ \/ <<"can", call.acting, p>> \in was
                 \/ {<<"holds", call.acting, call.role>>, <<"has", call.role, p>>} \subseteq lacked

(***************************************************************************)
(* The other direction: a permission missing from an accepted answer was   *)
(* missing from the role at some moment of the call (an update clears the  *)
(* rows before it writes them again), and a member is never answered with  *)
(* less than the baseline.                                                 *)
(***************************************************************************)
DenialsFounded ==
    Accepted /\ call.role # None =>
        /\ BaselinePermissions \subseteq call.permissions
        /\ \A p \in Grant \ call.permissions :
              /\ <<"has", call.role, p>> \in lacked
              /\ \/ <<"can", call.acting, p>> \in lacked
                 \/ <<"holds", call.acting, call.role>> \in lacked

\* Whatever an introspection says, the tables said during its call.
AnswersSound == AccessTypeOK /\ RefusalsFounded /\ AnswersFounded /\ DenialsFounded

Reaches(r, h) == GatewayLets(call, r) /\ Permits(call, h)

(***************************************************************************)
(* A request that acts on a tenant other than its device's, by path or by  *)
(* body, comes from a user who was a platform admin during the call. With  *)
(* a failed read the acting user may carry the owner's standing.           *)
(***************************************************************************)
CrossTenantByAdmins ==
    Accepted => \A s \in Served :
        Reaches(s[1], s[2]) /\ ActsElsewhere(call, s[2]) =>
            \/ <<"admin", call.acting>> \in was
            \/ call.failed /\ <<"admin", Owner>> \in was

(***************************************************************************)
(* README:77-80: permissions are enforced twice, by the gateway's matcher  *)
(* on the route's declaration and by the handler's own. The two agree on   *)
(* every tenant user: a handler that checks a permission refuses nobody    *)
(* whom the gateway let through, and is never reached by anybody else.     *)
(***************************************************************************)
HandlersAgree ==
    Accepted /\ call.type = "tenant_user" => \A s \in Served :
        s[2].checks # NoPermission => (GatewayLets(call, s[1]) <=> Permits(call, s[2]))

\* What Introspect would answer if nothing moved, stated on the tables.
Verdict(u) ==
    IF ~tokenLive \/ ~tenantOn THEN "invalid token"
    ELSE IF \/ ~Active(Owner) /\ Owner \notin platformAdmin
            \/ u # Owner /\ ~Active(u) THEN "membership revoked"
    ELSE IF Active(u) /\ rolePerms[membership[u].role] = None THEN "error"
    ELSE "ok"

Matches(c) ==
    /\ c.outcome = Verdict(c.acting)
    /\ c.outcome = "ok" =>
          /\ c.type = (IF c.acting \in platformAdmin THEN "platform_admin" ELSE "tenant_user")
          /\ c.permissions = IF Active(c.acting)
                             THEN WithBaseline(rolePerms[membership[c.acting].role]) ELSE {}

(***************************************************************************)
(* introspect.go:44-45: "role changes and suspensions take effect          *)
(* immediately (modulo Core's short response cache)". Once the tables      *)
(* rest, the answers served are the tables', for good, for revocations as  *)
(* for grants.                                                             *)
(***************************************************************************)
AnswersSettle == <>[](Answered => Matches(call))
=============================================================================
