---------------------------- MODULE DeviceTokens ----------------------------
(***************************************************************************)
(* Device tokens from login to revocation: internal/auth/login.go,         *)
(* internal/auth/introspect.go, SwitchBranch and the branch CRUD of        *)
(* internal/auth/branch.go, SetTenantStatus of internal/auth/tenant.go,    *)
(* internal/auth/platform_admins_manage.go, and what RemoveMember,         *)
(* SetMemberStatus and AddMember do to memberships and tokens.             *)
(*                                                                         *)
(* Handlers interleave statement by statement, as in Members. Roles and    *)
(* the last-manager guard are Members' subject: here a guarded handler may *)
(* be refused. A login starts once the password or the Google identity is  *)
(* proven, which is where LoginWithGoogle and Login meet.                  *)
(***************************************************************************)
EXTENDS Naturals, FiniteSets

CONSTANTS
    User,
    Tenant,
    Branch,
    BranchTenant,  \* branch -> the tenant it belongs to
    MainBranch,    \* tenant -> the branch registration created
    Founder,       \* tenant -> its first member
    Console,       \* users who may be made platform admin
    Token,         \* bound: device tokens issued
    MaxJoins,      \* bound: how often AddMember admits a user to a tenant
    Request,       \* slots: how many handlers are in flight at once
    MayFail,       \* whether statements fail and requests are cancelled
    None

ASSUME BranchAssumption ==
    /\ BranchTenant \in [Branch -> Tenant]
    /\ MainBranch \in [Tenant -> Branch]
    /\ \A t \in Tenant : BranchTenant[MainBranch[t]] = t
ASSUME FounderAssumption == Founder \in [Tenant -> User]
ASSUME ConsoleAssumption == Console \subseteq User
ASSUME MayFailAssumption == MayFail \in BOOLEAN
ASSUME AbsentAssumption == None \notin User \cup Tenant \cup Branch \cup Token \cup Nat

Joined == [join : Nat, branch : Branch, status : {"active", "suspended"}]
Issued == [user : User, tenant : Tenant, branch : Branch, revoked : BOOLEAN]

ASSUME RowAssumption == /\ None \notin Joined
                        /\ None \notin Issued
                        /\ None \notin [user : User, tenant : Tenant, ended : BOOLEAN]

VARIABLES
    member,        \* tenant_users: user -> tenant -> row; join stands for its id
    joins,         \* memberships AddMember created so far, per user and tenant
    tenantStatus,  \* tenants.status once registered
    branchStatus,  \* branches.status; "none" before CreateBranch
    admin,         \* users with is_platform_admin
    token,         \* device_tokens
    req,           \* the handlers in flight
    cut,           \* history: tokens issued before their owner's access was withdrawn
    late           \* history: tokens of logins that a withdrawal overtook

tables == <<member, joins, tenantStatus, branchStatus, admin, token, cut, late>>
vars == <<tables, req>>

----------------------------------------------------------------------------
(* Introspect *)

IsActiveMember(u, t) == member[u][t] # None /\ member[u][t].status # "suspended"

IsSuspended(u, t) == member[u][t] # None /\ member[u][t].status = "suspended"

Live(k) == token[k] # None /\ ~token[k].revoked

\* Slip: the owner's membership is no longer looked at.
Accepts_OwnerUnchecked(k, acting) ==
    /\ Live(k)
    /\ tenantStatus[token[k].tenant] = "active"
    /\ acting # token[k].user => IsActiveMember(acting, token[k].tenant)

\* The answer Introspect gives for token k and acting user; the owner acts when
\* the request names no one. The branch of the answer is the token's.
Accepts(k, acting) ==
    /\ Live(k)
    /\ tenantStatus[token[k].tenant] = "active"
    /\ IsActiveMember(token[k].user, token[k].tenant) \/ token[k].user \in admin
    /\ acting # token[k].user => IsActiveMember(acting, token[k].tenant)

----------------------------------------------------------------------------
(* Handlers *)

MemberOp == {"remove", "suspend", "reactivate"}

\* join: the membership id read, None when no membership has to be written;
\* seen: the branches of the memberships a login loaded.
Handler ==
    [pc : {"idle", "lookup", "write", "sweep", "exists", "create", "load", "pick", "issue",
           "membership", "tenant", "branch", "move", "rescope"},
     op : MemberOp \cup {"add", "login", "switch", "none"},
     user : User \cup {None},
     tenant : Tenant \cup {None},
     branch : Branch \cup {None},
     token : Token \cup {None},
     join : Nat \cup {None},
     seen : [Tenant -> Branch \cup {None}]]

NothingSeen == [t \in Tenant |-> None]

Idle == [pc |-> "idle", op |-> "none", user |-> None, tenant |-> None, branch |-> None,
         token |-> None, join |-> None, seen |-> NothingSeen]

TypeOK ==
    /\ member \in [User -> [Tenant -> Joined \cup {None}]]
    /\ joins \in [User -> [Tenant -> Nat]]
    /\ tenantStatus \in [Tenant -> {"active", "suspended"}]
    /\ branchStatus \in [Branch -> {"none", "active", "archived"}]
    /\ admin \subseteq User
    /\ token \in [Token -> Issued \cup {None}]
    /\ req \in [Request -> Handler]
    /\ {cut, late} \subseteq SUBSET Token

Init ==
    /\ member = [u \in User |-> [t \in Tenant |->
                   IF Founder[t] = u
                   THEN [join |-> 0, branch |-> MainBranch[t], status |-> "active"]
                   ELSE None]]
    /\ joins = [u \in User |-> [t \in Tenant |-> 0]]
    /\ tenantStatus = [t \in Tenant |-> "active"]
    /\ branchStatus = [b \in Branch |-> IF b = MainBranch[BranchTenant[b]] THEN "active" ELSE "none"]
    /\ admin = {}
    /\ token = [k \in Token |-> None]
    /\ req = [r \in Request |-> Idle]
    /\ cut = {} /\ late = {}

Goto(r, pc) == req' = [req EXCEPT ![r].pc = pc]
Return(r) == req' = [req EXCEPT ![r] = Idle]
Begin(r, handler) == req[r].pc = "idle" /\ req' = [req EXCEPT ![r] = handler] /\ UNCHANGED tables

BeginMemberOp(r, op, u, t) ==
    Begin(r, [Idle EXCEPT !.pc = "lookup", !.op = op, !.user = u, !.tenant = t])

\* The branch is looked up by id and tenant, whatever its status.
BeginAddMember(r, u, b) ==
    /\ branchStatus[b] # "none"
    /\ Begin(r, [Idle EXCEPT !.pc = "exists", !.op = "add", !.user = u,
                             !.tenant = BranchTenant[b], !.branch = b])

\* tenant None: no slug was given.
BeginLogin(r, u, t) ==
    Begin(r, [Idle EXCEPT !.pc = "load", !.op = "login", !.user = u, !.tenant = t])

\* The gateway let the request through: tenant, acting user and token hash come
\* from an introspection, the branch from the body. Later steps may find any
\* of it changed.
BeginSwitch(r, k, acting, b) ==
    /\ Accepts(k, acting)
    /\ branchStatus[b] # "none"
    /\ Begin(r, [Idle EXCEPT !.pc = "membership", !.op = "switch", !.user = acting,
                             !.tenant = token[k].tenant, !.branch = b, !.token = k])

----------------------------------------------------------------------------
(* RemoveMember and SetMemberStatus *)

Row(r) == member[req[r].user][req[r].tenant]

Lookup(r) ==
    /\ req[r].pc = "lookup"
    /\ Row(r) # None
    /\ req[r].op # "remove" => Row(r).status = (IF req[r].op = "suspend" THEN "active" ELSE "suspended")
    /\ req' = [req EXCEPT ![r].pc = "write", ![r].join = Row(r).join]
    /\ UNCHANGED tables

\* Not a member, nothing to change, or refused by the last-manager guard, which
\* a reactivation does not pass.
LookupReturns(r) ==
    /\ req[r].pc = "lookup"
    /\ req[r].op = "reactivate" => ~IsSuspended(req[r].user, req[r].tenant)
    /\ Return(r)
    /\ UNCHANGED tables

RowHeld(r) == Row(r) # None /\ Row(r).join = req[r].join

\* A write to another row than the one read fails and ends the handler.
WriteMisses(r) ==
    /\ req[r].pc = "write"
    /\ ~RowHeld(r)
    /\ Return(r)
    /\ UNCHANGED tables

TokensOf(u, t) == {k \in Token : Live(k) /\ token[k].user = u /\ token[k].tenant = t}

\* Slip: tokens are revoked on removal only.
AfterWithdrawal_NoSuspendSweep(r) == IF req[r].op = "remove" THEN Goto(r, "sweep") ELSE Return(r)

AfterWithdrawal(r) == Goto(r, "sweep")

WithdrawAccess(r) ==
    LET u == req[r].user
        t == req[r].tenant
    IN
    /\ req[r].pc = "write"
    /\ req[r].op \in {"remove", "suspend"}
    /\ RowHeld(r)
    /\ member' = [member EXCEPT ![u][t] = IF req[r].op = "remove" THEN None
                                          ELSE [@ EXCEPT !.status = "suspended"]]
    /\ cut' = cut \cup TokensOf(u, t)
    /\ AfterWithdrawal(r)
    /\ UNCHANGED <<joins, tenantStatus, branchStatus, admin, token, late>>

Reactivate(r) ==
    /\ req[r].pc = "write"
    /\ req[r].op = "reactivate"
    /\ RowHeld(r)
    /\ member' = [member EXCEPT ![req[r].user][req[r].tenant].status = "active"]
    /\ Return(r)
    /\ UNCHANGED <<joins, tenantStatus, branchStatus, admin, token, cut, late>>

\* A handler is about to sweep the tokens of u in t.
Sweeping(u, t) == \E r \in Request : req[r].pc = "sweep" /\ req[r].user = u /\ req[r].tenant = t

\* u's access to t is withdrawn, or given back with the sweep still to come.
Withdrawn(u, t) == ~IsActiveMember(u, t) \/ Sweeping(u, t)

\* Slip: the user's tokens in every tenant.
Swept_AllTenants(u, t) == {k \in Token : Live(k) /\ token[k].user = u}

Swept(u, t) == TokensOf(u, t)

RevokeTokens(r) ==
    LET swept == Swept(req[r].user, req[r].tenant) IN
    /\ req[r].pc = "sweep"
    /\ token' = [k \in Token |-> IF k \in swept THEN [token[k] EXCEPT !.revoked = TRUE] ELSE token[k]]
    /\ Return(r)
    /\ UNCHANGED <<member, joins, tenantStatus, branchStatus, admin, cut, late>>

----------------------------------------------------------------------------
(* AddMember *)

CheckNotMember(r) ==
    /\ req[r].pc = "exists"
    /\ IF Row(r) = None THEN Goto(r, "create") ELSE Return(r)
    /\ UNCHANGED tables

CreateMembership(r) ==
    LET u == req[r].user
        t == req[r].tenant
    IN
    /\ req[r].pc = "create"
    /\ Row(r) = None
    /\ joins[u][t] < MaxJoins
    /\ joins' = [joins EXCEPT ![u][t] = @ + 1]
    /\ member' = [member EXCEPT ![u][t] =
                    [join |-> joins[u][t] + 1, branch |-> req[r].branch, status |-> "active"]]
    /\ Return(r)
    /\ UNCHANGED <<tenantStatus, branchStatus, admin, token, cut, late>>

DuplicateMembership(r) ==
    /\ req[r].pc = "create"
    /\ Row(r) # None
    /\ Return(r)
    /\ UNCHANGED tables

----------------------------------------------------------------------------
(* Login: resolveTenantAndIssue and issueDeviceToken *)

LoadMemberships(r) ==
    LET u == req[r].user
        seen == [t \in Tenant |-> IF IsActiveMember(u, t) THEN member[u][t].branch ELSE None]
    IN
    /\ req[r].pc = "load"
    /\ IF seen = NothingSeen THEN Return(r)
       ELSE req' = [req EXCEPT ![r].pc = "pick", ![r].seen = seen]
    /\ UNCHANGED tables

\* Slip: the tenant of the slug, member or not.
Picks_AnyTenant(r, t) ==
    /\ tenantStatus[t] = "active"
    /\ \/ req[r].tenant = t
       \/ req[r].tenant = None /\ \A o \in Tenant : req[r].seen[o] # None <=> o = t

\* The tenant of the slug, or the only one; else the chooser.
Picks(r, t) ==
    /\ req[r].seen[t] # None
    /\ tenantStatus[t] = "active"
    /\ \/ req[r].tenant = t
       \/ req[r].tenant = None /\ \A o \in Tenant : req[r].seen[o] # None => o = t

PickTenant(r, t) ==
    /\ req[r].pc = "pick"
    /\ Picks(r, t)
    /\ req' = [req EXCEPT ![r].pc = "issue", ![r].tenant = t, ![r].branch = req[r].seen[t],
                          ![r].seen = NothingSeen]
    /\ UNCHANGED tables

NoTenantPicked(r) ==
    /\ req[r].pc = "pick"
    /\ \A t \in Tenant : ~Picks(r, t)
    /\ Return(r)
    /\ UNCHANGED tables

\* Branch.Get cannot fail: branches are archived, never deleted. The token's
\* hash is new. The membership the login read may have been withdrawn since.
IssueDeviceToken(r, k) ==
    /\ req[r].pc = "issue"
    /\ token[k] = None
    /\ token' = [token EXCEPT ![k] = [user |-> req[r].user, tenant |-> req[r].tenant,
                                      branch |-> req[r].branch, revoked |-> FALSE]]
    /\ late' = IF Withdrawn(req[r].user, req[r].tenant) THEN late \cup {k} ELSE late
    /\ Return(r)
    /\ UNCHANGED <<member, joins, tenantStatus, branchStatus, admin, cut>>

\* One statement; the gateway let the request through.
Logout(k) ==
    /\ Live(k)
    /\ token' = [token EXCEPT ![k].revoked = TRUE]
    /\ UNCHANGED <<member, joins, tenantStatus, branchStatus, admin, cut, late, req>>

----------------------------------------------------------------------------
(* SwitchBranch *)

\* The membership's status is not looked at.
LookupCurrentBranch(r) ==
    /\ req[r].pc = "membership"
    /\ IF Row(r) = None THEN Return(r)
       ELSE req' = [req EXCEPT ![r].pc = "tenant",
                               ![r].join = IF Row(r).branch = req[r].branch THEN None ELSE Row(r).join]
    /\ UNCHANGED tables

CheckTenant(r) ==
    /\ req[r].pc = "tenant"
    /\ IF tenantStatus[req[r].tenant] = "active" THEN Goto(r, "branch") ELSE Return(r)
    /\ UNCHANGED tables

\* Slip: the branch looked up by id alone.
BranchAvailable_AnyTenant(b, t) == branchStatus[b] = "active"

BranchAvailable(b, t) == branchStatus[b] = "active" /\ BranchTenant[b] = t

CheckBranch(r) ==
    /\ req[r].pc = "branch"
    /\ IF BranchAvailable(req[r].branch, req[r].tenant)
       THEN Goto(r, IF req[r].join = None THEN "rescope" ELSE "move")
       ELSE Return(r)
    /\ UNCHANGED tables

\* Slip: only the device is moved.
MoveMembership_DeviceOnly(r) ==
    /\ req[r].pc = "move"
    /\ RowHeld(r)
    /\ Goto(r, "rescope")
    /\ UNCHANGED tables

MoveMembership(r) ==
    /\ req[r].pc = "move"
    /\ RowHeld(r)
    /\ member' = [member EXCEPT ![req[r].user][req[r].tenant].branch = req[r].branch]
    /\ Goto(r, "rescope")
    /\ UNCHANGED <<joins, tenantStatus, branchStatus, admin, token, cut, late>>

MoveMisses(r) ==
    /\ req[r].pc = "move"
    /\ ~RowHeld(r)
    /\ Return(r)
    /\ UNCHANGED tables

\* Slip: the device row is written without the RevokedAtIsNil filter, whole.
Rescoped_Revived(k, b) == [token[k] EXCEPT !.branch = b, !.revoked = FALSE]

Rescoped(k, b) == IF token[k].revoked THEN token[k] ELSE [token[k] EXCEPT !.branch = b]

RescopeToken(r) ==
    LET k == req[r].token IN
    /\ req[r].pc = "rescope"
    /\ token' = [token EXCEPT ![k] = Rescoped(k, req[r].branch)]
    /\ Return(r)
    /\ UNCHANGED <<member, joins, tenantStatus, branchStatus, admin, cut, late>>

----------------------------------------------------------------------------
(* The console and the branch CRUD: one deciding statement each *)

SetTenantStatus(t, status) ==
    /\ tenantStatus' = [tenantStatus EXCEPT ![t] = status]
    /\ UNCHANGED <<member, joins, branchStatus, admin, token, cut, late, req>>

CreateBranch(b) ==
    /\ branchStatus[b] = "none"
    /\ branchStatus' = [branchStatus EXCEPT ![b] = "active"]
    /\ UNCHANGED <<member, joins, tenantStatus, admin, token, cut, late, req>>

UpdateBranch(b, status) ==
    /\ branchStatus[b] # "none"
    /\ branchStatus' = [branchStatus EXCEPT ![b] = status]
    /\ UNCHANGED <<member, joins, tenantStatus, admin, token, cut, late, req>>

SetPlatformAdmin(u, granted) ==
    /\ admin' = IF granted THEN admin \cup {u} ELSE admin \ {u}
    /\ UNCHANGED <<member, joins, tenantStatus, branchStatus, token, cut, late, req>>

\* A failed statement, a cancelled request or a crash: the rest of the handler
\* does not happen. The errors of the sweeps are dropped by the code, so a
\* failing sweep ends the same way.
Abandon(r) ==
    /\ MayFail
    /\ req[r].pc # "idle"
    /\ Return(r)
    /\ UNCHANGED tables

----------------------------------------------------------------------------

Begins(r) ==
    \/ \E op \in MemberOp, u \in User, t \in Tenant : BeginMemberOp(r, op, u, t)
    \/ \E u \in User, b \in Branch : BeginAddMember(r, u, b)
    \/ \E u \in User, t \in Tenant \cup {None} : BeginLogin(r, u, t)
    \/ \E k \in Token, acting \in User, b \in Branch : BeginSwitch(r, k, acting, b)

Step(r) ==
    \/ Lookup(r) \/ LookupReturns(r) \/ WriteMisses(r)
    \/ WithdrawAccess(r) \/ Reactivate(r) \/ RevokeTokens(r)
    \/ CheckNotMember(r) \/ CreateMembership(r) \/ DuplicateMembership(r)
    \/ LoadMemberships(r) \/ (\E t \in Tenant : PickTenant(r, t)) \/ NoTenantPicked(r)
    \/ \E k \in Token : IssueDeviceToken(r, k)
    \/ LookupCurrentBranch(r) \/ CheckTenant(r) \/ CheckBranch(r)
    \/ MoveMembership(r) \/ MoveMisses(r) \/ RescopeToken(r)

Administration ==
    \/ \E k \in Token : Logout(k)
    \/ \E t \in Tenant, status \in {"active", "suspended"} : SetTenantStatus(t, status)
    \/ \E b \in Branch : CreateBranch(b)
    \/ \E b \in Branch, status \in {"active", "archived"} : UpdateBranch(b, status)
    \/ \E u \in Console, granted \in BOOLEAN : SetPlatformAdmin(u, granted)

Next == Administration \/ \E r \in Request : Begins(r) \/ Step(r) \/ Abandon(r)

Spec == Init /\ [][Next]_vars

\* A goroutine that was started goes on: its statements return.
FairSpec == Spec /\ \A r \in Request : WF_vars(Step(r))

----------------------------------------------------------------------------
(* Properties *)

SweepPending(k) == Sweeping(token[k].user, token[k].tenant)

\* RemoveMember and SetMemberStatus: a token that was issued when its owner's
\* access was withdrawn is revoked, or the handler that withdrew the access is
\* about to revoke it. Nothing un-revokes it, so a later reactivation or a new
\* membership does not bring it back.
CutTokensSwept == \A k \in cut : token[k].revoked \/ SweepPending(k)

\* Someone without access keeps no live token but one that is about to be swept,
\* and those of logins that read the membership before it was withdrawn.
OnlyLateLeft ==
    \A k \in Token : Live(k) /\ ~IsActiveMember(token[k].user, token[k].tenant) =>
                        SweepPending(k) \/ k \in late

\* What a withdrawal leaves, with handlers that overlap.
WithdrawalsSound == CutTokensSwept /\ OnlyLateLeft

\* The same, to the end: the handler gets there.
CutTokensRevoked == \A k \in Token : k \in cut ~> [](token[k] # None /\ token[k].revoked)

\* A token and a membership never point into another tenant's branches,
\* through logins, moves and switches by acting users.
BranchesInTenant ==
    /\ \A k \in Token : token[k] # None => BranchTenant[token[k].branch] = token[k].tenant
    /\ \A u \in User, t \in Tenant :
          member[u][t] # None => BranchTenant[member[u][t].branch] = t

\* Removing or suspending someone kills the devices that person signed in on
\* in that tenant, and no other: a token is revoked by its own logout or
\* because its owner's access in its tenant was withdrawn, before or after the
\* login that issued it read the membership.
DevicesOfOthersKept ==
    [][\A k \in Token : (Live(k) /\ ~Live(k)') => k \in cut \cup late \/ Logout(k)]_vars

\* The comments of RemoveMember and SetMemberStatus: being added again or
\* reactivated restores no token, the member logs in again. Where a membership
\* becomes active, its owner has no live token in the tenant, except one that a
\* handler is about to revoke.
NoRevival ==
    [][\A k \in Token :
          (Live(k) /\ ~SweepPending(k) /\ IsActiveMember(token[k].user, token[k].tenant)')
             => IsActiveMember(token[k].user, token[k].tenant)]_vars

\* SwitchBranch moves the calling person's membership and the device as one
\* thing, and a login scopes the new device to the membership it is for: a
\* device comes to a branch only together with the person who brings it there.
\* The other devices of that person, and a device's owner if someone else is
\* acting on it, stay where they are.
ComesWithPerson ==
    \A k \in Token :
       Live(k)' /\ (token[k] # None => token'[k].branch # token[k].branch) =>
          \E u \in User :
             /\ IF token[k] = None THEN token'[k].user = u
                ELSE \E r \in Request : RescopeToken(r) /\ req[r].user = u
             /\ (/\ IsActiveMember(u, token[k].tenant)
                 /\ member[u][token[k].tenant].branch = token[k].branch)'

\* SwitchBranch and Login: no step brings a device to a branch without the person.
ScopedTogether == [][ComesWithPerson]_vars

----------------------------------------------------------------------------
(* What a device is promised, refined *)

\* A session is over once its token is revoked or its owner's access withdrawn,
\* whichever the handler writes first.
SessionOf(k) ==
    IF token[k] = None THEN None
    ELSE [user |-> token[k].user, tenant |-> token[k].tenant,
          ended |-> token[k].revoked \/ ~IsActiveMember(token[k].user, token[k].tenant)]

S == INSTANCE Sessions WITH session <- [k \in Token |-> SessionOf(k)],
                            paused <- {t \in Tenant : tenantStatus[t] = "suspended"}

\* Handler after handler, the tables implement sessions: a withdrawal ends all of
\* a user's sessions in one tenant at its first write and the sweep is not
\* seen, and no re-admission, branch switch or tenant status brings one back.
SessionsKept == S!SessionSpec

\* Introspect lets a device's owner in exactly while the session is valid; a
\* platform admin needs no membership.
ServesValidSessions ==
    \A k \in Token : token[k] # None /\ token[k].user \notin admin =>
                        (Accepts(k, token[k].user) <=> S!Valid(k))
=============================================================================
