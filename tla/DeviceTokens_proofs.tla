------------------------- MODULE DeviceTokens_proofs -------------------------
(* Theorems of DeviceTokens, for every set of users, tenants, branches,    *)
(* tokens and handlers.                                                    *)
EXTENDS DeviceTokens, TLAPS

Switching(h) == h.pc \in {"membership", "tenant", "branch", "move", "rescope"}

\* What the program counter says of a handler's locals.
Local(h) ==
    /\ h.pc # "idle" => h.user \in User
    /\ h.pc \in {"lookup", "write", "sweep"} => h.op \in MemberOp /\ h.tenant \in Tenant
    /\ h.pc \in {"exists", "create"} => h.tenant \in Tenant /\ h.branch \in Branch
    /\ h.pc = "issue" => h.tenant \in Tenant /\ h.branch \in Branch
    /\ Switching(h) => /\ h.tenant \in Tenant /\ h.branch \in Branch /\ h.token \in Token
                       /\ token[h.token] # None /\ token[h.token].tenant = h.tenant

TypeInv == TypeOK /\ \A r \in Request : Local(req[r])

LEMMA IdleLocal == Idle \in Handler /\ Local(Idle) /\ Idle.pc = "idle"
BY DEF Idle, Handler, Local, Switching, NothingSeen

LEMMA TypeInit == Init => TypeInv
<1> SUFFICES ASSUME Init PROVE TypeInv
  OBVIOUS
<1>1. ASSUME NEW u \in User, NEW t \in Tenant PROVE member[u][t] \in Joined \cup {None}
  BY BranchAssumption DEF Init, Joined
<1>2. member \in [User -> [Tenant -> Joined \cup {None}]]
  BY <1>1 DEF Init
<1>3. QED
  BY <1>2, IdleLocal DEF Init, TypeInv, TypeOK

----------------------------------------------------------------------------
(* Issued tokens *)

\* Tokens are never deleted, change neither owner nor tenant and stay revoked.
TokensKept ==
    \A k \in Token : token[k] # None =>
       /\ token'[k] # None
       /\ token'[k].user = token[k].user
       /\ token'[k].tenant = token[k].tenant
       /\ token[k].revoked => token'[k].revoked

\* The steps that write device_tokens.
TokenStep(r) == RevokeTokens(r) \/ (\E k \in Token : IssueDeviceToken(r, k)) \/ RescopeToken(r)

LEMMA OtherStepsKeepTokens ==
    ASSUME NEW r \in Request, Begins(r) \/ Step(r) \/ Abandon(r), ~TokenStep(r)
    PROVE  UNCHANGED token
<1>1. CASE Begins(r)
  BY <1>1 DEF Begins, BeginMemberOp, BeginAddMember, BeginLogin, BeginSwitch, Begin, tables
<1>2. CASE Abandon(r)
  BY <1>2 DEF Abandon, tables
<1>3. CASE \/ Lookup(r) \/ LookupReturns(r) \/ WriteMisses(r) \/ WithdrawAccess(r) \/ Reactivate(r)
           \/ CheckNotMember(r) \/ CreateMembership(r) \/ DuplicateMembership(r)
  BY <1>3 DEF Lookup, LookupReturns, WriteMisses, WithdrawAccess, Reactivate, CheckNotMember,
              CreateMembership, DuplicateMembership, tables
<1>4. CASE \/ LoadMemberships(r) \/ (\E t \in Tenant : PickTenant(r, t)) \/ NoTenantPicked(r)
           \/ LookupCurrentBranch(r) \/ CheckTenant(r) \/ CheckBranch(r)
           \/ MoveMembership(r) \/ MoveMisses(r)
  BY <1>4 DEF LoadMemberships, PickTenant, NoTenantPicked, LookupCurrentBranch, CheckTenant,
              CheckBranch, MoveMembership, MoveMisses, tables
<1>5. QED
  BY <1>1, <1>2, <1>3, <1>4 DEF Step, TokenStep

\* What the three statements on device_tokens leave of a token, and its type.
LEMMA TokenStepKeeps ==
    ASSUME TypeInv, NEW r \in Request, TokenStep(r)
    PROVE  TokensKept /\ token' \in [Token -> Issued \cup {None}]
<1>1. token \in [Token -> Issued \cup {None}] /\ Local(req[r]) /\ req[r] \in Handler
  BY DEF TypeInv, TypeOK
<1>2. CASE RevokeTokens(r)
  <2> DEFINE swept == Swept(req[r].user, req[r].tenant)
  <2>1. token' = [k \in Token |-> IF k \in swept THEN [token[k] EXCEPT !.revoked = TRUE] ELSE token[k]]
    BY <1>2 DEF RevokeTokens
  <2>2. \A k \in swept : token[k] \in Issued
    BY <1>1 DEF Swept, TokensOf, Live
  <2> HIDE DEF swept
  <2>3. ASSUME NEW k \in Token
        PROVE  /\ token'[k] \in Issued \cup {None}
               /\ token[k] # None => /\ token'[k] # None
                                     /\ token'[k].user = token[k].user
                                     /\ token'[k].tenant = token[k].tenant
                                     /\ token[k].revoked => token'[k].revoked
    <3>1. CASE k \in swept
      BY <2>1, <2>2, <3>1, RowAssumption DEF Issued
    <3>2. CASE k \notin swept
      BY <1>1, <2>1, <3>2
    <3>3. QED
      BY <3>1, <3>2
  <2>4. QED
    BY <2>1, <2>3 DEF TokensKept
<1>3. CASE \E k \in Token : IssueDeviceToken(r, k)
  <2>1. PICK k \in Token : IssueDeviceToken(r, k)
    BY <1>3
  <2>2. [user |-> req[r].user, tenant |-> req[r].tenant, branch |-> req[r].branch, revoked |-> FALSE] \in Issued
    BY <1>1, <2>1 DEF IssueDeviceToken, Local, Issued
  <2>3. QED
    BY <1>1, <2>1, <2>2 DEF IssueDeviceToken, TokensKept
<1>4. CASE RescopeToken(r)
  <2> DEFINE k == req[r].token
  <2>1. k \in Token /\ token[k] \in Issued /\ req[r].branch \in Branch
    BY <1>1, <1>4 DEF RescopeToken, Local, Switching
  <2>2. token' = [token EXCEPT ![k] = Rescoped(k, req[r].branch)]
    BY <1>4 DEF RescopeToken
  <2>3. /\ Rescoped(k, req[r].branch) \in Issued
        /\ Rescoped(k, req[r].branch).user = token[k].user
        /\ Rescoped(k, req[r].branch).tenant = token[k].tenant
        /\ Rescoped(k, req[r].branch).revoked = token[k].revoked
    BY <2>1 DEF Rescoped, Issued
  <2>4. QED
    BY <1>1, <2>1, <2>2, <2>3, RowAssumption DEF TokensKept
<1>5. QED
  BY <1>2, <1>3, <1>4 DEF TokenStep

LEMMA LogoutKeeps ==
    ASSUME TypeInv, NEW k \in Token, Logout(k)
    PROVE  TokensKept /\ token' \in [Token -> Issued \cup {None}]
<1>1. token \in [Token -> Issued \cup {None}] /\ token[k] \in Issued
  BY DEF TypeInv, TypeOK, Logout, Live
<1>2. [token[k] EXCEPT !.revoked = TRUE] \in Issued
  BY <1>1 DEF Issued
<1>3. token' = [token EXCEPT ![k].revoked = TRUE]
  BY DEF Logout
<1>4. QED
  BY <1>1, <1>2, <1>3, RowAssumption DEF TokensKept, Issued

LEMMA AdministrationKeeps ==
    ASSUME TypeInv, Administration
    PROVE  /\ TokensKept
           /\ TypeOK'
           /\ UNCHANGED <<member, joins, req, cut, late>>
<1>1. CASE \E k \in Token : Logout(k)
  <2>1. PICK k \in Token : Logout(k)
    BY <1>1
  <2>2. QED
    BY <2>1, LogoutKeeps DEF Logout, TypeInv, TypeOK
<1>2. CASE \E t \in Tenant, status \in {"active", "suspended"} : SetTenantStatus(t, status)
  BY <1>2 DEF SetTenantStatus, TypeInv, TypeOK, TokensKept
<1>3. CASE \E b \in Branch : CreateBranch(b)
  BY <1>3 DEF CreateBranch, TypeInv, TypeOK, TokensKept
<1>4. CASE \E b \in Branch, status \in {"active", "archived"} : UpdateBranch(b, status)
  BY <1>4 DEF UpdateBranch, TypeInv, TypeOK, TokensKept
<1>5. CASE \E u \in Console, granted \in BOOLEAN : SetPlatformAdmin(u, granted)
  BY <1>5, ConsoleAssumption DEF SetPlatformAdmin, TypeInv, TypeOK, TokensKept
<1>6. QED
  BY <1>1, <1>2, <1>3, <1>4, <1>5 DEF Administration

LEMMA StepKeepsTokens ==
    ASSUME TypeInv, NEW r \in Request, Begins(r) \/ Step(r) \/ Abandon(r)
    PROVE  TokensKept /\ token' \in [Token -> Issued \cup {None}]
BY OtherStepsKeepTokens, TokenStepKeeps DEF TokensKept, TypeInv, TypeOK

----------------------------------------------------------------------------
(* Types *)

\* The handler in slot r moves to h, the others stay; what they hold of tokens
\* stays true.
LEMMA HandlerMoves ==
    ASSUME TypeInv, TokensKept, NEW r \in Request, NEW h \in Handler, Local(h),
           req' = [req EXCEPT ![r] = h]
    PROVE  /\ req' \in [Request -> Handler]
           /\ \A s \in Request : Local(req[s])'
<1>1. req' \in [Request -> Handler]
  BY DEF TypeInv, TypeOK
<1>2. ASSUME NEW g \in Handler, Local(g) PROVE Local(g)'
  <2>1. Switching(g) => token'[g.token] # None /\ token'[g.token].tenant = g.tenant
    BY <1>2 DEF Local, TokensKept
  <2>2. QED
    BY <1>2, <2>1 DEF Local, Switching
<1>3. ASSUME NEW s \in Request PROVE Local(req[s])'
  <2>1. CASE s = r
    <3>1. req'[s] = h
      BY <2>1 DEF TypeInv, TypeOK
    <3>2. Local(h)'
      BY <1>2
    <3>3. QED
      BY <3>1, <3>2 DEF Local, Switching
  <2>2. CASE s # r
    <3>1. req'[s] = req[s] /\ req[s] \in Handler /\ Local(req[s])
      BY <2>2 DEF TypeInv, TypeOK
    <3>2. Switching(req[s]) => token'[req[s].token] # None /\ token'[req[s].token].tenant = req[s].tenant
      BY <3>1 DEF Local, TokensKept
    <3>3. QED
      BY <3>1, <3>2 DEF Local, Switching
  <2>3. QED
    BY <2>1, <2>2
<1>4. QED
  BY <1>1, <1>3

\* Where the steps of a handler lead.
LEMMA BeginsAt ==
    ASSUME TypeInv, NEW r \in Request, Begins(r)
    PROVE  req[r].pc = "idle" /\ req'[r].pc \in {"lookup", "exists", "load", "membership"}
<1>1. req \in [Request -> Handler]
  BY DEF TypeInv, TypeOK
<1>2. CASE \E op \in MemberOp, u \in User, t \in Tenant : BeginMemberOp(r, op, u, t)
  BY <1>1, <1>2 DEF BeginMemberOp, Begin, Idle
<1>3. CASE \E u \in User, b \in Branch : BeginAddMember(r, u, b)
  BY <1>1, <1>3 DEF BeginAddMember, Begin, Idle
<1>4. CASE \E u \in User, t \in Tenant \cup {None} : BeginLogin(r, u, t)
  BY <1>1, <1>4 DEF BeginLogin, Begin, Idle
<1>5. CASE \E k \in Token, acting \in User, b \in Branch : BeginSwitch(r, k, acting, b)
  BY <1>1, <1>5 DEF BeginSwitch, Begin, Idle
<1>6. QED
  BY <1>2, <1>3, <1>4, <1>5 DEF Begins

LEMMA EndsAt ==
    ASSUME TypeInv, NEW r \in Request,
           \/ LookupReturns(r) \/ WriteMisses(r) \/ Reactivate(r) \/ RevokeTokens(r)
           \/ CreateMembership(r) \/ DuplicateMembership(r) \/ NoTenantPicked(r)
           \/ (\E k \in Token : IssueDeviceToken(r, k)) \/ MoveMisses(r) \/ RescopeToken(r)
           \/ Abandon(r)
    PROVE  req'[r].pc = "idle"
<1>1. Return(r)
  BY DEF LookupReturns, WriteMisses, Reactivate, RevokeTokens, CreateMembership,
         DuplicateMembership, NoTenantPicked, IssueDeviceToken, MoveMisses, RescopeToken, Abandon
<1>2. QED
  BY <1>1 DEF Return, Idle, TypeInv, TypeOK

LEMMA MovesOn ==
    ASSUME TypeInv, NEW r \in Request,
           \/ Lookup(r) \/ CheckNotMember(r) \/ LookupCurrentBranch(r)
           \/ CheckTenant(r) \/ CheckBranch(r) \/ MoveMembership(r)
    PROVE  req'[r].pc \in {"idle", "write", "create", "tenant", "branch", "rescope", "move"}
<1>1. req \in [Request -> Handler]
  BY DEF TypeInv, TypeOK
<1>2. CASE Return(r)
  BY <1>1, <1>2 DEF Return, Idle
<1>3. CASE Lookup(r) \/ LookupCurrentBranch(r)
  BY <1>1, <1>2, <1>3 DEF Lookup, LookupCurrentBranch, Handler
<1>4. CASE CheckNotMember(r) \/ CheckTenant(r) \/ CheckBranch(r) \/ MoveMembership(r)
  <2>1. Return(r) \/ \E pc \in {"create", "branch", "rescope", "move"} : Goto(r, pc)
    BY <1>4 DEF CheckNotMember, CheckTenant, CheckBranch, MoveMembership
  <2>2. QED
    BY <1>1, <1>2, <2>1 DEF Goto, Handler
<1>5. QED
  BY <1>3, <1>4

LEMMA BeginsMoves ==
    ASSUME TypeInv, NEW r \in Request, Begins(r)
    PROVE  UNCHANGED tables /\ \E h \in Handler : Local(h) /\ req' = [req EXCEPT ![r] = h]
<1>1. CASE \E op \in MemberOp, u \in User, t \in Tenant : BeginMemberOp(r, op, u, t)
  <2>1. PICK op \in MemberOp, u \in User, t \in Tenant : BeginMemberOp(r, op, u, t)
    BY <1>1
  <2> DEFINE h == [Idle EXCEPT !.pc = "lookup", !.op = op, !.user = u, !.tenant = t]
  <2>2. h \in Handler /\ Local(h)
    BY DEF Idle, Handler, NothingSeen, Local, Switching
  <2>3. QED
    BY <2>1, <2>2 DEF BeginMemberOp, Begin
<1>2. CASE \E u \in User, b \in Branch : BeginAddMember(r, u, b)
  <2>1. PICK u \in User, b \in Branch : BeginAddMember(r, u, b)
    BY <1>2
  <2> DEFINE h == [Idle EXCEPT !.pc = "exists", !.op = "add", !.user = u,
                               !.tenant = BranchTenant[b], !.branch = b]
  <2>2. h \in Handler /\ Local(h)
    BY BranchAssumption DEF Idle, Handler, NothingSeen, Local, Switching
  <2>3. QED
    BY <2>1, <2>2 DEF BeginAddMember, Begin
<1>3. CASE \E u \in User, t \in Tenant \cup {None} : BeginLogin(r, u, t)
  <2>1. PICK u \in User, t \in Tenant \cup {None} : BeginLogin(r, u, t)
    BY <1>3
  <2> DEFINE h == [Idle EXCEPT !.pc = "load", !.op = "login", !.user = u, !.tenant = t]
  <2>2. h \in Handler /\ Local(h)
    BY DEF Idle, Handler, NothingSeen, Local, Switching
  <2>3. QED
    BY <2>1, <2>2 DEF BeginLogin, Begin
<1>4. CASE \E k \in Token, acting \in User, b \in Branch : BeginSwitch(r, k, acting, b)
  <2>1. PICK k \in Token, acting \in User, b \in Branch : BeginSwitch(r, k, acting, b)
    BY <1>4
  <2> DEFINE h == [Idle EXCEPT !.pc = "membership", !.op = "switch", !.user = acting,
                               !.tenant = token[k].tenant, !.branch = b, !.token = k]
  <2>2. token[k] # None /\ token[k] \in Issued
    BY <2>1 DEF BeginSwitch, Accepts, Live, TypeInv, TypeOK
  <2>3. h \in Handler /\ Local(h)
    BY <2>2 DEF Idle, Handler, NothingSeen, Local, Switching, Issued
  <2>4. QED
    BY <2>1, <2>3 DEF BeginSwitch, Begin
<1>5. QED
  BY <1>1, <1>2, <1>3, <1>4 DEF Begins

\* The locals after a step of r that stays in flight.
LEMMA StepMoves ==
    ASSUME TypeInv, NEW r \in Request, Step(r) \/ Abandon(r)
    PROVE  \E h \in Handler : Local(h) /\ req' = [req EXCEPT ![r] = h]
<1>1. req[r] \in Handler /\ Local(req[r])
  BY DEF TypeInv, TypeOK
<1> DEFINE Goal == \E h \in Handler : Local(h) /\ req' = [req EXCEPT ![r] = h]
<1>2. Return(r) => Goal
  BY IdleLocal DEF Return
<1>3. ASSUME NEW pc, Goto(r, pc), [req[r] EXCEPT !.pc = pc] \in Handler,
             Local([req[r] EXCEPT !.pc = pc])
      PROVE  Goal
  BY <1>1, <1>3 DEF Goto
<1>4. CASE \/ LookupReturns(r) \/ WriteMisses(r) \/ Reactivate(r) \/ RevokeTokens(r)
           \/ CreateMembership(r) \/ DuplicateMembership(r) \/ NoTenantPicked(r)
           \/ (\E k \in Token : IssueDeviceToken(r, k)) \/ MoveMisses(r) \/ RescopeToken(r)
           \/ Abandon(r)
  BY <1>2, <1>4 DEF LookupReturns, WriteMisses, Reactivate, RevokeTokens, CreateMembership,
                    DuplicateMembership, NoTenantPicked, IssueDeviceToken, MoveMisses,
                    RescopeToken, Abandon
<1>5. CASE Lookup(r)
  <2> DEFINE h == [req[r] EXCEPT !.pc = "write", !.join = Row(r).join]
  <2>1. req[r].user \in User /\ req[r].tenant \in Tenant /\ req[r].op \in MemberOp /\ Row(r) # None
    BY <1>1, <1>5 DEF Lookup, Local
  <2>2. Row(r) \in Joined
    BY <2>1 DEF Row, TypeInv, TypeOK
  <2>3. h \in Handler /\ Local(h)
    BY <1>1, <2>1, <2>2 DEF Handler, Joined, Local, Switching
  <2>4. req' = [req EXCEPT ![r] = h]
    BY <1>5 DEF Lookup, TypeInv, TypeOK
  <2>5. QED
    BY <2>3, <2>4
<1>6. CASE WithdrawAccess(r)
  <2>1. [req[r] EXCEPT !.pc = "sweep"] \in Handler /\ Local([req[r] EXCEPT !.pc = "sweep"])
    BY <1>1, <1>6 DEF WithdrawAccess, Handler, Local, Switching
  <2>2. QED
    BY <1>3, <1>6, <2>1 DEF WithdrawAccess, AfterWithdrawal
<1>7. CASE CheckNotMember(r)
  <2>1. req[r].pc = "exists"
    BY <1>7 DEF CheckNotMember
  <2>2. [req[r] EXCEPT !.pc = "create"] \in Handler /\ Local([req[r] EXCEPT !.pc = "create"])
    BY <1>1, <2>1 DEF Handler, Local, Switching
  <2>3. QED
    BY <1>2, <1>3, <1>7, <2>2 DEF CheckNotMember
<1>8. CASE LoadMemberships(r)
  <2> DEFINE u == req[r].user
             seen == [t \in Tenant |-> IF IsActiveMember(u, t) THEN member[u][t].branch ELSE None]
             h == [req[r] EXCEPT !.pc = "pick", !.seen = seen]
  <2>1. u \in User /\ req[r].pc = "load"
    BY <1>1, <1>8 DEF LoadMemberships, Local
  <2>2. \A t \in Tenant : IsActiveMember(u, t) => member[u][t].branch \in Branch
    BY <2>1 DEF IsActiveMember, TypeInv, TypeOK, Joined
  <2>3. seen \in [Tenant -> Branch \cup {None}]
    BY <2>2
  <2>4. h \in Handler /\ Local(h)
    <3> HIDE DEF seen
    <3>1. QED
      BY <1>1, <2>1, <2>3 DEF Handler, Local, Switching
  <2>5. Return(r) \/ req' = [req EXCEPT ![r] = h]
    BY <1>8 DEF LoadMemberships, TypeInv, TypeOK
  <2>6. QED
    BY <1>2, <2>4, <2>5
<1>9. CASE \E t \in Tenant : PickTenant(r, t)
  <2>1. PICK t \in Tenant : PickTenant(r, t)
    BY <1>9
  <2> DEFINE h == [req[r] EXCEPT !.pc = "issue", !.tenant = t, !.branch = req[r].seen[t],
                                 !.seen = NothingSeen]
  <2>2. req[r].seen[t] \in Branch /\ req[r].user \in User
    BY <1>1, <2>1 DEF PickTenant, Picks, Handler, Local
  <2>3. h \in Handler /\ Local(h)
    <3>1. h \in Handler
      BY <1>1, <2>2 DEF Handler, NothingSeen
    <3>2. h.pc = "issue" /\ h.user = req[r].user /\ h.tenant = t /\ h.branch = req[r].seen[t]
      BY <1>1 DEF Handler
    <3> HIDE DEF h
    <3>3. QED
      BY <2>2, <3>1, <3>2 DEF Local, Switching
  <2>4. req' = [req EXCEPT ![r] = h]
    BY <2>1 DEF PickTenant, TypeInv, TypeOK
  <2>5. QED
    BY <2>3, <2>4
<1>10. CASE LookupCurrentBranch(r)
  <2> DEFINE h == [req[r] EXCEPT !.pc = "tenant",
                     !.join = IF Row(r).branch = req[r].branch THEN None ELSE Row(r).join]
  <2>1. req[r].pc = "membership" /\ req[r].user \in User /\ req[r].tenant \in Tenant
    BY <1>1, <1>10 DEF LookupCurrentBranch, Local, Switching
  <2>2. CASE Row(r) = None
    BY <1>2, <1>10, <2>2 DEF LookupCurrentBranch
  <2>3. CASE Row(r) # None
    <3>1. Row(r) \in Joined
      BY <2>1, <2>3 DEF Row, TypeInv, TypeOK
    <3>2. h \in Handler /\ Local(h)
      BY <1>1, <2>1, <3>1 DEF Handler, Joined, Local, Switching
    <3>3. req' = [req EXCEPT ![r] = h]
      BY <1>10, <2>3 DEF LookupCurrentBranch, TypeInv, TypeOK
    <3>4. QED
      BY <3>2, <3>3
  <2>4. QED
    BY <2>2, <2>3
<1>11. CASE CheckTenant(r) \/ CheckBranch(r) \/ MoveMembership(r)
  <2>1. Switching(req[r])
    BY <1>11 DEF CheckTenant, CheckBranch, MoveMembership, Switching
  <2>2. Return(r) \/ \E pc \in {"branch", "rescope", "move"} : Goto(r, pc)
    BY <1>11 DEF CheckTenant, CheckBranch, MoveMembership
  <2>3. ASSUME NEW pc \in {"branch", "rescope", "move"}
        PROVE  [req[r] EXCEPT !.pc = pc] \in Handler /\ Local([req[r] EXCEPT !.pc = pc])
    BY <1>1, <2>1 DEF Handler, Local, Switching
  <2>4. QED
    BY <1>2, <1>3, <2>2, <2>3
<1>12. QED
  BY <1>4, <1>5, <1>6, <1>7, <1>8, <1>9, <1>10, <1>11 DEF Step

\* The statements on tenant_users.
MemberStep(r) == WithdrawAccess(r) \/ Reactivate(r) \/ CreateMembership(r) \/ MoveMembership(r)

\* They write one row, whose branch is the old one or the handler's.
LEMMA MemberWrites ==
    ASSUME TypeInv, NEW r \in Request, MemberStep(r)
    PROVE  /\ req[r].user \in User /\ req[r].tenant \in Tenant
           /\ UNCHANGED token
           /\ \E m \in Joined \cup {None} :
                /\ member' = [member EXCEPT ![req[r].user][req[r].tenant] = m]
                /\ m # None =>
                      \/ Row(r) # None /\ m.branch = Row(r).branch
                      \/ req[r].pc \in {"create", "move"} /\ m.branch = req[r].branch
<1> DEFINE u == req[r].user
           t == req[r].tenant
<1>1. /\ req[r] \in Handler /\ Local(req[r])
      /\ member \in [User -> [Tenant -> Joined \cup {None}]]
      /\ joins \in [User -> [Tenant -> Nat]]
  BY DEF TypeInv, TypeOK
<1>2. u \in User /\ t \in Tenant
  BY <1>1 DEF MemberStep, WithdrawAccess, Reactivate, CreateMembership, MoveMembership, Local, Switching
<1>3. RowHeld(r) => Row(r) # None /\ Row(r) = member[u][t] /\ member[u][t] \in Joined
  BY <1>1, <1>2 DEF RowHeld, Row
<1>4. UNCHANGED token
  BY DEF MemberStep, WithdrawAccess, Reactivate, CreateMembership, MoveMembership
<1> DEFINE Goal(m) == /\ m \in Joined \cup {None}
                      /\ member' = [member EXCEPT ![u][t] = m]
                      /\ m # None =>
                            \/ Row(r) # None /\ m.branch = Row(r).branch
                            \/ req[r].pc \in {"create", "move"} /\ m.branch = req[r].branch
<1>5. CASE WithdrawAccess(r)
  <2> DEFINE m == IF req[r].op = "remove" THEN None ELSE [member[u][t] EXCEPT !.status = "suspended"]
  <2>1. Goal(m)
    BY <1>1, <1>2, <1>3, <1>5 DEF WithdrawAccess, Joined
  <2>2. QED
    BY <1>2, <1>4, <2>1
<1>6. CASE Reactivate(r)
  <2> DEFINE m == [member[u][t] EXCEPT !.status = "active"]
  <2>1. Goal(m)
    BY <1>1, <1>2, <1>3, <1>6 DEF Reactivate, Joined
  <2>2. QED
    BY <1>2, <1>4, <2>1
<1>7. CASE CreateMembership(r)
  <2> DEFINE m == [join |-> joins[u][t] + 1, branch |-> req[r].branch, status |-> "active"]
  <2>1. joins[u][t] + 1 \in Nat /\ req[r].branch \in Branch
    BY <1>1, <1>2, <1>7 DEF CreateMembership, Local
  <2>2. Goal(m)
    BY <1>7, <2>1 DEF CreateMembership, Joined
  <2>3. QED
    BY <1>2, <1>4, <2>2
<1>8. CASE MoveMembership(r)
  <2> DEFINE m == [member[u][t] EXCEPT !.branch = req[r].branch]
  <2>1. req[r].branch \in Branch
    BY <1>1, <1>8 DEF MoveMembership, Local, Switching
  <2>2. Goal(m)
    BY <1>1, <1>2, <1>3, <1>8, <2>1 DEF MoveMembership, Joined
  <2>3. QED
    BY <1>2, <1>4, <2>2
<1>9. QED
  BY <1>5, <1>6, <1>7, <1>8 DEF MemberStep

LEMMA MemberStepTypes ==
    ASSUME TypeInv, NEW r \in Request, MemberStep(r)
    PROVE  /\ member' \in [User -> [Tenant -> Joined \cup {None}]]
           /\ joins' \in [User -> [Tenant -> Nat]]
           /\ cut' \subseteq Token
           /\ UNCHANGED <<tenantStatus, branchStatus, admin, token, late>>
<1>1. /\ req[r].user \in User /\ req[r].tenant \in Tenant
      /\ \E m \in Joined \cup {None} : member' = [member EXCEPT ![req[r].user][req[r].tenant] = m]
  BY MemberWrites
<1>2. member' \in [User -> [Tenant -> Joined \cup {None}]]
  BY <1>1 DEF TypeInv, TypeOK
<1>3. joins' \in [User -> [Tenant -> Nat]]
  <2>1. joins \in [User -> [Tenant -> Nat]]
    BY DEF TypeInv, TypeOK
  <2>2. \/ joins' = joins
        \/ joins' = [joins EXCEPT ![req[r].user][req[r].tenant] = @ + 1]
    BY DEF MemberStep, WithdrawAccess, Reactivate, CreateMembership, MoveMembership
  <2>3. joins[req[r].user][req[r].tenant] + 1 \in Nat
    BY <1>1, <2>1
  <2>4. QED
    BY <1>1, <2>1, <2>2, <2>3
<1>4. cut' \subseteq Token
  BY DEF MemberStep, WithdrawAccess, Reactivate, CreateMembership, MoveMembership, TokensOf,
         TypeInv, TypeOK
<1>5. QED
  BY <1>2, <1>3, <1>4 DEF MemberStep, WithdrawAccess, Reactivate, CreateMembership, MoveMembership

\* A step of a handler writes tenant_users, or device_tokens, or nothing.
LEMMA StepWrites ==
    ASSUME NEW r \in Request, Step(r) \/ Abandon(r)
    PROVE  \/ MemberStep(r)
           \/ /\ TokenStep(r)
              /\ UNCHANGED <<member, joins, tenantStatus, branchStatus, admin, cut>>
              /\ late' = late \/ \E k \in Token : IssueDeviceToken(r, k) /\ late' = late \cup {k}
           \/ UNCHANGED tables
<1>1. CASE TokenStep(r)
  BY <1>1 DEF TokenStep, RevokeTokens, IssueDeviceToken, RescopeToken
<1>2. CASE \/ Lookup(r) \/ LookupReturns(r) \/ WriteMisses(r) \/ CheckNotMember(r)
           \/ DuplicateMembership(r) \/ LoadMemberships(r)
           \/ (\E t \in Tenant : PickTenant(r, t)) \/ NoTenantPicked(r)
  BY <1>2 DEF Lookup, LookupReturns, WriteMisses, CheckNotMember, DuplicateMembership,
              LoadMemberships, PickTenant, NoTenantPicked
<1>3. CASE \/ LookupCurrentBranch(r) \/ CheckTenant(r) \/ CheckBranch(r) \/ MoveMisses(r) \/ Abandon(r)
  BY <1>3 DEF LookupCurrentBranch, CheckTenant, CheckBranch, MoveMisses, Abandon
<1>4. QED
  BY <1>1, <1>2, <1>3 DEF Step, MemberStep, TokenStep

LEMMA TypeStep == TypeInv /\ [Next]_vars => TypeInv'
<1> SUFFICES ASSUME TypeInv, [Next]_vars PROVE TypeInv'
  OBVIOUS
<1>1. CASE UNCHANGED vars
  BY <1>1 DEF vars, tables, TypeInv, TypeOK, Local, Switching
<1>2. CASE Administration
  <2>1. TokensKept /\ TypeOK' /\ req' = req
    BY <1>2, AdministrationKeeps
  <2>2. ASSUME NEW s \in Request PROVE Local(req[s])'
    BY <2>1 DEF TypeInv, Local, Switching, TokensKept
  <2>3. QED
    BY <2>1, <2>2 DEF TypeInv
<1>3. ASSUME NEW r \in Request, Begins(r) \/ Step(r) \/ Abandon(r)
      PROVE  TypeInv'
  <2>1. TokensKept /\ token' \in [Token -> Issued \cup {None}]
    BY <1>3, StepKeepsTokens
  <2>2. \E h \in Handler : Local(h) /\ req' = [req EXCEPT ![r] = h]
    BY <1>3, BeginsMoves, StepMoves
  <2>3. req' \in [Request -> Handler] /\ \A s \in Request : Local(req[s])'
    BY <2>1, <2>2, HandlerMoves
  <2>4. CASE UNCHANGED tables
    BY <2>3, <2>4 DEF tables, TypeInv, TypeOK
  <2>5. CASE MemberStep(r)
    BY <2>3, <2>5, MemberStepTypes DEF TypeInv, TypeOK
  <2>6. CASE /\ UNCHANGED <<member, joins, tenantStatus, branchStatus, admin, cut>>
             /\ late' = late \/ \E k \in Token : late' = late \cup {k}
    <3>1. late' \subseteq Token
      BY <2>6 DEF TypeInv, TypeOK
    <3>2. QED
      BY <2>1, <2>3, <2>6, <3>1 DEF TypeInv, TypeOK
  <2>7. QED
    BY <1>3, <2>4, <2>5, <2>6, BeginsMoves, StepWrites
<1>4. QED
  BY <1>1, <1>2, <1>3 DEF Next

\* Every table holds rows of its type and every handler in flight has the
\* locals its next statement uses, however the handlers interleave.
THEOREM TypeCorrect == Spec => []TypeOK
<1>1. TypeInv => TypeOK
  BY DEF TypeInv
<1>2. QED
  BY <1>1, TypeInit, TypeStep, PTL DEF Spec

----------------------------------------------------------------------------
(* Revocation *)

\* Only a withdrawal leads to a sweep, and where nothing fails only the sweep
\* leads on.
LEMMA SweepBegins ==
    ASSUME TypeInv, NEW r \in Request, Begins(r) \/ Step(r) \/ Abandon(r), ~WithdrawAccess(r)
    PROVE  req'[r].pc # "sweep"
<1>1. req \in [Request -> Handler]
  BY DEF TypeInv, TypeOK
<1>2. CASE Begins(r)
  BY <1>2, BeginsAt
<1>3. CASE \/ LookupReturns(r) \/ WriteMisses(r) \/ Reactivate(r) \/ RevokeTokens(r)
           \/ CreateMembership(r) \/ DuplicateMembership(r) \/ NoTenantPicked(r)
           \/ (\E k \in Token : IssueDeviceToken(r, k)) \/ MoveMisses(r) \/ RescopeToken(r)
           \/ Abandon(r)
  BY <1>3, EndsAt
<1>4. CASE LoadMemberships(r)
  <2>1. \E seen : Return(r) \/ req' = [req EXCEPT ![r].pc = "pick", ![r].seen = seen]
    BY <1>4 DEF LoadMemberships
  <2>2. QED
    BY <1>1, <2>1 DEF Return, Idle, Handler
<1>5. CASE \E t \in Tenant : PickTenant(r, t)
  BY <1>1, <1>5 DEF PickTenant, Handler
<1>6. CASE \/ Lookup(r) \/ CheckNotMember(r) \/ LookupCurrentBranch(r)
           \/ CheckTenant(r) \/ CheckBranch(r) \/ MoveMembership(r)
  BY <1>6, MovesOn
<1>7. QED
  BY <1>2, <1>3, <1>4, <1>5, <1>6 DEF Step

LEMMA SweepEnds ==
    ASSUME ~MayFail, TypeInv, NEW r \in Request, Begins(r) \/ Step(r) \/ Abandon(r),
           ~RevokeTokens(r)
    PROVE  req[r].pc # "sweep"
<1>1. CASE Begins(r) \/ Abandon(r)
  BY <1>1, BeginsAt DEF Abandon
<1>2. CASE \/ Lookup(r) \/ LookupReturns(r) \/ WriteMisses(r) \/ WithdrawAccess(r) \/ Reactivate(r)
           \/ CheckNotMember(r) \/ CreateMembership(r) \/ DuplicateMembership(r)
  BY <1>2 DEF Lookup, LookupReturns, WriteMisses, WithdrawAccess, Reactivate, CheckNotMember,
              CreateMembership, DuplicateMembership
<1>3. CASE \/ LoadMemberships(r) \/ (\E t \in Tenant : PickTenant(r, t)) \/ NoTenantPicked(r)
           \/ (\E k \in Token : IssueDeviceToken(r, k))
  BY <1>3 DEF LoadMemberships, PickTenant, NoTenantPicked, IssueDeviceToken
<1>4. CASE \/ LookupCurrentBranch(r) \/ CheckTenant(r) \/ CheckBranch(r) \/ MoveMembership(r)
           \/ MoveMisses(r) \/ RescopeToken(r)
  BY <1>4 DEF LookupCurrentBranch, CheckTenant, CheckBranch, MoveMembership, MoveMisses,
              RescopeToken
<1>5. QED
  BY <1>1, <1>2, <1>3, <1>4 DEF Step

\* A withdrawal leaves its handler before the sweep, with its user and tenant.
LEMMA WithdrawalSweeps ==
    ASSUME TypeInv, NEW r \in Request, WithdrawAccess(r)
    PROVE  /\ req'[r].pc = "sweep"
           /\ req'[r].user = req[r].user /\ req'[r].tenant = req[r].tenant
BY DEF WithdrawAccess, AfterWithdrawal, Goto, TypeInv, TypeOK, Handler

\* The other handlers stay where they are, and history forgets nothing.
LEMMA OthersStay ==
    ASSUME TypeInv, NEW r \in Request, Begins(r) \/ Step(r) \/ Abandon(r)
    PROVE  /\ \A s \in Request \ {r} : req'[s] = req[s]
           /\ cut \subseteq cut' /\ late \subseteq late'
<1>1. \A s \in Request \ {r} : req'[s] = req[s]
  BY BeginsMoves, StepMoves DEF TypeInv, TypeOK
<1>2. CASE MemberStep(r)
  BY <1>1, <1>2 DEF MemberStep, WithdrawAccess, Reactivate, CreateMembership, MoveMembership
<1>3. CASE TokenStep(r)
  BY <1>1, <1>3 DEF TokenStep, RevokeTokens, IssueDeviceToken, RescopeToken
<1>4. CASE UNCHANGED tables
  BY <1>1, <1>4 DEF tables
<1>5. QED
  BY <1>2, <1>3, <1>4, BeginsMoves, StepWrites

\* A live token was live before, with the same owner and tenant, or is new.
LEMMA LiveBefore ==
    ASSUME TypeInv, NEW r \in Request, Begins(r) \/ Step(r) \/ Abandon(r),
           NEW k \in Token, Live(k)'
    PROVE  \/ Live(k) /\ token'[k].user = token[k].user /\ token'[k].tenant = token[k].tenant
           \/ IssueDeviceToken(r, k)
<1>1. token \in [Token -> Issued \cup {None}] /\ TokensKept
  BY StepKeepsTokens DEF TypeInv, TypeOK
<1>2. CASE token[k] # None
  <2>1. /\ token'[k].user = token[k].user /\ token'[k].tenant = token[k].tenant
        /\ token[k].revoked => token'[k].revoked
    BY <1>1, <1>2 DEF TokensKept
  <2>2. QED
    BY <1>2, <2>1 DEF Live
<1>3. CASE token[k] = None
  <2>1. token'[k] # token[k]
    BY <1>3 DEF Live
  <2>2. CASE RevokeTokens(r)
    <3>1. k \notin Swept(req[r].user, req[r].tenant)
      BY <1>3 DEF Swept, TokensOf, Live
    <3>2. QED
      BY <2>1, <2>2, <3>1 DEF RevokeTokens
  <2>3. CASE \E j \in Token : IssueDeviceToken(r, j)
    <3>1. PICK j \in Token : IssueDeviceToken(r, j)
      BY <2>3
    <3>2. j = k
      BY <1>1, <2>1, <3>1 DEF IssueDeviceToken
    <3>3. QED
      BY <3>1, <3>2
  <2>4. CASE RescopeToken(r)
    <3>1. req[r].token \in Token /\ token[req[r].token] # None
      BY <2>4 DEF RescopeToken, TypeInv, TypeOK, Local, Switching
    <3>2. QED
      BY <1>1, <1>3, <2>1, <2>4, <3>1 DEF RescopeToken
  <2>5. QED
    BY <2>1, <2>2, <2>3, <2>4, OtherStepsKeepTokens DEF TokenStep
<1>4. QED
  BY <1>2, <1>3

LEMMA LiveBeforeAdministration ==
    ASSUME TypeInv, Administration, NEW k \in Token, Live(k)'
    PROVE  Live(k) /\ token'[k] = token[k]
<1>1. token \in [Token -> Issued \cup {None}]
  BY DEF TypeInv, TypeOK
<1>2. CASE \E j \in Token : Logout(j)
  BY <1>1, <1>2, RowAssumption DEF Logout, Live, Issued
<1>3. CASE UNCHANGED token
  BY <1>3 DEF Live
<1>4. QED
  BY <1>2, <1>3 DEF Administration, SetTenantStatus, CreateBranch, UpdateBranch, SetPlatformAdmin

CutInv == CutTokensSwept /\ \A k \in cut : token[k] # None

\* Where nothing fails, the pending sweep is lost by no step and ends with all
\* the tokens it was to revoke.
LEMMA CutStep ==
    ASSUME ~MayFail, TypeInv, CutInv, [Next]_vars
    PROVE  CutInv'
<1>1. CASE UNCHANGED vars
  BY <1>1 DEF vars, tables, CutInv, CutTokensSwept, SweepPending, Sweeping
<1>2. ASSUME TokensKept, cut' = cut,
             \A r \in Request : req[r].pc = "sweep" => req'[r] = req[r]
      PROVE  CutInv'
  <2>1. ASSUME NEW k \in cut PROVE token'[k] # None /\ (token'[k].revoked \/ SweepPending(k)')
    <3>1. k \in Token /\ token[k] # None
      BY DEF CutInv, TypeInv, TypeOK
    <3>2. token'[k] # None /\ token'[k].user = token[k].user /\ token'[k].tenant = token[k].tenant
      BY <1>2, <3>1 DEF TokensKept
    <3>3. CASE token[k].revoked
      BY <1>2, <3>1, <3>2, <3>3 DEF TokensKept
    <3>4. CASE SweepPending(k)
      BY <1>2, <3>2, <3>4 DEF SweepPending, Sweeping
    <3>5. QED
      BY <3>2, <3>3, <3>4 DEF CutInv, CutTokensSwept
  <2>2. QED
    BY <1>2, <2>1 DEF CutInv, CutTokensSwept
<1>3. CASE Administration
  BY <1>2, <1>3, AdministrationKeeps
<1>4. ASSUME NEW r \in Request, Begins(r) \/ Step(r) \/ Abandon(r)
      PROVE  CutInv'
  <2>1. TokensKept
    BY <1>4, StepKeepsTokens
  <2>2. \A s \in Request \ {r} : req'[s] = req[s]
    BY <1>4, OthersStay
  <2>3. CASE RevokeTokens(r)
    <3> DEFINE u == req[r].user
               t == req[r].tenant
    <3>1. ASSUME NEW k \in cut PROVE token'[k] # None /\ (token'[k].revoked \/ SweepPending(k)')
      <4>1. k \in Token /\ token[k] # None /\ token[k] \in Issued
        BY DEF CutInv, TypeInv, TypeOK
      <4>2. token'[k] # None /\ token'[k].user = token[k].user /\ token'[k].tenant = token[k].tenant
        BY <2>1, <4>1 DEF TokensKept
      <4>3. CASE token[k].revoked
        BY <2>1, <4>1, <4>2, <4>3 DEF TokensKept
      <4>4. CASE ~token[k].revoked /\ token[k].user = u /\ token[k].tenant = t
        <5>1. k \in Swept(u, t)
          BY <4>1, <4>4 DEF Swept, TokensOf, Live
        <5>2. token'[k] = [token[k] EXCEPT !.revoked = TRUE]
          BY <2>3, <4>1, <5>1 DEF RevokeTokens
        <5>3. QED
          BY <4>1, <4>2, <5>2 DEF Issued
      <4>5. CASE ~token[k].revoked /\ ~(token[k].user = u /\ token[k].tenant = t)
        <5>1. PICK s \in Request : /\ req[s].pc = "sweep"
                                   /\ req[s].user = token[k].user /\ req[s].tenant = token[k].tenant
          BY <4>5 DEF CutInv, CutTokensSwept, SweepPending, Sweeping
        <5>2. req'[s] = req[s]
          BY <2>2, <4>5, <5>1
        <5>3. QED
          BY <4>2, <5>1, <5>2 DEF SweepPending, Sweeping
      <4>6. QED
        BY <4>3, <4>4, <4>5
    <3>2. cut' = cut
      BY <2>3 DEF RevokeTokens
    <3>3. QED
      BY <3>1, <3>2 DEF CutInv, CutTokensSwept
  <2>4. CASE WithdrawAccess(r)
    <3> DEFINE u == req[r].user
               t == req[r].tenant
    <3>1. token' = token /\ cut' = cut \cup TokensOf(u, t) /\ req[r].pc = "write"
      BY <2>4 DEF WithdrawAccess
    <3>2. req'[r].pc = "sweep" /\ req'[r].user = u /\ req'[r].tenant = t
      BY <2>4, WithdrawalSweeps
    <3>3. ASSUME NEW k \in TokensOf(u, t) PROVE token'[k] # None /\ SweepPending(k)'
      BY <3>1, <3>2 DEF TokensOf, Live, SweepPending, Sweeping
    <3>4. ASSUME NEW k \in cut PROVE token'[k] # None /\ (token'[k].revoked \/ SweepPending(k)')
      BY <2>2, <3>1 DEF CutInv, CutTokensSwept, SweepPending, Sweeping
    <3>5. QED
      BY <3>1, <3>3, <3>4 DEF CutInv, CutTokensSwept
  <2>5. CASE ~RevokeTokens(r) /\ ~WithdrawAccess(r)
    <3>1. cut' = cut
      BY <1>4, <2>5, BeginsMoves, StepWrites
         DEF MemberStep, Reactivate, CreateMembership, MoveMembership, tables
    <3>2. req[r].pc # "sweep"
      BY <1>4, <2>5, SweepEnds
    <3>3. QED
      BY <1>2, <2>1, <2>2, <3>1, <3>2
  <2>6. QED
    BY <2>3, <2>4, <2>5
<1>5. QED
  BY <1>1, <1>3, <1>4 DEF Next

\* Nothing but a withdrawal ends a membership.
LEMMA ActiveKept ==
    ASSUME TypeInv, NEW r \in Request, Begins(r) \/ Step(r) \/ Abandon(r), ~WithdrawAccess(r),
           NEW u \in User, NEW t \in Tenant, IsActiveMember(u, t)
    PROVE  IsActiveMember(u, t)'
<1>1. CASE UNCHANGED member
  BY <1>1 DEF IsActiveMember
<1>2. CASE MemberStep(r)
  <2>1. /\ req[r].user \in User /\ req[r].tenant \in Tenant
        /\ member \in [User -> [Tenant -> Joined \cup {None}]]
        /\ member[u][t] \in Joined
    BY <1>2, MemberWrites DEF TypeInv, TypeOK, IsActiveMember
  <2>2. CASE u = req[r].user /\ t = req[r].tenant
    <3>1. CASE Reactivate(r)
      <4>1. member'[u][t] = [member[u][t] EXCEPT !.status = "active"]
        BY <2>1, <2>2, <3>1 DEF Reactivate
      <4>2. [member[u][t] EXCEPT !.status = "active"] \in Joined
        BY <2>1 DEF Joined
      <4>3. QED
        BY <2>1, <4>1, <4>2, RowAssumption DEF IsActiveMember, Joined
    <3>2. CASE CreateMembership(r)
      BY <2>2, <3>2 DEF CreateMembership, Row, IsActiveMember
    <3>3. CASE MoveMembership(r)
      <4>1. req[r].branch \in Branch
        BY <3>3 DEF MoveMembership, TypeInv, TypeOK, Local, Switching
      <4>2. member'[u][t] = [member[u][t] EXCEPT !.branch = req[r].branch]
        BY <2>1, <2>2, <3>3 DEF MoveMembership
      <4>3. [member[u][t] EXCEPT !.branch = req[r].branch] \in Joined
        BY <2>1, <4>1 DEF Joined
      <4>4. QED
        BY <2>1, <4>2, <4>3, RowAssumption DEF IsActiveMember, Joined
    <3>4. QED
      BY <1>2, <3>1, <3>2, <3>3 DEF MemberStep
  <2>3. CASE ~(u = req[r].user /\ t = req[r].tenant)
    <3>1. PICK m \in Joined \cup {None} : member' = [member EXCEPT ![req[r].user][req[r].tenant] = m]
      BY <1>2, MemberWrites
    <3>2. member'[u][t] = member[u][t]
      BY <2>1, <2>3, <3>1
    <3>3. QED
      BY <3>2 DEF IsActiveMember
  <2>4. QED
    BY <2>2, <2>3
<1>3. QED
  BY <1>1, <1>2, BeginsMoves, StepWrites DEF tables

\* Where nothing fails, a token left to someone without access is about to be
\* swept, or the login that issued it was overtaken.
LEMMA LateStep ==
    ASSUME ~MayFail, TypeInv, OnlyLateLeft, [Next]_vars
    PROVE  OnlyLateLeft'
<1>1. CASE UNCHANGED vars
  BY <1>1 DEF vars, tables, OnlyLateLeft, Live, IsActiveMember, SweepPending, Sweeping
<1>2. CASE Administration
  <2>1. UNCHANGED <<member, req, late>>
    BY <1>2, AdministrationKeeps
  <2>2. \A k \in Token : Live(k)' => Live(k) /\ token'[k] = token[k]
    BY <1>2, LiveBeforeAdministration
  <2>3. QED
    BY <2>1, <2>2 DEF OnlyLateLeft, IsActiveMember, SweepPending, Sweeping
<1>3. ASSUME NEW r \in Request, Begins(r) \/ Step(r) \/ Abandon(r),
             NEW k \in Token, Live(k)', ~IsActiveMember(token[k].user, token[k].tenant)'
      PROVE  SweepPending(k)' \/ k \in late'
  <2>1. /\ \A s \in Request \ {r} : req'[s] = req[s]
        /\ late \subseteq late'
    BY <1>3, OthersStay
  <2>2. CASE IssueDeviceToken(r, k)
    <3>1. /\ token'[k].user = req[r].user /\ token'[k].tenant = req[r].tenant
          /\ UNCHANGED member
      BY <2>2 DEF IssueDeviceToken, TypeInv, TypeOK
    <3>2. Withdrawn(req[r].user, req[r].tenant)
      BY <1>3, <3>1 DEF Withdrawn, IsActiveMember
    <3>3. QED
      BY <2>2, <3>2 DEF IssueDeviceToken
  <2>3. CASE Live(k) /\ token'[k].user = token[k].user /\ token'[k].tenant = token[k].tenant
    <3> PICK u \in User, t \in Tenant : u = token[k].user /\ t = token[k].tenant
      BY <2>3 DEF TypeInv, TypeOK, Live, Issued
    <3>1. ~IsActiveMember(u, t)'
      BY <1>3, <2>3 DEF IsActiveMember
    <3>2. CASE WithdrawAccess(r) /\ IsActiveMember(u, t)
      <4>1. /\ member \in [User -> [Tenant -> Joined \cup {None}]]
            /\ req[r].user \in User /\ req[r].tenant \in Tenant
        BY <3>2, MemberWrites DEF MemberStep, TypeInv, TypeOK
      <4>2. u = req[r].user /\ t = req[r].tenant
        <5>1. member'[u][t] # member[u][t]
          BY <3>1, <3>2 DEF IsActiveMember
        <5>2. PICK m \in Joined \cup {None} : member' = [member EXCEPT ![req[r].user][req[r].tenant] = m]
          BY <3>2, MemberWrites DEF MemberStep
        <5>3. QED
          BY <3>1, <4>1, <5>1, <5>2
      <4>3. req'[r].pc = "sweep" /\ req'[r].user = token'[k].user /\ req'[r].tenant = token'[k].tenant
        BY <2>3, <3>2, <4>2, WithdrawalSweeps
      <4>4. QED
        BY <4>3 DEF SweepPending, Sweeping
    <3>3. CASE ~IsActiveMember(u, t)
      <4>1. CASE k \in late
        BY <2>1, <4>1
      <4>2. CASE SweepPending(k)
        <5>1. PICK s \in Request : req[s].pc = "sweep" /\ req[s].user = u /\ req[s].tenant = t
          BY <4>2 DEF SweepPending, Sweeping
        <5>2. CASE s = r
          <6>1. RevokeTokens(r)
            BY <1>3, <5>1, <5>2, SweepEnds
          <6>2. k \in Swept(req[r].user, req[r].tenant)
            BY <2>3, <5>1, <5>2 DEF Swept, TokensOf
          <6>3. token'[k] = [token[k] EXCEPT !.revoked = TRUE] /\ token[k] \in Issued
            BY <2>3, <6>1, <6>2 DEF RevokeTokens, TypeInv, TypeOK, Live
          <6>4. QED
            BY <1>3, <6>3 DEF Live, Issued
        <5>3. CASE s # r
          <6>1. req'[s] = req[s]
            BY <2>1, <5>3
          <6>2. QED
            BY <2>3, <5>1, <6>1 DEF SweepPending, Sweeping
        <5>4. QED
          BY <5>2, <5>3
      <4>3. QED
        BY <2>3, <3>3, <4>1, <4>2 DEF OnlyLateLeft
    <3>4. QED
      BY <1>3, <3>1, <3>2, <3>3, ActiveKept
  <2>4. QED
    BY <1>3, <2>2, <2>3, LiveBefore
<1>4. QED
  BY <1>1, <1>2, <1>3 DEF Next, OnlyLateLeft

\* RemoveMember and SetMemberStatus, with any number of handlers in flight: as
\* long as their statements succeed, no token that was alive at a withdrawal
\* escapes the sweep, and someone without access keeps no token but those of
\* logins that the withdrawal overtook.
THEOREM WithdrawalsHold ==
    ASSUME ~MayFail
    PROVE  Spec => []WithdrawalsSound
<1> DEFINE Inv == CutInv /\ OnlyLateLeft
<1>1. Init => Inv
  BY DEF Init, CutInv, CutTokensSwept, OnlyLateLeft, Live
<1>2. Inv => WithdrawalsSound
  BY DEF CutInv, WithdrawalsSound
<1>3. TypeInv /\ Inv /\ [Next]_vars => Inv'
  BY CutStep, LateStep
<1>4. QED
  BY <1>1, <1>2, <1>3, TypeInit, TypeStep, PTL DEF Spec

\* What NoRevival leaves out.
OnlyLateRevived ==
    \A k \in Token :
       (Live(k) /\ ~SweepPending(k) /\ IsActiveMember(token[k].user, token[k].tenant)')
          => IsActiveMember(token[k].user, token[k].tenant) \/ k \in late

\* The comments of RemoveMember and SetMemberStatus, with any number of handlers
\* in flight and none failing: no readmission brings a token back, except those of
\* logins that a withdrawal overtook.
THEOREM RevivalsLate ==
    ASSUME ~MayFail
    PROVE  Spec => [][OnlyLateRevived]_vars
<1>1. WithdrawalsSound => OnlyLateRevived
  BY DEF WithdrawalsSound, OnlyLateLeft, OnlyLateRevived
<1>2. QED
  BY <1>1, WithdrawalsHold, PTL

----------------------------------------------------------------------------
(* Branches *)

\* The branch a handler is about to write, or has read, is its tenant's.
Scoped(h) ==
    /\ h.pc \in {"exists", "create", "issue", "move", "rescope"} => BranchTenant[h.branch] = h.tenant
    /\ h.pc = "pick" => \A t \in Tenant : h.seen[t] # None => BranchTenant[h.seen[t]] = t

BranchInv == BranchesInTenant /\ \A r \in Request : Scoped(req[r])

LEMMA ScopeMoves ==
    ASSUME TypeInv, BranchInv, NEW r \in Request, Begins(r) \/ Step(r) \/ Abandon(r)
    PROVE  Scoped(req'[r])
<1>1. req[r] \in Handler /\ Local(req[r]) /\ Scoped(req[r]) /\ req \in [Request -> Handler]
  BY DEF TypeInv, TypeOK, BranchInv
<1>2. Return(r) => Scoped(req'[r])
  BY <1>1 DEF Return, Idle, Scoped
<1>3. CASE Begins(r)
  <2>1. CASE \E u \in User, b \in Branch : BeginAddMember(r, u, b)
    BY <1>1, <2>1 DEF BeginAddMember, Begin, Idle, Scoped
  <2>2. CASE \/ \E op \in MemberOp, u \in User, t \in Tenant : BeginMemberOp(r, op, u, t)
             \/ \E u \in User, t \in Tenant \cup {None} : BeginLogin(r, u, t)
             \/ \E k \in Token, acting \in User, b \in Branch : BeginSwitch(r, k, acting, b)
    <3>1. req'[r].pc \in {"lookup", "load", "membership"}
      BY <1>1, <2>2 DEF BeginMemberOp, BeginLogin, BeginSwitch, Begin, Idle
    <3>2. QED
      BY <3>1 DEF Scoped
  <2>3. QED
    BY <1>3, <2>1, <2>2 DEF Begins
<1>4. CASE LoadMemberships(r)
  <2> DEFINE u == req[r].user
             seen == [t \in Tenant |-> IF IsActiveMember(u, t) THEN member[u][t].branch ELSE None]
  <2>1. u \in User
    BY <1>1, <1>4 DEF LoadMemberships, Local
  <2>2. \A t \in Tenant : seen[t] # None => BranchTenant[seen[t]] = t
    BY <2>1 DEF IsActiveMember, BranchInv, BranchesInTenant
  <2>3. Return(r) \/ (req'[r].pc = "pick" /\ req'[r].seen = seen)
    <3> HIDE DEF seen
    <3>1. Return(r) \/ req' = [req EXCEPT ![r].pc = "pick", ![r].seen = seen]
      BY <1>4 DEF LoadMemberships, seen
    <3>2. QED
      BY <1>1, <3>1 DEF Handler
  <2>4. QED
    <3> HIDE DEF seen
    <3>1. QED
      BY <1>2, <2>2, <2>3 DEF Scoped
<1>5. CASE \E t \in Tenant : PickTenant(r, t)
  <2>1. PICK t \in Tenant : PickTenant(r, t)
    BY <1>5
  <2>2. req[r].pc = "pick" /\ req[r].seen[t] # None
    BY <2>1 DEF PickTenant, Picks
  <2>3. req'[r] = [req[r] EXCEPT !.pc = "issue", !.tenant = t, !.branch = req[r].seen[t], !.seen = NothingSeen]
    BY <1>1, <2>1 DEF PickTenant
  <2>4. req'[r].pc = "issue" /\ req'[r].tenant = t /\ req'[r].branch = req[r].seen[t]
    BY <1>1, <2>3 DEF Handler
  <2>5. QED
    BY <1>1, <2>2, <2>4 DEF Scoped
<1>6. CASE CheckBranch(r)
  <2>1. CASE BranchTenant[req[r].branch] = req[r].tenant /\ \E pc \in {"rescope", "move"} : Goto(r, pc)
    <3>1. /\ req'[r].pc \in {"rescope", "move"}
          /\ req'[r].branch = req[r].branch /\ req'[r].tenant = req[r].tenant
      BY <1>1, <2>1 DEF Goto, Handler
    <3>2. QED
      BY <2>1, <3>1 DEF Scoped
  <2>2. QED
    BY <1>2, <1>6, <2>1 DEF CheckBranch, BranchAvailable
<1>7. CASE CheckNotMember(r) \/ MoveMembership(r)
  BY <1>1, <1>2, <1>7 DEF CheckNotMember, MoveMembership, Goto, Handler, Scoped
<1>8. CASE Lookup(r) \/ WithdrawAccess(r)
  BY <1>1, <1>8 DEF Lookup, WithdrawAccess, AfterWithdrawal, Goto, Handler, Scoped
<1>9. CASE LookupCurrentBranch(r) \/ CheckTenant(r)
  BY <1>1, <1>2, <1>9 DEF LookupCurrentBranch, CheckTenant, Goto, Handler, Scoped
<1>10. CASE \/ LookupReturns(r) \/ WriteMisses(r) \/ Reactivate(r) \/ RevokeTokens(r)
            \/ CreateMembership(r) \/ DuplicateMembership(r) \/ NoTenantPicked(r)
            \/ (\E k \in Token : IssueDeviceToken(r, k)) \/ MoveMisses(r) \/ RescopeToken(r)
            \/ Abandon(r)
  BY <1>2, <1>10 DEF LookupReturns, WriteMisses, Reactivate, RevokeTokens, CreateMembership,
                     DuplicateMembership, NoTenantPicked, IssueDeviceToken, MoveMisses,
                     RescopeToken, Abandon
<1>11. QED
  BY <1>3, <1>4, <1>5, <1>6, <1>7, <1>8, <1>9, <1>10 DEF Step

\* A membership is created in, or moved to, a branch of its tenant.
LEMMA MembersScoped ==
    ASSUME TypeInv, BranchInv, NEW r \in Request, MemberStep(r)
    PROVE  BranchesInTenant'
<1> DEFINE u == req[r].user
           t == req[r].tenant
<1>1. u \in User /\ t \in Tenant /\ UNCHANGED token
  BY MemberWrites
<1>2. PICK m \in Joined \cup {None} :
         /\ member' = [member EXCEPT ![u][t] = m]
         /\ m # None => \/ Row(r) # None /\ m.branch = Row(r).branch
                        \/ req[r].pc \in {"create", "move"} /\ m.branch = req[r].branch
  BY MemberWrites
<1>3. m # None => BranchTenant[m.branch] = t
  BY <1>1, <1>2 DEF Row, Scoped, BranchInv, BranchesInTenant
<1>4. member \in [User -> [Tenant -> Joined \cup {None}]]
  BY DEF TypeInv, TypeOK
<1>5. QED
  BY <1>1, <1>2, <1>3, <1>4 DEF BranchInv, BranchesInTenant

\* A token is issued for, or moved to, a branch of its tenant.
LEMMA TokensScoped ==
    ASSUME TypeInv, BranchInv, NEW r \in Request, TokenStep(r)
    PROVE  BranchesInTenant'
<1>1. /\ Local(req[r]) /\ Scoped(req[r])
      /\ token \in [Token -> Issued \cup {None}]
      /\ UNCHANGED member
  BY DEF TypeInv, TypeOK, BranchInv, TokenStep, RevokeTokens, IssueDeviceToken, RescopeToken
<1>2. ASSUME \A k \in Token : token'[k] # None => BranchTenant[token'[k].branch] = token'[k].tenant
      PROVE  BranchesInTenant'
  BY <1>1, <1>2 DEF BranchInv, BranchesInTenant
<1>3. CASE RevokeTokens(r)
  <2> DEFINE swept == Swept(req[r].user, req[r].tenant)
  <2>1. token' = [k \in Token |-> IF k \in swept THEN [token[k] EXCEPT !.revoked = TRUE] ELSE token[k]]
    BY <1>3 DEF RevokeTokens
  <2>2. \A k \in swept : token[k] # None /\ token[k] \in Issued
    BY <1>1 DEF Swept, TokensOf, Live
  <2> HIDE DEF swept
  <2>3. QED
    BY <1>2, <2>1, <2>2 DEF BranchInv, BranchesInTenant, Issued
<1>4. CASE \E k \in Token : IssueDeviceToken(r, k)
  BY <1>1, <1>2, <1>4 DEF IssueDeviceToken, Scoped, BranchInv, BranchesInTenant
<1>5. CASE RescopeToken(r)
  <2> DEFINE k == req[r].token
  <2>1. k \in Token /\ token[k] # None /\ token[k] \in Issued /\ token[k].tenant = req[r].tenant
    BY <1>1, <1>5 DEF RescopeToken, Local, Switching
  <2>2. BranchTenant[req[r].branch] = req[r].tenant
    BY <1>1, <1>5 DEF RescopeToken, Scoped
  <2>3. BranchTenant[Rescoped(k, req[r].branch).branch] = Rescoped(k, req[r].branch).tenant
    BY <2>1, <2>2 DEF Rescoped, Issued, BranchInv, BranchesInTenant
  <2>4. token' = [token EXCEPT ![k] = Rescoped(k, req[r].branch)]
    BY <1>5 DEF RescopeToken
  <2>5. QED
    BY <1>1, <1>2, <2>1, <2>3, <2>4 DEF BranchInv, BranchesInTenant
<1>6. QED
  BY <1>3, <1>4, <1>5 DEF TokenStep

LEMMA BranchStep == TypeInv /\ BranchInv /\ [Next]_vars => BranchInv'
<1> SUFFICES ASSUME TypeInv, BranchInv, [Next]_vars PROVE BranchInv'
  OBVIOUS
<1>1. CASE UNCHANGED vars
  BY <1>1 DEF vars, tables, BranchInv, BranchesInTenant, Scoped
<1>2. CASE Administration
  <2>1. CASE \E k \in Token : Logout(k)
    <3>1. PICK k \in Token : Logout(k)
      BY <2>1
    <3>2. token[k] \in Issued /\ token' = [token EXCEPT ![k].revoked = TRUE]
      BY <3>1 DEF Logout, Live, TypeInv, TypeOK
    <3>3. UNCHANGED <<member, req>>
      BY <3>1 DEF Logout
    <3>4. QED
      BY <3>1, <3>2, <3>3 DEF Logout, Live, Issued, BranchInv, BranchesInTenant, Scoped, TypeInv, TypeOK
  <2>2. CASE UNCHANGED <<member, token, req>>
    BY <2>2 DEF BranchInv, BranchesInTenant, Scoped
  <2>3. QED
    BY <1>2, <2>1, <2>2
       DEF Administration, SetTenantStatus, CreateBranch, UpdateBranch, SetPlatformAdmin
<1>3. ASSUME NEW r \in Request, Begins(r) \/ Step(r) \/ Abandon(r)
      PROVE  BranchInv'
  <2>1. Scoped(req'[r])
    BY <1>3, ScopeMoves
  <2>2. \A s \in Request \ {r} : req'[s] = req[s]
    BY <1>3, BeginsMoves, StepMoves DEF TypeInv, TypeOK
  <2>3. \A s \in Request : Scoped(req[s])'
    BY <2>1, <2>2 DEF BranchInv, Scoped
  <2>4. BranchesInTenant'
    <3>1. CASE UNCHANGED tables
      BY <3>1 DEF tables, BranchInv, BranchesInTenant
    <3>2. QED
      BY <1>3, <3>1, BeginsMoves, StepWrites, MembersScoped, TokensScoped
  <2>5. QED
    BY <2>3, <2>4 DEF BranchInv
<1>4. QED
  BY <1>1, <1>2, <1>3 DEF Next

\* Logins, moves and switches by acting users never lead a token or a
\* membership into another tenant's branch.
THEOREM TokensInTenant == Spec => []BranchesInTenant
<1>1. Init => BranchInv
  BY BranchAssumption DEF Init, BranchInv, BranchesInTenant, Scoped, Idle
<1>2. BranchInv => BranchesInTenant
  BY DEF BranchInv
<1>3. QED
  BY <1>1, <1>2, BranchStep, TypeInit, TypeStep, PTL DEF Spec

----------------------------------------------------------------------------
(* Refinement of Sessions, one handler at a time *)

Session == [k \in Token |-> SessionOf(k)]
Paused == {t \in Tenant : tenantStatus[t] = "suspended"}

\* With one handler and no failures a live token of someone without access is
\* one the handler is about to revoke, and a login in flight is one of a member.
SerialInv(r) ==
    /\ \A k \in Token : (Live(k) /\ ~IsActiveMember(token[k].user, token[k].tenant)) =>
          req[r].pc = "sweep" /\ req[r].user = token[k].user /\ req[r].tenant = token[k].tenant
    /\ req[r].pc = "sweep" => ~IsActiveMember(req[r].user, req[r].tenant)
    /\ req[r].pc = "pick" =>
          \A t \in Tenant : req[r].seen[t] # None => IsActiveMember(req[r].user, t)
    /\ req[r].pc = "issue" => IsActiveMember(req[r].user, req[r].tenant)

LEMMA SessionType ==
    ASSUME NEW k \in Token, token[k] # None, token[k] \in Issued
    PROVE  SessionOf(k) \in [user : User, tenant : Tenant, ended : BOOLEAN]
<1>1. (token[k].revoked \/ ~IsActiveMember(token[k].user, token[k].tenant)) \in BOOLEAN
  OBVIOUS
<1>2. QED
  BY <1>1 DEF SessionOf, Issued

LEMMA EndedSession ==
    ASSUME NEW k \in Token, token[k] # None
    PROVE  [SessionOf(k) EXCEPT !.ended = TRUE]
              = [user |-> token[k].user, tenant |-> token[k].tenant, ended |-> TRUE]
<1> DEFINE over == token[k].revoked \/ ~IsActiveMember(token[k].user, token[k].tenant)
<1>1. SessionOf(k) = [user |-> token[k].user, tenant |-> token[k].tenant, ended |-> over]
  BY DEF SessionOf
<1>2. ASSUME NEW u, NEW t, NEW ended, NEW new
      PROVE  [[user |-> u, tenant |-> t, ended |-> ended] EXCEPT !.ended = new]
                = [user |-> u, tenant |-> t, ended |-> new]
  OBVIOUS
<1>3. [[user |-> token[k].user, tenant |-> token[k].tenant, ended |-> over] EXCEPT !.ended = TRUE]
         = [user |-> token[k].user, tenant |-> token[k].tenant, ended |-> TRUE]
  BY <1>2, Zenon
<1> HIDE DEF over
<1>4. QED
  BY <1>1, <1>3, Zenon

\* Sessions do not see a step that changes neither an owner's access nor whether
\* a token is revoked.
LEMMA SameSessions ==
    ASSUME \A k \in Token : SessionOf(k)' = SessionOf(k)
    PROVE  Session' = Session
BY DEF Session

LEMMA TablesSame ==
    ASSUME UNCHANGED tables
    PROVE  /\ Session' = Session /\ Paused' = Paused
           /\ \A k \in Token : Live(k)' = Live(k)
           /\ \A u \in User, t \in Tenant : IsActiveMember(u, t)' = IsActiveMember(u, t)
BY SameSessions DEF tables, Session, SessionOf, IsActiveMember, Live, Paused

\* Logout ends the session, or finds it ended.
LEMMA LogoutSerial ==
    ASSUME TypeInv, NEW r \in Request, SerialInv(r), NEW k \in Token, Logout(k)
    PROVE  SerialInv(r)' /\ [S!SessionNext]_<<Session, Paused>>
<1>1. /\ token[k] \in Issued /\ token[k] # None /\ ~token[k].revoked
      /\ token' = [token EXCEPT ![k].revoked = TRUE]
      /\ UNCHANGED <<member, tenantStatus, req>>
      /\ token \in [Token -> Issued \cup {None}]
  BY DEF Logout, Live, TypeInv, TypeOK
<1>2. /\ token'[k] = [token[k] EXCEPT !.revoked = TRUE] /\ token'[k] # None
      /\ \A j \in Token \ {k} : token'[j] = token[j]
  BY <1>1, RowAssumption DEF Issued
<1>3. \A u, t : IsActiveMember(u, t)' = IsActiveMember(u, t)
  BY <1>1 DEF IsActiveMember
<1>4. SerialInv(r)'
  <2>1. \A j \in Token : Live(j)' => Live(j) /\ token'[j] = token[j]
    BY <1>1, <1>2 DEF Live, Issued
  <2>2. QED
    BY <1>1, <1>3, <2>1 DEF SerialInv
<1>5. Paused' = Paused
  BY <1>1 DEF Paused
<1>6. SessionOf(k)' = [SessionOf(k) EXCEPT !.ended = TRUE]
  <2>1. /\ token'[k].revoked /\ token'[k] # None
        /\ token'[k].user = token[k].user /\ token'[k].tenant = token[k].tenant
    BY <1>1, <1>2 DEF Issued
  <2>2. (token'[k].revoked \/ ~IsActiveMember(token[k].user, token[k].tenant)') = TRUE
    BY <2>1
  <2>3. SessionOf(k)' = [user |-> token[k].user, tenant |-> token[k].tenant, ended |-> TRUE]
    BY <2>1, <2>2 DEF SessionOf
  <2>4. QED
    BY <1>1, <2>3, EndedSession
<1>7. \A j \in Token \ {k} : SessionOf(j)' = SessionOf(j)
  BY <1>2, <1>3 DEF SessionOf
<1>8. CASE SessionOf(k).ended
  <2>1. SessionOf(k)' = SessionOf(k)
    <3>1. SessionOf(k) \in [user : User, tenant : Tenant, ended : BOOLEAN]
      BY <1>1, SessionType
    <3>2. QED
      BY <1>6, <1>8, <3>1
  <2>2. QED
    BY <1>4, <1>5, <1>7, <2>1, SameSessions
<1>9. CASE ~SessionOf(k).ended
  <2>1. S!SignOut(k)
    <3>1. S!Open(k)
      <4>1. SessionOf(k) \in [user : User, tenant : Tenant, ended : BOOLEAN]
        BY <1>1, SessionType
      <4>2. QED
        BY <1>9, <4>1, RowAssumption DEF S!Open
    <3>2. S!End({k})
      BY <1>5, <1>6, <1>7 DEF S!End, Paused
    <3>3. QED
      BY <3>1, <3>2 DEF S!SignOut
  <2>2. QED
    BY <1>4, <2>1 DEF S!SessionNext
<1>10. QED
  BY <1>8, <1>9

LEMMA AdministrationSerial ==
    ASSUME TypeInv, NEW r \in Request, SerialInv(r), Administration
    PROVE  SerialInv(r)' /\ [S!SessionNext]_<<Session, Paused>>
<1>1. CASE \E k \in Token : Logout(k)
  BY <1>1, LogoutSerial
<1>2. ASSUME UNCHANGED <<member, token, req>>
      PROVE  SerialInv(r)' /\ Session' = Session
  <2>1. /\ \A u, t : IsActiveMember(u, t)' = IsActiveMember(u, t)
        /\ \A k : Live(k)' = Live(k)
    BY <1>2 DEF IsActiveMember, Live
  <2>2. \A k \in Token : SessionOf(k)' = SessionOf(k)
    BY <1>2, <2>1 DEF SessionOf
  <2>3. QED
    BY <1>2, <2>1, <2>2, SameSessions DEF SerialInv
<1>3. CASE \E t \in Tenant, status \in {"active", "suspended"} : SetTenantStatus(t, status)
  <2>1. PICK t \in Tenant, status \in {"active", "suspended"} : SetTenantStatus(t, status)
    BY <1>3
  <2>2. tenantStatus' = [tenantStatus EXCEPT ![t] = status] /\ tenantStatus \in [Tenant -> {"active", "suspended"}]
    BY <2>1 DEF SetTenantStatus, TypeInv, TypeOK
  <2>3. Paused' = IF status = "suspended" THEN Paused \cup {t} ELSE Paused \ {t}
    BY <2>2 DEF Paused
  <2>4. SerialInv(r)' /\ Session' = Session
    BY <1>2, <2>1 DEF SetTenantStatus
  <2>5. S!Pause(t, status = "suspended")
    BY <2>3, <2>4 DEF S!Pause, Session, Paused
  <2>6. QED
    BY <2>4, <2>5 DEF S!SessionNext
<1>4. CASE UNCHANGED <<member, token, req, tenantStatus>>
  <2>1. Paused' = Paused
    BY <1>4 DEF Paused
  <2>2. QED
    BY <1>2, <1>4, <2>1
<1>5. QED
  BY <1>1, <1>3, <1>4
     DEF Administration, CreateBranch, UpdateBranch, SetPlatformAdmin

\* A step that only reads, or begins a request.
LEMMA ReadSerial ==
    ASSUME TypeInv, NEW r \in Request, SerialInv(r), UNCHANGED tables,
           Begins(r) \/ Step(r), ~WithdrawAccess(r), ~RevokeTokens(r)
    PROVE  SerialInv(r)' /\ [S!SessionNext]_<<Session, Paused>>
<1>1. /\ Session' = Session /\ Paused' = Paused
      /\ \A k \in Token : Live(k)' = Live(k)
      /\ \A u \in User, t \in Tenant : IsActiveMember(u, t)' = IsActiveMember(u, t)
  BY TablesSame
<1>2. req[r] \in Handler /\ Local(req[r]) /\ req \in [Request -> Handler]
  BY DEF TypeInv, TypeOK
<1>3. ASSUME NEW k \in Token, Live(k) PROVE token'[k] = token[k] /\ token[k].user \in User /\ token[k].tenant \in Tenant
  BY <1>3 DEF tables, Live, Issued, TypeInv, TypeOK
<1>4. ASSUME req[r].pc # "sweep", req'[r].pc \notin {"sweep", "pick", "issue"}
      PROVE  SerialInv(r)'
  BY <1>1, <1>3, <1>4 DEF SerialInv
<1>5. CASE LoadMemberships(r)
  <2> DEFINE u == req[r].user
             seen == [t \in Tenant |-> IF IsActiveMember(u, t) THEN member[u][t].branch ELSE None]
  <2>1. u \in User
    BY <1>2, <1>5 DEF LoadMemberships, Local
  <2>2. \A t \in Tenant : seen[t] # None => IsActiveMember(u, t)
    OBVIOUS
  <2>3. \/ req'[r].pc = "idle"
        \/ req'[r].pc = "pick" /\ req'[r].seen = seen /\ req'[r].user = u
    <3> HIDE DEF seen
    <3>1. Return(r) \/ req' = [req EXCEPT ![r].pc = "pick", ![r].seen = seen]
      BY <1>5 DEF LoadMemberships, seen
    <3>2. QED
      BY <1>2, <3>1 DEF Handler, Return, Idle
  <2>4. SerialInv(r)'
    <3> HIDE DEF seen
    <3>1. req[r].pc = "load"
      BY <1>5 DEF LoadMemberships
    <3>2. QED
      BY <1>1, <1>3, <2>1, <2>2, <2>3, <3>1 DEF SerialInv
  <2>5. QED
    BY <1>1, <2>4
<1>6. CASE \E t \in Tenant : PickTenant(r, t)
  <2>1. PICK t \in Tenant : PickTenant(r, t)
    BY <1>6
  <2>2. /\ req[r].pc = "pick" /\ req'[r].pc = "issue" /\ req'[r].user = req[r].user
        /\ req'[r].tenant = t /\ req[r].seen[t] # None /\ req[r].user \in User
    <3>1. req[r].pc = "pick" /\ req[r].seen[t] # None /\ req[r].user \in User
      BY <1>2, <2>1 DEF PickTenant, Picks, Local
    <3>2. req'[r] = [req[r] EXCEPT !.pc = "issue", !.tenant = t, !.branch = req[r].seen[t], !.seen = NothingSeen]
      BY <1>2, <2>1 DEF PickTenant
    <3>3. QED
      BY <1>2, <3>1, <3>2 DEF Handler
  <2>3. IsActiveMember(req[r].user, req[r].tenant)'
    BY <1>1, <2>2 DEF SerialInv
  <2>4. \A k \in Token : Live(k)' => IsActiveMember(token[k].user, token[k].tenant)'
    BY <1>1, <1>3, <2>2 DEF SerialInv
  <2>5. SerialInv(r)'
    BY <2>2, <2>3, <2>4 DEF SerialInv
  <2>6. QED
    BY <1>1, <2>5
<1>7. CASE ~LoadMemberships(r) /\ ~\E t \in Tenant : PickTenant(r, t)
  <2>1. req[r].pc # "sweep" /\ req'[r].pc \notin {"sweep", "pick", "issue"}
    <3>1. CASE Begins(r)
      BY <3>1, BeginsAt
    <3>2. CASE \/ LookupReturns(r) \/ WriteMisses(r) \/ Reactivate(r) \/ CreateMembership(r)
               \/ DuplicateMembership(r) \/ NoTenantPicked(r)
               \/ (\E k \in Token : IssueDeviceToken(r, k)) \/ MoveMisses(r) \/ RescopeToken(r)
      <4>1. req'[r].pc = "idle"
        BY <3>2, EndsAt
      <4>2. req[r].pc # "sweep"
        BY <3>2 DEF LookupReturns, WriteMisses, Reactivate, CreateMembership, DuplicateMembership,
             NoTenantPicked, IssueDeviceToken, MoveMisses, RescopeToken
      <4>3. QED
        BY <4>1, <4>2
    <3>3. CASE \/ Lookup(r) \/ CheckNotMember(r) \/ LookupCurrentBranch(r)
               \/ CheckTenant(r) \/ CheckBranch(r) \/ MoveMembership(r)
      <4>1. req[r].pc # "sweep"
        BY <3>3 DEF Lookup, CheckNotMember, LookupCurrentBranch, CheckTenant, CheckBranch, MoveMembership
      <4>2. QED
        BY <3>3, <4>1, MovesOn
    <3>4. QED
      BY <1>7, <3>1, <3>2, <3>3 DEF Step
  <2>2. QED
    BY <1>1, <1>4, <2>1
<1>8. QED
  BY <1>5, <1>6, <1>7

\* Removal and suspension end all of the user's sessions in the tenant at once.
LEMMA WithdrawSerial ==
    ASSUME TypeInv, NEW r \in Request, SerialInv(r), WithdrawAccess(r)
    PROVE  SerialInv(r)' /\ [S!SessionNext]_<<Session, Paused>>
<1> DEFINE u == req[r].user
           t == req[r].tenant
           m == IF req[r].op = "remove" THEN None ELSE [member[u][t] EXCEPT !.status = "suspended"]
           Owned(k) == token[k].user = u /\ token[k].tenant = t
<1>1. /\ u \in User /\ t \in Tenant /\ req[r].pc = "write"
      /\ req'[r].pc = "sweep" /\ req'[r].user = u /\ req'[r].tenant = t
      /\ UNCHANGED <<token, tenantStatus>>
      /\ token \in [Token -> Issued \cup {None}]
  BY DEF WithdrawAccess, AfterWithdrawal, Goto, TypeInv, TypeOK, Handler, Local
<1>2. /\ member' = [member EXCEPT ![u][t] = m]
      /\ member \in [User -> [Tenant -> Joined \cup {None}]]
      /\ m # None => m.status = "suspended"
  <2>1. member \in [User -> [Tenant -> Joined \cup {None}]] /\ member[u][t] # None
    BY <1>1 DEF WithdrawAccess, RowHeld, Row, TypeInv, TypeOK
  <2>2. QED
    BY <1>1, <2>1 DEF WithdrawAccess, Joined
<1>3. ~IsActiveMember(u, t)'
  BY <1>1, <1>2 DEF IsActiveMember
<1>4. ASSUME NEW v \in User, NEW s \in Tenant, ~(v = u /\ s = t)
      PROVE  IsActiveMember(v, s)' = IsActiveMember(v, s)
  <2>1. member'[v][s] = member[v][s]
    BY <1>1, <1>2, <1>4
  <2>2. QED
    BY <2>1 DEF IsActiveMember
<1>5. ASSUME NEW k \in Token, token[k] # None
      PROVE  token'[k] = token[k] /\ token[k].user \in User /\ token[k].tenant \in Tenant
  BY <1>1, <1>5 DEF Issued
<1>6. SerialInv(r)'
  <2>1. ASSUME NEW k \in Token, Live(k)', ~IsActiveMember(token[k].user, token[k].tenant)'
        PROVE  Owned(k)
    BY <1>1, <1>4, <1>5, <2>1 DEF SerialInv, Live
  <2>2. QED
    BY <1>1, <1>3, <2>1 DEF SerialInv
<1>7. ASSUME NEW k \in Token
      PROVE  SessionOf(k)' = IF k \in S!SessionsOf(u, t) THEN [SessionOf(k) EXCEPT !.ended = TRUE]
                             ELSE SessionOf(k)
  <2>1. CASE token[k] = None
    <3>1. SessionOf(k) = None /\ SessionOf(k)' = None
      BY <1>1, <2>1 DEF SessionOf
    <3>2. k \notin S!SessionsOf(u, t)
      BY <3>1 DEF S!SessionsOf, S!Open
    <3>3. QED
      BY <3>1, <3>2
  <2>2. CASE token[k] # None /\ ~Owned(k)
    <3>1. SessionOf(k)' = SessionOf(k)
      BY <1>4, <1>5, <2>2 DEF SessionOf
    <3>2. SessionOf(k).user = token[k].user /\ SessionOf(k).tenant = token[k].tenant
      BY <2>2 DEF SessionOf
    <3>3. k \notin S!SessionsOf(u, t)
      BY <2>2, <3>2 DEF S!SessionsOf
    <3>4. QED
      BY <3>1, <3>3
  <2>3. CASE token[k] # None /\ Owned(k)
    <3>1. SessionOf(k)' = [user |-> token[k].user, tenant |-> token[k].tenant, ended |-> TRUE]
      <4>1. token'[k] = token[k] /\ token'[k].user = u /\ token'[k].tenant = t
        BY <1>5, <2>3
      <4>2. ~IsActiveMember(token[k].user, token[k].tenant)'
        BY <1>1, <1>3, <4>1 DEF IsActiveMember
      <4>3. (token[k].revoked \/ ~IsActiveMember(token[k].user, token[k].tenant))' = TRUE
        BY <4>2
      <4>4. QED
        BY <2>3, <4>1, <4>3 DEF SessionOf
    <3>2. SessionOf(k)' = [SessionOf(k) EXCEPT !.ended = TRUE]
      BY <2>3, <3>1, EndedSession
    <3>3. SessionOf(k) \in [user : User, tenant : Tenant, ended : BOOLEAN]
      BY <1>1, <2>3, SessionType
    <3>4. CASE SessionOf(k).ended
      <4>1. SessionOf(k)' = SessionOf(k)
        <5>1. (token[k].revoked \/ ~IsActiveMember(token[k].user, token[k].tenant)) = TRUE
          BY <2>3, <3>4 DEF SessionOf
        <5>2. QED
          BY <2>3, <3>1, <5>1 DEF SessionOf
      <4>2. k \notin S!SessionsOf(u, t)
        BY <3>4 DEF S!SessionsOf, S!Open
      <4>3. QED
        BY <4>1, <4>2
    <3>5. CASE ~SessionOf(k).ended
      <4>1. SessionOf(k).user = u /\ SessionOf(k).tenant = t
        BY <2>3 DEF SessionOf
      <4>2. k \in S!SessionsOf(u, t)
        BY <3>3, <3>5, <4>1, RowAssumption DEF S!SessionsOf, S!Open
      <4>3. QED
        BY <3>2, <4>2
    <3>6. QED
      BY <3>4, <3>5
  <2>4. QED
    BY <2>1, <2>2, <2>3
<1>8. Paused' = Paused
  BY <1>1 DEF Paused
<1>9. S!SignOutEverywhere(u, t)
  BY <1>7, <1>8 DEF S!SignOutEverywhere, S!End, Paused
<1>10. QED
  BY <1>1, <1>6, <1>9 DEF S!SessionNext

\* Re-admission finds no token of the user left alive in the tenant.
LEMMA ReadmitSerial ==
    ASSUME TypeInv, NEW r \in Request, SerialInv(r), Reactivate(r) \/ CreateMembership(r)
    PROVE  SerialInv(r)' /\ [S!SessionNext]_<<Session, Paused>>
<1> DEFINE u == req[r].user
           t == req[r].tenant
<1>1. /\ req \in [Request -> Handler] /\ token \in [Token -> Issued \cup {None}]
      /\ member \in [User -> [Tenant -> Joined \cup {None}]]
      /\ Local(req[r])
  BY DEF TypeInv, TypeOK
<1>2. /\ u \in User /\ t \in Tenant /\ req[r].pc \in {"write", "create"} /\ req'[r].pc = "idle"
      /\ UNCHANGED <<token, tenantStatus>>
  BY <1>1 DEF Reactivate, CreateMembership, Return, Idle, Local
<1>3. \E m \in Joined : member' = [member EXCEPT ![u][t] = m] /\ m # None /\ m.status = "active"
  <2>1. CASE Reactivate(r)
    <3>1. member[u][t] \in Joined
      BY <1>1, <1>2, <2>1 DEF Reactivate, RowHeld, Row
    <3>2. member' = [member EXCEPT ![u][t] = [member[u][t] EXCEPT !.status = "active"]]
      BY <1>1, <1>2, <2>1 DEF Reactivate
    <3>3. /\ [member[u][t] EXCEPT !.status = "active"] \in Joined
          /\ [member[u][t] EXCEPT !.status = "active"].status = "active"
      BY <3>1 DEF Joined
    <3>4. QED
      BY <3>2, <3>3, RowAssumption
  <2>2. CASE CreateMembership(r)
    <3> DEFINE m == [join |-> joins[u][t] + 1, branch |-> req[r].branch, status |-> "active"]
    <3>1. joins[u][t] + 1 \in Nat /\ req[r].branch \in Branch
      BY <1>1, <1>2, <2>2 DEF CreateMembership, Local, TypeInv, TypeOK
    <3>2. m \in Joined /\ m.status = "active"
      BY <3>1 DEF Joined
    <3>3. member' = [member EXCEPT ![u][t] = m]
      BY <2>2 DEF CreateMembership
    <3> HIDE DEF m
    <3>4. QED
      BY <3>2, <3>3, RowAssumption
  <2>3. QED
    BY <2>1, <2>2
<1>4. ASSUME NEW v \in User, NEW s \in Tenant
      PROVE  IsActiveMember(v, s)' = (IsActiveMember(v, s) \/ (v = u /\ s = t))
  BY <1>1, <1>2, <1>3 DEF IsActiveMember
<1>5. ASSUME NEW k \in Token, token[k] # None
      PROVE  /\ token'[k] = token[k] /\ token[k].user \in User /\ token[k].tenant \in Tenant
             /\ token[k].revoked \/ IsActiveMember(token[k].user, token[k].tenant)
  BY <1>1, <1>2, <1>5 DEF Issued, SerialInv, Live
<1>6. SerialInv(r)'
  BY <1>2, <1>4, <1>5 DEF SerialInv, Live
<1>7. ASSUME NEW k \in Token PROVE SessionOf(k)' = SessionOf(k)
  <2>1. CASE token[k] = None
    BY <1>2, <2>1 DEF SessionOf
  <2>2. CASE token[k] # None
    <3>1. (token[k].revoked \/ ~IsActiveMember(token[k].user, token[k].tenant)')
             = (token[k].revoked \/ ~IsActiveMember(token[k].user, token[k].tenant))
      BY <1>4, <1>5, <2>2
    <3>2. QED
      BY <1>2, <2>2, <3>1 DEF SessionOf
  <2>3. QED
    BY <2>1, <2>2
<1>8. Paused' = Paused
  BY <1>2 DEF Paused
<1>9. QED
  BY <1>6, <1>7, <1>8, SameSessions

\* A branch switch keeps the membership's row and status.
LEMMA MoveSerial ==
    ASSUME TypeInv, NEW r \in Request, SerialInv(r), MoveMembership(r)
    PROVE  SerialInv(r)' /\ [S!SessionNext]_<<Session, Paused>>
<1> DEFINE u == req[r].user
           t == req[r].tenant
<1>1. /\ req \in [Request -> Handler] /\ token \in [Token -> Issued \cup {None}]
      /\ member \in [User -> [Tenant -> Joined \cup {None}]]
      /\ Local(req[r])
  BY DEF TypeInv, TypeOK
<1>2. /\ u \in User /\ t \in Tenant /\ req[r].pc = "move" /\ req'[r].pc = "rescope"
      /\ UNCHANGED <<token, tenantStatus>>
  BY <1>1 DEF MoveMembership, Goto, Local, Switching, Handler
<1>3. /\ member[u][t] \in Joined /\ member[u][t] # None /\ req[r].branch \in Branch
      /\ member' = [member EXCEPT ![u][t] = [member[u][t] EXCEPT !.branch = req[r].branch]]
  BY <1>1, <1>2 DEF MoveMembership, RowHeld, Row, Local, Switching
<1>4. ASSUME NEW v \in User, NEW s \in Tenant
      PROVE  IsActiveMember(v, s)' = IsActiveMember(v, s)
  <2>1. CASE v = u /\ s = t
    <3>1. /\ member'[v][s] = [member[u][t] EXCEPT !.branch = req[r].branch]
      BY <1>1, <1>2, <1>3, <2>1
    <3>2. /\ [member[u][t] EXCEPT !.branch = req[r].branch] \in Joined
          /\ [member[u][t] EXCEPT !.branch = req[r].branch].status = member[u][t].status
      BY <1>3 DEF Joined
    <3>3. QED
      BY <1>3, <2>1, <3>1, <3>2, RowAssumption DEF IsActiveMember
  <2>2. CASE ~(v = u /\ s = t)
    <3>1. member'[v][s] = member[v][s]
      BY <1>1, <1>2, <1>3, <2>2
    <3>2. QED
      BY <3>1 DEF IsActiveMember
  <2>3. QED
    BY <2>1, <2>2
<1>5. ASSUME NEW k \in Token, token[k] # None
      PROVE  token'[k] = token[k] /\ token[k].user \in User /\ token[k].tenant \in Tenant
  BY <1>1, <1>2, <1>5 DEF Issued
<1>6. SerialInv(r)'
  BY <1>2, <1>4, <1>5 DEF SerialInv, Live
<1>7. ASSUME NEW k \in Token PROVE SessionOf(k)' = SessionOf(k)
  <2>1. CASE token[k] = None
    BY <1>2, <2>1 DEF SessionOf
  <2>2. CASE token[k] # None
    BY <1>2, <1>4, <1>5, <2>2 DEF SessionOf
  <2>3. QED
    BY <2>1, <2>2
<1>8. Paused' = Paused
  BY <1>2 DEF Paused
<1>9. QED
  BY <1>6, <1>7, <1>8, SameSessions

\* The sweep revokes tokens whose sessions are over: nothing is seen of it.
LEMMA RevokeSerial ==
    ASSUME TypeInv, NEW r \in Request, SerialInv(r), RevokeTokens(r)
    PROVE  SerialInv(r)' /\ [S!SessionNext]_<<Session, Paused>>
<1> DEFINE u == req[r].user
           t == req[r].tenant
<1>1. /\ req \in [Request -> Handler] /\ token \in [Token -> Issued \cup {None}]
      /\ Local(req[r])
  BY DEF TypeInv, TypeOK
<1>2. /\ u \in User /\ t \in Tenant /\ req[r].pc = "sweep" /\ req'[r].pc = "idle"
      /\ UNCHANGED <<member, tenantStatus>>
      /\ token' = [k \in Token |-> IF k \in TokensOf(u, t) THEN [token[k] EXCEPT !.revoked = TRUE]
                                   ELSE token[k]]
  BY <1>1 DEF RevokeTokens, Swept, Return, Idle, Local
<1>3. ~IsActiveMember(u, t)
  BY <1>2 DEF SerialInv
<1>4. \A v, s : IsActiveMember(v, s)' = IsActiveMember(v, s)
  BY <1>2 DEF IsActiveMember
<1>5. ASSUME NEW k \in Token, k \in TokensOf(u, t)
      PROVE  /\ token[k] # None /\ token'[k] # None /\ token'[k].revoked
             /\ token'[k].user = token[k].user /\ token'[k].tenant = token[k].tenant
             /\ token[k].user = u /\ token[k].tenant = t
  <2>1. token[k] \in Issued /\ token[k] # None /\ token[k].user = u /\ token[k].tenant = t
    BY <1>1, <1>5 DEF TokensOf, Live
  <2>2. token'[k] = [token[k] EXCEPT !.revoked = TRUE]
    BY <1>2, <1>5
  <2>3. token'[k] \in Issued
    BY <2>1, <2>2 DEF Issued
  <2>4. QED
    BY <2>1, <2>2, <2>3, RowAssumption DEF Issued
<1>6. ASSUME NEW k \in Token, k \notin TokensOf(u, t) PROVE token'[k] = token[k]
  BY <1>2, <1>6
<1>7. SerialInv(r)'
  <2>1. ASSUME NEW k \in Token, Live(k)' PROVE IsActiveMember(token[k].user, token[k].tenant)'
    <3>1. k \notin TokensOf(u, t)
      BY <1>5, <2>1 DEF Live
    <3>2. Live(k) /\ token'[k] = token[k]
      BY <1>6, <2>1, <3>1 DEF Live
    <3>3. ~(token[k].user = u /\ token[k].tenant = t)
      BY <3>1, <3>2 DEF TokensOf
    <3>4. IsActiveMember(token[k].user, token[k].tenant)
      BY <3>2, <3>3 DEF SerialInv
    <3>5. QED
      BY <1>4, <3>2, <3>4
  <2>2. QED
    BY <1>2, <2>1 DEF SerialInv
<1>8. ASSUME NEW k \in Token PROVE SessionOf(k)' = SessionOf(k)
  <2>1. CASE k \in TokensOf(u, t)
    <3>1. ~IsActiveMember(token[k].user, token[k].tenant)
      BY <1>3, <1>5, <2>1
    <3>2. (token[k].revoked \/ ~IsActiveMember(token[k].user, token[k].tenant)) = TRUE
      BY <3>1
    <3>3. (token[k].revoked \/ ~IsActiveMember(token[k].user, token[k].tenant))' = TRUE
      BY <1>5, <2>1
    <3>4. SessionOf(k) = [user |-> token[k].user, tenant |-> token[k].tenant, ended |-> TRUE]
      BY <1>5, <2>1, <3>2 DEF SessionOf
    <3>5. SessionOf(k)' = [user |-> token[k].user, tenant |-> token[k].tenant, ended |-> TRUE]
      BY <1>5, <2>1, <3>3 DEF SessionOf
    <3>6. QED
      BY <3>4, <3>5
  <2>2. CASE k \notin TokensOf(u, t)
    BY <1>4, <1>6, <2>2 DEF SessionOf
  <2>3. QED
    BY <2>1, <2>2
<1>9. Paused' = Paused
  BY <1>2 DEF Paused
<1>10. QED
  BY <1>7, <1>8, <1>9, SameSessions

\* A login that issues a token starts a session of the member it loaded.
LEMMA IssueSerial ==
    ASSUME TypeInv, NEW r \in Request, SerialInv(r), NEW k \in Token, IssueDeviceToken(r, k)
    PROVE  SerialInv(r)' /\ [S!SessionNext]_<<Session, Paused>>
<1> DEFINE u == req[r].user
           t == req[r].tenant
           issued == [user |-> u, tenant |-> t, branch |-> req[r].branch, revoked |-> FALSE]
<1>1. /\ req \in [Request -> Handler] /\ token \in [Token -> Issued \cup {None}]
      /\ Local(req[r])
  BY DEF TypeInv, TypeOK
<1>2. /\ u \in User /\ t \in Tenant /\ req[r].branch \in Branch
      /\ req[r].pc = "issue" /\ req'[r].pc = "idle" /\ token[k] = None
      /\ UNCHANGED <<member, tenantStatus>>
      /\ token' = [token EXCEPT ![k] = issued]
  BY <1>1 DEF IssueDeviceToken, Return, Idle, Local
<1>3. IsActiveMember(u, t)
  BY <1>2 DEF SerialInv
<1>4. \A v, s : IsActiveMember(v, s)' = IsActiveMember(v, s)
  BY <1>2 DEF IsActiveMember
<1>5. /\ token'[k] = issued /\ token'[k] # None
      /\ \A j \in Token \ {k} : token'[j] = token[j]
  <2>1. issued \in Issued
    BY <1>2 DEF Issued
  <2> HIDE DEF issued
  <2>2. QED
    BY <1>1, <1>2, <2>1, RowAssumption
<1>6. SerialInv(r)'
  <2>1. ASSUME NEW j \in Token, Live(j)' PROVE IsActiveMember(token[j].user, token[j].tenant)'
    <3>1. CASE j = k
      BY <1>3, <1>4, <1>5, <3>1
    <3>2. CASE j # k
      <4>1. Live(j) /\ token'[j] = token[j]
        BY <1>5, <2>1, <3>2 DEF Live
      <4>2. IsActiveMember(token[j].user, token[j].tenant)
        BY <1>2, <4>1 DEF SerialInv
      <4>3. QED
        BY <1>4, <4>1, <4>2
    <3>3. QED
      BY <3>1, <3>2
  <2>2. QED
    BY <1>2, <2>1 DEF SerialInv
<1>7. SessionOf(k) = None
  BY <1>2 DEF SessionOf
<1>8. SessionOf(k)' = [user |-> u, tenant |-> t, ended |-> FALSE]
  <2>1. /\ token'[k].user = u /\ token'[k].tenant = t
        /\ (token[k].revoked \/ ~IsActiveMember(token[k].user, token[k].tenant))' = FALSE
    BY <1>3, <1>4, <1>5
  <2> HIDE DEF issued
  <2>2. QED
    BY <1>5, <2>1 DEF SessionOf
<1>9. \A j \in Token \ {k} : SessionOf(j)' = SessionOf(j)
  BY <1>4, <1>5 DEF SessionOf
<1>10. Session' = [Session EXCEPT ![k] = [user |-> u, tenant |-> t, ended |-> FALSE]]
  BY <1>8, <1>9 DEF Session
<1>11. Paused' = Paused
  BY <1>2 DEF Paused
<1>12. S!Start(k, u, t)
  BY <1>7, <1>10, <1>11 DEF S!Start, Session, Paused
<1>13. QED
  BY <1>2, <1>6, <1>12 DEF S!SessionNext

\* Rescoping a token to a branch keeps its owner, its tenant and its revocation.
LEMMA RescopeSerial ==
    ASSUME TypeInv, NEW r \in Request, SerialInv(r), RescopeToken(r)
    PROVE  SerialInv(r)' /\ [S!SessionNext]_<<Session, Paused>>
<1> DEFINE j == req[r].token
<1>1. /\ req \in [Request -> Handler] /\ token \in [Token -> Issued \cup {None}]
      /\ Local(req[r])
  BY DEF TypeInv, TypeOK
<1>2. /\ j \in Token /\ req[r].branch \in Branch /\ token[j] # None
      /\ req[r].pc = "rescope" /\ req'[r].pc = "idle"
      /\ UNCHANGED <<member, tenantStatus>>
      /\ token' = [token EXCEPT ![j] = Rescoped(j, req[r].branch)]
  BY <1>1 DEF RescopeToken, Return, Idle, Local, Switching, Handler
<1>3. \A v, s : IsActiveMember(v, s)' = IsActiveMember(v, s)
  BY <1>2 DEF IsActiveMember
<1>4. ASSUME NEW k \in Token
      PROVE  /\ token'[k] = None <=> token[k] = None
             /\ token[k] # None => /\ token'[k].user = token[k].user
                                   /\ token'[k].tenant = token[k].tenant
                                   /\ token'[k].revoked = token[k].revoked
  <2>1. CASE k # j
    BY <1>1, <1>2, <2>1
  <2>2. CASE k = j
    <3>1. token[j] \in Issued
      BY <1>1, <1>2
    <3>2. token'[j] = Rescoped(j, req[r].branch)
      BY <1>1, <1>2
    <3>3. /\ Rescoped(j, req[r].branch) \in Issued
          /\ Rescoped(j, req[r].branch).user = token[j].user
          /\ Rescoped(j, req[r].branch).tenant = token[j].tenant
          /\ Rescoped(j, req[r].branch).revoked = token[j].revoked
      BY <1>2, <3>1 DEF Rescoped, Issued
    <3>4. QED
      BY <1>2, <2>2, <3>2, <3>3, RowAssumption
  <2>3. QED
    BY <2>1, <2>2
<1>5. SerialInv(r)'
  <2>1. ASSUME NEW k \in Token, Live(k)' PROVE IsActiveMember(token[k].user, token[k].tenant)'
    <3>1. Live(k) /\ token'[k].user = token[k].user /\ token'[k].tenant = token[k].tenant
      BY <1>4, <2>1 DEF Live
    <3>2. IsActiveMember(token[k].user, token[k].tenant)
      BY <1>2, <3>1 DEF SerialInv
    <3>3. QED
      BY <1>3, <3>1, <3>2
  <2>2. QED
    BY <1>2, <2>1 DEF SerialInv
<1>6. ASSUME NEW k \in Token PROVE SessionOf(k)' = SessionOf(k)
  BY <1>3, <1>4 DEF SessionOf
<1>7. Paused' = Paused
  BY <1>2 DEF Paused
<1>8. QED
  BY <1>5, <1>6, <1>7, SameSessions

LEMMA StepSerial ==
    ASSUME TypeInv, NEW r \in Request, SerialInv(r), Begins(r) \/ Step(r)
    PROVE  SerialInv(r)' /\ [S!SessionNext]_<<Session, Paused>>
<1>1. CASE WithdrawAccess(r)
  BY <1>1, WithdrawSerial
<1>2. CASE RevokeTokens(r)
  BY <1>2, RevokeSerial
<1>3. CASE Reactivate(r) \/ CreateMembership(r)
  BY <1>3, ReadmitSerial
<1>4. CASE MoveMembership(r)
  BY <1>4, MoveSerial
<1>5. CASE \E k \in Token : IssueDeviceToken(r, k)
  BY <1>5, IssueSerial
<1>6. CASE RescopeToken(r)
  BY <1>6, RescopeSerial
<1>7. CASE ~WithdrawAccess(r) /\ ~RevokeTokens(r) /\ UNCHANGED tables
  BY <1>7, ReadSerial
<1>8. CASE Begins(r)
  <2>1. UNCHANGED tables
    BY <1>8 DEF Begins, BeginMemberOp, BeginAddMember, BeginLogin, BeginSwitch, Begin
  <2>2. QED
    BY <1>1, <1>2, <1>7, <2>1
<1>9. CASE \/ Lookup(r) \/ LookupReturns(r) \/ WriteMisses(r)
           \/ CheckNotMember(r) \/ DuplicateMembership(r)
           \/ LoadMemberships(r) \/ (\E t \in Tenant : PickTenant(r, t)) \/ NoTenantPicked(r)
           \/ LookupCurrentBranch(r) \/ CheckTenant(r) \/ CheckBranch(r) \/ MoveMisses(r)
  <2>1. UNCHANGED tables
    BY <1>9 DEF Lookup, LookupReturns, WriteMisses, CheckNotMember, DuplicateMembership,
         LoadMemberships, PickTenant, NoTenantPicked, LookupCurrentBranch, CheckTenant,
         CheckBranch, MoveMisses
  <2>2. QED
    BY <1>1, <1>2, <1>7, <2>1
<1>10. QED
  BY <1>1, <1>2, <1>3, <1>4, <1>5, <1>6, <1>8, <1>9 DEF Step

LEMMA InitSerial ==
    ASSUME Init, NEW r \in Request
    PROVE  SerialInv(r) /\ S!SessionInit
<1>1. req[r].pc = "idle" /\ \A k \in Token : token[k] = None
  BY DEF Init, Idle
<1>2. SerialInv(r)
  BY <1>1 DEF SerialInv, Live
<1>3. Session = [k \in Token |-> None]
  BY <1>1 DEF Session, SessionOf
<1>4. Paused = {}
  BY DEF Init, Paused
<1>5. QED
  BY <1>2, <1>3, <1>4 DEF S!SessionInit, Session, Paused

LEMMA SerialStep ==
    ASSUME NEW r, Request = {r}, ~MayFail, TypeInv, SerialInv(r), [Next]_vars
    PROVE  TypeInv' /\ SerialInv(r)' /\ [S!SessionNext]_<<Session, Paused>>
<1>1. r \in Request
  OBVIOUS
<1>2. TypeInv'
  BY TypeStep
<1>3. CASE Administration
  BY <1>1, <1>2, <1>3, AdministrationSerial
<1>4. CASE Begins(r) \/ Step(r)
  BY <1>1, <1>2, <1>4, StepSerial
<1>5. CASE UNCHANGED vars
  <2>1. Session' = Session /\ Paused' = Paused
    BY <1>5, TablesSame DEF vars
  <2>2. SerialInv(r)'
    BY <1>5 DEF vars, tables, SerialInv, Live, IsActiveMember
  <2>3. QED
    BY <1>2, <2>1, <2>2
<1>6. QED
  BY <1>3, <1>4, <1>5 DEF Next, Abandon

\* Introspect, RemoveMember, SetMemberStatus, AddMember, SwitchBranch, the login
\* and SetTenantStatus, run one handler at a time and without failures, keep the
\* promise of Sessions: a withdrawal ends every session of the user in the tenant
\* at its first write and nothing starts one again but a login.
THEOREM SessionsRefined ==
    ASSUME NEW r, Request = {r}, ~MayFail
    PROVE  Spec => SessionsKept
<1> DEFINE Inv == TypeInv /\ SerialInv(r)
<1>1. Init => Inv /\ S!SessionInit
  BY TypeInit, InitSerial
<1>2. Inv /\ [Next]_vars => Inv' /\ [S!SessionNext]_<<Session, Paused>>
  BY SerialStep
<1>3. QED
  BY <1>1, <1>2, PTL DEF Spec, SessionsKept, S!SessionSpec, Session, Paused

\* The comments of RemoveMember and SetMemberStatus hold of handlers that do not
\* overlap: being added again or reactivated brings no token back.
THEOREM NoRevivalSerially ==
    ASSUME NEW r, Request = {r}, ~MayFail
    PROVE  Spec => NoRevival
<1> DEFINE Inv == TypeInv /\ SerialInv(r)
           Kept == \A k \in Token :
                     (Live(k) /\ ~SweepPending(k) /\ IsActiveMember(token[k].user, token[k].tenant)')
                        => IsActiveMember(token[k].user, token[k].tenant)
<1>1. Init => Inv
  BY TypeInit, InitSerial
<1>2. Inv /\ [Next]_vars => Inv'
  BY SerialStep
<1>3. Inv => Kept
  BY DEF SerialInv, SweepPending, Sweeping
<1>4. QED
  BY <1>1, <1>2, <1>3, PTL DEF Spec, NoRevival

\* What a handler is about to sweep was cut off by a withdrawal, or comes from a
\* login that a withdrawal overtook.
SweepInv ==
    \A r \in Request : req[r].pc = "sweep" => TokensOf(req[r].user, req[r].tenant) \subseteq cut \cup late

LEMMA SweepStep ==
    ASSUME TypeInv, SweepInv, [Next]_vars
    PROVE  SweepInv'
<1>1. CASE UNCHANGED vars
  BY <1>1 DEF vars, tables, SweepInv, TokensOf, Live
<1>2. CASE Administration
  <2>1. UNCHANGED <<req, cut, late>>
    BY <1>2, AdministrationKeeps
  <2>2. \A k \in Token : Live(k)' => Live(k) /\ token'[k] = token[k]
    BY <1>2, LiveBeforeAdministration
  <2>3. QED
    BY <2>1, <2>2 DEF SweepInv, TokensOf
<1>3. ASSUME NEW r \in Request, Begins(r) \/ Step(r) \/ Abandon(r),
             NEW s \in Request, req'[s].pc = "sweep", NEW k \in Token, Live(k)',
             token'[k].user = req'[s].user, token'[k].tenant = req'[s].tenant
      PROVE  k \in cut' \cup late'
  <2>1. /\ \A o \in Request \ {r} : req'[o] = req[o]
        /\ cut \subseteq cut' /\ late \subseteq late'
    BY <1>3, OthersStay
  <2>2. CASE s = r
    <3>1. WithdrawAccess(r)
      BY <1>3, <2>2, SweepBegins
    <3>2. /\ req'[r].user = req[r].user /\ req'[r].tenant = req[r].tenant
          /\ UNCHANGED token
          /\ cut' = cut \cup TokensOf(req[r].user, req[r].tenant)
      BY <3>1, WithdrawalSweeps DEF WithdrawAccess
    <3>3. QED
      BY <1>3, <2>2, <3>2 DEF TokensOf, Live
  <2>3. CASE s # r
    <3>1. req'[s] = req[s]
      BY <2>1, <2>3
    <3>2. CASE IssueDeviceToken(r, k)
      <4>1. token'[k].user = req[r].user /\ token'[k].tenant = req[r].tenant
        BY <3>2 DEF IssueDeviceToken, TypeInv, TypeOK
      <4>2. Withdrawn(req[r].user, req[r].tenant)
        BY <1>3, <3>1, <4>1 DEF Withdrawn, Sweeping
      <4>3. QED
        BY <3>2, <4>2 DEF IssueDeviceToken
    <3>3. CASE Live(k) /\ token'[k].user = token[k].user /\ token'[k].tenant = token[k].tenant
      <4>1. k \in TokensOf(req[s].user, req[s].tenant) /\ req[s].pc = "sweep"
        BY <1>3, <3>1, <3>3 DEF TokensOf
      <4>2. QED
        BY <2>1, <4>1 DEF SweepInv
    <3>4. QED
      BY <1>3, <3>2, <3>3, LiveBefore
  <2>4. QED
    BY <2>2, <2>3
<1>4. ASSUME NEW r \in Request, Begins(r) \/ Step(r) \/ Abandon(r)
      PROVE  SweepInv'
  BY <1>3, <1>4 DEF SweepInv, TokensOf
<1>5. QED
  BY <1>1, <1>2, <1>4 DEF Next

\* RemoveMember and SetMemberStatus, with any number of handlers in flight and
\* whatever fails: a sweep takes no device of another person, none in another
\* tenant and none but those a withdrawal cut off or overtook.
THEOREM OthersKept == Spec => DevicesOfOthersKept
<1> DEFINE Kept == \A k \in Token : (Live(k) /\ ~Live(k)') => k \in cut \cup late \/ Logout(k)
<1>1. Init => SweepInv
  BY DEF Init, Idle, SweepInv
<1>2. TypeInv /\ SweepInv /\ [Next]_vars => SweepInv'
  BY SweepStep
<1>3. TypeInv /\ SweepInv /\ [Next]_vars => [Kept]_vars
  <2> SUFFICES ASSUME TypeInv, SweepInv, Next, NEW k \in Token, Live(k), ~Live(k)'
               PROVE  k \in cut \cup late \/ Logout(k)
    OBVIOUS
  <2>1. /\ token \in [Token -> Issued \cup {None}]
        /\ token[k] \in Issued /\ token[k] # None
        /\ token'[k] # token[k]
    BY DEF TypeInv, TypeOK, Live
  <2>2. CASE Administration
    <3>1. PICK j \in Token : Logout(j)
      BY <2>1, <2>2
         DEF Administration, SetTenantStatus, CreateBranch, UpdateBranch, SetPlatformAdmin
    <3>2. j = k
      BY <2>1, <3>1 DEF Logout
    <3>3. QED
      BY <3>1, <3>2
  <2>3. ASSUME NEW r \in Request, Begins(r) \/ Step(r) \/ Abandon(r)
        PROVE  k \in cut \cup late
    <3>1. CASE RevokeTokens(r)
      <4>1. k \in TokensOf(req[r].user, req[r].tenant)
        BY <2>1, <3>1 DEF RevokeTokens, Swept
      <4>2. QED
        BY <3>1, <4>1 DEF SweepInv, RevokeTokens
    <3>2. CASE \E j \in Token : IssueDeviceToken(r, j)
      BY <2>1, <3>2 DEF IssueDeviceToken
    <3>3. CASE RescopeToken(r)
      <4>1. token' = [token EXCEPT ![req[r].token] = Rescoped(req[r].token, req[r].branch)]
        BY <3>3 DEF RescopeToken
      <4>2. token'[k] = [token[k] EXCEPT !.branch = req[r].branch]
        BY <2>1, <4>1 DEF Rescoped
      <4>3. token'[k].revoked = token[k].revoked
        BY <2>1, <4>2 DEF Issued
      <4>4. token'[k] # None
        BY <2>1, <3>3, TokenStepKeeps DEF TokenStep, TokensKept
      <4>5. QED
        BY <4>3, <4>4 DEF Live
    <3>4. CASE ~TokenStep(r)
      BY <2>1, <2>3, <3>4, OtherStepsKeepTokens
    <3>5. QED
      BY <3>1, <3>2, <3>3, <3>4 DEF TokenStep
  <2>4. QED
    BY <2>2, <2>3 DEF Next
<1>4. QED
  BY <1>1, <1>2, <1>3, TypeInit, TypeStep, PTL DEF Spec, DevicesOfOthersKept

\* introspect.go: whatever overlaps or fails, a device's owner is let in exactly
\* while its session is valid, unless the owner is a platform admin.
THEOREM ValidSessionsServed == Spec => []ServesValidSessions
<1>1. TypeInv => ServesValidSessions
  <2>1. SUFFICES ASSUME TypeInv, NEW k \in Token, token[k] # None, token[k].user \notin admin
                 PROVE  Accepts(k, token[k].user) <=> S!Valid(k)
    BY DEF ServesValidSessions
  <2> DEFINE over == token[k].revoked \/ ~IsActiveMember(token[k].user, token[k].tenant)
             row == [user |-> token[k].user, tenant |-> token[k].tenant, ended |-> over]
  <2>2. /\ token[k] \in Issued /\ token[k].tenant \in Tenant
        /\ tenantStatus[token[k].tenant] \in {"active", "suspended"}
    BY <2>1 DEF TypeInv, TypeOK, Issued
  <2>3. Session[k] = SessionOf(k) /\ SessionOf(k) = row
    BY <2>1 DEF Session, SessionOf
  <2>4. SessionOf(k) # None
    BY <2>1, <2>2, SessionType, RowAssumption
  <2>5. row.tenant = token[k].tenant /\ row.ended = over
    <3> HIDE DEF over
    <3>1. QED
      OBVIOUS
  <2>6. S!Valid(k) <=> ~over /\ token[k].tenant \notin Paused
    <3>1. S!Valid(k) <=> Session[k] # None /\ ~Session[k].ended /\ Session[k].tenant \notin Paused
      BY DEF S!Valid, S!Open, Session, Paused
    <3>2. Session[k].ended = over /\ Session[k].tenant = token[k].tenant
      BY <2>3, <2>5, Zenon
    <3> HIDE DEF over, row
    <3>3. QED
      BY <2>3, <2>4, <3>1, <3>2, Zenon
  <2>7. token[k].tenant \notin Paused <=> tenantStatus[token[k].tenant] = "active"
    BY <2>2 DEF Paused
  <2>8. QED
    BY <2>1, <2>6, <2>7 DEF Accepts, Live
<1>2. Init => TypeInv
  BY TypeInit
<1>3. TypeInv /\ [Next]_vars => TypeInv'
  BY TypeStep
<1>4. QED
  BY <1>1, <1>2, <1>3, PTL DEF Spec

----------------------------------------------------------------------------
(* Devices and their branches, one handler at a time, without platform admins *)

\* The branch handler h is about to give a device in its tenant is the one its
\* person's active membership is on: read by the login, or written by the switch.
OnBranch(h, t, b) == IsActiveMember(h.user, t) /\ member[h.user][t].branch = b

ScopeInv(r) ==
    LET h == req[r] IN
    /\ admin = {}
    /\ Switching(h) => IsActiveMember(h.user, h.tenant)
    /\ h.pc \in {"tenant", "branch"} /\ h.join = None => OnBranch(h, h.tenant, h.branch)
    /\ h.pc \in {"rescope", "issue"} => OnBranch(h, h.tenant, h.branch)
    /\ h.pc = "pick" => \A t \in Tenant : h.seen[t] # None => OnBranch(h, t, h.seen[t])

\* A handler that neither switches nor is past its read of the memberships.
LEMMA UnscopedHandler ==
    ASSUME NEW r \in Request, admin' = {}, ~Switching(req'[r]), req'[r].pc \notin {"issue", "pick"}
    PROVE  ScopeInv(r)'
BY DEF ScopeInv, Switching

LEMMA ScopeAdministration ==
    ASSUME Console = {}, NEW r \in Request, ScopeInv(r), Administration
    PROVE  ScopeInv(r)'
<1>1. UNCHANGED <<member, req, admin>>
  BY DEF Administration, Logout, SetTenantStatus, CreateBranch, UpdateBranch, SetPlatformAdmin
<1>2. QED
  BY <1>1 DEF ScopeInv, OnBranch, Switching, IsActiveMember

LEMMA ScopeBegins ==
    ASSUME TypeInv, NEW r \in Request, ScopeInv(r), Begins(r)
    PROVE  ScopeInv(r)'
<1>1. req \in [Request -> Handler] /\ admin' = {} /\ UNCHANGED member
  BY DEF TypeInv, TypeOK, ScopeInv, Begins, BeginMemberOp, BeginAddMember, BeginLogin, BeginSwitch,
         Begin, tables
<1>2. CASE \E op \in MemberOp, u \in User, t \in Tenant : BeginMemberOp(r, op, u, t)
  <2>1. req'[r].pc = "lookup"
    BY <1>1, <1>2 DEF BeginMemberOp, Begin, Idle
  <2>2. QED
    BY <1>1, <2>1, UnscopedHandler DEF Switching
<1>3. CASE \E u \in User, b \in Branch : BeginAddMember(r, u, b)
  <2>1. req'[r].pc = "exists"
    BY <1>1, <1>3 DEF BeginAddMember, Begin, Idle
  <2>2. QED
    BY <1>1, <2>1, UnscopedHandler DEF Switching
<1>4. CASE \E u \in User, t \in Tenant \cup {None} : BeginLogin(r, u, t)
  <2>1. req'[r].pc = "load"
    BY <1>1, <1>4 DEF BeginLogin, Begin, Idle
  <2>2. QED
    BY <1>1, <2>1, UnscopedHandler DEF Switching
<1>5. CASE \E k \in Token, acting \in User, b \in Branch : BeginSwitch(r, k, acting, b)
  <2>1. PICK k \in Token, acting \in User, b \in Branch : BeginSwitch(r, k, acting, b)
    BY <1>5
  <2>2. req'[r].pc = "membership" /\ req'[r].user = acting /\ req'[r].tenant = token[k].tenant
    BY <1>1, <2>1 DEF BeginSwitch, Begin, Idle
  <2>3. IsActiveMember(acting, token[k].tenant)
    BY <2>1 DEF BeginSwitch, Accepts, ScopeInv
  <2>4. QED
    BY <1>1, <2>2, <2>3 DEF ScopeInv, Switching, IsActiveMember
<1>6. QED
  BY <1>2, <1>3, <1>4, <1>5 DEF Begins

\* Steps that end a handler, or that neither login nor switch takes.
LEMMA ScopeOthers ==
    ASSUME TypeInv, NEW r \in Request, ScopeInv(r),
           \/ Lookup(r) \/ LookupReturns(r) \/ WriteMisses(r) \/ WithdrawAccess(r) \/ Reactivate(r)
           \/ RevokeTokens(r) \/ CheckNotMember(r) \/ CreateMembership(r) \/ DuplicateMembership(r)
           \/ (\E k \in Token : IssueDeviceToken(r, k)) \/ NoTenantPicked(r) \/ MoveMisses(r)
           \/ RescopeToken(r) \/ Abandon(r)
    PROVE  ScopeInv(r)'
<1>1. req \in [Request -> Handler] /\ admin = {}
  BY DEF TypeInv, TypeOK, ScopeInv
<1>2. UNCHANGED admin
  BY DEF Lookup, LookupReturns, WriteMisses, WithdrawAccess, Reactivate, RevokeTokens,
         CheckNotMember, CreateMembership, DuplicateMembership, IssueDeviceToken, NoTenantPicked,
         MoveMisses, RescopeToken, Abandon, tables
<1>3. req'[r].pc \in {"idle", "write", "sweep", "create"}
  <2>1. CASE Lookup(r) \/ CheckNotMember(r) \/ WithdrawAccess(r)
    BY <1>1, <2>1 DEF Lookup, CheckNotMember, WithdrawAccess, AfterWithdrawal, Goto, Return, Idle, Handler
  <2>2. CASE ~(Lookup(r) \/ CheckNotMember(r) \/ WithdrawAccess(r))
    BY <2>2, EndsAt
  <2>3. QED
    BY <2>1, <2>2
<1>4. QED
  BY <1>1, <1>2, <1>3, UnscopedHandler DEF Switching

LEMMA ScopeLogin ==
    ASSUME TypeInv, NEW r \in Request, ScopeInv(r),
           LoadMemberships(r) \/ \E t \in Tenant : PickTenant(r, t)
    PROVE  ScopeInv(r)'
<1>1. /\ req \in [Request -> Handler] /\ admin = {} /\ Local(req[r]) /\ req[r] \in Handler
      /\ UNCHANGED <<admin, member>>
  BY DEF TypeInv, TypeOK, ScopeInv, LoadMemberships, PickTenant, tables
<1>2. CASE LoadMemberships(r)
  <2> DEFINE u == req[r].user
             seen == [t \in Tenant |-> IF IsActiveMember(u, t) THEN member[u][t].branch ELSE None]
  <2>1. Return(r) \/ req' = [req EXCEPT ![r].pc = "pick", ![r].seen = seen]
    BY <1>2 DEF LoadMemberships
  <2>2. CASE Return(r)
    BY <1>1, <2>2, UnscopedHandler DEF Return, Idle, Switching
  <2>3. CASE req' = [req EXCEPT ![r].pc = "pick", ![r].seen = seen]
    <3> HIDE DEF seen
    <3>1. req'[r].pc = "pick" /\ req'[r].seen = seen /\ req'[r].user = u
      BY <1>1, <2>3 DEF Handler
    <3>2. \A t \in Tenant : seen[t] # None => IsActiveMember(u, t) /\ member[u][t].branch = seen[t]
      BY DEF seen
    <3>3. QED
      BY <1>1, <3>1, <3>2 DEF ScopeInv, OnBranch, Switching, IsActiveMember
  <2>4. QED
    BY <2>1, <2>2, <2>3
<1>3. CASE \E t \in Tenant : PickTenant(r, t)
  <2>1. PICK t \in Tenant : PickTenant(r, t)
    BY <1>3
  <2>2. /\ req[r].pc = "pick" /\ req[r].seen[t] # None
        /\ req'[r].pc = "issue" /\ req'[r].tenant = t /\ req'[r].branch = req[r].seen[t]
        /\ req'[r].user = req[r].user
    BY <1>1, <2>1 DEF PickTenant, Picks, Handler
  <2>3. OnBranch(req[r], t, req[r].seen[t])
    BY <2>2 DEF ScopeInv
  <2>4. QED
    BY <1>1, <2>2, <2>3 DEF ScopeInv, OnBranch, Switching, IsActiveMember
<1>4. QED
  BY <1>2, <1>3

LEMMA ScopeSwitch ==
    ASSUME TypeInv, NEW r \in Request, ScopeInv(r),
           LookupCurrentBranch(r) \/ CheckTenant(r) \/ CheckBranch(r) \/ MoveMembership(r)
    PROVE  ScopeInv(r)'
<1>1. /\ req \in [Request -> Handler] /\ admin = {} /\ req[r] \in Handler /\ UNCHANGED admin
      /\ member \in [User -> [Tenant -> Joined \cup {None}]]
  BY DEF TypeInv, TypeOK, ScopeInv, LookupCurrentBranch, CheckTenant, CheckBranch, MoveMembership, tables
<1>2. /\ Switching(req[r]) /\ req[r].user \in User /\ req[r].tenant \in Tenant
      /\ IsActiveMember(req[r].user, req[r].tenant)
  BY DEF LookupCurrentBranch, CheckTenant, CheckBranch, MoveMembership, Switching, ScopeInv, TypeInv, Local
<1>3. Return(r) => ScopeInv(r)'
  BY <1>1, UnscopedHandler DEF Return, Idle, Switching
<1>4. CASE LookupCurrentBranch(r)
  <2> DEFINE join == IF Row(r).branch = req[r].branch THEN None ELSE Row(r).join
  <2>1. req' = [req EXCEPT ![r].pc = "tenant", ![r].join = join] /\ UNCHANGED member
    BY <1>2, <1>4 DEF LookupCurrentBranch, Row, IsActiveMember, tables
  <2>2. join = None => Row(r).branch = req[r].branch
    <3>1. Row(r) \in Joined
      BY <1>1, <1>2 DEF Row, IsActiveMember
    <3>2. QED
      BY <3>1, AbsentAssumption DEF Joined
  <2> HIDE DEF join
  <2>3. /\ req'[r].pc = "tenant" /\ req'[r].join = join /\ req'[r].user = req[r].user
        /\ req'[r].tenant = req[r].tenant /\ req'[r].branch = req[r].branch
    BY <1>1, <2>1 DEF Handler
  <2>4. QED
    BY <1>1, <1>2, <2>1, <2>2, <2>3 DEF ScopeInv, OnBranch, Switching, IsActiveMember, Row
<1>5. CASE CheckTenant(r)
  <2>1. UNCHANGED member /\ req[r].pc = "tenant" /\ (Return(r) \/ Goto(r, "branch"))
    BY <1>5 DEF CheckTenant, tables
  <2>2. CASE Goto(r, "branch")
    <3>1. /\ req'[r].pc = "branch" /\ req'[r].join = req[r].join /\ req'[r].user = req[r].user
          /\ req'[r].tenant = req[r].tenant /\ req'[r].branch = req[r].branch
      BY <1>1, <2>2 DEF Goto, Handler
    <3>2. QED
      BY <1>1, <2>1, <3>1 DEF ScopeInv, OnBranch, Switching, IsActiveMember
  <2>3. QED
    BY <1>3, <2>1, <2>2
<1>6. CASE CheckBranch(r)
  <2>1. /\ UNCHANGED member /\ req[r].pc = "branch"
        /\ Return(r) \/ Goto(r, "move") \/ (req[r].join = None /\ Goto(r, "rescope"))
    BY <1>6 DEF CheckBranch, tables
  <2>2. ASSUME NEW pc \in {"move", "rescope"}, Goto(r, pc), pc = "rescope" => req[r].join = None
        PROVE  ScopeInv(r)'
    <3>1. /\ req'[r].pc = pc /\ req'[r].user = req[r].user
          /\ req'[r].tenant = req[r].tenant /\ req'[r].branch = req[r].branch
      BY <1>1, <2>2 DEF Goto, Handler
    <3>2. QED
      BY <1>1, <1>2, <2>1, <2>2, <3>1 DEF ScopeInv, OnBranch, Switching, IsActiveMember
  <2>3. QED
    BY <1>3, <2>1, <2>2
<1>7. CASE MoveMembership(r)
  <2>1. /\ req'[r].pc = "rescope" /\ req'[r].user = req[r].user
        /\ req'[r].tenant = req[r].tenant /\ req'[r].branch = req[r].branch
    BY <1>1, <1>7 DEF MoveMembership, Goto, Handler
  <2>2. member' = [member EXCEPT ![req[r].user][req[r].tenant].branch = req[r].branch]
    BY <1>7 DEF MoveMembership
  <2>3. member[req[r].user][req[r].tenant] \in Joined /\ req[r].branch \in Branch
    BY <1>1, <1>2 DEF IsActiveMember, TypeInv, Local
  <2>4. /\ member'[req[r].user][req[r].tenant] = [member[req[r].user][req[r].tenant] EXCEPT !.branch = req[r].branch]
    BY <1>1, <1>2, <2>2
  <2>5. /\ member'[req[r].user][req[r].tenant] \in Joined
        /\ member'[req[r].user][req[r].tenant].branch = req[r].branch
        /\ member'[req[r].user][req[r].tenant].status = member[req[r].user][req[r].tenant].status
    BY <2>3, <2>4 DEF Joined
  <2>6. QED
    BY <1>1, <1>2, <2>1, <2>5, RowAssumption DEF ScopeInv, OnBranch, Switching, IsActiveMember
<1>8. QED
  BY <1>4, <1>5, <1>6, <1>7

LEMMA ScopeStep ==
    ASSUME NEW r, Request = {r}, Console = {}, TypeInv, ScopeInv(r), [Next]_vars
    PROVE  ScopeInv(r)'
<1>1. CASE UNCHANGED vars
  BY <1>1 DEF vars, tables, ScopeInv, OnBranch, Switching, IsActiveMember
<1>2. CASE Next
  BY <1>2, ScopeAdministration, ScopeBegins, ScopeOthers, ScopeLogin, ScopeSwitch DEF Next, Step
<1>3. QED
  BY <1>1, <1>2

\* branch.go and login.go, one handler at a time, whatever fails, no platform
\* admins: a device comes to a branch only with the person who brings it there.
THEOREM DevicesComeWithPeople ==
    ASSUME NEW r, Request = {r}, Console = {}
    PROVE  Spec => ScopedTogether
<1> DEFINE Inv == TypeInv /\ ScopeInv(r)
<1>1. Init => Inv
  BY TypeInit DEF Init, Idle, ScopeInv, Switching
<1>2. Inv /\ [Next]_vars => Inv'
  BY TypeStep, ScopeStep
<1>3. Inv /\ [Next]_vars => [ComesWithPerson]_vars
  <2> SUFFICES ASSUME Inv, Next, NEW k \in Token, Live(k)',
                      token[k] # None => token'[k].branch # token[k].branch
               PROVE  \E u \in User :
                         /\ IF token[k] = None THEN token'[k].user = u
                            ELSE \E s \in Request : RescopeToken(s) /\ req[s].user = u
                         /\ (/\ IsActiveMember(u, token[k].tenant)
                             /\ member[u][token[k].tenant].branch = token[k].branch)'
    BY DEF ComesWithPerson
  <2>1. /\ r \in Request /\ token \in [Token -> Issued \cup {None}]
        /\ Local(req[r])
    BY DEF TypeInv, TypeOK
  <2>2. ASSUME NEW u \in User, UNCHANGED member, token'[k].tenant = req[r].tenant,
               token'[k].branch = req[r].branch, u = req[r].user,
               OnBranch(req[r], req[r].tenant, req[r].branch)
        PROVE  (IsActiveMember(u, token[k].tenant) /\ member[u][token[k].tenant].branch = token[k].branch)'
    BY <2>2 DEF OnBranch, IsActiveMember
  <2>3. CASE \E j \in Token : IssueDeviceToken(r, j)
    <3>1. PICK j \in Token : IssueDeviceToken(r, j)
      BY <2>3
    <3>2. /\ token' = [token EXCEPT ![j] = [user |-> req[r].user, tenant |-> req[r].tenant,
                                            branch |-> req[r].branch, revoked |-> FALSE]]
          /\ token[j] = None /\ req[r].pc = "issue" /\ UNCHANGED member
      BY <3>1 DEF IssueDeviceToken
    <3>3. j = k
      BY <2>1, <3>2 DEF Live
    <3>4. /\ token'[k].user = req[r].user /\ token'[k].tenant = req[r].tenant
          /\ token'[k].branch = req[r].branch
      BY <2>1, <3>2, <3>3
    <3>5. req[r].user \in User /\ OnBranch(req[r], req[r].tenant, req[r].branch)
      BY <2>1, <3>2 DEF Local, ScopeInv
    <3>6. QED
      BY <2>2, <3>2, <3>3, <3>4, <3>5
  <2>4. CASE RescopeToken(r)
    <3>1. /\ token' = [token EXCEPT ![req[r].token] = Rescoped(req[r].token, req[r].branch)]
          /\ req[r].pc = "rescope" /\ UNCHANGED member
      BY <2>4 DEF RescopeToken
    <3>2. /\ req[r].token \in Token /\ token[req[r].token] # None
          /\ token[req[r].token].tenant = req[r].tenant /\ req[r].user \in User
      BY <2>1, <3>1 DEF Local, Switching
    <3>3. k = req[r].token
      BY <2>1, <3>1 DEF Live
    <3>4. token[k] \in Issued /\ token'[k] = Rescoped(k, req[r].branch)
      BY <2>1, <3>1, <3>2, <3>3
    <3>5. token'[k].tenant = req[r].tenant /\ token'[k].branch = req[r].branch
      BY <3>2, <3>3, <3>4 DEF Rescoped, Issued
    <3>6. OnBranch(req[r], req[r].tenant, req[r].branch)
      BY <3>1 DEF ScopeInv
    <3>7. token[k] # None
      BY <3>2, <3>3
    <3>8. QED
      BY <2>1, <2>2, <2>4, <3>1, <3>2, <3>5, <3>6, <3>7
  <2>5. CASE RevokeTokens(r)
    <3>1. token' = [j \in Token |-> IF j \in Swept(req[r].user, req[r].tenant)
                                    THEN [token[j] EXCEPT !.revoked = TRUE] ELSE token[j]]
      BY <2>5 DEF RevokeTokens
    <3>2. token'[k] = token[k] \/ (Live(k) /\ token'[k] = [token[k] EXCEPT !.revoked = TRUE])
      BY <3>1 DEF Swept, TokensOf
    <3>3. QED
      BY <2>1, <3>2 DEF Live, Issued
  <2>6. CASE Administration
    <3>1. CASE \E j \in Token : Logout(j)
      BY <2>1, <3>1 DEF Logout, Live, Issued
    <3>2. CASE UNCHANGED token
      BY <3>2 DEF Live
    <3>3. QED
      BY <2>6, <3>1, <3>2
         DEF Administration, SetTenantStatus, CreateBranch, UpdateBranch, SetPlatformAdmin
  <2>7. CASE (Begins(r) \/ Step(r) \/ Abandon(r)) /\ ~TokenStep(r)
    BY <2>1, <2>7, OtherStepsKeepTokens DEF Live
  <2>8. QED
    BY <2>3, <2>4, <2>5, <2>6, <2>7 DEF Next, TokenStep
<1>4. QED
  BY <1>1, <1>2, <1>3, PTL DEF Spec, ScopedTogether
==============================================================================
