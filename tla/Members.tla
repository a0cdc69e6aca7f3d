------------------------------ MODULE Members ------------------------------
(***************************************************************************)
(* Administration of the memberships and the roles of one tenant:          *)
(* internal/auth/member_manage.go, internal/auth/roles.go and AddMember of *)
(* internal/auth/branch.go, over the shared tables tenant_users, roles and *)
(* role_permissions.                                                       *)
(*                                                                         *)
(* Every HTTP request runs in a goroutine of its own and every database    *)
(* statement commits by itself, so a handler is a sequence of steps, one   *)
(* per statement, and the steps of the handlers in flight interleave.      *)
(* req[r] is the program counter and the locals of the handler in slot r.  *)
(* Permission reads of countManagers are taken at one instant.             *)
(***************************************************************************)
EXTENDS Naturals, FiniteSets

CONSTANTS
    User,         \* global users, shared.users
    Founder,      \* the user who registered the tenant and became its owner
    CustomRole,   \* ids of tenant roles; a uuid names at most one role ever
    Permission,   \* permissions a custom role may be given
    Request,      \* slots: how many handlers are in flight at once
    None,         \* no row, no argument
    MaxMembershipId  \* bound: how many memberships are ever created

ASSUME UserAssumption == IsFiniteSet(User) /\ Founder \in User
ASSUME RoleAssumption == CustomRole \cap {"owner", "member"} = {}

VARIABLES
    row,       \* tenant_users of this tenant; the index (user, tenant) is unique
    nextId,    \* the next membership id
    roleRow,   \* custom role id -> no row yet, a live row, a deleted row
    perms,     \* role_permissions: role id -> permissions
    req,       \* the handlers in flight
    overtaken  \* history: another handler wrote since this one started

vars == <<row, nextId, roleRow, perms, req, overtaken>>

----------------------------------------------------------------------------
(* Roles and permissions *)

SystemRole == {"owner", "member"}   \* admin and manager hold no tenant:manage either
Role == SystemRole \cup CustomRole
Status == {"active", "suspended"}
Membership == [id : Nat, role : Role, status : Status]

\* Membership id and role, as a handler read them.
Held == [id : Nat, role : Role]

ASSUME NoneAssumption == /\ None \notin User
                         /\ None \notin Role
                         /\ None \notin Membership
                         /\ None \notin Held

SystemPermissions(role) == IF role = "owner" THEN {"*:*"} ELSE {"user:read"}

\* The patterns rbac.Allows accepts for tenant:manage.
ManagePatterns == {"*:*", "tenant:*", "*:manage", "tenant:manage"}

RoleHasPermManage(role) == perms[role] \cap ManagePatterns # {}

LiveRoles == SystemRole \cup {c \in CustomRole : roleRow[c] = "live"}

ManagerRows == {u \in User : row[u] # None /\ RoleHasPermManage(row[u].role)}

\* The members countManagers counts: the suspended ones administer nothing.
ActiveManagers == {u \in ManagerRows : row[u].status # "suspended"}

\* Slip: the suspended managers counted too.
CountManagers_Suspended == Cardinality(ManagerRows)

\* Slip: the loop counts each managing role once.
CountManagers_PerRole == Cardinality({row[u].role : u \in ActiveManagers})

CountManagers == Cardinality(ActiveManagers)

OnlyManager == CountManagers <= 1

\* Slip: suspended members overlooked.
RoleInUse_ActiveOnly(c) == \E u \in User : row[u] # None /\ row[u].role = c /\ row[u].status = "active"

RoleInUse(c) == \E u \in User : row[u] # None /\ row[u].role = c

----------------------------------------------------------------------------
(* Handlers *)

MemberOp == {"setRole", "remove", "suspend", "reactivate"}
RoleOp == {"createRole", "updateRole", "deleteRole"}

\* held: the membership id and role read at the lookup; todo: permissions
\* replacePermissions still has to insert.
Handler ==
    [pc : {"idle", "refused", "lookup", "resolve", "wasManager", "willManage", "count",
           "write", "exists", "create", "getRole", "clear", "insert", "inUse", "deleteRow"},
     op : MemberOp \cup RoleOp \cup {"add", "none"},
     user : User \cup {None},
     role : Role \cup {None},
     held : Held \cup {None},
     todo : SUBSET Permission]

Idle == [pc |-> "idle", op |-> "none", user |-> None, role |-> None,
         held |-> None, todo |-> {}]

TypeOK ==
    /\ row \in [User -> Membership \cup {None}]
    /\ nextId \in Nat
    /\ roleRow \in [CustomRole -> {"unused", "live", "deleted"}]
    /\ perms \in [Role -> SUBSET (Permission \cup ManagePatterns \cup {"user:read"})]
    /\ req \in [Request -> Handler]
    /\ overtaken \in [Request -> BOOLEAN]

Init ==
    /\ row = [u \in User |-> IF u = Founder
                             THEN [id |-> 1, role |-> "owner", status |-> "active"]
                             ELSE None]
    /\ nextId = 2
    /\ roleRow = [c \in CustomRole |-> "unused"]
    /\ perms = [role \in Role |-> IF role \in SystemRole THEN SystemPermissions(role) ELSE {}]
    /\ req = [r \in Request |-> Idle]
    /\ overtaken = [r \in Request |-> FALSE]

InFlight(r) == req[r].pc \notin {"idle", "refused"}

Goto(r, pc) == req' = [req EXCEPT ![r].pc = pc]
Return(r) == req' = [req EXCEPT ![r] = Idle]

\* A read changes no table and overtakes nobody.
Reads == UNCHANGED <<row, nextId, roleRow, perms, overtaken>>

\* A write of r overtakes every other handler in flight.
Writes(r) == overtaken' = [s \in Request |-> overtaken[s] \/ (s # r /\ InFlight(s))]

Begin(r, handler) ==
    /\ ~InFlight(r)
    /\ req' = [req EXCEPT ![r] = handler]
    /\ overtaken' = [overtaken EXCEPT ![r] = FALSE]
    /\ UNCHANGED <<row, nextId, roleRow, perms>>

\* UpdateMemberRole, RemoveMember and SetMemberStatus; role is None but for
\* the first. Console and tenant routes call the same service functions.
BeginMemberOp(r, op, u, role) ==
    /\ (op = "setRole") <=> (role # None)
    /\ Begin(r, [Idle EXCEPT !.pc = "lookup", !.op = op, !.user = u, !.role = role])

BeginAddMember(r, u, role) ==
    Begin(r, [Idle EXCEPT !.pc = "resolve", !.op = "add", !.user = u, !.role = role])

BeginRoleOp(r, op, role, todo) ==
    /\ (op = "deleteRole") => (todo = {})
    /\ Begin(r, [Idle EXCEPT !.pc = IF op = "createRole" THEN "create" ELSE "getRole",
                             !.op = op, !.role = role, !.todo = todo])

----------------------------------------------------------------------------
(* UpdateMemberRole, RemoveMember, SetMemberStatus *)

\* Slip: SetMemberStatus without the guard.
AfterLookup_SuspendUnguarded(op) ==
    CASE op = "setRole" -> "resolve"
      [] op = "remove" -> "wasManager"
      [] OTHER -> "write"

AfterLookup(op) ==
    CASE op = "setRole" -> "resolve"
      [] op = "reactivate" -> "write"
      [] OTHER -> "wasManager"

\* The membership is read by (user, tenant); its id and role are used later.
LookupMember(r) ==
    LET u == req[r].user IN
    /\ req[r].pc = "lookup"
    /\ row[u] # None
    /\ (req[r].op = "suspend") => (row[u].status # "suspended")
    /\ (req[r].op = "reactivate") => (row[u].status # "active")
    /\ req' = [req EXCEPT ![r].pc = AfterLookup(req[r].op),
                          ![r].held = [id |-> row[u].id, role |-> row[u].role]]
    /\ Reads

\* ErrMemberNotFound, or the membership already has the requested status.
LookupReturns(r) ==
    LET u == req[r].user IN
    /\ req[r].pc = "lookup"
    /\ \/ row[u] = None
       \/ row[u] # None /\ req[r].op = "suspend" /\ row[u].status = "suspended"
       \/ row[u] # None /\ req[r].op = "reactivate" /\ row[u].status = "active"
    /\ Return(r)
    /\ Reads

ResolveRoleID(r) ==
    /\ req[r].pc = "resolve"
    /\ req[r].role \in LiveRoles
    /\ Goto(r, IF req[r].op = "add" THEN "exists" ELSE "wasManager")
    /\ Reads

RoleUnknown(r) ==
    /\ req[r].pc = "resolve"
    /\ req[r].role \notin LiveRoles
    /\ Return(r)
    /\ Reads

\* Only a member who manages, and stops to, has to be counted.
WasManager(r) ==
    /\ req[r].pc = "wasManager"
    /\ Goto(r, IF ~RoleHasPermManage(req[r].held.role) THEN "write"
               ELSE IF req[r].op = "setRole" THEN "willManage" ELSE "count")
    /\ Reads

WillManage(r) ==
    /\ req[r].pc = "willManage"
    /\ Goto(r, IF RoleHasPermManage(req[r].role) THEN "write" ELSE "count")
    /\ Reads

LastManagerGuard(r) ==
    /\ req[r].pc = "count"
    /\ req' = IF OnlyManager
              THEN [req EXCEPT ![r] = [Idle EXCEPT !.pc = "refused"]]
              ELSE [req EXCEPT ![r].pc = "write"]
    /\ Reads

\* Slip: the row addressed by user and tenant.
RowHeld_AnyRow(r) == row[req[r].user] # None

\* UpdateOneID / DeleteOneID address the row by the id read at the lookup.
RowHeld(r) == row[req[r].user] # None /\ row[req[r].user].id = req[r].held.id

\* Slip: a status outside the enumeration.
Written_Inactive(r) ==
    LET old == row[req[r].user] IN
    CASE req[r].op = "setRole"    -> [old EXCEPT !.role = req[r].role]
      [] req[r].op = "remove"     -> None
      [] req[r].op = "suspend"    -> [old EXCEPT !.status = "inactive"]
      [] req[r].op = "reactivate" -> [old EXCEPT !.status = "active"]

\* What the write makes of the row.
Written(r) ==
    LET old == row[req[r].user] IN
    CASE req[r].op = "setRole"    -> [old EXCEPT !.role = req[r].role]
      [] req[r].op = "remove"     -> None
      [] req[r].op = "suspend"    -> [old EXCEPT !.status = "suspended"]
      [] req[r].op = "reactivate" -> [old EXCEPT !.status = "active"]

WriteMember(r) ==
    /\ req[r].pc = "write"
    /\ RowHeld(r)
    /\ row' = [row EXCEPT ![req[r].user] = Written(r)]
    /\ Return(r)
    /\ Writes(r)
    /\ UNCHANGED <<nextId, roleRow, perms>>

\* ent reports not found when the row is gone.
WriteMisses(r) ==
    /\ req[r].pc = "write"
    /\ ~RowHeld(r)
    /\ Return(r)
    /\ Reads

----------------------------------------------------------------------------
(* AddMember; the account and profile it may create are not kept here *)

CheckNotMember(r) ==
    /\ req[r].pc = "exists"
    /\ IF row[req[r].user] = None THEN Goto(r, "create") ELSE Return(r)
    /\ Reads

CreateMembership(r) ==
    LET u == req[r].user IN
    /\ req[r].pc = "create"
    /\ req[r].op = "add"
    /\ row[u] = None
    /\ nextId <= MaxMembershipId
    /\ row' = [row EXCEPT ![u] = [id |-> nextId, role |-> req[r].role, status |-> "active"]]
    /\ nextId' = nextId + 1
    /\ Return(r)
    /\ Writes(r)
    /\ UNCHANGED <<roleRow, perms>>

\* The unique index (user, tenant) refuses a second membership.
DuplicateMembership(r) ==
    /\ req[r].pc = "create"
    /\ req[r].op = "add"
    /\ row[req[r].user] # None
    /\ Return(r)
    /\ Reads

----------------------------------------------------------------------------
(* CreateRole, UpdateRole, DeleteRole *)

\* A new uuid each time: an id that was used never names a role again.
CreateRoleRow(r) ==
    LET c == req[r].role IN
    /\ req[r].pc = "create"
    /\ req[r].op = "createRole"
    /\ roleRow[c] = "unused"
    /\ roleRow' = [roleRow EXCEPT ![c] = "live"]
    /\ Goto(r, "clear")
    /\ Writes(r)
    /\ UNCHANGED <<row, nextId, perms>>

\* The slug is taken.
CreateRoleClash(r) ==
    /\ req[r].pc = "create"
    /\ req[r].op = "createRole"
    /\ roleRow[req[r].role] # "unused"
    /\ Return(r)
    /\ Reads

GetRole(r) ==
    /\ req[r].pc = "getRole"
    /\ IF req[r].role \in LiveRoles
       THEN Goto(r, IF req[r].op = "deleteRole" THEN "inUse" ELSE "clear")
       ELSE Return(r)
    /\ Reads

CheckInUse(r) ==
    /\ req[r].pc = "inUse"
    /\ IF RoleInUse(req[r].role)
       THEN Return(r)
       ELSE Goto(r, "clear")
    /\ Reads

\* replacePermissions and DeleteRole both start by deleting the permissions.
ClearPermissions(r) ==
    /\ req[r].pc = "clear"
    /\ perms' = [perms EXCEPT ![req[r].role] = {}]
    /\ CASE req[r].op = "deleteRole" -> Goto(r, "deleteRow")
         [] req[r].op # "deleteRole" /\ req[r].todo # {} -> Goto(r, "insert")
         [] OTHER -> Return(r)
    /\ Writes(r)
    /\ UNCHANGED <<row, nextId, roleRow>>

\* One row per statement. The foreign key wants the role and the unique index
\* a permission it does not hold yet.
InsertPermission(r, p) ==
    LET c == req[r].role IN
    /\ req[r].pc = "insert"
    /\ p \in req[r].todo
    /\ c \in LiveRoles
    /\ p \notin perms[c]
    /\ perms' = [perms EXCEPT ![c] = @ \cup {p}]
    /\ IF req[r].todo = {p} THEN Return(r)
       ELSE req' = [req EXCEPT ![r].todo = @ \ {p}]
    /\ Writes(r)
    /\ UNCHANGED <<row, nextId, roleRow>>

InsertFails(r, p) ==
    /\ req[r].pc = "insert"
    /\ p \in req[r].todo
    /\ (req[r].role \notin LiveRoles) \/ p \in perms[req[r].role]
    /\ Return(r)
    /\ Reads

\* Slip: no foreign key.
RoleDeletable_Always(c) == roleRow[c] = "live"

\* The foreign key of role_permissions keeps a role that has permissions.
RoleDeletable(c) == roleRow[c] = "live" /\ perms[c] = {}

DeleteRoleRow(r) ==
    LET c == req[r].role IN
    /\ req[r].pc = "deleteRow"
    /\ RoleDeletable(c)
    /\ roleRow' = [roleRow EXCEPT ![c] = "deleted"]
    /\ Return(r)
    /\ Writes(r)
    /\ UNCHANGED <<row, nextId, perms>>

DeleteRoleFails(r) ==
    /\ req[r].pc = "deleteRow"
    /\ ~RoleDeletable(req[r].role)
    /\ Return(r)
    /\ Reads

\* A statement fails, the client goes away and cancels the request's context,
\* or the process stops: what was committed stays, the rest does not happen.
Abandon(r) ==
    /\ InFlight(r)
    /\ Return(r)
    /\ Reads

----------------------------------------------------------------------------

Begins(r) ==
    \/ \E op \in MemberOp, u \in User, role \in Role \cup {None} : BeginMemberOp(r, op, u, role)
    \/ \E u \in User, role \in Role : BeginAddMember(r, u, role)
    \/ \E op \in RoleOp, c \in CustomRole, todo \in SUBSET Permission : BeginRoleOp(r, op, c, todo)

MemberStep(r) ==
    \/ LookupMember(r) \/ LookupReturns(r) \/ ResolveRoleID(r) \/ RoleUnknown(r)
    \/ WasManager(r) \/ WillManage(r) \/ LastManagerGuard(r)
    \/ WriteMember(r) \/ WriteMisses(r)
    \/ CheckNotMember(r) \/ CreateMembership(r) \/ DuplicateMembership(r)

RoleStep(r) ==
    \/ CreateRoleRow(r) \/ CreateRoleClash(r) \/ GetRole(r) \/ CheckInUse(r)
    \/ ClearPermissions(r) \/ DeleteRoleRow(r) \/ DeleteRoleFails(r)
    \/ \E p \in Permission : InsertPermission(r, p) \/ InsertFails(r, p)

Next == \E r \in Request : Begins(r) \/ MemberStep(r) \/ RoleStep(r) \/ Abandon(r)

Spec == Init /\ [][Next]_vars

----------------------------------------------------------------------------
(* Properties *)

Guarded(h) == h.op \in {"setRole", "remove", "suspend"}

\* What the guards of member_manage.go and roles.go establish for the
\* statement that follows them, as long as no other handler has written: the
\* membership read is still that row and role, the write leaves a manager,
\* the role resolved still exists, the role to delete is still unused.
GuardHolds(r) ==
    LET h == req[r] IN
    ~overtaken[r] =>
      /\ (h.op \in MemberOp /\ InFlight(r) /\ h.pc # "lookup")
           => RowHeld(r) /\ row[h.user].role = h.held.role
      /\ (h.pc = "write" /\ Guarded(h))
           => \/ ~RoleHasPermManage(h.held.role)
              \/ h.op = "setRole" /\ RoleHasPermManage(h.role)
              \/ CountManagers > 1
      /\ (h.op \in {"setRole", "add"} /\ h.pc \notin {"lookup", "resolve"})
           => h.role \in LiveRoles
      /\ (h.op = "deleteRole" /\ h.pc \in {"clear", "deleteRow"}) => ~RoleInUse(h.role)

GuardsHold == \A r \in Request : GuardHolds(r)

\* The guard of UpdateMemberRole, RemoveMember and SetMemberStatus: a
\* membership write takes the last active manager away only when another
\* handler wrote between this one's reads and its write. (Editing the
\* permissions of a custom role is not guarded.)
KeepsLastManager ==
    (ActiveManagers # {} /\ ActiveManagers' = {}) =>
       \/ perms' # perms
       \/ \E r \in Request : req[r].pc = "write" /\ row' # row /\ overtaken[r]

LastManagerKept == [][KeepsLastManager]_vars

\* The guard refuses an active member only when the tenant would indeed be
\* left without an active manager, unless another handler wrote meanwhile.
RefusalNeeded ==
    [][\A r \in Request :
          (req[r].pc = "count" /\ req'[r].pc = "refused" /\ ~overtaken[r]
             /\ row[req[r].user].status = "active")
          => ActiveManagers = {req[r].user}]_vars

Dangling(u) == row[u] # None /\ row[u].role \notin LiveRoles

\* DeleteRole's check and AddMember's and UpdateMemberRole's role lookup: a
\* membership comes to name a deleted role only through a handler that was
\* overtaken by another one's write.
KeepsRolesInUse ==
    (\A u \in User : ~Dangling(u)) /\ (\E u \in User : Dangling(u)')
       => \E r \in Request : InFlight(r) /\ ~InFlight(r)' /\ overtaken[r]

RolesInUseKept == [][KeepsRolesInUse]_vars

\* A change decided on one membership never lands on a later membership of
\* the same user, who was removed and added again meanwhile.
ChangesHeldRow ==
    \A u \in User :
       (row[u] # None /\ row'[u] # row[u]) =>
          \E r \in Request : /\ req[r].pc = "write" /\ ~InFlight(r)'
                             /\ req[r].user = u /\ req[r].held.id = row[u].id

ChangesWhatItRead == [][ChangesHeldRow]_vars

\* Permissions belong to roles that exist, whatever edits and deletions of
\* the role overlap.
NoOrphanPermissions == \A c \in CustomRole : perms[c] # {} => roleRow[c] = "live"

\* ErrLastManager's comment: the tenant is never left with no one able to
\* administer it.
ManagerRemains == ActiveManagers # {}
=============================================================================
