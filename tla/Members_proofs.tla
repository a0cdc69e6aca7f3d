--------------------------- MODULE Members_proofs ---------------------------
(* Theorems of Members, for every set of users, roles and handlers. *)
EXTENDS Members, FiniteSetTheorems, TLAPS

\* What the program counter says of a handler's locals.
Shape(h) ==
    /\ h.pc \in {"lookup", "wasManager", "willManage", "count", "write"} => h.op \in MemberOp
    /\ h.op \in MemberOp \cup {"add"} => h.user \in User
    /\ h.op \in {"setRole", "add"} => h.role \in Role
    /\ h.op \in RoleOp => h.role \in CustomRole
    /\ h.pc \in {"wasManager", "willManage", "count", "write"} => h.held # None
    /\ h.pc = "resolve" => h.op = "add" \/ (h.op = "setRole" /\ h.held # None)
    /\ h.pc = "exists" => h.op = "add"
    /\ h.pc = "create" => h.op \in {"add", "createRole"}
    /\ h.pc \in {"getRole", "clear", "insert", "inUse", "deleteRow"} => h.op \in RoleOp
    /\ h.pc = "willManage" => h.op = "setRole"
    /\ h.pc = "deleteRow" => h.op = "deleteRole"
    /\ h.pc \in {"idle", "refused"} => h.op = "none"
    /\ h.pc \in {"wasManager", "count"} => h.op # "reactivate"

TypeInv == TypeOK /\ \A r \in Request : Shape(req[r])

LEMMA IdleShape == Idle \in Handler /\ Shape(Idle) /\ Idle.pc = "idle"
BY DEF Idle, Handler, Shape, MemberOp, RoleOp

LEMMA TypeInit == Init => TypeInv
<1> SUFFICES ASSUME Init PROVE TypeInv
  OBVIOUS
<1>1. row \in [User -> Membership \cup {None}]
  BY UserAssumption DEF Init, Membership, Role, SystemRole, Status
<1>2. perms \in [Role -> SUBSET (Permission \cup ManagePatterns \cup {"user:read"})]
  BY DEF Init, SystemPermissions, ManagePatterns
<1>3. QED
  BY <1>1, <1>2, IdleShape DEF Init, TypeInv, TypeOK

\* The handler in slot r moves to h, the others stay.
LEMMA HandlerMoves ==
    ASSUME TypeInv, NEW r \in Request, NEW h \in Handler, Shape(h),
           req' = [req EXCEPT ![r] = h]
    PROVE  /\ req' \in [Request -> Handler]
           /\ \A s \in Request : Shape(req[s])'
BY DEF TypeInv, TypeOK, Shape

LEMMA ReturnMoves ==
    ASSUME TypeInv, NEW r \in Request, Return(r)
    PROVE  /\ req' \in [Request -> Handler]
           /\ \A s \in Request : Shape(req[s])'
BY IdleShape, HandlerMoves DEF Return

LEMMA BeginsType ==
    ASSUME TypeInv, NEW r \in Request, Begins(r)
    PROVE  TypeInv'
<1>1. ASSUME NEW h \in Handler, Shape(h), Begin(r, h)
      PROVE  TypeInv'
  <2>1. req' = [req EXCEPT ![r] = h]
    BY <1>1 DEF Begin
  <2>2. overtaken' \in [Request -> BOOLEAN] /\ UNCHANGED <<row, nextId, roleRow, perms>>
    BY <1>1 DEF Begin, TypeInv, TypeOK
  <2>3. QED
    BY <1>1, <2>1, <2>2, HandlerMoves DEF TypeInv, TypeOK
<1>2. CASE \E op \in MemberOp, u \in User, role \in Role \cup {None} : BeginMemberOp(r, op, u, role)
  <2>1. PICK op \in MemberOp, u \in User, role \in Role \cup {None} : BeginMemberOp(r, op, u, role)
    BY <1>2
  <2> DEFINE h == [Idle EXCEPT !.pc = "lookup", !.op = op, !.user = u, !.role = role]
  <2>2. h \in Handler
    BY DEF Idle, Handler
  <2>3. (op = "setRole") => role \in Role
    BY <2>1 DEF BeginMemberOp
  <2>4. Shape(h)
    BY <2>3 DEF Idle, Shape, MemberOp, RoleOp
  <2>5. Begin(r, h)
    BY <2>1 DEF BeginMemberOp
  <2>6. QED
    BY <1>1, <2>2, <2>4, <2>5
<1>3. CASE \E u \in User, role \in Role : BeginAddMember(r, u, role)
  <2>1. PICK u \in User, role \in Role : BeginAddMember(r, u, role)
    BY <1>3
  <2> DEFINE h == [Idle EXCEPT !.pc = "resolve", !.op = "add", !.user = u, !.role = role]
  <2>2. h \in Handler
    BY DEF Idle, Handler
  <2>3. Shape(h)
    BY DEF Idle, Shape, MemberOp, RoleOp
  <2>4. QED
    BY <1>1, <2>1, <2>2, <2>3 DEF BeginAddMember
<1>4. CASE \E op \in RoleOp, c \in CustomRole, todo \in SUBSET Permission : BeginRoleOp(r, op, c, todo)
  <2>1. PICK op \in RoleOp, c \in CustomRole, todo \in SUBSET Permission : BeginRoleOp(r, op, c, todo)
    BY <1>4
  <2> DEFINE h == [Idle EXCEPT !.pc = IF op = "createRole" THEN "create" ELSE "getRole",
                               !.op = op, !.role = c, !.todo = todo]
  <2>2. h \in Handler
    BY DEF Idle, Handler, Role
  <2>3. Shape(h)
    BY DEF Idle, Shape, MemberOp, RoleOp
  <2>4. QED
    BY <1>1, <2>1, <2>2, <2>3 DEF BeginRoleOp
<1>5. QED
  BY <1>2, <1>3, <1>4 DEF Begins

\* The locals after each read of r; the tables stay.
LEMMA ReadMoves ==
    ASSUME TypeInv, NEW r \in Request,
           \/ LookupMember(r) \/ LookupReturns(r) \/ ResolveRoleID(r) \/ RoleUnknown(r)
           \/ WasManager(r) \/ WillManage(r) \/ LastManagerGuard(r) \/ WriteMisses(r)
           \/ CheckNotMember(r) \/ DuplicateMembership(r) \/ CreateRoleClash(r) \/ GetRole(r)
           \/ CheckInUse(r) \/ DeleteRoleFails(r) \/ Abandon(r)
           \/ \E p \in Permission : InsertFails(r, p)
    PROVE  Reads /\ \E h \in Handler : Shape(h) /\ req' = [req EXCEPT ![r] = h]
<1>1. req[r] \in Handler /\ Shape(req[r]) /\ req \in [Request -> Handler]
  BY DEF TypeInv, TypeOK
<1>0. Reads
  BY DEF LookupMember, LookupReturns, ResolveRoleID, RoleUnknown, WasManager, WillManage,
         LastManagerGuard, WriteMisses, CheckNotMember, DuplicateMembership, CreateRoleClash,
         GetRole, CheckInUse, DeleteRoleFails, Abandon, InsertFails
<1> SUFFICES \E h \in Handler : Shape(h) /\ req' = [req EXCEPT ![r] = h]
  BY <1>0
<1>2. ASSUME NEW pc, Goto(r, pc), [req[r] EXCEPT !.pc = pc] \in Handler,
             Shape([req[r] EXCEPT !.pc = pc])
      PROVE  \E h \in Handler : Shape(h) /\ req' = [req EXCEPT ![r] = h]
  BY <1>1, <1>2 DEF Goto
<1>3. ASSUME Return(r)
      PROVE  \E h \in Handler : Shape(h) /\ req' = [req EXCEPT ![r] = h]
  BY <1>3, IdleShape DEF Return
<1>4. CASE LookupMember(r)
  <2> DEFINE u == req[r].user
             h == [req[r] EXCEPT !.pc = AfterLookup(req[r].op),
                                 !.held = [id |-> row[u].id, role |-> row[u].role]]
  <2>1. req' = [req EXCEPT ![r] = h] /\ req[r].pc = "lookup" /\ row[u] # None
    BY <1>1, <1>4 DEF LookupMember
  <2>2. req[r].op \in MemberOp /\ u \in User
    BY <1>1, <2>1 DEF Shape
  <2>3. row[u] \in Membership
    BY <2>1, <2>2 DEF TypeInv, TypeOK
  <2>4. h.held \in Held /\ h.held # None
    BY <2>3, NoneAssumption DEF Membership, Held
  <2>5. h \in Handler /\ Shape(h)
    <3>1. CASE req[r].op = "setRole"
      BY <1>1, <2>1, <2>2, <2>4, <3>1 DEF AfterLookup, Handler, Shape, MemberOp, RoleOp
    <3>2. CASE req[r].op = "reactivate"
      BY <1>1, <2>1, <2>2, <2>4, <3>2 DEF AfterLookup, Handler, Shape, MemberOp, RoleOp
    <3>3. CASE req[r].op \in {"remove", "suspend"}
      BY <1>1, <2>1, <2>2, <2>4, <3>3 DEF AfterLookup, Handler, Shape, MemberOp, RoleOp
    <3>4. QED
      BY <2>2, <3>1, <3>2, <3>3 DEF MemberOp
  <2>6. QED
    BY <2>1, <2>5
<1>5. CASE ResolveRoleID(r)
  BY <1>1, <1>2, <1>5 DEF ResolveRoleID, Handler, Shape, MemberOp, RoleOp
<1>6. CASE WasManager(r)
  <2>1. PICK pc \in {"write", "willManage", "count"} :
             /\ Goto(r, pc)
             /\ pc = "willManage" => req[r].op = "setRole"
             /\ pc = "count" => req[r].op # "setRole" /\ RoleHasPermManage(req[r].held.role)
    BY <1>6 DEF WasManager
  <2>2. req[r].pc = "wasManager"
    BY <1>6 DEF WasManager
  <2>3. QED
    BY <1>1, <1>2, <2>1, <2>2 DEF Handler, Shape, MemberOp, RoleOp
<1>7. CASE WillManage(r)
  BY <1>1, <1>2, <1>7 DEF WillManage, Handler, Shape, MemberOp, RoleOp
<1>8. CASE LastManagerGuard(r)
  <2>1. [Idle EXCEPT !.pc = "refused"] \in Handler /\ Shape([Idle EXCEPT !.pc = "refused"])
    BY DEF Idle, Handler, Shape, MemberOp, RoleOp
  <2>2. CASE OnlyManager
    BY <1>8, <2>1, <2>2 DEF LastManagerGuard
  <2>3. CASE ~OnlyManager
    BY <1>1, <1>2, <1>8, <2>3 DEF LastManagerGuard, Goto, Handler, Shape, MemberOp, RoleOp
  <2>4. QED
    BY <2>2, <2>3
<1>9. CASE CheckNotMember(r)
  BY <1>1, <1>2, <1>3, <1>9 DEF CheckNotMember, Handler, Shape, MemberOp, RoleOp
<1>10. CASE GetRole(r)
  BY <1>1, <1>2, <1>3, <1>10 DEF GetRole, Handler, Shape, MemberOp, RoleOp
<1>11. CASE CheckInUse(r)
  BY <1>1, <1>2, <1>3, <1>11 DEF CheckInUse, Handler, Shape, MemberOp, RoleOp
<1>12. CASE \/ LookupReturns(r) \/ RoleUnknown(r) \/ WriteMisses(r) \/ DuplicateMembership(r)
            \/ CreateRoleClash(r) \/ DeleteRoleFails(r) \/ Abandon(r)
            \/ \E p \in Permission : InsertFails(r, p)
  BY <1>3, <1>12 DEF LookupReturns, RoleUnknown, WriteMisses, DuplicateMembership,
                     CreateRoleClash, DeleteRoleFails, Abandon, InsertFails
<1>13. QED
  BY <1>4, <1>5, <1>6, <1>7, <1>8, <1>9, <1>10, <1>11, <1>12

LEMMA WriteMoves ==
    ASSUME TypeInv, NEW r \in Request,
           \/ WriteMember(r) \/ CreateMembership(r)
           \/ CreateRoleRow(r) \/ ClearPermissions(r) \/ DeleteRoleRow(r)
           \/ \E p \in Permission : InsertPermission(r, p)
    PROVE  TypeInv'
<1>1. req[r] \in Handler /\ Shape(req[r]) /\ req \in [Request -> Handler]
  BY DEF TypeInv, TypeOK
<1>2. ASSUME Writes(r) PROVE overtaken' \in [Request -> BOOLEAN]
  BY <1>2 DEF Writes, TypeInv, TypeOK, InFlight
<1>3. ASSUME NEW h \in Handler, Shape(h), req' = [req EXCEPT ![r] = h]
      PROVE  req' \in [Request -> Handler] /\ \A s \in Request : Shape(req[s])'
  BY <1>3, HandlerMoves
<1>4. CASE WriteMember(r)
  <2> DEFINE u == req[r].user
  <2>1. u \in User /\ row[u] \in Membership /\ req[r].op \in MemberOp
    BY <1>1, <1>4 DEF WriteMember, RowHeld, Shape, TypeInv, TypeOK
  <2>2. Written(r) \in Membership \cup {None}
    <3>1. CASE req[r].op = "setRole"
      BY <1>1, <2>1, <3>1 DEF Written, Shape, Membership
    <3>2. CASE req[r].op = "remove"
      BY <3>2 DEF Written
    <3>3. CASE req[r].op = "suspend"
      BY <2>1, <3>3 DEF Written, Membership, Status
    <3>4. CASE req[r].op = "reactivate"
      BY <2>1, <3>4 DEF Written, Membership, Status
    <3>5. QED
      BY <2>1, <3>1, <3>2, <3>3, <3>4 DEF MemberOp
  <2>3. row' \in [User -> Membership \cup {None}]
    BY <1>4, <2>1, <2>2 DEF WriteMember, TypeInv, TypeOK
  <2>4. QED
    BY <1>2, <1>4, <2>3, ReturnMoves DEF WriteMember, TypeInv, TypeOK
<1>5. CASE CreateMembership(r)
  <2>1. req[r].user \in User /\ req[r].role \in Role
    BY <1>1, <1>5 DEF CreateMembership, Shape
  <2>2. [id |-> nextId, role |-> req[r].role, status |-> "active"] \in Membership
    BY <2>1 DEF TypeInv, TypeOK, Membership, Status
  <2>3. row' \in [User -> Membership \cup {None}] /\ nextId' \in Nat
    BY <1>5, <2>1, <2>2 DEF CreateMembership, TypeInv, TypeOK
  <2>4. QED
    BY <1>2, <1>5, <2>3, ReturnMoves DEF CreateMembership, TypeInv, TypeOK
<1>6. CASE CreateRoleRow(r)
  <2> DEFINE h == [req[r] EXCEPT !.pc = "clear"]
  <2>1. h \in Handler /\ Shape(h) /\ req' = [req EXCEPT ![r] = h]
    BY <1>1, <1>6 DEF CreateRoleRow, Goto, Handler, Shape, MemberOp, RoleOp
  <2>2. QED
    BY <1>2, <1>3, <1>6, <2>1 DEF CreateRoleRow, TypeInv, TypeOK
<1>7. CASE ClearPermissions(r)
  <2>1. perms' \in [Role -> SUBSET (Permission \cup ManagePatterns \cup {"user:read"})]
    BY <1>7 DEF ClearPermissions, TypeInv, TypeOK
  <2>2. req[r].op \in RoleOp /\ req[r].pc = "clear"
    BY <1>1, <1>7 DEF ClearPermissions, Shape
  <2>3. \/ Return(r)
        \/ \E pc \in {"deleteRow", "insert"} : Goto(r, pc) /\ (pc = "deleteRow" => req[r].op = "deleteRole")
    BY <1>7 DEF ClearPermissions
  <2>4. CASE \E pc \in {"deleteRow", "insert"} : Goto(r, pc) /\ (pc = "deleteRow" => req[r].op = "deleteRole")
    <3>1. PICK pc \in {"deleteRow", "insert"} : Goto(r, pc) /\ (pc = "deleteRow" => req[r].op = "deleteRole")
      BY <2>4
    <3> DEFINE h == [req[r] EXCEPT !.pc = pc]
    <3>2. h \in Handler /\ Shape(h) /\ req' = [req EXCEPT ![r] = h]
      BY <1>1, <2>2, <3>1 DEF Goto, Handler, Shape, MemberOp, RoleOp
    <3>3. QED
      BY <1>2, <1>3, <1>7, <2>1, <3>2 DEF ClearPermissions, TypeInv, TypeOK
  <2>5. QED
    BY <1>2, <1>7, <2>1, <2>3, <2>4, ReturnMoves DEF ClearPermissions, TypeInv, TypeOK
<1>8. CASE \E p \in Permission : InsertPermission(r, p)
  <2>1. PICK p \in Permission : InsertPermission(r, p)
    BY <1>8
  <2>2. perms' \in [Role -> SUBSET (Permission \cup ManagePatterns \cup {"user:read"})]
    BY <2>1 DEF InsertPermission, TypeInv, TypeOK
  <2>3. CASE Return(r)
    BY <1>2, <2>1, <2>2, <2>3, ReturnMoves DEF InsertPermission, TypeInv, TypeOK
  <2>4. CASE req' = [req EXCEPT ![r].todo = @ \ {p}]
    <3> DEFINE h == [req[r] EXCEPT !.todo = @ \ {p}]
    <3>1. h \in Handler /\ Shape(h) /\ req' = [req EXCEPT ![r] = h]
      BY <1>1, <2>4 DEF Handler, Shape
    <3>2. QED
      BY <1>2, <1>3, <2>1, <2>2, <3>1 DEF InsertPermission, TypeInv, TypeOK
  <2>5. QED
    BY <2>1, <2>3, <2>4 DEF InsertPermission
<1>9. CASE DeleteRoleRow(r)
  <2>1. req[r].role \in CustomRole
    BY <1>1, <1>9 DEF DeleteRoleRow, Shape
  <2>2. QED
    BY <1>2, <1>9, <2>1, ReturnMoves DEF DeleteRoleRow, TypeInv, TypeOK
<1>10. QED
  BY <1>4, <1>5, <1>6, <1>7, <1>8, <1>9

LEMMA TypeStep == TypeInv /\ [Next]_vars => TypeInv'
<1> SUFFICES ASSUME TypeInv, [Next]_vars PROVE TypeInv'
  OBVIOUS
<1>1. CASE UNCHANGED vars
  BY <1>1 DEF vars, TypeInv, TypeOK, Shape
<1>2. CASE Next
  <2>1. PICK r \in Request : Begins(r) \/ MemberStep(r) \/ RoleStep(r) \/ Abandon(r)
    BY <1>2 DEF Next
  <2>2. CASE Reads /\ \E h \in Handler : Shape(h) /\ req' = [req EXCEPT ![r] = h]
    <3>1. req' \in [Request -> Handler] /\ \A s \in Request : Shape(req[s])'
      BY <2>2, HandlerMoves
    <3>2. QED
      BY <2>2, <3>1 DEF Reads, TypeInv, TypeOK
  <2>3. QED
    BY <2>1, <2>2, BeginsType, ReadMoves, WriteMoves DEF MemberStep, RoleStep
<1>3. QED
  BY <1>1, <1>2

\* Every table holds rows of its type and every handler in flight has the
\* locals its next statement uses, however the handlers interleave.
THEOREM TypeCorrect == Spec => []TypeOK
<1>1. TypeInv => TypeOK
  BY DEF TypeInv
<1>2. QED
  BY <1>1, TypeInit, TypeStep, PTL DEF Spec

----------------------------------------------------------------------------
(* The guards *)

LEMMA ManagersFinite == CountManagers \in Nat
<1>1. IsFiniteSet(ActiveManagers)
  BY UserAssumption, FS_Subset DEF ActiveManagers, ManagerRows
<1>2. QED
  BY <1>1, FS_CardinalityType DEF CountManagers

LEMMA GuardInit == Init => GuardsHold
BY DEF Init, Idle, GuardsHold, GuardHolds, InFlight, Guarded, MemberOp

\* A step that leaves the tables and the handler of s alone leaves its guard.
LEMMA GuardUntouched ==
    ASSUME NEW s \in Request, GuardHolds(s), UNCHANGED <<row, roleRow, perms>>,
           req'[s] = req[s], overtaken'[s] = overtaken[s]
    PROVE  GuardHolds(s)'
BY DEF GuardHolds, RowHeld, InFlight, Guarded, RoleHasPermManage, CountManagers, ActiveManagers,
       ManagerRows, LiveRoles, RoleInUse

LEMMA GuardIdle ==
    ASSUME NEW s \in Request, req'[s].op \notin MemberOp \cup {"add", "deleteRole"},
           req'[s].pc # "write"
    PROVE  GuardHolds(s)'
BY DEF GuardHolds, MemberOp

\* A write of r leaves no guard of another handler to keep.
LEMMA GuardOvertaken ==
    ASSUME TypeInv, NEW r \in Request, NEW s \in Request \ {r}, Writes(r), req'[s] = req[s]
    PROVE  GuardHolds(s)'
<1>1. CASE InFlight(s)
  BY <1>1 DEF Writes, GuardHolds, TypeInv, TypeOK
<1>2. CASE ~InFlight(s)
  BY <1>2, GuardIdle DEF InFlight, TypeInv, Shape, MemberOp
<1>3. QED
  BY <1>1, <1>2

LEMMA GuardBegins ==
    ASSUME TypeInv, GuardsHold, NEW r \in Request, Begins(r)
    PROVE  GuardsHold'
<1> SUFFICES ASSUME NEW s \in Request PROVE GuardHolds(s)'
  BY DEF GuardsHold
<1>0. req \in [Request -> Handler] /\ overtaken \in [Request -> BOOLEAN]
  BY DEF TypeInv, TypeOK
<1>1. CASE s # r
  <2>1. UNCHANGED <<row, roleRow, perms>> /\ req'[s] = req[s] /\ overtaken'[s] = overtaken[s]
    BY <1>0, <1>1 DEF Begins, BeginMemberOp, BeginAddMember, BeginRoleOp, Begin
  <2>2. QED
    BY <2>1, GuardUntouched DEF GuardsHold
<1>2. CASE s = r
  <2>1. \/ req'[r].op \in MemberOp /\ req'[r].pc = "lookup"
        \/ req'[r].op = "add" /\ req'[r].pc = "resolve"
        \/ req'[r].op \in RoleOp /\ req'[r].pc \in {"create", "getRole"}
    <3>1. CASE \E op \in MemberOp, u \in User, role \in Role \cup {None} : BeginMemberOp(r, op, u, role)
      BY <1>0, <3>1 DEF BeginMemberOp, Begin, Idle
    <3>2. CASE \E u \in User, role \in Role : BeginAddMember(r, u, role)
      BY <1>0, <3>2 DEF BeginAddMember, Begin, Idle
    <3>3. CASE \E op \in RoleOp, c \in CustomRole, todo \in SUBSET Permission : BeginRoleOp(r, op, c, todo)
      BY <1>0, <3>3 DEF BeginRoleOp, Begin, Idle
    <3>4. QED
      BY <3>1, <3>2, <3>3 DEF Begins
  <2>2. QED
    BY <1>2, <2>1 DEF GuardHolds, Guarded, MemberOp, RoleOp
<1>3. QED
  BY <1>1, <1>2

LEMMA GuardReads ==
    ASSUME TypeInv, GuardsHold, NEW r \in Request,
           \/ LookupMember(r) \/ LookupReturns(r) \/ ResolveRoleID(r) \/ RoleUnknown(r)
           \/ WasManager(r) \/ WillManage(r) \/ LastManagerGuard(r) \/ WriteMisses(r)
           \/ CheckNotMember(r) \/ DuplicateMembership(r) \/ CreateRoleClash(r) \/ GetRole(r)
           \/ CheckInUse(r) \/ DeleteRoleFails(r) \/ Abandon(r)
           \/ \E p \in Permission : InsertFails(r, p)
    PROVE  GuardsHold'
<1> SUFFICES ASSUME NEW s \in Request PROVE GuardHolds(s)'
  BY DEF GuardsHold
<1>0. /\ req[r] \in Handler /\ Shape(req[r]) /\ req \in [Request -> Handler]
      /\ GuardHolds(r)
  BY DEF TypeInv, TypeOK, GuardsHold
<1>1. /\ UNCHANGED <<row, roleRow, perms, overtaken>>
      /\ \E h \in Handler : Shape(h) /\ req' = [req EXCEPT ![r] = h]
  BY ReadMoves DEF Reads
<1>2. CASE s # r
  BY <1>0, <1>1, <1>2, GuardUntouched DEF GuardsHold
<1> SUFFICES GuardHolds(r)'
  BY <1>2
<1>3. ASSUME Return(r) PROVE GuardHolds(r)'
  BY <1>0, <1>3, GuardIdle DEF Return, Idle, MemberOp
\* The clauses that a move of the program counter alone carries over.
<1>4. ASSUME NEW pc, Goto(r, pc), req[r].pc \notin {"lookup", "idle", "refused"},
             pc = "write" /\ Guarded(req[r]) =>
                \/ ~RoleHasPermManage(req[r].held.role)
                \/ req[r].op = "setRole" /\ RoleHasPermManage(req[r].role)
                \/ CountManagers > 1,
             req[r].op \in {"setRole", "add"} => req[r].role \in LiveRoles,
             (req[r].op = "deleteRole" /\ pc \in {"clear", "deleteRow"}) => ~RoleInUse(req[r].role)
      PROVE  GuardHolds(r)'
  <2> DEFINE h == req[r]
  <2>1. /\ req'[r].op = h.op /\ req'[r].user = h.user /\ req'[r].role = h.role
        /\ req'[r].held = h.held /\ req'[r].pc = pc
    BY <1>0, <1>4 DEF Goto, Handler
  <2>2. /\ CountManagers' = CountManagers /\ LiveRoles' = LiveRoles
    BY <1>1 DEF CountManagers, ActiveManagers, ManagerRows, RoleHasPermManage, LiveRoles
  <2>3. SUFFICES ASSUME ~overtaken[r] PROVE GuardHolds(r)'
    BY <1>1 DEF GuardHolds
  <2>4. (h.op \in MemberOp) => RowHeld(r)' /\ row'[h.user].role = h.held.role
    BY <1>0, <1>1, <1>4, <2>1, <2>3 DEF GuardHolds, InFlight, RowHeld
  <2>5. QED
    BY <1>1, <1>4, <2>1, <2>2, <2>4 DEF GuardHolds, Guarded, RoleHasPermManage, RoleInUse
<1>5. CASE LookupMember(r)
  <2>1. /\ req'[r].user = req[r].user /\ req'[r].op = req[r].op
        /\ req'[r].pc = AfterLookup(req[r].op)
        /\ req'[r].held = [id |-> row[req[r].user].id, role |-> row[req[r].user].role]
    BY <1>0, <1>5 DEF LookupMember, Handler
  <2>2. row[req[r].user] # None /\ req[r].op \in MemberOp
    BY <1>0, <1>5 DEF LookupMember, Shape
  <2>3. /\ req'[r].pc = "write" => req[r].op = "reactivate"
        /\ req[r].op = "setRole" => req'[r].pc = "resolve"
        /\ req[r].op \notin {"add", "deleteRole"}
    BY <2>1, <2>2 DEF AfterLookup, MemberOp
  <2>4. QED
    BY <1>1, <2>1, <2>2, <2>3 DEF GuardHolds, RowHeld, Guarded
<1>6. CASE ResolveRoleID(r)
  <2>1. PICK pc \in {"exists", "wasManager"} : Goto(r, pc)
    BY <1>6 DEF ResolveRoleID
  <2>2. req[r].op # "deleteRole" /\ req[r].role \in LiveRoles /\ req[r].pc = "resolve"
    BY <1>0, <1>6 DEF ResolveRoleID, Shape
  <2>3. QED
    BY <1>4, <2>1, <2>2
<1>7. CASE WasManager(r)
  <2>1. PICK pc \in {"write", "willManage", "count"} :
             Goto(r, pc) /\ (pc = "write" => ~RoleHasPermManage(req[r].held.role))
    BY <1>7 DEF WasManager
  <2>2. req[r].pc = "wasManager" /\ req[r].op \in MemberOp
    BY <1>0, <1>7 DEF WasManager, Shape
  <2>3. CASE overtaken[r]
    BY <1>1, <2>3 DEF GuardHolds
  <2>4. CASE ~overtaken[r]
    BY <1>0, <1>4, <2>1, <2>2, <2>4 DEF GuardHolds, MemberOp
  <2>5. QED
    BY <2>3, <2>4
<1>8. CASE WillManage(r)
  <2>1. PICK pc \in {"write", "count"} :
             Goto(r, pc) /\ (pc = "write" => RoleHasPermManage(req[r].role))
    BY <1>8 DEF WillManage
  <2>2. req[r].pc = "willManage" /\ req[r].op = "setRole"
    BY <1>0, <1>8 DEF WillManage, Shape
  <2>3. CASE overtaken[r]
    BY <1>1, <2>3 DEF GuardHolds
  <2>4. CASE ~overtaken[r]
    BY <1>0, <1>4, <2>1, <2>2, <2>4 DEF GuardHolds
  <2>5. QED
    BY <2>3, <2>4
<1>9. CASE LastManagerGuard(r)
  <2>1. CASE OnlyManager
    <3>1. req'[r].op = "none" /\ req'[r].pc = "refused"
      BY <1>0, <1>9, <2>1 DEF LastManagerGuard, Idle
    <3>2. QED
      BY <3>1, GuardIdle DEF MemberOp
  <2>2. CASE ~OnlyManager
    <3>1. Goto(r, "write") /\ CountManagers > 1
      BY <1>9, <2>2, ManagersFinite DEF LastManagerGuard, OnlyManager, Goto
    <3>2. req[r].pc = "count" /\ req[r].op \in MemberOp
      BY <1>0, <1>9 DEF LastManagerGuard, Shape
    <3>3. CASE overtaken[r]
      BY <1>1, <3>3 DEF GuardHolds
    <3>4. CASE ~overtaken[r]
      BY <1>0, <1>4, <3>1, <3>2, <3>4 DEF GuardHolds, MemberOp
    <3>5. QED
      BY <3>3, <3>4
  <2>3. QED
    BY <2>1, <2>2
<1>10. CASE CheckNotMember(r)
  <2>1. Return(r) \/ Goto(r, "create")
    BY <1>10 DEF CheckNotMember
  <2>2. req[r].pc = "exists" /\ req[r].op = "add"
    BY <1>0, <1>10 DEF CheckNotMember, Shape
  <2>3. CASE overtaken[r]
    BY <1>1, <2>3 DEF GuardHolds
  <2>4. CASE ~overtaken[r]
    BY <1>0, <1>3, <1>4, <2>1, <2>2, <2>4 DEF GuardHolds
  <2>5. QED
    BY <2>3, <2>4
<1>11. CASE GetRole(r)
  <2>1. Return(r) \/ \E pc \in {"inUse", "clear"} : Goto(r, pc) /\ (pc = "clear" => req[r].op # "deleteRole")
    BY <1>11 DEF GetRole
  <2>2. req[r].pc = "getRole" /\ req[r].op \in RoleOp
    BY <1>0, <1>11 DEF GetRole, Shape
  <2>3. QED
    BY <1>3, <1>4, <2>1, <2>2 DEF RoleOp
<1>12. CASE CheckInUse(r)
  <2>1. Return(r) \/ (Goto(r, "clear") /\ ~RoleInUse(req[r].role))
    BY <1>12 DEF CheckInUse
  <2>2. req[r].pc = "inUse" /\ req[r].op \in RoleOp
    BY <1>0, <1>12 DEF CheckInUse, Shape
  <2>3. QED
    BY <1>3, <1>4, <2>1, <2>2 DEF RoleOp
<1>13. CASE \/ LookupReturns(r) \/ RoleUnknown(r) \/ WriteMisses(r) \/ DuplicateMembership(r)
            \/ CreateRoleClash(r) \/ DeleteRoleFails(r) \/ Abandon(r)
            \/ \E p \in Permission : InsertFails(r, p)
  BY <1>3, <1>13 DEF LookupReturns, RoleUnknown, WriteMisses, DuplicateMembership,
                     CreateRoleClash, DeleteRoleFails, Abandon, InsertFails
<1>14. QED
  BY <1>5, <1>6, <1>7, <1>8, <1>9, <1>10, <1>11, <1>12, <1>13

LEMMA GuardWrites ==
    ASSUME TypeInv, GuardsHold, NEW r \in Request,
           \/ WriteMember(r) \/ CreateMembership(r)
           \/ CreateRoleRow(r) \/ ClearPermissions(r) \/ DeleteRoleRow(r)
           \/ \E p \in Permission : InsertPermission(r, p)
    PROVE  GuardsHold'
<1> SUFFICES ASSUME NEW s \in Request PROVE GuardHolds(s)'
  BY DEF GuardsHold
<1>0. /\ req[r] \in Handler /\ Shape(req[r]) /\ req \in [Request -> Handler]
      /\ GuardHolds(r)
  BY DEF TypeInv, TypeOK, GuardsHold
<1>1. Writes(r)
  BY DEF WriteMember, CreateMembership, CreateRoleRow, ClearPermissions, DeleteRoleRow,
         InsertPermission
<1>2. CASE s # r
  <2>1. req'[s] = req[s]
    BY <1>0, <1>2 DEF WriteMember, CreateMembership, CreateRoleRow, ClearPermissions,
                      DeleteRoleRow, InsertPermission, Return, Goto
  <2>2. QED
    BY <1>1, <1>2, <2>1, GuardOvertaken
<1> SUFFICES GuardHolds(r)'
  BY <1>2
<1>3. ASSUME Return(r) PROVE GuardHolds(r)'
  BY <1>0, <1>3, GuardIdle DEF Return, Idle, MemberOp
<1>4. CASE CreateRoleRow(r)
  <2>1. req'[r].op = "createRole" /\ req'[r].pc = "clear"
    BY <1>0, <1>4 DEF CreateRoleRow, Goto, Handler
  <2>2. QED
    BY <2>1, GuardIdle DEF MemberOp
<1>5. CASE ClearPermissions(r)
  <2>1. req[r].op \in RoleOp
    BY <1>0, <1>5 DEF ClearPermissions, Shape
  <2>2. CASE req[r].op = "deleteRole"
    <3>1. /\ req[r].pc = "clear" /\ row' = row
          /\ req'[r].op = "deleteRole" /\ req'[r].pc = "deleteRow" /\ req'[r].role = req[r].role
      BY <1>0, <1>5, <2>2 DEF ClearPermissions, Goto, Handler
    <3>2. overtaken'[r] = overtaken[r]
      BY <1>1 DEF Writes, TypeInv, TypeOK
    <3>3. QED
      BY <1>0, <2>2, <3>1, <3>2 DEF GuardHolds, RoleInUse, MemberOp
  <2>3. CASE req[r].op # "deleteRole"
    <3>1. Return(r) \/ (req'[r].op = req[r].op /\ req'[r].pc = "insert")
      BY <1>0, <1>5, <2>3 DEF ClearPermissions, Goto, Handler
    <3>2. QED
      BY <1>3, <2>1, <2>3, <3>1, GuardIdle DEF MemberOp, RoleOp
  <2>4. QED
    BY <2>2, <2>3
<1>6. CASE \E p \in Permission : InsertPermission(r, p)
  <2>1. PICK p \in Permission : InsertPermission(r, p)
    BY <1>6
  <2>2. Return(r) \/ (req'[r].op = req[r].op /\ req'[r].pc = "insert")
    BY <1>0, <2>1 DEF InsertPermission, Handler
  <2>3. req[r].op \in RoleOp /\ req[r].pc = "insert"
    BY <1>0, <2>1 DEF InsertPermission, Shape
  <2>4. QED
    BY <1>3, <2>2, <2>3 DEF GuardHolds, MemberOp, RoleOp
<1>7. CASE WriteMember(r) \/ CreateMembership(r) \/ DeleteRoleRow(r)
  BY <1>3, <1>7 DEF WriteMember, CreateMembership, DeleteRoleRow
<1>8. QED
  BY <1>4, <1>5, <1>6, <1>7

LEMMA GuardStep == TypeInv /\ GuardsHold /\ [Next]_vars => GuardsHold'
<1> SUFFICES ASSUME TypeInv, GuardsHold, [Next]_vars PROVE GuardsHold'
  OBVIOUS
<1>1. CASE UNCHANGED vars
  BY <1>1, GuardUntouched DEF vars, GuardsHold
<1>2. CASE Next
  <2>1. PICK r \in Request : Begins(r) \/ MemberStep(r) \/ RoleStep(r) \/ Abandon(r)
    BY <1>2 DEF Next
  <2>2. QED
    BY <2>1, GuardBegins, GuardReads, GuardWrites DEF MemberStep, RoleStep
<1>3. QED
  BY <1>1, <1>2

\* What each guard of member_manage.go and roles.go has checked is still so at
\* the statement it protects, unless another handler wrote in between.
THEOREM GuardsSound == Spec => []GuardsHold
BY TypeInit, TypeStep, GuardInit, GuardStep, PTL DEF Spec

----------------------------------------------------------------------------
(* The last manager *)

\* A row that stops to count as an active manager is changed by a write, which
\* is guarded when it was not overtaken.
LEMMA WriteKeepsManager ==
    ASSUME TypeInv, GuardsHold, NEW r \in Request, WriteMember(r), ~overtaken[r],
           ActiveManagers # {}
    PROVE  ActiveManagers' # {}
<1> DEFINE u == req[r].user
<1>1. /\ req[r].op \in MemberOp /\ req[r].pc = "write" /\ u \in User
      /\ req[r].op = "setRole" => req[r].role \in Role
      /\ row \in [User -> Membership \cup {None}] /\ perms' = perms
      /\ row' = [row EXCEPT ![u] = Written(r)]
  BY DEF WriteMember, TypeInv, TypeOK, Shape
<1>2. /\ row[u] # None /\ row[u] \in Membership /\ row[u].role = req[r].held.role
  BY <1>1 DEF WriteMember, RowHeld, GuardsHold, GuardHolds, InFlight
<1>3. \A v \in User \ {u} : v \in ActiveManagers => v \in ActiveManagers'
  BY <1>1 DEF ActiveManagers, ManagerRows, RoleHasPermManage
<1>4. CASE \E v \in ActiveManagers : v # u
  BY <1>3, <1>4 DEF ActiveManagers, ManagerRows
<1>5. CASE ActiveManagers = {u}
  <2>1. u \in ActiveManagers /\ RoleHasPermManage(row[u].role)
    BY <1>5 DEF ActiveManagers, ManagerRows
  <2>2. CountManagers = 1
    BY <1>5, FS_Singleton DEF CountManagers
  <2>3. CASE req[r].op = "reactivate"
    <3>1. Written(r) = [row[u] EXCEPT !.status = "active"]
      BY <2>3 DEF Written
    <3>2. u \in ActiveManagers'
      BY <1>1, <1>2, <2>1, <3>1, NoneAssumption
         DEF ActiveManagers, ManagerRows, RoleHasPermManage, Membership, Status
    <3>3. QED
      BY <3>2
  <2>4. CASE req[r].op # "reactivate"
    <3>1. req[r].op = "setRole" /\ RoleHasPermManage(req[r].role)
      BY <1>1, <1>2, <2>1, <2>2, <2>4 DEF GuardsHold, GuardHolds, Guarded, MemberOp
    <3>2. Written(r) = [row[u] EXCEPT !.role = req[r].role]
      BY <3>1 DEF Written
    <3>3. Written(r) \in Membership /\ Written(r).status = row[u].status
      BY <1>1, <1>2, <3>1, <3>2 DEF Membership
    <3>4. row'[u] = Written(r) /\ row'[u] # None /\ row'[u].role = req[r].role
      BY <1>1, <1>2, <3>2, <3>3, NoneAssumption DEF Membership
    <3>5. u \in ActiveManagers'
      BY <1>1, <2>1, <3>1, <3>3, <3>4 DEF ActiveManagers, ManagerRows, RoleHasPermManage
    <3>6. QED
      BY <3>5
  <2>5. QED
    BY <2>3, <2>4
<1>6. QED
  BY <1>4, <1>5

\* Rows change only in WriteMember and CreateMembership.
LEMMA RowChanges ==
    ASSUME NEW r \in Request, TypeInv, Begins(r) \/ MemberStep(r) \/ RoleStep(r) \/ Abandon(r),
           row' # row
    PROVE  WriteMember(r) \/ CreateMembership(r)
<1>1. Begins(r) => row' = row
  BY DEF Begins, BeginMemberOp, BeginAddMember, BeginRoleOp, Begin
<1>2. RoleStep(r) \/ Abandon(r) => row' = row
  BY DEF RoleStep, Abandon, CreateRoleRow, CreateRoleClash, GetRole, CheckInUse,
         ClearPermissions, DeleteRoleRow, DeleteRoleFails, InsertPermission, InsertFails, Reads
<1>3. MemberStep(r) => row' = row \/ WriteMember(r) \/ CreateMembership(r)
  BY ReadMoves DEF MemberStep, Reads
<1>4. QED
  BY <1>1, <1>2, <1>3

LEMMA LastManagerStep == TypeInv /\ GuardsHold /\ [Next]_vars => [KeepsLastManager]_vars
<1> SUFFICES ASSUME TypeInv, GuardsHold, Next, ActiveManagers # {}, ActiveManagers' = {},
                    perms' = perms
             PROVE  \E r \in Request : req[r].pc = "write" /\ row' # row /\ overtaken[r]
  BY DEF KeepsLastManager
<1>1. PICK r \in Request : Begins(r) \/ MemberStep(r) \/ RoleStep(r) \/ Abandon(r)
  BY DEF Next
<1>2. row' # row
  BY DEF ActiveManagers, ManagerRows, RoleHasPermManage
<1>3. CASE CreateMembership(r)
  <2>1. row \in [User -> Membership \cup {None}] /\ row[req[r].user] = None
    BY <1>3 DEF CreateMembership, TypeInv, TypeOK
  <2>2. \A u \in User : row[u] # None => row'[u] = row[u]
    BY <1>3, <2>1 DEF CreateMembership
  <2>3. ActiveManagers \subseteq ActiveManagers'
    BY <2>2 DEF ActiveManagers, ManagerRows, RoleHasPermManage
  <2>4. QED
    BY <2>3
<1>4. CASE WriteMember(r)
  BY <1>2, <1>4, WriteKeepsManager DEF WriteMember
<1>5. QED
  BY <1>1, <1>2, <1>3, <1>4, RowChanges

\* The last-manager guard: for any number of members and of handlers, a
\* membership write that leaves the tenant without an active manager was
\* overtaken by another handler's write after its checks. Handlers that run
\* one after the other never strand the tenant.
THEOREM LastManagerGuarded == Spec => LastManagerKept
BY TypeInit, TypeStep, GuardInit, GuardStep, LastManagerStep, PTL DEF Spec, LastManagerKept

----------------------------------------------------------------------------
(* Rows and roles *)

LEMMA HeldRowStep == TypeInv /\ [Next]_vars => [ChangesHeldRow]_vars
<1> SUFFICES ASSUME TypeInv, Next, NEW u \in User, row[u] # None, row'[u] # row[u]
             PROVE  \E r \in Request : /\ req[r].pc = "write" /\ ~InFlight(r)'
                                       /\ req[r].user = u /\ req[r].held.id = row[u].id
  BY DEF ChangesHeldRow
<1>1. PICK r \in Request : Begins(r) \/ MemberStep(r) \/ RoleStep(r) \/ Abandon(r)
  BY DEF Next
<1>2. row \in [User -> Membership \cup {None}] /\ req \in [Request -> Handler]
  BY DEF TypeInv, TypeOK
<1>3. CASE WriteMember(r)
  <2>1. req[r].user = u /\ req[r].pc = "write" /\ RowHeld(r)
    BY <1>2, <1>3 DEF WriteMember
  <2>2. ~InFlight(r)'
    BY <1>2, <1>3 DEF WriteMember, Return, InFlight, Idle
  <2>3. QED
    BY <2>1, <2>2 DEF RowHeld
<1>4. CASE CreateMembership(r)
  BY <1>2, <1>4 DEF CreateMembership
<1>5. QED
  BY <1>1, <1>3, <1>4, RowChanges

\* UpdateMemberRole, RemoveMember and SetMemberStatus change exactly the
\* membership they looked up, never one created later for the same user.
THEOREM HeldRowChanged == Spec => ChangesWhatItRead
BY TypeInit, TypeStep, HeldRowStep, PTL DEF Spec, ChangesWhatItRead

LEMMA OrphanInit == Init => NoOrphanPermissions
BY RoleAssumption DEF Init, NoOrphanPermissions, SystemRole, Role

LEMMA OrphanStep == TypeInv /\ NoOrphanPermissions /\ [Next]_vars => NoOrphanPermissions'
<1> SUFFICES ASSUME TypeInv, NoOrphanPermissions, [Next]_vars, NEW c \in CustomRole,
                    perms'[c] # {}
             PROVE  roleRow'[c] = "live"
  BY DEF NoOrphanPermissions
<1>0. perms \in [Role -> SUBSET (Permission \cup ManagePatterns \cup {"user:read"})]
      /\ roleRow \in [CustomRole -> {"unused", "live", "deleted"}] /\ c \in Role
  BY DEF TypeInv, TypeOK, Role
<1>1. CASE UNCHANGED <<roleRow, perms>>
  BY <1>1 DEF NoOrphanPermissions
<1>2. ASSUME NEW r \in Request, CreateRoleRow(r) PROVE roleRow'[c] = "live"
  BY <1>0, <1>2 DEF CreateRoleRow, NoOrphanPermissions
<1>3. ASSUME NEW r \in Request, ClearPermissions(r) PROVE roleRow'[c] = "live"
  BY <1>0, <1>3 DEF ClearPermissions, NoOrphanPermissions
<1>4. ASSUME NEW r \in Request, NEW p \in Permission, InsertPermission(r, p)
      PROVE  roleRow'[c] = "live"
  BY <1>0, <1>4, RoleAssumption DEF InsertPermission, NoOrphanPermissions, LiveRoles, SystemRole
<1>5. ASSUME NEW r \in Request, DeleteRoleRow(r) PROVE roleRow'[c] = "live"
  BY <1>0, <1>5 DEF DeleteRoleRow, RoleDeletable, NoOrphanPermissions
<1>6. CASE Next
  <2>1. PICK r \in Request : Begins(r) \/ MemberStep(r) \/ RoleStep(r) \/ Abandon(r)
    BY <1>6 DEF Next
  <2>2. Begins(r) => UNCHANGED <<roleRow, perms>>
    BY DEF Begins, BeginMemberOp, BeginAddMember, BeginRoleOp, Begin
  <2>3. WriteMember(r) \/ CreateMembership(r) => UNCHANGED <<roleRow, perms>>
    BY DEF WriteMember, CreateMembership
  <2>4. QED
    BY <1>1, <1>2, <1>3, <1>4, <1>5, <2>1, <2>2, <2>3, ReadMoves DEF MemberStep, RoleStep, Reads
<1>7. QED
  BY <1>1, <1>6 DEF vars

\* CreateRole, UpdateRole and DeleteRole keep role_permissions pointing at
\* roles that exist, however they overlap.
THEOREM PermissionsOwned == Spec => []NoOrphanPermissions
BY TypeInit, TypeStep, OrphanInit, OrphanStep, PTL DEF Spec

LEMMA RolesInUseStep == TypeInv /\ GuardsHold /\ [Next]_vars => [KeepsRolesInUse]_vars
<1> SUFFICES ASSUME TypeInv, GuardsHold, Next, \A u \in User : ~Dangling(u),
                    NEW u \in User, Dangling(u)'
             PROVE  \E r \in Request : InFlight(r) /\ ~InFlight(r)' /\ overtaken[r]
  BY DEF KeepsRolesInUse
<1>0. /\ row \in [User -> Membership \cup {None}] /\ req \in [Request -> Handler]
      /\ roleRow \in [CustomRole -> {"unused", "live", "deleted"}]
      /\ overtaken \in [Request -> BOOLEAN] /\ ~Dangling(u)
  BY DEF TypeInv, TypeOK
<1>1. PICK r \in Request : Begins(r) \/ MemberStep(r) \/ RoleStep(r) \/ Abandon(r)
  BY DEF Next
<1>2. GuardHolds(r) /\ Shape(req[r])
  BY DEF GuardsHold, TypeInv
<1>3. CASE WriteMember(r)
  <2>1. InFlight(r) /\ ~InFlight(r)' /\ roleRow' = roleRow /\ RowHeld(r) /\ req[r].pc = "write"
        /\ row' = [row EXCEPT ![req[r].user] = Written(r)] /\ req[r].op \in MemberOp
    BY <1>0, <1>2, <1>3 DEF WriteMember, Return, InFlight, Idle, Shape
  <2>2. SUFFICES ASSUME ~overtaken[r] PROVE FALSE
    BY <1>0, <2>1
  <2>3. u = req[r].user /\ row[u] # None /\ row[u] \in Membership /\ row'[u] = Written(r)
    BY <1>0, <2>1 DEF Dangling, LiveRoles, RowHeld
  <2>4. row[u].role \in LiveRoles /\ LiveRoles' = LiveRoles
    BY <1>0, <2>1, <2>3 DEF Dangling, LiveRoles
  <2>5. CASE req[r].op = "setRole"
    BY <1>2, <2>1, <2>2, <2>3, <2>4, <2>5 DEF GuardHolds, Written, Dangling, Membership
  <2>6. CASE req[r].op = "remove"
    BY <2>3, <2>6 DEF Written, Dangling
  <2>7. CASE req[r].op \in {"suspend", "reactivate"}
    BY <2>3, <2>4, <2>7 DEF Written, Dangling, Membership
  <2>8. QED
    BY <2>1, <2>5, <2>6, <2>7 DEF MemberOp
<1>4. CASE CreateMembership(r)
  <2>1. InFlight(r) /\ ~InFlight(r)'
    BY <1>0, <1>4 DEF CreateMembership, Return, InFlight, Idle
  <2>2. LiveRoles' = LiveRoles
    BY <1>4 DEF CreateMembership, LiveRoles
  <2>3. ~overtaken[r] => req[r].role \in LiveRoles
    BY <1>2, <1>4 DEF CreateMembership, GuardHolds
  <2>4. QED
    BY <1>0, <1>4, <2>1, <2>2, <2>3 DEF CreateMembership, Dangling
<1>5. CASE DeleteRoleRow(r)
  <2>1. InFlight(r) /\ ~InFlight(r)' /\ row' = row
    BY <1>0, <1>5 DEF DeleteRoleRow, Return, InFlight, Idle
  <2>2. row[u] # None /\ row[u].role = req[r].role
    BY <1>0, <1>5, <2>1 DEF DeleteRoleRow, Dangling, LiveRoles
  <2>3. req[r].pc = "deleteRow" /\ req[r].op = "deleteRole"
    BY <1>2, <1>5 DEF DeleteRoleRow, Shape, RoleOp
  <2>4. QED
    BY <1>0, <1>2, <2>1, <2>2, <2>3 DEF GuardHolds, RoleInUse
<1>6. CASE row' = row /\ LiveRoles \subseteq LiveRoles'
  BY <1>0, <1>6 DEF Dangling
<1>7. CASE CreateRoleRow(r)
  BY <1>0, <1>6, <1>7 DEF CreateRoleRow, LiveRoles
<1>8. Begins(r) \/ ClearPermissions(r) \/ (\E p \in Permission : InsertPermission(r, p))
        => UNCHANGED <<row, roleRow>>
  BY DEF Begins, BeginMemberOp, BeginAddMember, BeginRoleOp, Begin, ClearPermissions, InsertPermission
<1>9. QED
  BY <1>1, <1>3, <1>4, <1>5, <1>6, <1>7, <1>8, ReadMoves DEF MemberStep, RoleStep, Reads, LiveRoles

\* DeleteRole against AddMember and UpdateMemberRole: a membership comes to
\* name a deleted role only through a handler that was overtaken after its
\* check.
THEOREM RolesInUseGuarded == Spec => RolesInUseKept
BY TypeInit, TypeStep, GuardInit, GuardStep, RolesInUseStep, PTL DEF Spec, RolesInUseKept

----------------------------------------------------------------------------
(* Refusals *)

\* A handler counts the managers only for the sake of one: the role it read at
\* the lookup manages, and still does unless another handler wrote since.
Counts(r) ==
    req[r].pc \in {"willManage", "count"} /\ ~overtaken[r] => RoleHasPermManage(req[r].held.role)

CountInv == \A r \in Request : Counts(r)

\* Only WasManager and WillManage lead up to the count.
LEMMA OthersDoNotCount ==
    ASSUME TypeInv, NEW r \in Request,
           \/ Begins(r) \/ LookupMember(r) \/ LookupReturns(r) \/ ResolveRoleID(r) \/ RoleUnknown(r)
           \/ LastManagerGuard(r) \/ WriteMember(r) \/ WriteMisses(r) \/ CheckNotMember(r)
           \/ CreateMembership(r) \/ DuplicateMembership(r) \/ RoleStep(r) \/ Abandon(r)
    PROVE  req'[r].pc \notin {"willManage", "count"}
<1>0. req \in [Request -> Handler]
  BY DEF TypeInv, TypeOK
<1>1. \A pc : Goto(r, pc) => req'[r].pc = pc
  BY <1>0 DEF Goto, Handler
<1>2. Return(r) => req'[r].pc = "idle"
  BY <1>0 DEF Return, Idle
<1>3. CASE Begins(r)
  <2>1. CASE \E op \in MemberOp, u \in User, role \in Role \cup {None} : BeginMemberOp(r, op, u, role)
    BY <1>0, <2>1 DEF BeginMemberOp, Begin, Idle
  <2>2. CASE \E u \in User, role \in Role : BeginAddMember(r, u, role)
    BY <1>0, <2>2 DEF BeginAddMember, Begin, Idle
  <2>3. CASE \E op \in RoleOp, c \in CustomRole, todo \in SUBSET Permission : BeginRoleOp(r, op, c, todo)
    BY <1>0, <2>3 DEF BeginRoleOp, Begin, Idle
  <2>4. QED
    BY <1>3, <2>1, <2>2, <2>3 DEF Begins
<1>4. CASE LookupMember(r)
  <2>1. req'[r].pc = AfterLookup(req[r].op)
    BY <1>0, <1>4 DEF LookupMember, Handler
  <2>2. QED
    BY <2>1 DEF AfterLookup
<1>5. CASE LastManagerGuard(r)
  <2>1. req'[r].pc = "refused" \/ Goto(r, "write")
    BY <1>0, <1>5 DEF LastManagerGuard, Idle, Goto
  <2>2. QED
    BY <1>1, <2>1
<1>6. CASE ResolveRoleID(r)
  <2>1. Goto(r, "exists") \/ Goto(r, "wasManager")
    BY <1>6 DEF ResolveRoleID
  <2>2. QED
    BY <1>1, <2>1
<1>7. CASE CheckNotMember(r)
  BY <1>1, <1>2, <1>7 DEF CheckNotMember
<1>8. CASE \/ LookupReturns(r) \/ RoleUnknown(r) \/ WriteMember(r) \/ WriteMisses(r)
           \/ CreateMembership(r) \/ DuplicateMembership(r) \/ Abandon(r)
  BY <1>2, <1>8 DEF LookupReturns, RoleUnknown, WriteMember, WriteMisses, CreateMembership,
                    DuplicateMembership, Abandon
<1>9. CASE RoleStep(r)
  <2>1. CASE \E p \in Permission : InsertPermission(r, p)
    <3>1. PICK p \in Permission : InsertPermission(r, p)
      BY <2>1
    <3>2. Return(r) \/ req'[r].pc = "insert"
      BY <1>0, <3>1 DEF InsertPermission, Handler
    <3>3. QED
      BY <1>2, <3>2
  <2>2. CASE GetRole(r)
    <3>1. Return(r) \/ Goto(r, "inUse") \/ Goto(r, "clear")
      BY <2>2 DEF GetRole
    <3>2. QED
      BY <1>1, <1>2, <3>1
  <2>3. CASE ClearPermissions(r)
    <3>1. Return(r) \/ Goto(r, "insert") \/ Goto(r, "deleteRow")
      BY <2>3 DEF ClearPermissions
    <3>2. QED
      BY <1>1, <1>2, <3>1
  <2>4. CASE \/ CreateRoleRow(r) \/ CreateRoleClash(r) \/ CheckInUse(r) \/ DeleteRoleRow(r)
             \/ DeleteRoleFails(r) \/ \E p \in Permission : InsertFails(r, p)
    BY <1>1, <1>2, <2>4 DEF CreateRoleRow, CreateRoleClash, CheckInUse, DeleteRoleRow,
                           DeleteRoleFails, InsertFails
  <2>5. QED
    BY <1>9, <2>1, <2>2, <2>3, <2>4 DEF RoleStep
<1>10. QED
  BY <1>3, <1>4, <1>5, <1>6, <1>7, <1>8, <1>9

LEMMA CountStep == TypeInv /\ CountInv /\ [Next]_vars => CountInv'
<1> SUFFICES ASSUME TypeInv, CountInv, [Next]_vars, NEW s \in Request PROVE Counts(s)'
  BY DEF CountInv
<1>0. /\ req \in [Request -> Handler] /\ overtaken \in [Request -> BOOLEAN] /\ Counts(s)
      /\ \A r \in Request : Shape(req[r])
  BY DEF TypeInv, TypeOK, CountInv
<1>1. CASE UNCHANGED vars
  BY <1>0, <1>1 DEF vars, Counts, RoleHasPermManage
<1>2. CASE Next
  <2>1. PICK r \in Request : Begins(r) \/ MemberStep(r) \/ RoleStep(r) \/ Abandon(r)
    BY <1>2 DEF Next
  <2>2. ASSUME req'[s] = req[s], overtaken'[s] = overtaken[s], perms' = perms
        PROVE  Counts(s)'
    BY <1>0, <2>2 DEF Counts, RoleHasPermManage
  <2>3. ASSUME req'[r].pc \notin {"willManage", "count"}
        PROVE  Counts(r)'
    BY <2>3 DEF Counts
  <2>4. CASE s # r
    <3>1. ASSUME Writes(r), req'[s] = req[s] PROVE Counts(s)'
      BY <1>0, <2>4, <3>1 DEF Writes, Counts, InFlight
    <3>2. CASE Begins(r)
      BY <1>0, <2>2, <2>4, <3>2 DEF Begins, BeginMemberOp, BeginAddMember, BeginRoleOp, Begin
    <3>3. CASE MemberStep(r) \/ Abandon(r)
      <4>1. req'[s] = req[s]
        BY <1>0, <2>4, <3>3 DEF MemberStep, Abandon, LookupMember, LookupReturns, ResolveRoleID,
               RoleUnknown, WasManager, WillManage, LastManagerGuard, WriteMember, WriteMisses,
               CheckNotMember, CreateMembership, DuplicateMembership, Goto, Return
      <4>2. Writes(r) \/ Reads
        BY <3>3 DEF MemberStep, Abandon, LookupMember, LookupReturns, ResolveRoleID,
               RoleUnknown, WasManager, WillManage, LastManagerGuard, WriteMember, WriteMisses,
               CheckNotMember, CreateMembership, DuplicateMembership
      <4>3. QED
        BY <2>2, <3>1, <4>1, <4>2 DEF Reads
    <3>4. CASE RoleStep(r)
      <4>1. req'[s] = req[s]
        BY <1>0, <2>4, <3>4 DEF RoleStep, CreateRoleRow, CreateRoleClash, GetRole, CheckInUse,
               ClearPermissions, DeleteRoleRow, DeleteRoleFails, InsertPermission, InsertFails,
               Goto, Return
      <4>2. Writes(r) \/ Reads
        BY <3>4 DEF RoleStep, CreateRoleRow, CreateRoleClash, GetRole, CheckInUse,
               ClearPermissions, DeleteRoleRow, DeleteRoleFails, InsertPermission, InsertFails
      <4>3. QED
        BY <2>2, <3>1, <4>1, <4>2 DEF Reads
    <3>5. QED
      BY <2>1, <3>2, <3>3, <3>4
  <2>5. CASE s = r
    <3>3. CASE WasManager(r)
      <4>1. CASE RoleHasPermManage(req[r].held.role)
        <5>1. req'[r].held = req[r].held /\ perms' = perms
          BY <1>0, <3>3 DEF WasManager, Goto, Reads
        <5>2. QED
          BY <2>5, <4>1, <5>1 DEF Counts, RoleHasPermManage
      <4>2. CASE ~RoleHasPermManage(req[r].held.role)
        BY <1>0, <2>3, <2>5, <3>3, <4>2 DEF WasManager, Goto
      <4>3. QED
        BY <4>1, <4>2
    <3>4. CASE WillManage(r)
      <4>1. req'[r].held = req[r].held /\ perms' = perms /\ overtaken' = overtaken /\ req[r].pc = "willManage"
        BY <1>0, <3>4 DEF WillManage, Goto, Reads
      <4>2. QED
        BY <1>0, <2>5, <4>1 DEF Counts, RoleHasPermManage
    <3>5. CASE ~WasManager(r) /\ ~WillManage(r)
      BY <2>1, <2>3, <2>5, <3>5, OthersDoNotCount DEF MemberStep
    <3>6. QED
      BY <3>3, <3>4, <3>5
  <2>6. QED
    BY <2>4, <2>5
<1>3. QED
  BY <1>1, <1>2

\* A handler that counts for a member who is active, and whom nobody overtook,
\* counts him among the managers.
LEMMA RefusesTheLast ==
    ASSUME TypeInv, GuardsHold, CountInv, NEW r \in Request, LastManagerGuard(r),
           req'[r].pc = "refused", ~overtaken[r], row[req[r].user].status = "active"
    PROVE  ActiveManagers = {req[r].user}
<1> DEFINE u == req[r].user
<1>1. req \in [Request -> Handler] /\ req[r].pc = "count" /\ u \in User /\ req[r].op \in MemberOp
  BY DEF LastManagerGuard, TypeInv, TypeOK, Shape
<1>2. row[u] # None /\ row[u].role = req[r].held.role
  BY <1>1 DEF GuardsHold, GuardHolds, InFlight, RowHeld
<1>3. u \in ActiveManagers
  BY <1>1, <1>2 DEF CountInv, Counts, ActiveManagers, ManagerRows
<1>4. CountManagers <= 1
  BY <1>1 DEF LastManagerGuard, OnlyManager
<1>5. IsFiniteSet(ActiveManagers)
  BY UserAssumption, FS_Subset DEF ActiveManagers, ManagerRows
<1>6. Cardinality(ActiveManagers \ {u}) = Cardinality(ActiveManagers) - 1 /\ IsFiniteSet(ActiveManagers \ {u})
  BY <1>3, <1>5, FS_RemoveElement
<1>7. Cardinality(ActiveManagers \ {u}) \in Nat /\ Cardinality(ActiveManagers) \in Nat
  BY <1>5, <1>6, FS_CardinalityType
<1>8. ActiveManagers \ {u} = {}
  BY <1>4, <1>6, <1>7, FS_EmptySet DEF CountManagers
<1>9. QED
  BY <1>3, <1>8

\* The guard of member_manage.go refuses nobody who could go: whoever is refused,
\* active and not overtaken, is the tenant's only active manager.
THEOREM RefusalsNeeded == Spec => RefusalNeeded
<1> DEFINE Refuses == \A r \in Request :
                        (req[r].pc = "count" /\ req'[r].pc = "refused" /\ ~overtaken[r]
                           /\ row[req[r].user].status = "active")
                        => ActiveManagers = {req[r].user}
<1>1. Init => CountInv
  BY DEF Init, CountInv, Counts, Idle
<1>2. TypeInv /\ GuardsHold /\ CountInv /\ [Next]_vars => [Refuses]_vars
  <2> SUFFICES ASSUME TypeInv, GuardsHold, CountInv, Next, NEW r \in Request, req[r].pc = "count",
                      req'[r].pc = "refused", ~overtaken[r], row[req[r].user].status = "active"
               PROVE  ActiveManagers = {req[r].user}
    OBVIOUS
  <2>0. req \in [Request -> Handler]
    BY DEF TypeInv, TypeOK
  <2>1. PICK s \in Request : Begins(s) \/ MemberStep(s) \/ RoleStep(s) \/ Abandon(s)
    BY DEF Next
  <2>2. LastManagerGuard(s) \/ req'[s].pc # "refused" \/ UNCHANGED req
    <3>1. CASE Begins(s)
      <4>1. ASSUME NEW op, NEW u, NEW role, BeginMemberOp(s, op, u, role)
            PROVE  req'[s].pc # "refused"
        BY <2>0, <4>1 DEF BeginMemberOp, Begin, Idle
      <4>2. ASSUME NEW u, NEW role, BeginAddMember(s, u, role)
            PROVE  req'[s].pc # "refused"
        BY <2>0, <4>2 DEF BeginAddMember, Begin, Idle
      <4>3. ASSUME NEW op, NEW c, NEW todo, BeginRoleOp(s, op, c, todo)
            PROVE  req'[s].pc # "refused"
        BY <2>0, <4>3 DEF BeginRoleOp, Begin, Idle
      <4>4. QED
        BY <3>1, <4>1, <4>2, <4>3 DEF Begins
    <3>2. CASE MemberStep(s) \/ Abandon(s)
      <4>1. CASE LookupReturns(s) \/ RoleUnknown(s) \/ WriteMisses(s) \/ DuplicateMembership(s) \/ Abandon(s)
        BY <2>0, <4>1 DEF LookupReturns, RoleUnknown, WriteMisses, DuplicateMembership, Abandon, Return, Idle
      <4>2. CASE LookupMember(s)
        BY <2>0, <4>2 DEF LookupMember, AfterLookup, Goto
      <4>3. CASE ResolveRoleID(s) \/ WasManager(s) \/ WillManage(s)
        BY <2>0, <4>3 DEF ResolveRoleID, WasManager, WillManage, Goto
      <4>4. CASE WriteMember(s)
        BY <2>0, <4>4 DEF WriteMember, Goto, Return, Idle
      <4>5. CASE CheckNotMember(s) \/ CreateMembership(s)
        BY <2>0, <4>5 DEF CheckNotMember, CreateMembership, Goto, Return, Idle
      <4>6. QED
        BY <3>2, <4>1, <4>2, <4>3, <4>4, <4>5 DEF MemberStep
    <3>3. CASE RoleStep(s)
      BY <2>0, <3>3 DEF RoleStep, CreateRoleRow, CreateRoleClash, GetRole, CheckInUse,
             ClearPermissions, DeleteRoleRow, DeleteRoleFails, InsertPermission, InsertFails,
             Goto, Return, Idle
    <3>4. QED
      BY <2>1, <3>1, <3>2, <3>3
  <2>3. s = r
    <3> SUFFICES ASSUME s # r PROVE req'[r] = req[r]
      OBVIOUS
    <3>1. CASE Begins(s)
      BY <2>0, <3>1 DEF Begins, BeginMemberOp, BeginAddMember, BeginRoleOp, Begin
    <3>2. CASE MemberStep(s) \/ Abandon(s)
      <4>1. CASE LookupReturns(s) \/ RoleUnknown(s) \/ WriteMisses(s) \/ DuplicateMembership(s) \/ Abandon(s)
        BY <2>0, <4>1 DEF LookupReturns, RoleUnknown, WriteMisses, DuplicateMembership, Abandon, Return
      <4>2. CASE LookupMember(s) \/ ResolveRoleID(s) \/ WasManager(s) \/ WillManage(s)
        BY <2>0, <4>2 DEF LookupMember, ResolveRoleID, WasManager, WillManage, Goto
      <4>3. CASE LastManagerGuard(s) \/ WriteMember(s)
        BY <2>0, <4>3 DEF LastManagerGuard, WriteMember, Goto, Return
      <4>4. CASE CheckNotMember(s) \/ CreateMembership(s)
        BY <2>0, <4>4 DEF CheckNotMember, CreateMembership, Goto, Return
      <4>5. QED
        BY <3>2, <4>1, <4>2, <4>3, <4>4 DEF MemberStep
    <3>3. CASE RoleStep(s)
      BY <2>0, <3>3 DEF RoleStep, CreateRoleRow, CreateRoleClash, GetRole, CheckInUse,
             ClearPermissions, DeleteRoleRow, DeleteRoleFails, InsertPermission, InsertFails,
             Goto, Return
    <3>4. QED
      BY <2>1, <3>1, <3>2, <3>3
  <2>4. QED
    BY <2>2, <2>3, RefusesTheLast
<1>3. QED
  BY <1>1, <1>2, TypeInit, TypeStep, GuardInit, GuardStep, CountStep, PTL DEF Spec, RefusalNeeded
=============================================================================
