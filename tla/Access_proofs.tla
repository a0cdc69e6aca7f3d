---------------------------- MODULE Access_proofs ----------------------------
(* Theorems of Access, and of the routes and handlers it decides on: for every *)
(* set of users, roles and permissions, and any number of writes and faults.   *)
EXTENDS Access, TLAPS

Calls ==
    [pc : {"idle", "token", "tenant", "owner", "ownerMembership", "membership", "admin", "role",
           "permissions", "done"},
     acting : User \cup {None}, ownerAdmin : BOOLEAN, role : Role \cup {None},
     outcome : {None, "ok", "invalid token", "membership revoked", "error"},
     type : {None, "platform_admin", "tenant_user"},
     permissions : SUBSET (Grant \cup BaselinePermissions), failed : BOOLEAN]

\* The facts a call of user a watches.
Mine(a) == {f \in Fact : Len(f) > 1 /\ f[2] \in User => f[2] \in {Owner, a}}

Reads(c) == c.pc \notin {"idle", "done"}

\* While it reads, what holds and what fails now is in the history already.
RecordedInv ==
    Reads(call) => /\ Mine(call.acting) \cap Facts \subseteq was
                   /\ Mine(call.acting) \ Facts \subseteq lacked

\* The call has come past the reads before those in stages, or is accepted.
Past(c, stages) == c.pc \in stages \/ (c.pc = "done" /\ c.outcome = "ok")

\* What the call has read so far held when it was read.
ReadInv(c) ==
    /\ c.pc = "idle" => c = Idle
    /\ c.pc # "idle" => c.acting \in User
    /\ Past(c, {"tenant", "owner", "ownerMembership", "membership", "admin", "role", "permissions"})
          => <<"token">> \in was
    /\ Past(c, {"owner", "ownerMembership", "membership", "admin", "role", "permissions"})
          => <<"tenant">> \in was
    /\ c.ownerAdmin => <<"admin", Owner>> \in was
    /\ c.pc = "ownerMembership" /\ ~c.ownerAdmin /\ ~c.failed => <<"admin", Owner>> \in lacked
    /\ Past(c, {"membership", "admin", "role", "permissions"})
          => <<"active", Owner>> \in was \/ <<"admin", Owner>> \in was
    /\ c.pc \in {"membership", "admin"} => c.acting # Owner
    /\ Past(c, {"admin", "role", "permissions"}) => <<"active", c.acting>> \in was \/ c.acting = Owner

\* The role was held; each permission was then usable, or the role lacked it.
RoleInv(c) ==
    /\ c.pc \in {"role", "permissions"} => c.role # None
    /\ c.role # None =>
          /\ <<"holds", c.acting, c.role>> \in was
          /\ \A p \in Grant : <<"can", c.acting, p>> \in was \/ <<"has", c.role, p>> \in lacked
    /\ Past(c, {"role", "permissions"}) =>
          /\ c.type \in {"platform_admin", "tenant_user"}
          /\ c.type = "platform_admin" =>
                <<"admin", c.acting>> \in was \/ (c.failed /\ <<"admin", Owner>> \in was)

\* The answer: what a refusal says failed, and what an acceptance lists, and does
\* not list, held and failed.
AnswerInv(c) ==
    /\ c.pc = "done" /\ ~c.failed =>
          /\ c.outcome = "invalid token" => <<"token">> \in lacked \/ <<"tenant">> \in lacked
          /\ c.outcome = "membership revoked" =>
                \/ <<"active", Owner>> \in lacked /\ <<"admin", Owner>> \in lacked
                \/ c.acting # Owner /\ <<"active", c.acting>> \in lacked
          /\ c.outcome = "error" => <<"row", c.role>> \in lacked
    /\ c.pc = "done" /\ c.outcome = "ok" /\ c.role = None => c.permissions = {}
    /\ c.pc = "done" /\ c.outcome = "ok" /\ c.role # None =>
          /\ BaselinePermissions \subseteq c.permissions
          /\ \A p \in c.permissions \ BaselinePermissions :
                <<"has", c.role, p>> \in was
                /\ (<<"can", c.acting, p>> \in was \/ <<"holds", c.acting, c.role>> \in lacked)
          /\ \A p \in Grant \ c.permissions :
                <<"has", c.role, p>> \in lacked
                /\ (<<"can", c.acting, p>> \in lacked \/ <<"holds", c.acting, c.role>> \in lacked)
    /\ c.pc # "done" => c.permissions = {}

AccessInv ==
    /\ AccessTypeOK /\ call \in Calls
    /\ RecordedInv /\ ReadInv(call) /\ RoleInv(call) /\ AnswerInv(call)

----------------------------------------------------------------------------
\* Each fact says what its name says, and a call watches those of the owner, of
\* its acting user and of the roles.
LEMMA FactsSay ==
    /\ <<"token">> \in Fact /\ (Holds(<<"token">>) <=> tokenLive)
    /\ <<"tenant">> \in Fact /\ (Holds(<<"tenant">>) <=> tenantOn)
    /\ \A u \in User :
          /\ <<"active", u>> \in Fact /\ (Holds(<<"active", u>>) <=> Active(u))
          /\ <<"admin", u>> \in Fact /\ (Holds(<<"admin", u>>) <=> u \in platformAdmin)
    /\ \A u \in User, r \in Role :
          /\ <<"holds", u, r>> \in Fact
          /\ Holds(<<"holds", u, r>>) <=> Active(u) /\ membership[u].role = r
    /\ \A r \in Role :
          /\ <<"row", r>> \in Fact /\ (Holds(<<"row", r>>) <=> rolePerms[r] # None)
    /\ \A r \in Role, p \in Grant :
          /\ <<"has", r, p>> \in Fact
          /\ Holds(<<"has", r, p>>) <=> rolePerms[r] # None /\ p \in rolePerms[r]
    /\ \A u \in User, p \in Grant :
          /\ <<"can", u, p>> \in Fact
          /\ Holds(<<"can", u, p>>) <=>
                /\ Active(u) /\ rolePerms[membership[u].role] # None
                /\ p \in rolePerms[membership[u].role]
<1>1. <<"token">> \in Fact /\ (Holds(<<"token">>) <=> tokenLive)
  BY DEF Fact, Holds
<1>2. <<"tenant">> \in Fact /\ (Holds(<<"tenant">>) <=> tenantOn)
  BY DEF Fact, Holds
<1>3. \A u \in User :
          /\ <<"active", u>> \in Fact /\ (Holds(<<"active", u>>) <=> Active(u))
          /\ <<"admin", u>> \in Fact /\ (Holds(<<"admin", u>>) <=> u \in platformAdmin)
  BY DEF Fact, Holds
<1>4. \A u \in User, r \in Role :
          /\ <<"holds", u, r>> \in Fact
          /\ Holds(<<"holds", u, r>>) <=> Active(u) /\ membership[u].role = r
  BY DEF Fact, Holds
<1>5. \A r \in Role :
          /\ <<"row", r>> \in Fact /\ (Holds(<<"row", r>>) <=> rolePerms[r] # None)
  BY DEF Fact, Holds
<1>6. \A r \in Role, p \in Grant :
          /\ <<"has", r, p>> \in Fact
          /\ Holds(<<"has", r, p>>) <=> rolePerms[r] # None /\ p \in rolePerms[r]
  BY DEF Fact, Holds
<1>7. \A u \in User, p \in Grant :
          /\ <<"can", u, p>> \in Fact
          /\ Holds(<<"can", u, p>>) <=>
                /\ Active(u) /\ rolePerms[membership[u].role] # None
                /\ p \in rolePerms[membership[u].role]
  BY DEF Fact, Holds
<1>8. QED
  BY <1>1, <1>2, <1>3, <1>4, <1>5, <1>6, <1>7

LEMMA Watched ==
    ASSUME NEW a \in User
    PROVE  /\ {<<"token">>, <<"tenant">>} \subseteq Mine(a)
           /\ \A u \in {Owner, a} : {<<"active", u>>, <<"admin", u>>} \subseteq Mine(a)
           /\ \A r \in Role : {<<"holds", a, r>>, <<"row", r>>} \subseteq Mine(a)
           /\ \A p \in Grant : <<"can", a, p>> \in Mine(a)
           /\ \A r \in Role, p \in Grant : <<"has", r, p>> \in Mine(a)
<1>1. Owner \in User /\ \A r \in Role : r \notin User
  BY AccessAssumption
<1>2. {<<"token">>, <<"tenant">>} \subseteq Mine(a)
  BY FactsSay DEF Mine
<1>3. ASSUME NEW u \in {Owner, a} PROVE {<<"active", u>>, <<"admin", u>>} \subseteq Mine(a)
  <2>1. <<"active", u>> \in Fact /\ <<"admin", u>> \in Fact
    BY <1>1, FactsSay
  <2>2. <<"active", u>> \in Mine(a) /\ <<"admin", u>> \in Mine(a)
    BY <2>1 DEF Mine
  <2>3. QED
    BY <2>2
<1>4. ASSUME NEW r \in Role PROVE {<<"holds", a, r>>, <<"row", r>>} \subseteq Mine(a)
  <2>1. <<"holds", a, r>> \in Fact /\ <<"row", r>> \in Fact
    BY FactsSay
  <2>2. <<"holds", a, r>> \in Mine(a)
    BY <2>1 DEF Mine
  <2>3. <<"row", r>> \in Mine(a)
    BY <1>1, <2>1 DEF Mine
  <2>4. QED
    BY <2>2, <2>3
<1>5. \A p \in Grant : <<"can", a, p>> \in Mine(a)
  BY FactsSay DEF Mine
<1>6. \A r \in Role, p \in Grant : <<"has", r, p>> \in Mine(a)
  BY <1>1, FactsSay DEF Mine
<1>7. QED
  BY <1>2, <1>3, <1>4, <1>5, <1>6

\* What a reading call finds in the tables is in its history.
Noted(f) == (Holds(f) => f \in was) /\ (~Holds(f) => f \in lacked)

LEMMA ReadsAreNoted ==
    ASSUME RecordedInv, Reads(call), call.acting \in User
    PROVE  /\ tokenLive => <<"token">> \in was
           /\ ~tokenLive => <<"token">> \in lacked
           /\ tenantOn => <<"tenant">> \in was
           /\ ~tenantOn => <<"tenant">> \in lacked
           /\ \A u \in {Owner, call.acting} :
                 /\ Active(u) => <<"active", u>> \in was
                 /\ ~Active(u) => <<"active", u>> \in lacked
                 /\ u \in platformAdmin => <<"admin", u>> \in was
                 /\ u \notin platformAdmin => <<"admin", u>> \in lacked
           /\ \A r \in Role :
                 /\ IF Active(call.acting) /\ membership[call.acting].role = r
                    THEN <<"holds", call.acting, r>> \in was ELSE <<"holds", call.acting, r>> \in lacked
                 /\ rolePerms[r] = None => <<"row", r>> \in lacked
           /\ \A r \in Role, p \in Grant :
                 IF rolePerms[r] # None /\ p \in rolePerms[r]
                 THEN <<"has", r, p>> \in was ELSE <<"has", r, p>> \in lacked
           /\ \A p \in Grant :
                 IF /\ Active(call.acting) /\ rolePerms[membership[call.acting].role] # None
                    /\ p \in rolePerms[membership[call.acting].role]
                 THEN <<"can", call.acting, p>> \in was ELSE <<"can", call.acting, p>> \in lacked
<1> DEFINE a == call.acting
<1>1. \A f \in Mine(a) : Noted(f)
  BY DEF RecordedInv, Facts, Mine, Noted
<1>2. Noted(<<"token">>) /\ Noted(<<"tenant">>)
  BY <1>1, Watched
<1>3. \A u \in {Owner, a} : Noted(<<"active", u>>) /\ Noted(<<"admin", u>>)
  BY <1>1, Watched
<1>4. \A r \in Role : Noted(<<"holds", a, r>>) /\ Noted(<<"row", r>>)
  BY <1>1, Watched
<1>5. \A r \in Role, p \in Grant : Noted(<<"has", r, p>>)
  BY <1>1, Watched
<1>6. \A p \in Grant : Noted(<<"can", a, p>>)
  BY <1>1, Watched
<1>7. Owner \in User
  BY AccessAssumption
<1>8. ASSUME NEW u \in {Owner, a}
      PROVE  /\ Active(u) => <<"active", u>> \in was
             /\ ~Active(u) => <<"active", u>> \in lacked
             /\ u \in platformAdmin => <<"admin", u>> \in was
             /\ u \notin platformAdmin => <<"admin", u>> \in lacked
  <2>1. u \in User
    BY <1>7
  <2>2. (Holds(<<"active", u>>) <=> Active(u)) /\ (Holds(<<"admin", u>>) <=> u \in platformAdmin)
    BY <2>1, FactsSay
  <2>3. Noted(<<"active", u>>) /\ Noted(<<"admin", u>>)
    BY <1>3
  <2>4. QED
    BY <2>2, <2>3 DEF Noted
<1>9. \A r \in Role :
                 /\ IF Active(a) /\ membership[a].role = r
                    THEN <<"holds", a, r>> \in was ELSE <<"holds", a, r>> \in lacked
                 /\ rolePerms[r] = None => <<"row", r>> \in lacked
  BY <1>4, FactsSay DEF Noted
<1>10. \A r \in Role, p \in Grant :
                 IF rolePerms[r] # None /\ p \in rolePerms[r]
                 THEN <<"has", r, p>> \in was ELSE <<"has", r, p>> \in lacked
  BY <1>5, FactsSay DEF Noted
<1>11. \A p \in Grant :
                 IF /\ Active(a) /\ rolePerms[membership[a].role] # None
                    /\ p \in rolePerms[membership[a].role]
                 THEN <<"can", a, p>> \in was ELSE <<"can", a, p>> \in lacked
  BY <1>6, FactsSay DEF Noted
<1>12. QED
  BY <1>2, <1>8, <1>9, <1>10, <1>11, FactsSay DEF Noted

----------------------------------------------------------------------------
\* The history only grows while a call runs, and notes what holds after the step.
LEMMA HistoryGrows ==
    ASSUME Watch, was \subseteq Fact, lacked \subseteq Fact, call.pc # "done", call'.pc # "idle"
    PROVE  /\ was \subseteq was' /\ lacked \subseteq lacked'
           /\ was' \subseteq Fact /\ lacked' \subseteq Fact
           /\ RecordedInv'
<1>1. /\ was' = was \cup (Mine(call'.acting) \cap Facts')
      /\ lacked' = lacked \cup (Mine(call'.acting) \ Facts')
  BY DEF Watch, Mine
<1>2. RecordedInv'
  BY <1>1 DEF RecordedInv, Mine, Fact
<1>3. QED
  BY <1>1, <1>2 DEF Mine

\* What was read stays read.
LEMMA HistoryStays ==
    ASSUME was \subseteq was', lacked \subseteq lacked', NEW c, ReadInv(c), RoleInv(c), AnswerInv(c)
    PROVE  ReadInv(c)' /\ RoleInv(c)' /\ AnswerInv(c)'
<1>1. ReadInv(c)'
  BY DEF ReadInv, Past
<1>2. RoleInv(c)'
  BY DEF RoleInv, Past
<1>3. AnswerInv(c)'
  BY DEF AnswerInv
<1>4. QED
  BY <1>1, <1>2, <1>3

\* A step of the introspection that ends up at c.
LEMMA CallMoves ==
    ASSUME AccessInv, Watch, UNCHANGED <<tables, accessWrites>>, readFaults' \in 0..MaxReadFaults,
           call.pc # "done", NEW c \in Calls, call' = c, c.pc # "idle",
           ReadInv(c), RoleInv(c), AnswerInv(c)
    PROVE  AccessInv'
<1>1. AccessTypeOK
  BY DEF AccessInv
<1>2. /\ was \subseteq was' /\ lacked \subseteq lacked' /\ was' \subseteq Fact /\ lacked' \subseteq Fact
      /\ RecordedInv'
  BY <1>1, HistoryGrows DEF AccessTypeOK
<1>3. ReadInv(c)' /\ RoleInv(c)' /\ AnswerInv(c)'
  BY <1>2, HistoryStays
<1>4. AccessTypeOK'
  BY <1>1, <1>2 DEF AccessTypeOK, Calls, tables
<1>5. ReadInv(call)'
  BY <1>3 DEF ReadInv, Past
<1>6. RoleInv(call)'
  BY <1>3 DEF RoleInv, Past
<1>7. AnswerInv(call)'
  BY <1>3 DEF AnswerInv
<1>8. QED
  BY <1>2, <1>4, <1>5, <1>6, <1>7 DEF AccessInv

\* The three ways a read may end.
LEMMA ReadEnds ==
    ASSUME AccessInv, NEW at, NEW found, NEW then, NEW else, Reading(at, found, then, else)
    PROVE  /\ UNCHANGED <<tables, accessWrites>> /\ readFaults' \in 0..MaxReadFaults
           /\ call.pc = at
           /\ \/ found /\ call' = then
              \/ ~found /\ call' = else
              \/ call' = [else EXCEPT !.failed = TRUE]
<1>1. readFaults \in 0..MaxReadFaults /\ MaxReadFaults \in Nat
  BY AccessAssumption DEF AccessInv, AccessTypeOK
<1>2. readFaults' \in 0..MaxReadFaults
  <2>1. readFaults' = readFaults \/ (readFaults < MaxReadFaults /\ readFaults' = readFaults + 1)
    BY DEF Reading
  <2>2. QED
    BY <1>1, <2>1
<1>3. \/ found /\ call' = then
      \/ ~found /\ call' = else
      \/ call' = [else EXCEPT !.failed = TRUE]
  BY DEF Reading
<1>4. QED
  BY <1>2, <1>3 DEF Reading

LEMMA IntrospectKeeps ==
    ASSUME AccessInv, Watch, NEW u \in User, Introspect(u) PROVE AccessInv'
<1> DEFINE c == [call EXCEPT !.pc = "token", !.acting = u]
<1>1. call = Idle /\ call.pc = "idle"
  BY DEF AccessInv, ReadInv, Introspect
<1>2. /\ c.pc = "token" /\ c.acting = u /\ ~c.ownerAdmin /\ c.role = None /\ c.permissions = {}
      /\ c \in Calls
  BY <1>1 DEF Idle, Calls
<1> HIDE DEF c
<1>3. PICK d : d = c
  OBVIOUS
<1>4. ReadInv(d) /\ RoleInv(d) /\ AnswerInv(d)
  BY <1>2, <1>3 DEF ReadInv, RoleInv, AnswerInv, Past
<1>5. UNCHANGED <<tables, accessWrites>> /\ readFaults' \in 0..MaxReadFaults /\ call' = d
  BY <1>3 DEF Introspect, AccessInv, AccessTypeOK, c
<1>6. QED
  BY <1>1, <1>2, <1>3, <1>4, <1>5, CallMoves

LEMMA ReadTokenKeeps == ASSUME AccessInv, Watch, ReadToken PROVE AccessInv'
<1> DEFINE then == [call EXCEPT !.pc = "tenant"]
           else == Refused(call, "invalid token")
<1>1. /\ UNCHANGED <<tables, accessWrites>> /\ readFaults' \in 0..MaxReadFaults
      /\ call.pc = "token"
      /\ \/ tokenLive /\ call' = then
         \/ ~tokenLive /\ call' = else
         \/ call' = [else EXCEPT !.failed = TRUE]
  BY ReadEnds DEF ReadToken
<1>2. /\ call \in Calls /\ call.acting \in User
      /\ ReadInv(call) /\ RoleInv(call) /\ AnswerInv(call)
      /\ tokenLive => <<"token">> \in was
      /\ ~tokenLive => <<"token">> \in lacked
  BY <1>1, ReadsAreNoted DEF AccessInv, ReadInv, Reads
<1>3. PICK c : c = call'
  OBVIOUS
<1>4. /\ c \in Calls /\ c.pc \in {"tenant", "done"}
      /\ c.pc = "done" => c.outcome = "invalid token"
      /\ c.acting = call.acting /\ c.ownerAdmin = call.ownerAdmin /\ c.role = call.role
      /\ c.permissions = call.permissions
      /\ c.pc = "tenant" => tokenLive
      /\ c.pc = "done" /\ ~c.failed => ~tokenLive
  BY <1>1, <1>2, <1>3 DEF Calls, Refused
<1>5. ReadInv(c)
  BY <1>1, <1>2, <1>4 DEF ReadInv, Past
<1>6. RoleInv(c)
  BY <1>1, <1>2, <1>4 DEF RoleInv, Past
<1>7. AnswerInv(c)
  BY <1>1, <1>2, <1>4 DEF AnswerInv
<1>8. QED
  BY <1>1, <1>3, <1>4, <1>5, <1>6, <1>7, CallMoves

LEMMA ReadTenantKeeps == ASSUME AccessInv, Watch, ReadTenant PROVE AccessInv'
<1> DEFINE then == [call EXCEPT !.pc = "owner"]
           else == Refused(call, "invalid token")
<1>1. /\ UNCHANGED <<tables, accessWrites>> /\ readFaults' \in 0..MaxReadFaults
      /\ call.pc = "tenant"
      /\ \/ tenantOn /\ call' = then
         \/ ~tenantOn /\ call' = else
         \/ call' = [else EXCEPT !.failed = TRUE]
  BY ReadEnds DEF ReadTenant
<1>2. /\ call \in Calls /\ call.acting \in User
      /\ ReadInv(call) /\ RoleInv(call) /\ AnswerInv(call)
      /\ tenantOn => <<"tenant">> \in was
      /\ ~tenantOn => <<"tenant">> \in lacked
  BY <1>1, ReadsAreNoted DEF AccessInv, ReadInv, Reads
<1>3. PICK c : c = call'
  OBVIOUS
<1>4. /\ c \in Calls /\ c.pc \in {"owner", "done"}
      /\ c.pc = "done" => c.outcome = "invalid token"
      /\ c.acting = call.acting /\ c.ownerAdmin = call.ownerAdmin /\ c.role = call.role
      /\ c.permissions = call.permissions
      /\ c.pc = "owner" => tenantOn
      /\ c.pc = "done" /\ ~c.failed => ~tenantOn
  BY <1>1, <1>2, <1>3 DEF Calls, Refused
<1>5. ReadInv(c)
  BY <1>1, <1>2, <1>4 DEF ReadInv, Past
<1>6. RoleInv(c)
  BY <1>1, <1>2, <1>4 DEF RoleInv, Past
<1>7. AnswerInv(c)
  BY <1>1, <1>2, <1>4 DEF AnswerInv
<1>8. QED
  BY <1>1, <1>3, <1>4, <1>5, <1>6, <1>7, CallMoves

LEMMA ReadOwnerKeeps == ASSUME AccessInv, Watch, ReadOwner PROVE AccessInv'
<1> DEFINE then == [call EXCEPT !.pc = "ownerMembership", !.ownerAdmin = TRUE]
           else == [call EXCEPT !.pc = "ownerMembership"]
<1>1. /\ UNCHANGED <<tables, accessWrites>> /\ readFaults' \in 0..MaxReadFaults
      /\ call.pc = "owner"
      /\ \/ Owner \in platformAdmin /\ call' = then
         \/ Owner \notin platformAdmin /\ call' = else
         \/ call' = [else EXCEPT !.failed = TRUE]
  BY ReadEnds DEF ReadOwner
<1>2. /\ call \in Calls /\ call.acting \in User
      /\ ReadInv(call) /\ RoleInv(call) /\ AnswerInv(call)
      /\ Owner \in platformAdmin => <<"admin", Owner>> \in was
      /\ Owner \notin platformAdmin => <<"admin", Owner>> \in lacked
  BY <1>1, ReadsAreNoted DEF AccessInv, ReadInv, Reads
<1>3. PICK c : c = call'
  OBVIOUS
<1>4. /\ c \in Calls /\ c.pc = "ownerMembership"
      /\ c.acting = call.acting /\ c.role = call.role /\ c.permissions = call.permissions
      /\ c.ownerAdmin => call.ownerAdmin \/ Owner \in platformAdmin
      /\ ~c.ownerAdmin /\ ~c.failed => Owner \notin platformAdmin
  BY <1>1, <1>2, <1>3 DEF Calls
<1>5. ReadInv(c)
  BY <1>1, <1>2, <1>4 DEF ReadInv, Past
<1>6. RoleInv(c)
  BY <1>1, <1>2, <1>4 DEF RoleInv, Past
<1>7. AnswerInv(c)
  BY <1>1, <1>2, <1>4 DEF AnswerInv
<1>8. QED
  BY <1>1, <1>3, <1>4, <1>5, <1>6, <1>7, CallMoves

\* A role that is held now: with each permission usable, or lacked by the role.
LEMMA HeldRole ==
    ASSUME AccessInv, Reads(call), Active(call.acting)
    PROVE  LET role == membership[call.acting].role IN
           /\ role \in Role /\ RoleHeld(call.acting) = role
           /\ <<"holds", call.acting, role>> \in was
           /\ \A p \in Grant : <<"can", call.acting, p>> \in was \/ <<"has", role, p>> \in lacked
<1> DEFINE role == membership[call.acting].role
<1>1. call.acting \in User /\ RecordedInv
  BY DEF AccessInv, ReadInv, Reads
<1>2. role \in Role
  BY <1>1 DEF AccessInv, AccessTypeOK, Active
<1>3. <<"holds", call.acting, role>> \in was
  BY <1>1, <1>2, ReadsAreNoted
<1>4. ASSUME NEW p \in Grant PROVE <<"can", call.acting, p>> \in was \/ <<"has", role, p>> \in lacked
  BY <1>1, <1>2, ReadsAreNoted
<1>5. QED
  BY <1>2, <1>3, <1>4 DEF RoleHeld

\* The calls that the steps below lead to.
LEMMA FailedCall ==
    ASSUME NEW c \in Calls
    PROVE  LET d == [c EXCEPT !.failed = TRUE] IN
           /\ d \in Calls /\ d.failed /\ d.pc = c.pc /\ d.acting = c.acting
           /\ d.ownerAdmin = c.ownerAdmin /\ d.role = c.role /\ d.outcome = c.outcome
           /\ d.type = c.type /\ d.permissions = c.permissions
BY DEF Calls

LEMMA RefusedCall ==
    ASSUME NEW c \in Calls, NEW message \in {"invalid token", "membership revoked", "error"}
    PROVE  LET d == Refused(c, message) IN
           /\ d \in Calls /\ d.failed = c.failed /\ d.pc = "done" /\ d.acting = c.acting
           /\ d.ownerAdmin = c.ownerAdmin /\ d.role = c.role /\ d.outcome = message
           /\ d.type = c.type /\ d.permissions = c.permissions
BY DEF Calls, Refused

LEMMA ResolvedCall ==
    ASSUME NEW c \in Calls, NEW role \in Role \cup {None}, NEW admin \in BOOLEAN
    PROVE  LET d == Resolved(c, role, admin) IN
           /\ d \in Calls /\ d.failed = c.failed /\ d.acting = c.acting
           /\ d.ownerAdmin = c.ownerAdmin /\ d.role = role /\ d.permissions = c.permissions
           /\ d.type = IF admin THEN "platform_admin" ELSE "tenant_user"
           /\ d.pc = IF role = None THEN "done" ELSE "role"
           /\ role = None => d.outcome = "ok"
<1>1. CASE role = None
  BY <1>1 DEF Calls, Resolved
<1>2. CASE role # None
  BY <1>2 DEF Calls, Resolved
<1>3. QED
  BY <1>1, <1>2

LEMMA AfterOwnerCall ==
    ASSUME NEW c \in Calls, NEW role \in Role \cup {None}
    PROVE  LET d == AfterOwner(c, role) IN
           /\ d \in Calls /\ d.failed = c.failed /\ d.acting = c.acting
           /\ d.ownerAdmin = c.ownerAdmin /\ d.permissions = c.permissions
           /\ IF c.acting # Owner THEN d.pc = "membership" /\ d.role = c.role
              ELSE /\ d.role = role
                   /\ d.type = IF c.ownerAdmin THEN "platform_admin" ELSE "tenant_user"
                   /\ d.pc = IF role = None THEN "done" ELSE "role"
                   /\ role = None => d.outcome = "ok"
<1>1. CASE c.acting # Owner
  BY <1>1 DEF Calls, AfterOwner
<1>2. CASE c.acting = Owner
  <2>1. c.ownerAdmin \in BOOLEAN
    BY DEF Calls
  <2>2. AfterOwner(c, role) = Resolved(c, role, c.ownerAdmin)
    BY <1>2 DEF AfterOwner
  <2>3. QED
    BY <1>2, <2>1, <2>2, ResolvedCall
<1>3. QED
  BY <1>1, <1>2

LEMMA ReadOwnerMembershipKeeps == ASSUME AccessInv, Watch, ReadOwnerMembership PROVE AccessInv'
<1> DEFINE held == RoleHeld(Owner)
           then == AfterOwner(call, RoleHeld(Owner))
           else == IF call.ownerAdmin THEN AfterOwner(call, None) ELSE Refused(call, "membership revoked")
<1>1. /\ UNCHANGED <<tables, accessWrites>> /\ readFaults' \in 0..MaxReadFaults
      /\ call.pc = "ownerMembership"
      /\ \/ Active(Owner) /\ call' = then
         \/ ~Active(Owner) /\ call' = else
         \/ call' = [else EXCEPT !.failed = TRUE]
  <2>1. Reading("ownerMembership", Active(Owner), then, else)
    BY DEF ReadOwnerMembership
  <2> HIDE DEF then, else
  <2>2. QED
    BY <2>1, ReadEnds
<1>2. /\ call \in Calls /\ call.acting \in User
      /\ ReadInv(call) /\ RoleInv(call) /\ AnswerInv(call) /\ Reads(call)
      /\ Active(Owner) => <<"active", Owner>> \in was
      /\ ~Active(Owner) => <<"active", Owner>> \in lacked
  BY <1>1, ReadsAreNoted DEF AccessInv, ReadInv, Reads
<1>3. PICK c : c = call'
  OBVIOUS
<1>4. Active(Owner) => held \in Role
  BY AccessAssumption DEF RoleHeld, Active, AccessInv, AccessTypeOK
<1> HIDE DEF held
<1>5. /\ c \in Calls /\ c.acting = call.acting /\ c.ownerAdmin = call.ownerAdmin
      /\ c.permissions = call.permissions /\ c.failed \in {call.failed, TRUE}
      /\ c.pc \in {"membership", "role", "done"}
      /\ c.pc = "membership" => c.acting # Owner /\ (Active(Owner) \/ call.ownerAdmin)
      /\ c.pc = "membership" => c.role = call.role
      /\ c.pc = "role" => c.acting = Owner /\ Active(Owner) /\ c.role = held
      /\ c.pc = "role" \/ (c.pc = "done" /\ c.outcome = "ok") =>
            c.type = IF call.ownerAdmin THEN "platform_admin" ELSE "tenant_user"
      /\ c.pc = "done" => c.outcome \in {"ok", "membership revoked"}
      /\ c.pc = "done" /\ c.outcome = "ok" => c.acting = Owner /\ call.ownerAdmin /\ c.role = None
      /\ c.pc = "done" /\ c.outcome = "membership revoked" => ~call.ownerAdmin /\ c.role = call.role
      /\ c.pc = "done" /\ c.outcome = "membership revoked" /\ ~c.failed => ~call.failed /\ ~Active(Owner)
  <2>1. call.ownerAdmin \in BOOLEAN /\ None \notin Role
    BY <1>2, AccessAssumption DEF Calls
  <2>2. CASE Active(Owner) /\ c = then
    <3>1. c = AfterOwner(call, held)
      BY <2>2 DEF held
    <3> HIDE DEF then, else
    <3>2. held \in Role \cup {None} /\ held # None /\ call \in Calls
      BY <1>2, <1>4, <2>1, <2>2
    <3>3. /\ c \in Calls /\ c.failed = call.failed /\ c.acting = call.acting
          /\ c.ownerAdmin = call.ownerAdmin /\ c.permissions = call.permissions
          /\ IF call.acting # Owner THEN c.pc = "membership" /\ c.role = call.role
             ELSE /\ c.role = held /\ c.pc = "role"
                  /\ c.type = IF call.ownerAdmin THEN "platform_admin" ELSE "tenant_user"
      BY <3>1, <3>2, AfterOwnerCall
    <3>4. QED
      BY <2>2, <3>3
  <2>3. CASE call.ownerAdmin /\ c \in {else, [else EXCEPT !.failed = TRUE]}
    <3>1. else = AfterOwner(call, None)
      BY <2>3
    <3> HIDE DEF then, else
    <3>2. /\ else \in Calls /\ else.failed = call.failed /\ else.acting = call.acting
          /\ else.ownerAdmin /\ else.permissions = call.permissions
          /\ IF call.acting # Owner THEN else.pc = "membership" /\ else.role = call.role
             ELSE /\ else.role = None /\ else.type = "platform_admin"
                  /\ else.pc = "done" /\ else.outcome = "ok"
      BY <1>2, <2>1, <2>3, <3>1, AfterOwnerCall
    <3>3. CASE c = else
      BY <2>1, <2>3, <3>2, <3>3
    <3>4. CASE c = [else EXCEPT !.failed = TRUE]
      <4>1. /\ c \in Calls /\ c.failed /\ c.pc = else.pc /\ c.acting = else.acting
            /\ c.ownerAdmin = else.ownerAdmin /\ c.role = else.role /\ c.outcome = else.outcome
            /\ c.type = else.type /\ c.permissions = else.permissions
        BY <3>2, <3>4, FailedCall
      <4>2. QED
        BY <2>1, <2>3, <3>2, <4>1
    <3>5. QED
      BY <2>3, <3>3, <3>4
  <2>4. CASE ~call.ownerAdmin /\ ((~Active(Owner) /\ c = else) \/ c = [else EXCEPT !.failed = TRUE])
    <3>1. else = Refused(call, "membership revoked")
      BY <2>4
    <3> HIDE DEF then, else
    <3>2. /\ else \in Calls /\ else.failed = call.failed /\ else.acting = call.acting
          /\ else.ownerAdmin = call.ownerAdmin /\ else.permissions = call.permissions
          /\ else.pc = "done" /\ else.role = call.role /\ else.outcome = "membership revoked"
      BY <1>2, <3>1, RefusedCall
    <3>3. QED
      BY <1>2, <2>1, <2>4, <3>2, FailedCall
  <2> HIDE DEF then, else
  <2>5. QED
    BY <1>1, <1>3, <2>1, <2>2, <2>3, <2>4
<1>6. ReadInv(c)
  BY <1>1, <1>2, <1>5 DEF ReadInv, Past
<1>7. RoleInv(c)
  <2>1. CASE c.pc = "role"
    <3>1. held = RoleHeld(call.acting)
      BY <1>5, <2>1 DEF held
    <3>2. /\ <<"holds", c.acting, c.role>> \in was
          /\ \A p \in Grant : <<"can", c.acting, p>> \in was \/ <<"has", c.role, p>> \in lacked
      BY <1>2, <1>5, <2>1, <3>1, HeldRole
    <3>3. QED
      BY <1>2, <1>4, <1>5, <2>1, <3>2, AccessAssumption DEF RoleInv, ReadInv, Past
  <2>2. CASE c.pc # "role"
    BY <1>1, <1>2, <1>5, <2>2 DEF RoleInv, ReadInv, Past
  <2>3. QED
    BY <2>1, <2>2
<1>8. AnswerInv(c)
  BY <1>1, <1>2, <1>5 DEF AnswerInv, ReadInv
<1>9. QED
  BY <1>1, <1>3, <1>5, <1>6, <1>7, <1>8, CallMoves

LEMMA ReadMembershipKeeps == ASSUME AccessInv, Watch, ReadMembership PROVE AccessInv'
<1> DEFINE held == RoleHeld(call.acting)
           then == [call EXCEPT !.pc = "admin", !.role = RoleHeld(call.acting)]
           else == Refused(call, "membership revoked")
<1>1. /\ UNCHANGED <<tables, accessWrites>> /\ readFaults' \in 0..MaxReadFaults
      /\ call.pc = "membership"
      /\ \/ Active(call.acting) /\ call' = then
         \/ ~Active(call.acting) /\ call' = else
         \/ call' = [else EXCEPT !.failed = TRUE]
  <2>1. Reading("membership", Active(call.acting), then, else)
    BY DEF ReadMembership
  <2> HIDE DEF then, else
  <2>2. QED
    BY <2>1, ReadEnds
<1>2. /\ call \in Calls /\ call.acting \in User
      /\ ReadInv(call) /\ RoleInv(call) /\ AnswerInv(call) /\ Reads(call)
      /\ Active(call.acting) => <<"active", call.acting>> \in was
      /\ ~Active(call.acting) => <<"active", call.acting>> \in lacked
  BY <1>1, ReadsAreNoted DEF AccessInv, ReadInv, Reads
<1>3. PICK c : c = call'
  OBVIOUS
<1>4. LET d == [else EXCEPT !.failed = TRUE] IN
      /\ d.failed
      /\ \A e \in {else, d} :
            /\ e \in Calls /\ e.pc = "done" /\ e.acting = call.acting /\ e.ownerAdmin = call.ownerAdmin
            /\ e.role = call.role /\ e.permissions = call.permissions
            /\ e.outcome = "membership revoked"
  <2>1. /\ else \in Calls /\ else.pc = "done" /\ else.acting = call.acting
        /\ else.ownerAdmin = call.ownerAdmin /\ else.role = call.role
        /\ else.permissions = call.permissions /\ else.outcome = "membership revoked"
    BY <1>2, RefusedCall
  <2> HIDE DEF else
  <2>2. QED
    BY <2>1, FailedCall
<1>5. CASE Active(call.acting) /\ c = then
  <2>1. /\ held \in Role /\ <<"holds", call.acting, held>> \in was
        /\ \A p \in Grant : <<"can", call.acting, p>> \in was \/ <<"has", held, p>> \in lacked
    BY <1>2, <1>5, HeldRole DEF RoleHeld
  <2>2. c = [call EXCEPT !.pc = "admin", !.role = held]
    BY <1>5
  <2> HIDE DEF held
  <2>3. /\ c \in Calls /\ c.pc = "admin" /\ c.acting = call.acting /\ c.ownerAdmin = call.ownerAdmin
        /\ c.role = held /\ c.permissions = call.permissions
    BY <1>2, <2>1, <2>2 DEF Calls
  <2>4. ReadInv(c)
    BY <1>1, <1>2, <1>5, <2>3 DEF ReadInv, Past
  <2>5. RoleInv(c)
    BY <2>1, <2>3 DEF RoleInv, Past
  <2>6. AnswerInv(c)
    BY <1>1, <1>2, <2>3 DEF AnswerInv
  <2>7. QED
    BY <1>1, <1>3, <2>3, <2>4, <2>5, <2>6, CallMoves
<1>6. CASE c \in {else, [else EXCEPT !.failed = TRUE]} /\ (Active(call.acting) => c.failed)
  <2>1. /\ c \in Calls /\ c.pc = "done" /\ c.acting = call.acting /\ c.ownerAdmin = call.ownerAdmin
        /\ c.role = call.role /\ c.permissions = call.permissions /\ c.outcome = "membership revoked"
    BY <1>6, <1>4
  <2>2. ReadInv(c)
    BY <1>1, <1>2, <2>1 DEF ReadInv, Past
  <2>3. RoleInv(c)
    BY <1>1, <1>2, <2>1 DEF RoleInv, Past
  <2>4. AnswerInv(c)
    BY <1>1, <1>2, <1>6, <2>1 DEF AnswerInv, ReadInv
  <2>5. QED
    BY <1>1, <1>3, <2>1, <2>2, <2>3, <2>4, CallMoves
<1>7. QED
  BY <1>1, <1>3, <1>5, <1>6, <1>4

LEMMA ReadActingKeeps == ASSUME AccessInv, Watch, ReadActing PROVE AccessInv'
<1> DEFINE is == call.acting \in platformAdmin
           then == Resolved(call, call.role, call.acting \in platformAdmin)
           else == Resolved(call, call.role, call.ownerAdmin)
<1>1. /\ UNCHANGED <<tables, accessWrites>> /\ readFaults' \in 0..MaxReadFaults
      /\ call.pc = "admin"
      /\ call' \in {then, [else EXCEPT !.failed = TRUE]}
  <2>1. Reading("admin", TRUE, then, else)
    BY DEF ReadActing
  <2> HIDE DEF then, else
  <2>2. QED
    BY <2>1, ReadEnds
<1>2. /\ call \in Calls /\ call.acting \in User
      /\ ReadInv(call) /\ RoleInv(call) /\ AnswerInv(call)
      /\ is => <<"admin", call.acting>> \in was
  BY <1>1, ReadsAreNoted DEF AccessInv, ReadInv, Reads
<1>3. PICK c : c = call'
  OBVIOUS
<1>4. /\ c \in Calls /\ c.acting = call.acting /\ c.ownerAdmin = call.ownerAdmin
      /\ c.role = call.role /\ c.permissions = call.permissions
      /\ c.pc = IF call.role = None THEN "done" ELSE "role"
      /\ call.role = None => c.outcome = "ok"
      /\ c.type \in {"platform_admin", "tenant_user"}
      /\ c.type = "platform_admin" => is \/ (c.failed /\ call.ownerAdmin)
  <2>1. call.role \in Role \cup {None} /\ call.ownerAdmin \in BOOLEAN
    BY <1>2 DEF Calls
  <2> DEFINE RightFor(d, type) ==
        /\ d \in Calls /\ d.acting = call.acting /\ d.ownerAdmin = call.ownerAdmin
        /\ d.role = call.role /\ d.permissions = call.permissions
        /\ d.pc = IF call.role = None THEN "done" ELSE "role"
        /\ call.role = None => d.outcome = "ok"
        /\ d.type = type
  <2>2. /\ RightFor(Resolved(call, call.role, TRUE), "platform_admin")
        /\ RightFor(Resolved(call, call.role, FALSE), "tenant_user")
    <3>1. ASSUME NEW b \in BOOLEAN
          PROVE  RightFor(Resolved(call, call.role, b), IF b THEN "platform_admin" ELSE "tenant_user")
      BY <1>2, <2>1, ResolvedCall
    <3> HIDE DEF RightFor
    <3>2. QED
      BY <3>1
  <2>3. IF is THEN RightFor(then, "platform_admin") ELSE RightFor(then, "tenant_user")
    <3>1. then = IF is THEN Resolved(call, call.role, TRUE) ELSE Resolved(call, call.role, FALSE)
      BY DEF Resolved
    <3> HIDE DEF RightFor, then, is
    <3>2. QED
      BY <2>2, <3>1
  <2>4. IF call.ownerAdmin THEN RightFor(else, "platform_admin") ELSE RightFor(else, "tenant_user")
    <3>1. else = IF call.ownerAdmin THEN Resolved(call, call.role, TRUE) ELSE Resolved(call, call.role, FALSE)
      BY DEF Resolved
    <3> HIDE DEF RightFor, else
    <3>2. QED
      BY <2>2, <3>1
  <2> HIDE DEF then, else, is
  <2>5. CASE c = then
    BY <2>3, <2>5
  <2>6. CASE c = [else EXCEPT !.failed = TRUE]
    BY <2>4, <2>6, FailedCall
  <2>7. QED
    BY <1>1, <1>3, <2>5, <2>6
<1> HIDE DEF is, then, else
<1>5. ReadInv(c)
  BY <1>1, <1>2, <1>4 DEF ReadInv, Past
<1>6. RoleInv(c)
  BY <1>1, <1>2, <1>4 DEF RoleInv, ReadInv, Past
<1>7. AnswerInv(c)
  BY <1>1, <1>2, <1>4 DEF AnswerInv
<1>8. QED
  BY <1>1, <1>3, <1>4, <1>5, <1>6, <1>7, CallMoves

LEMMA ReadRoleKeeps == ASSUME AccessInv, Watch, ReadRole PROVE AccessInv'
<1> DEFINE then == [call EXCEPT !.pc = "permissions"]
           else == Refused(call, "error")
<1>1. /\ UNCHANGED <<tables, accessWrites>> /\ readFaults' \in 0..MaxReadFaults
      /\ call.pc = "role"
      /\ \/ rolePerms[call.role] # None /\ call' = then
         \/ rolePerms[call.role] = None /\ call' = else
         \/ call' = [else EXCEPT !.failed = TRUE]
  BY ReadEnds DEF ReadRole
<1>2. /\ call \in Calls /\ call.acting \in User
      /\ ReadInv(call) /\ RoleInv(call) /\ AnswerInv(call) /\ Reads(call) /\ RecordedInv
  BY <1>1 DEF AccessInv, ReadInv, Reads
<1>3. call.role \in Role /\ (rolePerms[call.role] = None => <<"row", call.role>> \in lacked)
  <2>1. call.role \in Role
    BY <1>1, <1>2 DEF RoleInv, Calls
  <2>2. QED
    BY <1>2, <2>1, ReadsAreNoted
<1>4. PICK c : c = call'
  OBVIOUS
<1>5. /\ c \in Calls /\ c.pc \in {"permissions", "done"}
      /\ c.pc = "done" => c.outcome = "error"
      /\ c.acting = call.acting /\ c.ownerAdmin = call.ownerAdmin /\ c.role = call.role
      /\ c.permissions = call.permissions /\ c.type = call.type
      /\ call.failed => c.failed
      /\ c.pc = "done" /\ ~c.failed => rolePerms[call.role] = None
  BY <1>1, <1>2, <1>4 DEF Calls, Refused
<1>6. ReadInv(c)
  BY <1>1, <1>2, <1>5 DEF ReadInv, Past
<1>7. RoleInv(c)
  BY <1>1, <1>2, <1>5 DEF RoleInv, Past
<1>8. AnswerInv(c)
  BY <1>1, <1>2, <1>3, <1>5 DEF AnswerInv
<1>9. QED
  BY <1>1, <1>4, <1>5, <1>6, <1>7, <1>8, CallMoves

\* The rows read for the role: listed, they are had; not listed, they are missing.
LEMMA ListedPermissions ==
    ASSUME AccessInv, call.pc = "permissions", NEW listed, listed = WithBaseline(RowsOf(call.role))
    PROVE  /\ listed \subseteq Grant \cup BaselinePermissions
           /\ BaselinePermissions \subseteq listed
           /\ \A p \in listed \ BaselinePermissions :
                 <<"has", call.role, p>> \in was
                 /\ (<<"can", call.acting, p>> \in was \/ <<"holds", call.acting, call.role>> \in lacked)
           /\ \A p \in Grant \ listed :
                 <<"has", call.role, p>> \in lacked
                 /\ (<<"can", call.acting, p>> \in lacked \/ <<"holds", call.acting, call.role>> \in lacked)
<1> DEFINE rows == RowsOf(call.role)
           a == call.acting
           r == call.role
<1>1. /\ RecordedInv /\ Reads(call) /\ a \in User /\ r \in Role
      /\ rolePerms \in [Role -> {None} \cup SUBSET Grant]
  BY DEF AccessInv, ReadInv, RoleInv, Reads, AccessTypeOK, Calls
<1>2. rows \subseteq Grant /\ \A p \in Grant : p \in rows <=> rolePerms[r] # None /\ p \in rolePerms[r]
  BY <1>1 DEF RowsOf
<1>3. ASSUME NEW p \in rows
      PROVE  <<"has", r, p>> \in was /\ (<<"can", a, p>> \in was \/ <<"holds", a, r>> \in lacked)
  <2>1. p \in Grant /\ rolePerms[r] # None /\ p \in rolePerms[r]
    BY <1>2
  <2>2. <<"has", r, p>> \in was
    BY <1>1, <2>1, ReadsAreNoted
  <2>3. CASE Active(a) /\ membership[a].role = r
    BY <1>1, <2>1, <2>2, <2>3, ReadsAreNoted
  <2>4. CASE ~(Active(a) /\ membership[a].role = r)
    BY <1>1, <2>2, <2>4, ReadsAreNoted
  <2>5. QED
    BY <2>3, <2>4
<1>4. ASSUME NEW p \in Grant, p \notin rows
      PROVE  <<"has", r, p>> \in lacked /\ (<<"can", a, p>> \in lacked \/ <<"holds", a, r>> \in lacked)
  <2>1. ~(rolePerms[r] # None /\ p \in rolePerms[r])
    BY <1>2, <1>4
  <2>2. <<"has", r, p>> \in lacked
    BY <1>1, <2>1, ReadsAreNoted
  <2>3. CASE Active(a) /\ membership[a].role = r
    BY <1>1, <2>1, <2>2, <2>3, ReadsAreNoted
  <2>4. CASE ~(Active(a) /\ membership[a].role = r)
    BY <1>1, <2>2, <2>4, ReadsAreNoted
  <2>5. QED
    BY <2>3, <2>4
<1> HIDE DEF rows, a, r
<1>5. listed = BaselinePermissions \cup rows
  BY DEF WithBaseline, rows
<1>6. QED
  BY <1>2, <1>3, <1>4, <1>5 DEF a, r

LEMMA ReadPermissionsKeeps == ASSUME AccessInv, Watch, ReadPermissions PROVE AccessInv'
<1> DEFINE then == [call EXCEPT !.pc = "done", !.outcome = "ok",
                                !.permissions = WithBaseline(RowsOf(call.role))]
           else == Refused(call, "error")
<1>1. /\ UNCHANGED <<tables, accessWrites>> /\ readFaults' \in 0..MaxReadFaults
      /\ call.pc = "permissions"
      /\ call' \in {then, [else EXCEPT !.failed = TRUE]}
  <2>1. Reading("permissions", TRUE, then, else)
    BY DEF ReadPermissions
  <2> HIDE DEF then, else
  <2>2. QED
    BY <2>1, ReadEnds
<1>2. /\ call \in Calls /\ call.acting \in User
      /\ ReadInv(call) /\ RoleInv(call) /\ AnswerInv(call)
  BY <1>1 DEF AccessInv, ReadInv
<1>3. PICK c : c = call'
  OBVIOUS
<1>4. CASE c = then
  <2>1. PICK listed : listed = WithBaseline(RowsOf(call.role))
    OBVIOUS
  <2>2. listed \subseteq Grant \cup BaselinePermissions
    BY <1>1, <2>1, ListedPermissions
  <2>3. c = [call EXCEPT !.pc = "done", !.outcome = "ok", !.permissions = listed]
    BY <1>4, <2>1
  <2>4. /\ c \in Calls /\ c.pc = "done" /\ c.outcome = "ok" /\ c.permissions = listed
        /\ c.acting = call.acting /\ c.ownerAdmin = call.ownerAdmin /\ c.role = call.role
        /\ c.type = call.type /\ c.failed = call.failed
    BY <1>2, <2>2, <2>3 DEF Calls
  <2>5. ReadInv(c)
    BY <1>1, <1>2, <2>4 DEF ReadInv, Past
  <2>6. RoleInv(c)
    BY <1>1, <1>2, <2>4 DEF RoleInv, Past
  <2>7. AnswerInv(c)
    <3>1. /\ BaselinePermissions \subseteq c.permissions
          /\ \A p \in c.permissions \ BaselinePermissions :
                <<"has", c.role, p>> \in was
                /\ (<<"can", c.acting, p>> \in was \/ <<"holds", c.acting, c.role>> \in lacked)
          /\ \A p \in Grant \ c.permissions :
                <<"has", c.role, p>> \in lacked
                /\ (<<"can", c.acting, p>> \in lacked \/ <<"holds", c.acting, c.role>> \in lacked)
      BY <1>1, <2>1, <2>4, ListedPermissions
    <3>2. c.role # None
      BY <1>1, <1>2, <2>4 DEF RoleInv
    <3>3. QED
      BY <2>4, <3>1, <3>2 DEF AnswerInv
  <2>8. QED
    BY <1>1, <1>3, <2>4, <2>5, <2>6, <2>7, CallMoves
<1>5. CASE c = [else EXCEPT !.failed = TRUE]
  <2>1. /\ c \in Calls /\ c.pc = "done" /\ c.outcome = "error" /\ c.failed
        /\ c.acting = call.acting /\ c.ownerAdmin = call.ownerAdmin /\ c.role = call.role
        /\ c.type = call.type /\ c.permissions = call.permissions
    BY <1>2, <1>5 DEF Calls, Refused
  <2>2. ReadInv(c)
    BY <1>1, <1>2, <2>1 DEF ReadInv, Past
  <2>3. RoleInv(c)
    BY <1>1, <1>2, <2>1 DEF RoleInv, Past
  <2>4. AnswerInv(c)
    BY <1>1, <1>2, <2>1 DEF AnswerInv
  <2>5. QED
    BY <1>1, <1>3, <2>1, <2>2, <2>3, <2>4, CallMoves
<1>6. QED
  BY <1>1, <1>3, <1>4, <1>5

----------------------------------------------------------------------------
\* Core's cache expires; other requests write; and the whole specification.
LEMMA ExpireKeeps == ASSUME AccessInv, Watch, Expire PROVE AccessInv'
<1>1. PICK c : c = Idle
  OBVIOUS
<1>2. /\ call' = c /\ c.pc = "idle" /\ c.acting = None /\ ~c.ownerAdmin /\ c.role = None
      /\ c.permissions = {} /\ ~c.failed /\ c.outcome = None /\ c.type = None /\ c \in Calls
  BY <1>1 DEF Expire, Idle, Calls
<1>3. was' = {} /\ lacked' = {}
  BY <1>2 DEF Watch
<1>4. AccessTypeOK'
  BY <1>2, <1>3 DEF AccessInv, AccessTypeOK, Expire, tables
<1>5. RecordedInv'
  BY <1>2 DEF RecordedInv, Reads
<1>6. ReadInv(c)' /\ RoleInv(c)' /\ AnswerInv(c)'
  BY <1>1, <1>2 DEF ReadInv, RoleInv, AnswerInv, Past
<1>7. ReadInv(call)'
  BY <1>2, <1>6 DEF ReadInv, Past
<1>8. RoleInv(call)'
  BY <1>2, <1>6 DEF RoleInv, Past
<1>9. AnswerInv(call)'
  BY <1>2, <1>6 DEF AnswerInv
<1>10. QED
  BY <1>2, <1>4, <1>5, <1>7, <1>8, <1>9 DEF AccessInv

\* Each write leaves the tables in their domains.
LEMMA WritesStayTyped ==
    ASSUME AccessTypeOK, AccessWrite
    PROVE  /\ tokenLive' \in BOOLEAN /\ tenantOn' \in BOOLEAN
           /\ membership' \in [User -> {None} \cup [role : Role, active : BOOLEAN]]
           /\ platformAdmin' \subseteq User
           /\ rolePerms' \in [Role -> {None} \cup SUBSET Grant]
<1>1. CASE RevokeToken
  BY <1>1 DEF RevokeToken, AccessTypeOK
<1>2. CASE WriteTenantStatus
  BY <1>2 DEF WriteTenantStatus, AccessTypeOK
<1>3. ASSUME NEW u \in User, WriteMembership(u)
      PROVE  /\ UNCHANGED <<tokenLive, tenantOn, platformAdmin, rolePerms>>
             /\ membership' \in [User -> {None} \cup [role : Role, active : BOOLEAN]]
  <2>1. PICK m \in {None} \cup [role : {r \in Role : rolePerms[r] # None}, active : BOOLEAN] :
           membership' = [membership EXCEPT ![u] = m]
    BY <1>3 DEF WriteMembership
  <2>2. m \in {None} \cup [role : Role, active : BOOLEAN]
    OBVIOUS
  <2>3. QED
    BY <1>3, <2>1, <2>2 DEF WriteMembership, AccessTypeOK
<1>4. ASSUME NEW u \in User, WriteAdmin(u)
      PROVE  UNCHANGED <<tokenLive, tenantOn, membership, rolePerms>> /\ platformAdmin' \subseteq User
  BY <1>4 DEF WriteAdmin, AccessTypeOK
<1>5. ASSUME NEW r \in Role, ClearPermissions(r) \/ DropRole(r)
      PROVE  /\ UNCHANGED <<tokenLive, tenantOn, membership, platformAdmin>>
             /\ rolePerms' \in [Role -> {None} \cup SUBSET Grant]
  <2>1. PICK s \in {None} \cup SUBSET Grant : rolePerms' = [rolePerms EXCEPT ![r] = s]
    BY <1>5 DEF ClearPermissions, DropRole
  <2>2. QED
    BY <1>5, <2>1 DEF ClearPermissions, DropRole, AccessTypeOK
<1>6. ASSUME NEW r \in Role, NEW p \in Grant, InsertPermission(r, p) \/ DropPermission(r, p)
      PROVE  /\ UNCHANGED <<tokenLive, tenantOn, membership, platformAdmin>>
             /\ rolePerms' \in [Role -> {None} \cup SUBSET Grant]
  <2>1. rolePerms[r] \subseteq Grant /\ rolePerms \in [Role -> {None} \cup SUBSET Grant]
    BY <1>6 DEF InsertPermission, DropPermission, AccessTypeOK
  <2>2. CASE InsertPermission(r, p)
    BY <2>1, <2>2 DEF InsertPermission
  <2>3. CASE DropPermission(r, p)
    BY <2>1, <2>3 DEF DropPermission
  <2>4. QED
    BY <1>6, <2>2, <2>3
<1>7. QED
  BY <1>1, <1>2, <1>3, <1>4, <1>5, <1>6 DEF AccessWrite, AccessTypeOK

LEMMA WritesCount == ASSUME AccessWrite PROVE Writing
BY DEF AccessWrite, RevokeToken, WriteTenantStatus, WriteMembership, WriteAdmin, ClearPermissions,
       DropRole, InsertPermission, DropPermission

LEMMA WriteKeeps == ASSUME AccessInv, Watch, AccessWrite PROVE AccessInv'
<1>1. /\ accessWrites' \in 0..MaxWrites /\ call' = call /\ readFaults' = readFaults
  BY WritesCount, AccessAssumption DEF Writing, AccessInv, AccessTypeOK
<1>2. PICK c : c = call
  OBVIOUS
<1>3. ReadInv(c) /\ RoleInv(c) /\ AnswerInv(c)
  BY <1>2 DEF AccessInv
<1>4. /\ was' \subseteq Fact /\ lacked' \subseteq Fact /\ RecordedInv'
      /\ ReadInv(c)' /\ RoleInv(c)' /\ AnswerInv(c)'
  <2>1. CASE call.pc = "idle"
    <3>1. was' = {} /\ lacked' = {} /\ c = Idle
      BY <1>1, <1>2, <2>1 DEF Watch, AccessInv, ReadInv
    <3>2. /\ c.pc = "idle" /\ c.role = None /\ ~c.ownerAdmin /\ c.permissions = {}
      BY <3>1 DEF Idle
    <3>3. ReadInv(c)' /\ RoleInv(c)' /\ AnswerInv(c)'
      BY <3>1, <3>2 DEF ReadInv, RoleInv, AnswerInv, Past
    <3>4. RecordedInv'
      BY <1>1, <2>1 DEF RecordedInv, Reads
    <3>5. QED
      BY <3>1, <3>3, <3>4
  <2>2. CASE call.pc = "done"
    <3>1. was' = was /\ lacked' = lacked
      BY <1>1, <2>2 DEF Watch
    <3>2. ReadInv(c)' /\ RoleInv(c)' /\ AnswerInv(c)'
      BY <1>3, <3>1, HistoryStays
    <3>3. RecordedInv'
      BY <1>1, <2>2 DEF RecordedInv, Reads
    <3>4. QED
      BY <3>1, <3>2, <3>3 DEF AccessInv, AccessTypeOK
  <2>3. CASE call.pc \notin {"idle", "done"}
    <3>1. /\ was \subseteq was' /\ lacked \subseteq lacked'
          /\ was' \subseteq Fact /\ lacked' \subseteq Fact /\ RecordedInv'
      BY <1>1, <2>3, HistoryGrows DEF AccessInv, AccessTypeOK
    <3>2. ReadInv(c)' /\ RoleInv(c)' /\ AnswerInv(c)'
      BY <1>3, <3>1, HistoryStays
    <3>3. QED
      BY <3>1, <3>2
  <2>4. QED
    BY <2>1, <2>2, <2>3
<1>5. AccessTypeOK'
  BY <1>1, <1>4, WritesStayTyped DEF AccessInv, AccessTypeOK
<1>6. ReadInv(call)'
  BY <1>1, <1>2, <1>4 DEF ReadInv, Past
<1>7. RoleInv(call)'
  BY <1>1, <1>2, <1>4 DEF RoleInv, Past
<1>8. AnswerInv(call)'
  BY <1>1, <1>2, <1>4 DEF AnswerInv
<1>9. QED
  BY <1>1, <1>4, <1>5, <1>6, <1>7, <1>8 DEF AccessInv

LEMMA AccessStarts == ASSUME AccessInit PROVE AccessInv
<1>1. /\ call = Idle /\ call.pc = "idle" /\ call.acting = None /\ ~call.ownerAdmin /\ call.role = None
      /\ call.permissions = {} /\ call \in Calls
  BY DEF AccessInit, Idle, Calls
<1>2. rolePerms \in [Role -> {None} \cup SUBSET Grant]
  <2>1. rolePerms \in [Role -> SUBSET Grant]
    BY AccessAssumption DEF AccessInit
  <2>2. QED
    BY <2>1
<1>3. membership \in [User -> {None} \cup [role : Role, active : BOOLEAN]]
  BY DEF AccessInit
<1>4. AccessTypeOK
  BY <1>1, <1>2, <1>3, AccessAssumption DEF AccessInit, AccessTypeOK
<1>5. RecordedInv /\ ReadInv(call) /\ RoleInv(call) /\ AnswerInv(call)
  BY <1>1 DEF RecordedInv, Reads, ReadInv, RoleInv, AnswerInv, Past
<1>6. QED
  BY <1>1, <1>4, <1>5 DEF AccessInv

LEMMA AccessStutters == ASSUME AccessInv, UNCHANGED accessVars PROVE AccessInv'
<1>1. PICK c : c = call
  OBVIOUS
<1>2. /\ UNCHANGED <<tokenLive, tenantOn, membership, platformAdmin, rolePerms>>
      /\ UNCHANGED <<call, was, lacked, accessWrites, readFaults>>
  BY DEF accessVars, tables
<1>3. ReadInv(c)' /\ RoleInv(c)' /\ AnswerInv(c)'
  BY <1>1, <1>2, HistoryStays DEF AccessInv
<1>4. AccessTypeOK'
  BY <1>2 DEF AccessInv, AccessTypeOK
<1>5. Facts' = Facts
  BY <1>2 DEF Facts, Holds, Active
<1>6. RecordedInv'
  BY <1>2, <1>5 DEF AccessInv, RecordedInv, Reads, Mine
<1>7. ReadInv(call)'
  BY <1>1, <1>2, <1>3 DEF ReadInv, Past
<1>8. RoleInv(call)'
  BY <1>1, <1>2, <1>3 DEF RoleInv, Past
<1>9. AnswerInv(call)'
  BY <1>1, <1>2, <1>3 DEF AnswerInv
<1>10. QED
  BY <1>2, <1>4, <1>6, <1>7, <1>8, <1>9 DEF AccessInv

LEMMA AccessSteps == ASSUME AccessInv, [AccessNext]_accessVars PROVE AccessInv'
<1>1. CASE AccessNext
  <2>1. Watch
    BY <1>1 DEF AccessNext
  <2>2. ASSUME NEW u \in User, Introspect(u) PROVE AccessInv'
    BY <2>1, <2>2, IntrospectKeeps
  <2>3. CASE IntrospectStep
    BY <2>1, <2>3, ReadTokenKeeps, ReadTenantKeeps, ReadOwnerKeeps, ReadOwnerMembershipKeeps,
       ReadMembershipKeeps, ReadActingKeeps, ReadRoleKeeps, ReadPermissionsKeeps DEF IntrospectStep
  <2>4. CASE Expire
    BY <2>1, <2>4, ExpireKeeps
  <2>5. CASE AccessWrite
    BY <2>1, <2>5, WriteKeeps
  <2>6. QED
    BY <1>1, <2>2, <2>3, <2>4, <2>5 DEF AccessNext
<1>2. CASE UNCHANGED accessVars
  BY <1>2, AccessStutters
<1>3. QED
  BY <1>1, <1>2

\* The inductive invariant: what a call has read, it has seen in the tables, and
\* while it reads the history holds everything it could still read.
THEOREM AccessInvariantHolds == AccessSpec => []AccessInv
<1>1. AccessInit => AccessInv
  BY AccessStarts
<1>2. AccessInv /\ [AccessNext]_accessVars => AccessInv'
  BY AccessSteps
<1>3. QED
  BY <1>1, <1>2, PTL DEF AccessSpec

(***************************************************************************)
(* introspect.go: whatever an introspection answers, the tables said       *)
(* during its call, with any number of writes between its reads.           *)
(***************************************************************************)
THEOREM AnswersHold == AccessSpec => []AnswersSound
<1>1. AccessInv => AnswersSound
  <2>1. SUFFICES ASSUME AccessInv PROVE AnswersSound
    OBVIOUS
  <2>2. /\ AccessTypeOK /\ call \in Calls /\ None \notin Role
        /\ ReadInv(call) /\ RoleInv(call) /\ AnswerInv(call)
    BY <2>1, AccessAssumption DEF AccessInv
  <2>3. RefusalsFounded
    BY <2>2 DEF RefusalsFounded, Answered, AnswerInv
  <2>4. ASSUME Accepted PROVE AnswersFounded
    <3>1. call.pc = "done" /\ call.outcome = "ok"
      BY <2>4 DEF Accepted, Answered
    <3>2. /\ {<<"token">>, <<"tenant">>} \subseteq was
          /\ <<"active", Owner>> \in was \/ <<"admin", Owner>> \in was
          /\ <<"active", call.acting>> \in was \/ call.acting = Owner
      BY <2>2, <3>1 DEF ReadInv, Past
    <3>3. call.role # None => <<"holds", call.acting, call.role>> \in was
      BY <2>2 DEF RoleInv
    <3>4. ASSUME NEW p \in call.permissions \ BaselinePermissions
          PROVE  /\ <<"has", call.role, p>> \in was
                 /\ \/ <<"can", call.acting, p>> \in was
                    \/ {<<"holds", call.acting, call.role>>, <<"has", call.role, p>>} \subseteq lacked
      <4>1. call.role # None
        BY <2>2, <3>1 DEF AnswerInv
      <4>2. p \in Grant
        BY <2>2 DEF AccessTypeOK
      <4>3. /\ <<"has", call.role, p>> \in was
            /\ <<"can", call.acting, p>> \in was \/ <<"holds", call.acting, call.role>> \in lacked
        BY <2>2, <3>1, <4>1 DEF AnswerInv
      <4>4. <<"can", call.acting, p>> \in was \/ <<"has", call.role, p>> \in lacked
        BY <2>2, <4>1, <4>2 DEF RoleInv
      <4>5. QED
        BY <4>3, <4>4
    <3>5. QED
      BY <3>2, <3>3, <3>4 DEF AnswersFounded
  <2>5. DenialsFounded
    BY <2>2 DEF DenialsFounded, Accepted, Answered, AnswerInv
  <2>6. QED
    BY <2>2, <2>3, <2>4, <2>5 DEF AnswersSound, AnswersFounded
<1>2. QED
  BY <1>1, AccessInvariantHolds, PTL

----------------------------------------------------------------------------
\* The handlers and their routes.

\* What acts on the tenant of its path is for platform admins.
LEMMA PathHandlersAreGuarded == \A h \in AllHandlers : h.tenant = "path" => h.adminOnly
<1>1. \A names, perm, tenant : \A h \in Guarded(names, TRUE, perm, tenant) : h.adminOnly
  BY DEF Guarded
<1>2. \A names, perm : \A tenant \in {"none", "device", "body"} :
         \A h \in Guarded(names, FALSE, perm, tenant) : h.tenant # "path"
  BY DEF Guarded
<1>3. \A h \in PluginAdminHandlers \cup TenantAdminHandlers \cup MemberAdminHandlers \cup ConsoleHandlers
               \cup RoleAdminHandlers \cup BackupHandlers \cup PlatformAdminHandlers : h.adminOnly
  BY <1>1 DEF AdminOnly, PluginAdminHandlers, TenantAdminHandlers, MemberAdminHandlers,
     ConsoleHandlers, RoleAdminHandlers, BackupHandlers, PlatformAdminHandlers
<1>4. \A h \in SignUpHandlers \cup SignInHandlers \cup ConsoleFiles \cup CallerHandlers
               \cup InstallHandlers : h.tenant # "path"
  BY <1>2 DEF Unchecked, SignUpHandlers, SignInHandlers, ConsoleFiles, CallerHandlers, InstallHandlers
<1>5. \A h \in BranchHandlers \cup MemberHandlers \cup PinHandlers \cup CredentialHandlers
               \cup RoleHandlers : h.tenant # "path"
  BY <1>2 DEF Unchecked, Checked, BranchHandlers, MemberHandlers, PinHandlers, CredentialHandlers,
     RoleHandlers
<1>6. QED
  BY <1>3, <1>4, <1>5 DEF AllHandlers

(***************************************************************************)
(* Whoever reaches a tenant that is not the device's was a platform admin  *)
(* during the call.                                                        *)
(***************************************************************************)
THEOREM AdminsCrossTenants == AccessSpec => []CrossTenantByAdmins
<1>1. AccessInv => CrossTenantByAdmins
  <2>1. SUFFICES ASSUME AccessInv, Accepted, NEW s \in Served,
                        Reaches(s[1], s[2]), ActsElsewhere(call, s[2])
                 PROVE  \/ <<"admin", call.acting>> \in was
                        \/ call.failed /\ <<"admin", Owner>> \in was
    BY DEF CrossTenantByAdmins
  <2>2. s[2] \in AllHandlers
    BY DEF Served
  <2>3. isPlatformAdmin(call)
    BY <2>1, <2>2, PathHandlersAreGuarded DEF Reaches, Permits, requirePlatformAdmin, ActsElsewhere
  <2>4. QED
    BY <2>1, <2>3 DEF isPlatformAdmin, AccessInv, RoleInv, Past, Accepted, Answered
<1>2. QED
  BY <1>1, AccessInvariantHolds, PTL

\* The handlers that check a permission: <<handler, method, path, permission>>.
Checks ==
    {<<"createBranch", "POST", "/branches", <<"branch", "write">>>>,
     <<"updateBranch", "PATCH", "/branches/:id", <<"branch", "manage">>>>,
     <<"listMembers", "GET", "/members", <<"user", "read">>>>}
    \cup {<<"addMember", "POST", "/branches/:id/members", <<"user", "invite">>>>,
          <<"updateMemberRole", "PATCH", "/members/:userId", <<"user", "invite">>>>,
          <<"removeMember", "DELETE", "/members/:userId", <<"user", "invite">>>>,
          <<"setMemberStatus", "PATCH", "/members/:userId/status", <<"user", "invite">>>>,
          <<"setMemberPin", "PATCH", "/members/:userId/pin", <<"user", "invite">>>>,
          <<"setMemberPassword", "PATCH", "/members/:userId/password", <<"user", "invite">>>>}
    \cup {<<"listRoles", "GET", "/roles", <<"tenant", "manage">>>>,
          <<"createRole", "POST", "/roles", <<"tenant", "manage">>>>,
          <<"updateRole", "PATCH", "/roles/:id", <<"tenant", "manage">>>>,
          <<"deleteRole", "DELETE", "/roles/:id", <<"tenant", "manage">>>>,
          <<"updateTenant", "PATCH", "/tenant", <<"tenant", "manage">>>>}

LEMMA CheckedHandlers ==
    \A h \in AllHandlers : h.checks # NoPermission =>
        ~h.adminOnly /\ \E t \in Checks : t[1] = h.name /\ t[4] = h.checks
<1> DEFINE Right(h) == h.checks # NoPermission =>
                          ~h.adminOnly /\ \E t \in Checks : t[1] = h.name /\ t[4] = h.checks
<1>1. \A names, adminOnly, tenant : \A h \in Guarded(names, adminOnly, NoPermission, tenant) : Right(h)
  BY DEF Guarded
<1>2. ASSUME NEW names, NEW perm, \A n \in names : \E t \in Checks : t[1] = n /\ t[4] = perm
      PROVE  \A h \in Checked(names, perm) : Right(h)
  BY <1>2 DEF Checked, Guarded
<1>3. /\ \A n \in {"createBranch"} : \E t \in Checks : t[1] = n /\ t[4] = <<"branch", "write">>
      /\ \A n \in {"updateBranch"} : \E t \in Checks : t[1] = n /\ t[4] = <<"branch", "manage">>
      /\ \A n \in {"listMembers"} : \E t \in Checks : t[1] = n /\ t[4] = <<"user", "read">>
  BY DEF Checks
<1>4. /\ \A n \in {"addMember"} : \E t \in Checks : t[1] = n /\ t[4] = <<"user", "invite">>
      /\ \A n \in {"updateMemberRole", "removeMember", "setMemberStatus"} :
            \E t \in Checks : t[1] = n /\ t[4] = <<"user", "invite">>
      /\ \A n \in {"setMemberPin", "setMemberPassword"} :
            \E t \in Checks : t[1] = n /\ t[4] = <<"user", "invite">>
  BY DEF Checks
<1>5. \A n \in {"listRoles", "createRole", "updateRole", "deleteRole", "updateTenant"} :
         \E t \in Checks : t[1] = n /\ t[4] = <<"tenant", "manage">>
  BY DEF Checks
<1> HIDE DEF Right
<1>6. \A h \in BranchHandlers \cup MemberHandlers \cup CredentialHandlers \cup RoleHandlers : Right(h)
  <2>1. \A h \in BranchHandlers : Right(h)
    BY <1>1, <1>2, <1>3, <1>4 DEF BranchHandlers, Unchecked
  <2>2. \A h \in MemberHandlers : Right(h)
    BY <1>2, <1>3, <1>4 DEF MemberHandlers
  <2>3. \A h \in CredentialHandlers : Right(h)
    BY <1>1, <1>2, <1>4 DEF CredentialHandlers, Unchecked
  <2>4. \A h \in RoleHandlers : Right(h)
    BY <1>2, <1>5 DEF RoleHandlers
  <2>5. QED
    BY <2>1, <2>2, <2>3, <2>4
<1>7. \A h \in SignUpHandlers \cup SignInHandlers \cup ConsoleFiles \cup CallerHandlers
               \cup InstallHandlers \cup PinHandlers : Right(h)
  BY <1>1 DEF SignUpHandlers, SignInHandlers, ConsoleFiles, CallerHandlers, InstallHandlers,
     PinHandlers, Unchecked
<1>8. \A h \in PluginAdminHandlers \cup TenantAdminHandlers \cup MemberAdminHandlers \cup ConsoleHandlers
               \cup RoleAdminHandlers \cup BackupHandlers \cup PlatformAdminHandlers : Right(h)
  BY <1>1 DEF PluginAdminHandlers, TenantAdminHandlers, MemberAdminHandlers, ConsoleHandlers,
     RoleAdminHandlers, BackupHandlers, PlatformAdminHandlers, AdminOnly
<1>9. \A h \in AllHandlers : Right(h)
  BY <1>6, <1>7, <1>8 DEF AllHandlers
<1>10. QED
  BY <1>9 DEF Right

\* They are behind one route each.
LEMMA CheckedRoutes == \A r \in Routes, t \in Checks : r[3] = t[1] => r[1] = t[2] /\ r[2] = t[3]
<1> DEFINE Right(r) == \A t \in Checks : r[3] = t[1] => r[1] = t[2] /\ r[2] = t[3]
<1>1. \A r \in AuthRoutes : Right(r)
  BY DEF AuthRoutes, Checks
<1>2. \A r \in PluginRoutes \cup PlatformRoutes : Right(r)
  BY DEF PluginRoutes, PlatformRoutes, Checks
<1>3. \A r \in BranchRoutes : Right(r)
  BY DEF BranchRoutes, Checks
<1>4. \A r \in MemberRoutes : Right(r)
  BY DEF MemberRoutes, Checks
<1>5. \A r \in RoleRoutes \cup TenantRoutes : Right(r)
  BY DEF RoleRoutes, TenantRoutes, Checks
<1>6. \A r \in ConsoleRoutes : Right(r)
  BY DEF ConsoleRoutes, Checks
<1>7. \A r \in BackupRoutes : Right(r)
  BY DEF BackupRoutes, Checks
<1> HIDE DEF Right
<1>8. \A r \in Routes : Right(r)
  BY <1>1, <1>2, <1>3, <1>4, <1>5, <1>6, <1>7 DEF Routes
<1>9. QED
  BY <1>8 DEF Right

\* None of them is public, and each declares what it checks, once.
LEMMA CheckedDeclarations ==
    ASSUME NEW t \in Checks
    PROVE  /\ t[3] \notin PublicPaths /\ Splits(t[4]) /\ t[4] # NoPermission
           /\ <<t[2], t[3], t[4]>> \in DeclaredPermissions
           /\ \A e \in DeclaredPermissions : e[1] = t[2] /\ e[2] = t[3] => e[3] = t[4]
<1>1. t[3] \notin PublicPaths
  BY DEF Checks, PublicPaths
<1>2. Splits(t[4]) /\ t[4] # NoPermission
  <2>1. t[4] \in {<<"branch", "write">>, <<"branch", "manage">>, <<"user", "read">>,
                  <<"user", "invite">>, <<"tenant", "manage">>}
    BY DEF Checks
  <2>2. PICK a \in {"branch", "user", "tenant"}, b \in {"write", "manage", "read", "invite"} :
           t[4] = <<a, b>>
    BY <2>1
  <2>3. Len(<<a, b>>) = 2 /\ <<a, b>>[1] = a /\ <<a, b>>[2] = b /\ Len(<< >>) = 0
    OBVIOUS
  <2>4. a # "" /\ b # ""
    OBVIOUS
  <2>5. t[4] # NoPermission
    BY <2>2, <2>3 DEF NoPermission
  <2>6. Splits(t[4])
    BY <2>2, <2>3, <2>4 DEF Splits, TwoSegments
  <2>7. QED
    BY <2>5, <2>6
<1>3. <<t[2], t[3], t[4]>> \in DeclaredPermissions
  BY DEF Checks, DeclaredPermissions, RouteNeeds
<1>4. \A e \in DeclaredPermissions : e[1] = t[2] /\ e[2] = t[3] => e[3] = t[4]
  BY DEF Checks, DeclaredPermissions, RouteNeeds
<1>5. QED
  BY <1>1, <1>2, <1>3, <1>4

\* So the route of a handler that checks a permission declares that permission.
LEMMA DeclaredIsChecked ==
    ASSUME NEW s \in Served, s[2].checks # NoPermission
    PROVE  /\ ~s[2].adminOnly /\ ~s[1].public /\ s[1].permission = s[2].checks
           /\ Splits(s[2].checks)
<1>1. s[1] \in Manifest /\ s[2] \in AllHandlers /\ s[1].handler = s[2].name
  BY DEF Served
<1>2. ~s[2].adminOnly
  BY <1>1, CheckedHandlers
<1>3. PICK t \in Checks : t[1] = s[2].name /\ t[4] = s[2].checks
  BY <1>1, CheckedHandlers
<1>4. PICK r \in Routes :
         s[1] = [handler    |-> r[3],
                 public     |-> r[2] \in PublicPaths,
                 permission |-> LET d == {e \in DeclaredPermissions : e[1] = r[1] /\ e[2] = r[2]}
                                IN  IF d = {} THEN NoPermission ELSE (CHOOSE e \in d : TRUE)[3]]
  BY <1>1 DEF Manifest
<1> DEFINE d == {e \in DeclaredPermissions : e[1] = r[1] /\ e[2] = r[2]}
<1>5. /\ s[1].handler = r[3] /\ (s[1].public <=> r[2] \in PublicPaths)
      /\ s[1].permission = IF d = {} THEN NoPermission ELSE (CHOOSE e \in d : TRUE)[3]
  <2>1. PICK public, permission :
           /\ public = (r[2] \in PublicPaths)
           /\ permission = IF d = {} THEN NoPermission ELSE (CHOOSE e \in d : TRUE)[3]
    OBVIOUS
  <2>2. s[1] = [handler |-> r[3], public |-> public, permission |-> permission]
    BY <1>4, <2>1, Zenon
  <2>3. s[1].handler = r[3] /\ s[1].public = public /\ s[1].permission = permission
    BY <2>2
  <2>4. QED
    BY <2>1, <2>3, Zenon
<1>6. r[1] = t[2] /\ r[2] = t[3]
  BY <1>1, <1>3, <1>5, CheckedRoutes
<1>7. <<t[2], t[3], t[4]>> \in d
  BY <1>6, CheckedDeclarations
<1>8. \A e \in d : e[3] = t[4]
  BY <1>6, CheckedDeclarations
<1>9. (CHOOSE e \in d : TRUE) \in d
  BY <1>7
<1> HIDE DEF d
<1>10. s[1].permission = t[4]
  BY <1>5, <1>7, <1>8, <1>9
<1>11. ~s[1].public
  BY <1>5, <1>6, CheckedDeclarations
<1>12. Splits(t[4])
  BY CheckedDeclarations
<1>13. QED
  BY <1>2, <1>3, <1>10, <1>11, <1>12

\* On a permission of two segments the gateway's matcher and the plugin's agree,
\* whatever was granted.
LEMMA MatchersAgree ==
    ASSUME NEW granted, NEW required, Splits(required)
    PROVE  Match(granted, required) <=> PermMatch(granted, required)
<1>1. TwoSegments(required) /\ required[1] # "" /\ required[2] # ""
  BY DEF Splits
<1>2. Covers(granted, required) => granted[1] # "" /\ granted[2] # ""
  BY <1>1 DEF Covers
<1>3. QED
  BY <1>1, <1>2 DEF Match, PermMatch, Splits

(***************************************************************************)
(* README:77-80: a handler that checks a permission refuses nobody whom    *)
(* the gateway let through, whatever the roles list.                       *)
(***************************************************************************)
THEOREM GuardsAgree == AccessSpec => []HandlersAgree
<1>1. HandlersAgree
  <2>1. SUFFICES ASSUME call.type = "tenant_user", NEW s \in Served, s[2].checks # NoPermission
                 PROVE  GatewayLets(call, s[1]) <=> Permits(call, s[2])
    BY DEF HandlersAgree
  <2>2. ~isPlatformAdmin(call)
    BY <2>1 DEF isPlatformAdmin
  <2> DEFINE needed == s[2].checks
  <2>3. /\ ~s[2].adminOnly /\ ~s[1].public /\ s[1].permission = needed /\ Splits(needed)
        /\ needed # NoPermission
    BY <2>1, DeclaredIsChecked
  <2>4. GatewayLets(call, s[1]) <=> Allows(call.permissions, s[1].permission)
    BY <2>2, <2>3 DEF GatewayLets
  <2>5. Permits(call, s[2]) <=> HasPermission(call.permissions, needed)
    BY <2>3 DEF Permits, requirePlatformAdmin, requirePerm
  <2> HIDE DEF needed
  <2>6. Allows(call.permissions, s[1].permission) <=> HasPermission(call.permissions, needed)
    BY <2>3, MatchersAgree DEF Allows, HasPermission
  <2>7. QED
    BY <2>4, <2>5, <2>6
<1>2. QED
  BY <1>1, PTL
=============================================================================
