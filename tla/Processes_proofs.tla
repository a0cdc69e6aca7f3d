--------------------------- MODULE Processes_proofs ---------------------------
(* Theorems of Seeding and Runtime, the two parts every process of the service *)
(* runs by itself: for any number of processes, roles, permissions, versions.  *)
EXTENDS Seeding, Runtime, FiniteSetTheorems, TLAPS

(***************************************************************************)
(* Seeding.                                                                *)
(***************************************************************************)
RoleRow == [role : SystemRole, perm : Perm, id : Nat]

Boots ==
    [at : {"find", "create", "list", "add", "remove", "serving", "dead"},
     role : SystemRole \cup {Unborn}, todo : SUBSET SystemRole, have : SUBSET RoleRow]

OnRole(b) == b.at \in {"create", "list", "add", "remove"}

\* A boot that is not over has roles to do, and what it listed are rows of its
\* role, which is there by then.
BootShape(b) ==
    /\ b.at = "find" => b.todo # {}
    /\ b.at = "serving" => b.todo = {}
    /\ OnRole(b) => b.role \in SystemRole
    /\ b.at \in {"list", "add", "remove"} => b.role \in roleRows
    /\ b.at \in {"add", "remove"} => \A row \in b.have : row.role = b.role

SeedDomains ==
    /\ version \in [Instance -> Wanted]
    /\ permRows \subseteq RoleRow
    /\ boot \in [Instance -> Boots]
    /\ alone \in [Instance -> BOOLEAN]
    /\ rowsMade \in Nat
    /\ \A i \in Instance : BootShape(boot[i])

\* What a role has when no version is half-way through it.
RoleComplete(r) ==
    /\ r \in roleRows
    /\ AllWant(r) \subseteq Permissions(r)
    /\ Permissions(r) \subseteq AnyWants(r)

\* What i has listed still holds every row all versions want, and every row that
\* none wants; once it has added, all of the former are there.
ListInv(i) ==
    LET b == boot[i] IN
    b.at \in {"add", "remove"} =>
        /\ \A row \in b.have : row.perm \in AllWant(b.role) => row \in permRows
        /\ \A row \in permRows : row.role = b.role /\ row.perm \notin AnyWants(b.role) => row \in b.have
        /\ b.at = "remove" => AllWant(b.role) \subseteq Permissions(b.role)

DoneWith(b, r) == r \notin b.todo /\ (b.at \in {"find", "serving"} \/ (OnRole(b) /\ r # b.role))

DoneInv(i) == \A r \in SystemRole : DoneWith(boot[i], r) => RoleComplete(r)

\* What a boot that runs alone read is still so.
AloneInv(i) ==
    LET b == boot[i] IN
    alone[i] =>
        /\ b.at = "create" => b.role \notin roleRows
        /\ b.at \in {"add", "remove"} => b.have = RowsOf(b.role)

SeedInv ==
    /\ SeedTypeOK /\ SeedDomains
    /\ \A i \in Instance : ListInv(i) /\ DoneInv(i) /\ AloneInv(i)

LEMMA WantFacts ==
    ASSUME version \in [Instance -> Wanted], NEW i \in Instance, NEW r \in SystemRole
    PROVE  /\ version[i][r] \subseteq Perm
           /\ AllWant(r) \subseteq version[i][r]
           /\ version[i][r] \subseteq AnyWants(r)
<1>1. version[i] \in [SystemRole -> SUBSET Perm]
  BY SeedingAssumption
<1>2. QED
  BY <1>1 DEF AllWant, AnyWants

\* A boot that is dead owes nothing.
Dead == [Booting EXCEPT !.at = "dead"]

LEMMA DeadBoot ==
    /\ Booting \in Boots /\ Booting.at = "find" /\ Booting.todo = SystemRole
    /\ Dead \in Boots /\ Dead.at = "dead"
BY DEF Booting, Dead, Boots

LEMMA SeedInitInv == SeedInit => SeedInv
<1> SUFFICES ASSUME SeedInit PROVE SeedInv
  OBVIOUS
<1>1. PICK pairs \in SUBSET (roleRows \X Perm) :
        permRows = {[role |-> q[1], perm |-> q[2], id |-> 0] : q \in pairs}
  BY DEF SeedInit
<1>2. \A row \in permRows : row \in RoleRow /\ row.role \in roleRows /\ row.id = 0
  <2> SUFFICES ASSUME NEW row \in permRows
               PROVE  row \in RoleRow /\ row.role \in roleRows /\ row.id = 0
    OBVIOUS
  <2>1. PICK q \in pairs : row = [role |-> q[1], perm |-> q[2], id |-> 0]
    BY <1>1
  <2>2. q[1] \in roleRows /\ q[2] \in Perm
    BY <2>1
  <2>3. QED
    BY <2>1, <2>2 DEF RoleRow, SeedInit
<1>3. \A row, other \in permRows : row.role = other.role /\ row.perm = other.perm => row = other
  <2> SUFFICES ASSUME NEW row \in permRows, NEW other \in permRows,
                      row.role = other.role, row.perm = other.perm
               PROVE  row = other
    OBVIOUS
  <2>1. row \in RoleRow /\ other \in RoleRow /\ row.id = 0 /\ other.id = 0
    BY <1>2
  <2>2. QED
    BY <2>1 DEF RoleRow
<1>4. \A i \in Instance : boot[i] = Dead
  BY DEF SeedInit, Dead
<1>5. SeedDomains
  <2>1. \A i \in Instance : BootShape(boot[i])
    BY <1>4, DeadBoot DEF BootShape, OnRole
  <2>2. boot \in [Instance -> Boots]
    BY DeadBoot DEF SeedInit, Dead
  <2>3. QED
    BY <1>2, <2>1, <2>2 DEF SeedInit, SeedDomains
<1>6. SeedTypeOK
  <2>1. \A i \in Instance : boot[i].todo \subseteq SystemRole
    BY <1>5 DEF SeedDomains, Boots
  <2>2. \A row \in permRows : row.role \in roleRows /\ row.perm \in Perm /\ row.id \in 0..rowsMade
    BY <1>2 DEF SeedInit, RoleRow
  <2>3. rowsMade \in 0..MaxRows /\ deaths \in 0..MaxDeaths
    BY SeedingAssumption DEF SeedInit
  <2>4. QED
    BY <1>3, <2>1, <2>2, <2>3 DEF SeedInit, SeedTypeOK
<1>7. \A i \in Instance : ListInv(i) /\ DoneInv(i) /\ AloneInv(i)
  BY <1>4, DeadBoot DEF ListInv, DoneInv, AloneInv, DoneWith, OnRole
<1>8. QED
  BY <1>5, <1>6, <1>7 DEF SeedInv

----------------------------------------------------------------------------
\* How a step of any boot moves the two tables: no role's row goes, no permission
\* goes that all versions want, and none comes that none wants.
TablesMove ==
    /\ roleRows \subseteq roleRows'
    /\ version' = version
    /\ \A row \in permRows : row \notin permRows' => row.perm \notin AllWant(row.role)
    /\ \A row \in permRows' : row \notin permRows => row.perm \in AnyWants(row.role)

LEMMA MoveKeeps ==
    ASSUME SeedInv, TablesMove, NEW r
    PROVE  /\ AllWant(r)' = AllWant(r) /\ AnyWants(r)' = AnyWants(r)
           /\ AllWant(r) \cap Permissions(r) \subseteq Permissions(r)'
           /\ Permissions(r)' \subseteq Permissions(r) \cup AnyWants(r)
           /\ RoleComplete(r) => RoleComplete(r)'
<1>1. AllWant(r)' = AllWant(r) /\ AnyWants(r)' = AnyWants(r)
  BY DEF TablesMove, AllWant, AnyWants
<1>2. AllWant(r) \cap Permissions(r) \subseteq Permissions(r)'
  <2> SUFFICES ASSUME NEW x \in AllWant(r), x \in Permissions(r) PROVE x \in Permissions(r)'
    OBVIOUS
  <2>1. PICK row \in permRows : row.role = r /\ row.perm = x
    BY DEF Permissions, RowsOf
  <2>2. row \in permRows'
    BY <2>1 DEF TablesMove
  <2>3. QED
    BY <2>1, <2>2 DEF Permissions, RowsOf
<1>3. Permissions(r)' \subseteq Permissions(r) \cup AnyWants(r)
  <2> SUFFICES ASSUME NEW x \in Permissions(r)', x \notin AnyWants(r) PROVE x \in Permissions(r)
    OBVIOUS
  <2>1. PICK row \in permRows' : row.role = r /\ row.perm = x
    BY DEF Permissions, RowsOf
  <2>2. row \in permRows
    BY <2>1 DEF TablesMove
  <2>3. QED
    BY <2>1, <2>2 DEF Permissions, RowsOf
<1>4. RoleComplete(r) => RoleComplete(r)'
  BY <1>1, <1>2, <1>3 DEF RoleComplete, TablesMove
<1>5. QED
  BY <1>1, <1>2, <1>3, <1>4

\* A boot that stands still while another moves the tables keeps what it holds.
LEMMA StandingBoot ==
    ASSUME SeedInv, TablesMove, NEW j \in Instance, boot'[j] = boot[j],
           alone'[j] => ~Running(j)
    PROVE  BootShape(boot[j])' /\ ListInv(j)' /\ DoneInv(j)' /\ AloneInv(j)'
<1> DEFINE b == boot[j]
<1>1. b \in Boots /\ BootShape(b) /\ ListInv(j) /\ DoneInv(j)
  BY DEF SeedInv, SeedDomains
<1>2. BootShape(boot[j])'
  BY <1>1 DEF BootShape, TablesMove, OnRole
<1>3. ListInv(j)'
  <2> SUFFICES ASSUME b.at \in {"add", "remove"}
               PROVE  /\ \A row \in b.have : row.perm \in AllWant(b.role)' => row \in permRows'
                      /\ \A row \in permRows' :
                            row.role = b.role /\ row.perm \notin AnyWants(b.role)' => row \in b.have
                      /\ b.at = "remove" => AllWant(b.role)' \subseteq Permissions(b.role)'
    BY DEF ListInv, AllWant, AnyWants, Permissions, RowsOf
  <2>1. AllWant(b.role)' = AllWant(b.role) /\ AnyWants(b.role)' = AnyWants(b.role)
    BY MoveKeeps DEF AllWant, AnyWants, TablesMove
  <2>2. \A row \in b.have : row.role = b.role
    BY <1>1 DEF BootShape
  <2>3. \A row \in b.have : row.perm \in AllWant(b.role) => row \in permRows'
    BY <1>1, <2>2 DEF ListInv, TablesMove
  <2>4. \A row \in permRows' : row.role = b.role /\ row.perm \notin AnyWants(b.role) => row \in b.have
    BY <1>1 DEF ListInv, TablesMove
  <2>5. ASSUME b.at = "remove" PROVE AllWant(b.role) \subseteq Permissions(b.role)'
    <3>1. AllWant(b.role) \subseteq Permissions(b.role)
      BY <1>1, <2>5 DEF ListInv
    <3>2. PICK r : r = b.role
      OBVIOUS
    <3>3. AllWant(r) \cap Permissions(r) \subseteq Permissions(r)'
      BY MoveKeeps
    <3>4. QED
      BY <3>1, <3>2, <3>3 DEF Permissions, RowsOf
  <2>6. QED
    BY <2>1, <2>3, <2>4, <2>5
<1>4. DoneInv(j)'
  BY <1>1, MoveKeeps DEF DoneInv
<1>5. AloneInv(j)'
  BY <1>1 DEF AloneInv, Running
<1>6. QED
  BY <1>2, <1>3, <1>4, <1>5

----------------------------------------------------------------------------
\* What SeedInv says of the tables.
TablesOK ==
    /\ roleRows \subseteq SystemRole /\ permRows \subseteq RoleRow
    /\ \A row \in permRows : row.role \in roleRows /\ row.id \in 0..rowsMade
    /\ \A row, other \in permRows : row.role = other.role /\ row.perm = other.perm => row = other
    /\ rowsMade \in 0..MaxRows /\ deaths \in 0..MaxDeaths

LEMMA TablesFromInv == SeedInv => TablesOK
BY DEF SeedInv, SeedDomains, SeedTypeOK, TablesOK

LEMMA TablesStand ==
    ASSUME SeedInv, UNCHANGED <<roleRows, permRows, rowsMade, version>>, deaths' \in 0..MaxDeaths
    PROVE  TablesMove /\ TablesOK'
BY TablesFromInv DEF TablesMove, TablesOK

\* A step of i keeps the invariant if it keeps what concerns i and the tables.
LEMMA SeedStepKeeps ==
    ASSUME SeedInv, NEW i \in Instance, TablesMove, TablesOK',
           boot' = [boot EXCEPT ![i] = boot'[i]], boot'[i] \in Boots,
           alone' \in [Instance -> BOOLEAN], \A j \in Instance \ {i} : alone'[j] => ~Running(j),
           BootShape(boot[i])', ListInv(i)', DoneInv(i)', AloneInv(i)'
    PROVE  SeedInv'
<1>1. boot \in [Instance -> Boots]
  BY DEF SeedInv, SeedDomains
<1>2. ASSUME NEW j \in Instance
      PROVE  BootShape(boot[j])' /\ ListInv(j)' /\ DoneInv(j)' /\ AloneInv(j)'
  <2>1. CASE j = i
    BY <2>1
  <2>2. CASE j # i
    BY <1>1, <2>2, StandingBoot
  <2>3. QED
    BY <2>1, <2>2
<1>3. boot' \in [Instance -> Boots]
  BY <1>1
<1>4. SeedDomains'
  BY <1>2, <1>3 DEF SeedDomains, SeedInv, TablesOK, TablesMove
<1>5. SeedTypeOK'
  <2>1. \A j \in Instance : boot'[j].todo \subseteq SystemRole
    BY <1>3 DEF Boots
  <2>2. \A row \in permRows' : row.role \in roleRows' /\ row.perm \in Perm /\ row.id \in 0..rowsMade'
    BY DEF TablesOK, RoleRow
  <2>3. QED
    BY <2>1, <2>2 DEF SeedTypeOK, TablesOK
<1>6. QED
  BY <1>2, <1>4, <1>5 DEF SeedInv

\* What StepOf says.
LEMMA StepOfFacts ==
    ASSUME SeedInv, NEW i \in Instance, StepOf(i)
    PROVE  /\ version' = version /\ alone' \in [Instance -> BOOLEAN]
           /\ alone'[i] = alone[i]
           /\ \A j \in Instance \ {i} : ~alone'[j]
BY DEF SeedInv, SeedDomains, StepOf

\* A boot that ends, if nothing else moves.
LEMMA BootEnds ==
    ASSUME SeedInv, NEW i \in Instance, Dies(i), StepOf(i),
           UNCHANGED <<roleRows, permRows, rowsMade>>, deaths' \in 0..MaxDeaths
    PROVE  SeedInv' /\ TablesMove
<1>1. boot' = [boot EXCEPT ![i] = Dead] /\ boot'[i] = Dead
  BY DEF Dies, Becomes, Dead, SeedInv, SeedDomains
<1>2. TablesMove /\ TablesOK'
  BY TablesStand, StepOfFacts
<1>3. BootShape(boot[i])' /\ ListInv(i)' /\ DoneInv(i)' /\ AloneInv(i)'
  BY <1>1, DeadBoot DEF BootShape, ListInv, DoneInv, AloneInv, DoneWith, OnRole
<1>4. QED
  BY <1>1, <1>2, <1>3, DeadBoot, StepOfFacts, SeedStepKeeps

LEMMA StartsKeeps == ASSUME SeedInv, NEW i \in Instance, Starts(i) PROVE SeedInv' /\ TablesMove
<1>1. boot' = [boot EXCEPT ![i] = Booting] /\ boot'[i] = Booting
  BY DEF Starts, Becomes, SeedInv, SeedDomains
<1>2. TablesMove /\ TablesOK'
  BY TablesStand DEF Starts, SeedInv, SeedTypeOK
<1>3. alone' \in [Instance -> BOOLEAN] /\ \A j \in Instance \ {i} : alone'[j] => ~Running(j)
  BY DEF Starts
<1>4. BootShape(boot[i])'
  BY <1>1, DeadBoot, SeedingAssumption DEF BootShape, OnRole
<1>5. ListInv(i)' /\ DoneInv(i)' /\ AloneInv(i)'
  BY <1>1, DeadBoot DEF ListInv, DoneInv, AloneInv, DoneWith, OnRole
<1>6. QED
  BY <1>1, <1>2, <1>3, <1>4, <1>5, DeadBoot, SeedStepKeeps

LEMMA FindRoleKeeps == ASSUME SeedInv, NEW i \in Instance, FindRole(i) PROVE SeedInv' /\ TablesMove
<1> DEFINE b == boot[i]
           r == CHOOSE x \in b.todo : TRUE
           c == [b EXCEPT !.at = IF r \in roleRows THEN "list" ELSE "create",
                          !.role = r, !.todo = b.todo \ {r}]
<1>1. b \in Boots /\ BootShape(b) /\ DoneInv(i) /\ b.at = "find"
  BY DEF SeedInv, SeedDomains, FindRole, Stage
<1>2. r \in b.todo /\ r \in SystemRole
  BY <1>1 DEF BootShape, Boots
<1>3. boot' = [boot EXCEPT ![i] = c] /\ boot'[i] = c
  BY DEF FindRole, Becomes, SeedInv, SeedDomains
<1>4. /\ c \in Boots /\ c.at = (IF r \in roleRows THEN "list" ELSE "create")
      /\ c.role = r /\ c.todo = b.todo \ {r}
  BY <1>1, <1>2 DEF Boots
<1>5. TablesMove /\ TablesOK'
  BY TablesStand, StepOfFacts DEF FindRole, SeedInv, SeedTypeOK
<1> HIDE DEF c, r
<1>6. BootShape(boot[i])'
  BY <1>2, <1>3, <1>4 DEF FindRole, BootShape, OnRole
<1>7. ListInv(i)' /\ AloneInv(i)'
  BY <1>2, <1>3, <1>4 DEF FindRole, ListInv, AloneInv
<1>8. DoneInv(i)'
  <2>1. \A x \in SystemRole : DoneWith(c, x) => DoneWith(b, x)
    BY <1>1, <1>4 DEF DoneWith, OnRole
  <2>2. QED
    BY <1>1, <1>3, <1>5, <2>1, MoveKeeps DEF DoneInv
<1>9. QED
  BY <1>3, <1>4, <1>5, <1>6, <1>7, <1>8, StepOfFacts, SeedStepKeeps DEF FindRole

LEMMA CreateRoleKeeps == ASSUME SeedInv, NEW i \in Instance, CreateRole(i) PROVE SeedInv' /\ TablesMove
<1> DEFINE b == boot[i]
           c == [b EXCEPT !.at = "list"]
<1>1. b \in Boots /\ BootShape(b) /\ DoneInv(i) /\ b.at = "create" /\ b.role \in SystemRole
  BY DEF SeedInv, SeedDomains, CreateRole, Stage, BootShape, OnRole
<1>2. CASE b.role \in roleRows
  <2>1. Dies(i) /\ StepOf(i) /\ UNCHANGED <<roleRows, permRows, rowsMade>> /\ deaths' \in 0..MaxDeaths
    BY <1>2 DEF CreateRole, SeedInv, SeedTypeOK
  <2>2. QED
    BY <2>1, BootEnds
<1>3. CASE b.role \notin roleRows
  <2>1. /\ boot' = [boot EXCEPT ![i] = c] /\ boot'[i] = c
        /\ roleRows' = roleRows \cup {b.role} /\ UNCHANGED <<permRows, rowsMade, deaths>>
        /\ StepOf(i)
    BY <1>3 DEF CreateRole, Becomes, SeedInv, SeedDomains
  <2>2. c \in Boots /\ c.at = "list" /\ c.role = b.role /\ c.todo = b.todo
    BY <1>1 DEF Boots
  <2>3. TablesMove /\ TablesOK'
    BY <1>1, <2>1, TablesFromInv, StepOfFacts DEF TablesMove, TablesOK
  <2> HIDE DEF c
  <2>4. BootShape(boot[i])'
    BY <1>1, <2>1, <2>2 DEF BootShape, OnRole
  <2>5. ListInv(i)' /\ AloneInv(i)'
    BY <2>1, <2>2 DEF ListInv, AloneInv
  <2>6. DoneInv(i)'
    <3>1. \A x \in SystemRole : DoneWith(c, x) => DoneWith(b, x)
      BY <1>1, <2>2 DEF DoneWith, OnRole
    <3>2. QED
      BY <1>1, <2>1, <2>3, <3>1, MoveKeeps DEF DoneInv
  <2>7. QED
    BY <2>1, <2>2, <2>3, <2>4, <2>5, <2>6, StepOfFacts, SeedStepKeeps
<1>4. QED
  BY <1>2, <1>3

LEMMA ListPermissionsKeeps ==
    ASSUME SeedInv, NEW i \in Instance, ListPermissions(i) PROVE SeedInv' /\ TablesMove
<1> DEFINE b == boot[i]
           c == [b EXCEPT !.at = "add", !.have = RowsOf(b.role)]
<1>1. b \in Boots /\ BootShape(b) /\ DoneInv(i) /\ b.at = "list" /\ b.role \in SystemRole
  BY DEF SeedInv, SeedDomains, ListPermissions, Stage, BootShape, OnRole
<1>2. boot' = [boot EXCEPT ![i] = c] /\ boot'[i] = c
  BY DEF ListPermissions, Becomes, SeedInv, SeedDomains
<1>3. /\ c \in Boots /\ c.at = "add" /\ c.role = b.role /\ c.todo = b.todo
      /\ c.have = RowsOf(b.role)
  BY <1>1 DEF Boots, RowsOf, SeedInv, SeedDomains
<1>4. TablesMove /\ TablesOK'
  BY TablesStand, StepOfFacts DEF ListPermissions, SeedInv, SeedTypeOK
<1>5. permRows' = permRows /\ roleRows' = roleRows
  BY DEF ListPermissions
<1> HIDE DEF c
<1>6. BootShape(boot[i])'
  BY <1>1, <1>2, <1>3, <1>5 DEF BootShape, OnRole, RowsOf
<1>7. ListInv(i)' /\ AloneInv(i)'
  BY <1>2, <1>3, <1>5 DEF ListInv, AloneInv, RowsOf
<1>8. DoneInv(i)'
  <2>1. \A x \in SystemRole : DoneWith(c, x) => DoneWith(b, x)
    BY <1>1, <1>3 DEF DoneWith, OnRole
  <2>2. QED
    BY <1>1, <1>2, <1>4, <2>1, MoveKeeps DEF DoneInv
<1>9. QED
  BY <1>2, <1>3, <1>4, <1>6, <1>7, <1>8, StepOfFacts, SeedStepKeeps DEF ListPermissions

LEMMA AddMissingKeeps ==
    ASSUME SeedInv, NEW i \in Instance, AddMissing(i) PROVE SeedInv' /\ TablesMove
<1> DEFINE b == boot[i]
<1>1. /\ b \in Boots /\ BootShape(b) /\ ListInv(i) /\ DoneInv(i) /\ AloneInv(i)
      /\ b.at = "add" /\ b.role \in SystemRole /\ b.role \in roleRows
  BY DEF SeedInv, SeedDomains, AddMissing, Stage, BootShape, OnRole
<1>2. PICK p \in Missing(i) :
        IF p \in Permissions(b.role) THEN Dies(i) /\ UNCHANGED <<permRows, rowsMade>>
        ELSE LET row == [role |-> b.role, perm |-> p, id |-> rowsMade + 1]
             IN  /\ permRows' = permRows \cup {row}
                 /\ rowsMade' = rowsMade + 1
                 /\ Becomes(i, [b EXCEPT !.have = b.have \cup {row}])
  BY DEF AddMissing
<1>3. StepOf(i) /\ UNCHANGED <<roleRows, deaths>> /\ rowsMade < MaxRows
  BY DEF AddMissing
<1>4. CASE p \in Permissions(b.role)
  BY <1>2, <1>3, <1>4, BootEnds DEF SeedInv, SeedTypeOK
<1>5. CASE p \notin Permissions(b.role)
  <2> DEFINE row == [role |-> b.role, perm |-> p, id |-> rowsMade + 1]
             c == [b EXCEPT !.have = b.have \cup {row}]
  <2>1. /\ boot' = [boot EXCEPT ![i] = c] /\ boot'[i] = c
        /\ permRows' = permRows \cup {row} /\ rowsMade' = rowsMade + 1
    BY <1>2, <1>5 DEF Becomes, SeedInv, SeedDomains
  <2>2. p \in version[i][b.role] /\ p \in Perm /\ p \in AnyWants(b.role)
    BY <1>1, WantFacts DEF Missing, WantedOf, SeedInv, SeedDomains
  <2>3. rowsMade \in Nat /\ MaxRows \in Nat
    BY SeedingAssumption DEF SeedInv, SeedDomains
  <2>4. row \in RoleRow /\ row.role = b.role /\ row.perm = p /\ row.id = rowsMade + 1
    BY <1>1, <2>2, <2>3 DEF RoleRow
  <2>5. c \in Boots /\ c.at = "add" /\ c.role = b.role /\ c.todo = b.todo /\ c.have = b.have \cup {row}
    BY <1>1, <2>4 DEF Boots
  <2> HIDE DEF row, c
  <2>6. TablesMove
    BY <1>3, <2>1, <2>2, <2>4, StepOfFacts DEF TablesMove
  <2>7. \A old \in permRows : old.role = b.role => old.perm # p
    BY <1>5 DEF Permissions, RowsOf
  <2>8. TablesOK'
    <3>1. \A x \in permRows' : x.role \in roleRows' /\ x.id \in 0..rowsMade'
      BY <1>1, <1>3, <2>1, <2>3, <2>4, TablesFromInv DEF TablesOK
    <3>2. \A x, y \in permRows' : x.role = y.role /\ x.perm = y.perm => x = y
      BY <2>1, <2>4, <2>7, TablesFromInv DEF TablesOK
    <3>3. rowsMade' \in 0..MaxRows
      BY <1>3, <2>1, <2>3
    <3>4. QED
      BY <1>3, <2>1, <2>4, <3>1, <3>2, <3>3, TablesFromInv DEF TablesOK
  <2>9. BootShape(boot[i])'
    BY <1>1, <1>3, <2>1, <2>4, <2>5 DEF BootShape, OnRole
  <2>10. ListInv(i)'
    <3>1. \A r : AllWant(r)' = AllWant(r) /\ AnyWants(r)' = AnyWants(r)
      BY <1>3, StepOfFacts DEF AllWant, AnyWants
    <3>2. \A x \in c.have : x.perm \in AllWant(b.role) => x \in permRows'
      BY <1>1, <2>1, <2>5 DEF ListInv
    <3>3. \A x \in permRows' : x.role = b.role /\ x.perm \notin AnyWants(b.role) => x \in c.have
      BY <1>1, <2>1, <2>5 DEF ListInv
    <3>4. QED
      BY <2>1, <2>5, <3>1, <3>2, <3>3, StepOfFacts, <1>3 DEF ListInv, AllWant, AnyWants
  <2>11. AloneInv(i)'
    <3>1. alone[i] => c.have = {x \in permRows' : x.role = c.role}
      BY <1>1, <2>1, <2>4, <2>5 DEF AloneInv, RowsOf
    <3>2. QED
      BY <1>3, <2>1, <2>5, <3>1, StepOfFacts DEF AloneInv, RowsOf
  <2>12. DoneInv(i)'
    <3>1. \A x \in SystemRole : DoneWith(c, x) => DoneWith(b, x)
      BY <1>1, <2>5 DEF DoneWith, OnRole
    <3>2. QED
      BY <1>1, <2>1, <2>6, <3>1, MoveKeeps DEF DoneInv
  <2>13. QED
    BY <1>3, <2>1, <2>5, <2>6, <2>8, <2>9, <2>10, <2>11, <2>12, StepOfFacts, SeedStepKeeps
<1>6. QED
  BY <1>4, <1>5

LEMMA AddedKeeps == ASSUME SeedInv, NEW i \in Instance, Added(i) PROVE SeedInv' /\ TablesMove
<1> DEFINE b == boot[i]
           c == [b EXCEPT !.at = "remove"]
<1>1. /\ b \in Boots /\ BootShape(b) /\ ListInv(i) /\ DoneInv(i) /\ AloneInv(i)
      /\ b.at = "add" /\ b.role \in SystemRole /\ b.role \in roleRows
  BY DEF SeedInv, SeedDomains, Added, Stage, BootShape, OnRole
<1>2. boot' = [boot EXCEPT ![i] = c] /\ boot'[i] = c
  BY DEF Added, Becomes, SeedInv, SeedDomains
<1>3. c \in Boots /\ c.at = "remove" /\ c.role = b.role /\ c.todo = b.todo /\ c.have = b.have
  BY <1>1 DEF Boots
<1>4. TablesMove /\ TablesOK'
  BY TablesStand, StepOfFacts DEF Added, SeedInv, SeedTypeOK
<1>5. permRows' = permRows /\ roleRows' = roleRows /\ version' = version
  BY StepOfFacts DEF Added
<1> HIDE DEF c
<1>6. BootShape(boot[i])'
  BY <1>1, <1>2, <1>3, <1>5 DEF BootShape, OnRole
<1>7. ListInv(i)'
  <2>1. AllWant(b.role) \subseteq Permissions(b.role)
    <3> SUFFICES ASSUME NEW x \in AllWant(b.role) PROVE x \in Permissions(b.role)
      OBVIOUS
    <3>1. x \in version[i][b.role]
      BY <1>1, WantFacts DEF SeedInv, SeedDomains
    <3>2. PICK row \in b.have : row.perm = x
      BY <3>1 DEF Added, Missing, WantedOf
    <3>3. row \in permRows /\ row.role = b.role
      BY <1>1, <3>2 DEF ListInv, BootShape
    <3>4. QED
      BY <3>2, <3>3 DEF Permissions, RowsOf
  <2>2. QED
    BY <1>1, <1>2, <1>3, <1>5, <2>1 DEF ListInv, AllWant, AnyWants, Permissions, RowsOf
<1>8. AloneInv(i)'
  BY <1>1, <1>2, <1>3, <1>5, StepOfFacts DEF Added, AloneInv, RowsOf
<1>9. DoneInv(i)'
  <2>1. \A x \in SystemRole : DoneWith(c, x) => DoneWith(b, x)
    BY <1>1, <1>3 DEF DoneWith, OnRole
  <2>2. QED
    BY <1>1, <1>2, <1>4, <2>1, MoveKeeps DEF DoneInv
<1>10. QED
  BY <1>2, <1>3, <1>4, <1>6, <1>7, <1>8, <1>9, StepOfFacts, SeedStepKeeps DEF Added

LEMMA RemoveExtraKeeps ==
    ASSUME SeedInv, NEW i \in Instance, RemoveExtra(i) PROVE SeedInv' /\ TablesMove
<1> DEFINE b == boot[i]
<1>1. /\ b \in Boots /\ BootShape(b) /\ ListInv(i) /\ DoneInv(i) /\ AloneInv(i)
      /\ b.at = "remove" /\ b.role \in SystemRole /\ b.role \in roleRows
  BY DEF SeedInv, SeedDomains, RemoveExtra, Stage, BootShape, OnRole
<1>2. PICK row \in Extra(i) :
        IF row \notin permRows THEN Dies(i) /\ UNCHANGED permRows
        ELSE /\ permRows' = permRows \ {row}
             /\ Becomes(i, [b EXCEPT !.have = b.have \ {row}])
  BY DEF RemoveExtra
<1>3. StepOf(i) /\ UNCHANGED <<roleRows, rowsMade, deaths>> /\ version' = version
  BY StepOfFacts DEF RemoveExtra
<1>4. CASE row \notin permRows
  BY <1>2, <1>3, <1>4, BootEnds DEF SeedInv, SeedTypeOK
<1>5. CASE row \in permRows
  <2> DEFINE c == [b EXCEPT !.have = b.have \ {row}]
  <2>1. boot' = [boot EXCEPT ![i] = c] /\ boot'[i] = c /\ permRows' = permRows \ {row}
    BY <1>2, <1>5 DEF Becomes, SeedInv, SeedDomains
  <2>2. row \in b.have /\ row.role = b.role /\ row.perm \notin AllWant(b.role)
    BY <1>1, WantFacts DEF Extra, WantedOf, BootShape, SeedInv, SeedDomains
  <2>3. c \in Boots /\ c.at = "remove" /\ c.role = b.role /\ c.todo = b.todo /\ c.have = b.have \ {row}
    BY <1>1 DEF Boots
  <2> HIDE DEF c
  <2>4. TablesMove /\ TablesOK'
    BY <1>3, <2>1, <2>2, TablesFromInv DEF TablesMove, TablesOK
  <2>5. BootShape(boot[i])'
    BY <1>1, <1>3, <2>1, <2>3 DEF BootShape, OnRole
  <2>6. ListInv(i)'
    <3>1. \A r : AllWant(r)' = AllWant(r) /\ AnyWants(r)' = AnyWants(r)
      BY <1>3 DEF AllWant, AnyWants
    <3>2. \A x \in c.have : x.perm \in AllWant(b.role) => x \in permRows'
      BY <1>1, <2>1, <2>3 DEF ListInv
    <3>3. \A x \in permRows' : x.role = b.role /\ x.perm \notin AnyWants(b.role) => x \in c.have
      BY <1>1, <2>1, <2>3 DEF ListInv
    <3>4. AllWant(b.role) \subseteq {x.perm : x \in {y \in permRows' : y.role = b.role}}
      <4>1. PICK r : r = b.role
        OBVIOUS
      <4>2. AllWant(r) \cap Permissions(r) \subseteq Permissions(r)'
        BY <2>4, MoveKeeps
      <4>3. AllWant(r) \subseteq Permissions(r)
        BY <1>1, <4>1 DEF ListInv
      <4>4. QED
        BY <4>1, <4>2, <4>3 DEF Permissions, RowsOf
    <3>5. QED
      BY <1>3, <2>1, <2>3, <3>2, <3>3, <3>4 DEF ListInv, AllWant, AnyWants, Permissions, RowsOf
  <2>7. AloneInv(i)'
    <3>1. alone[i] => c.have = {x \in permRows' : x.role = c.role}
      BY <1>1, <2>1, <2>3 DEF AloneInv, RowsOf
    <3>2. QED
      BY <1>3, <2>1, <2>3, <3>1, StepOfFacts DEF AloneInv, RowsOf
  <2>8. DoneInv(i)'
    <3>1. \A x \in SystemRole : DoneWith(c, x) => DoneWith(b, x)
      BY <1>1, <2>3 DEF DoneWith, OnRole
    <3>2. QED
      BY <1>1, <2>1, <2>4, <3>1, MoveKeeps DEF DoneInv
  <2>9. QED
    BY <1>3, <2>1, <2>3, <2>4, <2>5, <2>6, <2>7, <2>8, StepOfFacts, SeedStepKeeps
<1>6. QED
  BY <1>4, <1>5

LEMMA RemovedKeeps == ASSUME SeedInv, NEW i \in Instance, Removed(i) PROVE SeedInv' /\ TablesMove
<1> DEFINE b == boot[i]
           c == [b EXCEPT !.at = IF b.todo = {} THEN "serving" ELSE "find", !.have = {}]
<1>1. /\ b \in Boots /\ BootShape(b) /\ ListInv(i) /\ DoneInv(i)
      /\ b.at = "remove" /\ b.role \in SystemRole /\ b.role \in roleRows
  BY DEF SeedInv, SeedDomains, Removed, Stage, BootShape, OnRole
<1>2. boot' = [boot EXCEPT ![i] = c] /\ boot'[i] = c
  BY DEF Removed, Becomes, SeedInv, SeedDomains
<1>3. c \in Boots /\ c.at = (IF b.todo = {} THEN "serving" ELSE "find") /\ c.todo = b.todo
  BY <1>1 DEF Boots
<1>4. TablesMove /\ TablesOK'
  BY TablesStand, StepOfFacts DEF Removed, SeedInv, SeedTypeOK
<1> HIDE DEF c
<1>5. BootShape(boot[i])' /\ ListInv(i)' /\ AloneInv(i)'
  BY <1>2, <1>3 DEF BootShape, OnRole, ListInv, AloneInv
<1>6. RoleComplete(b.role)
  <2>1. Permissions(b.role) \subseteq AnyWants(b.role)
    <3> SUFFICES ASSUME NEW row \in permRows, row.role = b.role, row.perm \notin AnyWants(b.role)
                 PROVE  FALSE
      BY DEF Permissions, RowsOf
    <3>1. row \in b.have /\ row.perm \notin version[i][b.role]
      BY <1>1, WantFacts DEF ListInv, SeedInv, SeedDomains
    <3>2. QED
      BY <3>1 DEF Removed, Extra, WantedOf
  <2>2. QED
    BY <1>1, <2>1 DEF RoleComplete, ListInv
<1>7. DoneInv(i)'
  <2>1. \A x \in SystemRole : DoneWith(c, x) => DoneWith(b, x) \/ x = b.role
    BY <1>1, <1>3 DEF DoneWith, OnRole
  <2>2. QED
    BY <1>1, <1>2, <1>4, <1>6, <2>1, MoveKeeps DEF DoneInv
<1>8. QED
  BY <1>2, <1>3, <1>4, <1>5, <1>7, StepOfFacts, SeedStepKeeps DEF Removed

LEMMA CrashKeeps == ASSUME SeedInv, NEW i \in Instance, Crash(i) PROVE SeedInv' /\ TablesMove
<1>1. deaths' \in 0..MaxDeaths
  BY SeedingAssumption DEF Crash, SeedInv, SeedTypeOK
<1>2. QED
  BY <1>1, BootEnds DEF Crash

LEMMA SeedNextKeeps == SeedInv /\ SeedNext => SeedInv' /\ TablesMove
<1> SUFFICES ASSUME SeedInv, NEW i \in Instance, Starts(i) \/ SeedStep(i) \/ Crash(i)
             PROVE  SeedInv' /\ TablesMove
  BY DEF SeedNext
<1>1. CASE Starts(i)
  BY <1>1, StartsKeeps
<1>2. CASE FindRole(i)
  BY <1>2, FindRoleKeeps
<1>3. CASE CreateRole(i)
  BY <1>3, CreateRoleKeeps
<1>4. CASE ListPermissions(i)
  BY <1>4, ListPermissionsKeeps
<1>5. CASE AddMissing(i)
  BY <1>5, AddMissingKeeps
<1>6. CASE Added(i)
  BY <1>6, AddedKeeps
<1>7. CASE RemoveExtra(i)
  BY <1>7, RemoveExtraKeeps
<1>8. CASE Removed(i)
  BY <1>8, RemovedKeeps
<1>9. CASE Crash(i)
  BY <1>9, CrashKeeps
<1>10. QED
  BY <1>1, <1>2, <1>3, <1>4, <1>5, <1>6, <1>7, <1>8, <1>9 DEF SeedStep

LEMMA SeedStutters == SeedInv /\ UNCHANGED seedVars => SeedInv'
<1> SUFFICES ASSUME SeedInv, UNCHANGED seedVars PROVE SeedInv'
  OBVIOUS
<1>1. UNCHANGED <<version, roleRows, permRows, boot, alone, rowsMade, deaths>>
  BY DEF seedVars
<1>2. SeedTypeOK' /\ SeedDomains'
  BY <1>1 DEF SeedInv, SeedTypeOK, SeedDomains, BootShape, OnRole
<1>3. \A r : /\ AllWant(r)' = AllWant(r) /\ AnyWants(r)' = AnyWants(r)
            /\ Permissions(r)' = Permissions(r)
  BY <1>1 DEF AllWant, AnyWants, Permissions, RowsOf
<1>4. ASSUME NEW i \in Instance PROVE ListInv(i)' /\ DoneInv(i)' /\ AloneInv(i)'
  <2>1. ListInv(i) /\ DoneInv(i) /\ AloneInv(i)
    BY DEF SeedInv
  <2>2. ListInv(i)'
    BY <1>1, <2>1 DEF ListInv, AllWant, AnyWants, Permissions, RowsOf
  <2>3. DoneInv(i)'
    BY <1>1, <1>3, <2>1 DEF DoneInv, RoleComplete
  <2>4. AloneInv(i)'
    BY <1>1, <2>1 DEF AloneInv, RowsOf
  <2>5. QED
    BY <2>2, <2>3, <2>4
<1>5. QED
  BY <1>2, <1>4 DEF SeedInv

\* The tables and every boot, as far as it has come, agree in every reachable state.
THEOREM SeedInvariantHolds == SeedSpec => []SeedInv
<1>1. SeedInv /\ [SeedNext]_seedVars => SeedInv'
  BY SeedNextKeeps, SeedStutters
<1>2. QED
  BY <1>1, SeedInitInv, PTL DEF SeedSpec

\* However boots overlap, fail and are started again: once all instances serve, each
\* role has what every version wants and nothing that none wants (store.go:23-131).
THEOREM RolesSeeded == SeedSpec => []RolesSound
<1>1. SeedInv => RolesSound
  <2> SUFFICES ASSUME SeedInv PROVE RolesSound
    OBVIOUS
  <2>1. ASSUME AllServe, NEW r \in SystemRole PROVE RoleComplete(r)
    <3>1. PICK i \in Instance : TRUE
      BY SeedingAssumption
    <3>2. DoneWith(boot[i], r)
      BY <2>1 DEF AllServe, Stage, SeedInv, SeedDomains, BootShape, DoneWith
    <3>3. QED
      BY <3>2 DEF SeedInv, DoneInv
  <2>2. RolesComplete
    BY <2>1 DEF RolesComplete, RoleComplete
  <2>3. QED
    BY <2>2 DEF RolesSound, SeedInv
<1>2. QED
  BY <1>1, SeedInvariantHolds, PTL

\* A boot that runs alone is ended by nothing it finds.
LEMMA LoneBoots == SeedInv /\ SeedNext => LoneBootsSucceed
<1> SUFFICES ASSUME SeedInv, NEW i \in Instance, Starts(i) \/ SeedStep(i) \/ Crash(i),
                    NEW k \in Instance, Running(k), alone[k], deaths' = deaths
             PROVE  boot'[k].at # "dead"
  BY DEF SeedNext, LoneBootsSucceed
<1> DEFINE b == boot[i]
<1>1. /\ boot \in [Instance -> Boots] /\ BootShape(b) /\ AloneInv(i)
      /\ boot[k].at # "dead" /\ deaths \in Nat
  BY DEF SeedInv, SeedDomains, SeedTypeOK, Running
<1>2. ASSUME NEW c, boot' = [boot EXCEPT ![i] = c], c.at # "dead" PROVE boot'[k].at # "dead"
  BY <1>1, <1>2
<1>3. CASE Starts(i)
  BY <1>2, <1>3, DeadBoot DEF Starts, Becomes
<1>4. CASE FindRole(i)
  BY <1>1, <1>2, <1>4 DEF FindRole, Becomes, Boots
<1>5. CASE k # i /\ ~Crash(i)
  BY <1>1, <1>5 DEF Starts, SeedStep, FindRole, CreateRole, ListPermissions, AddMissing, Added,
                    RemoveExtra, Removed, Becomes, Dies
<1>6. CASE k = i /\ CreateRole(i)
  <2>1. b.role \notin roleRows
    BY <1>1, <1>6 DEF CreateRole, Stage, AloneInv
  <2>2. QED
    BY <1>1, <1>2, <1>6, <2>1 DEF CreateRole, Becomes, Boots
<1>7. CASE ListPermissions(i)
  BY <1>1, <1>2, <1>7 DEF ListPermissions, Becomes, Boots
<1>8. CASE k = i /\ AddMissing(i)
  <2>1. b.have = RowsOf(b.role) /\ b.at = "add"
    BY <1>1, <1>8 DEF AddMissing, Stage, AloneInv
  <2>2. \A p \in Missing(i) : p \notin Permissions(b.role)
    BY <2>1 DEF Missing, Permissions
  <2>3. QED
    BY <1>1, <1>2, <1>8, <2>1, <2>2 DEF AddMissing, Becomes, Boots
<1>9. CASE Added(i)
  BY <1>1, <1>2, <1>9 DEF Added, Becomes, Boots
<1>10. CASE k = i /\ RemoveExtra(i)
  <2>1. b.have = RowsOf(b.role) /\ b.at = "remove"
    BY <1>1, <1>10 DEF RemoveExtra, Stage, AloneInv
  <2>2. \A row \in Extra(i) : row \in permRows
    BY <2>1 DEF Extra, RowsOf
  <2>3. QED
    BY <1>1, <1>2, <1>10, <2>1, <2>2 DEF RemoveExtra, Becomes, Boots
<1>11. CASE Removed(i)
  BY <1>1, <1>2, <1>11 DEF Removed, Becomes, Boots
<1>12. CASE Crash(i)
  BY <1>1, <1>12 DEF Crash
<1>13. QED
  BY <1>3, <1>4, <1>5, <1>6, <1>7, <1>8, <1>9, <1>10, <1>11, <1>12 DEF SeedStep

\* No step of a boot takes a permission away that every version wants, and a boot
\* that no other overlaps is not ended by what it finds (store.go:23, :99).
THEOREM BootsDisturbNobody == SeedSpec => BootStepsSound
<1>1. SeedInv /\ [SeedNext]_seedVars => [CommonPermissionsKept /\ LoneBootsSucceed]_seedVars
  <2> SUFFICES ASSUME SeedInv, SeedNext PROVE CommonPermissionsKept /\ LoneBootsSucceed
    OBVIOUS
  <2>1. TablesMove
    BY SeedNextKeeps
  <2>2. CommonPermissionsKept
    BY <2>1, MoveKeeps DEF CommonPermissionsKept
  <2>3. QED
    BY <2>2, LoneBoots
<1>2. QED
  BY <1>1, SeedInvariantHolds, PTL DEF SeedSpec, BootStepsSound

(***************************************************************************)
(* Runtime.                                                                *)
(***************************************************************************)
Owns(p) == entry # None /\ entry.proc = p

\* How a process has come to where it is: a server that does not serve was not
\* started or is closed; what a process does not know of Core makes it unsure.
CourseInv(p) ==
    /\ p \notin serving => pc[p] = "off" \/ stop[p] = "closed"
    /\ pc[p] = "off" => stop[p] = "none" /\ ~unsure[p]
    /\ pc[p] \in {"sent", "answered", "stored"} \/ stray[p] => unsure[p]
    /\ pc[p] = "stored" => id[p] = reply[p]

\* The entry of a process that is sure is the one it knows of; once it deregisters
\* it sends nothing more, and then the entry is gone.
EntryInv(p) ==
    /\ Owns(p) /\ ~unsure[p] /\ ~excused[p] =>
          stop[p] # "none" /\ entry.id = id[p] /\ entry.id = token[p]
    /\ stop[p] \in {"deregister", "shutdown", "closed"} =>
          /\ cancelled[p] \/ pc[p] = "done"
          /\ unsure[p] => excused[p]
    /\ stop[p] = "deregister" /\ ~excused[p] => cred[p] = [id |-> id[p], token |-> token[p]]
    /\ stop[p] \in {"shutdown", "closed"} /\ Owns(p) => excused[p]

RuntimeInv ==
    /\ TypeOK
    /\ ~coreUp => entry = None
    /\ \A p \in Process : CourseInv(p) /\ EntryInv(p)

----------------------------------------------------------------------------
\* Core always finds an id that nobody holds.
LEMMA ImageSize ==
    ASSUME NEW T, NEW f \in [Process -> T]
    PROVE  LET I == {f[p] : p \in Process}
           IN  IsFiniteSet(I) /\ Cardinality(I) \in Nat /\ Cardinality(I) <= Cardinality(Process)
<1> DEFINE I == {f[p] : p \in Process}
<1>1. f \in Surjection(Process, I)
  BY DEF Surjection
<1> HIDE DEF I
<1>2. IsFiniteSet(I) /\ Cardinality(I) <= Cardinality(Process)
  BY <1>1, FreshAssumption, FS_Surjection
<1>3. QED
  BY <1>2, FS_CardinalityType DEF I

LEMMA UnionSize ==
    ASSUME NEW S, NEW T, NEW m \in Nat, NEW n \in Nat, IsFiniteSet(S), IsFiniteSet(T),
           Cardinality(S) <= m, Cardinality(T) <= n
    PROVE  IsFiniteSet(S \cup T) /\ Cardinality(S \cup T) <= m + n
<1>1. IsFiniteSet(S \cap T)
  BY FS_Subset
<1>2. Cardinality(S) \in Nat /\ Cardinality(T) \in Nat /\ Cardinality(S \cap T) \in Nat
  BY <1>1, FS_CardinalityType
<1>3. IsFiniteSet(S \cup T) /\ Cardinality(S \cup T) = Cardinality(S) + Cardinality(T) - Cardinality(S \cap T)
  BY FS_Union
<1>4. QED
  BY <1>2, <1>3

LEMMA FreshId == TypeOK => Fresh \in Id
<1> SUFFICES ASSUME TypeOK PROVE Fresh \in Id
  OBVIOUS
<1> DEFINE c == Cardinality(Process)
           credId == [p \in Process |-> cred[p].id]
           credToken == [p \in Process |-> cred[p].token]
           held == {IF entry = None THEN None ELSE entry.id}
           I == {id[p] : p \in Process}
           T == {token[p] : p \in Process}
           R == {reply[p] : p \in Process}
           CI == {credId[p] : p \in Process}
           CT == {credToken[p] : p \in Process}
           used == held \cup (I \cup (T \cup (R \cup (CI \cup CT))))
<1>1. c \in Nat /\ 1 \in Nat
  BY FreshAssumption, FS_CardinalityType
<1>2. IsFiniteSet(held) /\ Cardinality(held) <= 1
  <2>1. PICK x : x = IF entry = None THEN None ELSE entry.id
    OBVIOUS
  <2>2. IsFiniteSet({x}) /\ Cardinality({x}) = 1
    BY FS_Singleton
  <2>3. QED
    BY <2>1, <2>2
<1>3. /\ IsFiniteSet(I) /\ Cardinality(I) <= c
      /\ IsFiniteSet(T) /\ Cardinality(T) <= c
      /\ IsFiniteSet(R) /\ Cardinality(R) <= c
  <2>1. /\ id \in [Process -> Id \cup {None}]
        /\ token \in [Process -> Id \cup {None}]
        /\ reply \in [Process -> Id \cup {None}]
    BY DEF TypeOK
  <2>2. QED
    BY <2>1, ImageSize
<1>4. IsFiniteSet(CI) /\ Cardinality(CI) <= c
  <2>1. credId \in [Process -> Id \cup {None}]
    BY DEF TypeOK
  <2> HIDE DEF credId
  <2>2. QED
    BY <2>1, ImageSize
<1>5. IsFiniteSet(CT) /\ Cardinality(CT) <= c
  <2>1. credToken \in [Process -> Id \cup {None}]
    BY DEF TypeOK
  <2> HIDE DEF credToken
  <2>2. QED
    BY <2>1, ImageSize
<1> HIDE DEF c, held, I, T, R, CI, CT
<1>6. IsFiniteSet(CI \cup CT) /\ Cardinality(CI \cup CT) <= c + c
  BY <1>1, <1>4, <1>5, UnionSize
<1>7. IsFiniteSet(R \cup (CI \cup CT)) /\ Cardinality(R \cup (CI \cup CT)) <= c + (c + c)
  <2>1. c + c \in Nat
    BY <1>1
  <2>2. QED
    BY <1>1, <1>3, <1>6, <2>1, UnionSize
<1>8. /\ IsFiniteSet(T \cup (R \cup (CI \cup CT)))
      /\ Cardinality(T \cup (R \cup (CI \cup CT))) <= c + (c + (c + c))
  <2>1. c + (c + c) \in Nat
    BY <1>1
  <2>2. QED
    BY <1>1, <1>3, <1>7, <2>1, UnionSize
<1>9. /\ IsFiniteSet(I \cup (T \cup (R \cup (CI \cup CT))))
      /\ Cardinality(I \cup (T \cup (R \cup (CI \cup CT)))) <= c + (c + (c + (c + c)))
  <2>1. c + (c + (c + c)) \in Nat
    BY <1>1
  <2>2. QED
    BY <1>1, <1>3, <1>8, <2>1, UnionSize
<1>10. IsFiniteSet(used) /\ Cardinality(used) <= 1 + (c + (c + (c + (c + c))))
  <2>1. c + (c + (c + (c + c))) \in Nat
    BY <1>1
  <2>2. QED
    BY <1>1, <1>2, <1>9, <2>1, UnionSize
<1> HIDE DEF used
<1>11. ~(Id \subseteq used)
  <2> SUFFICES ASSUME Id \subseteq used PROVE FALSE
    OBVIOUS
  <2>1. IsFiniteSet(Id) /\ Cardinality(Id) <= Cardinality(used)
    BY <1>10, FS_Subset
  <2>2. Cardinality(Id) \in Nat /\ Cardinality(used) \in Nat
    BY <1>10, <2>1, FS_CardinalityType
  <2>3. Cardinality(Id) > 5 * c + 1
    BY <2>1, FreshAssumption DEF c
  <2>4. QED
    BY <1>1, <1>10, <2>1, <2>2, <2>3
<1>12. \E n \in Id :
         /\ entry # None => n # entry.id
         /\ \A p \in Process : n \notin {id[p], token[p], reply[p], cred[p].id, cred[p].token}
  BY <1>11 DEF used, held, I, T, R, CI, CT, credId, credToken
<1>13. QED
  BY <1>12 DEF Fresh

----------------------------------------------------------------------------
\* A process that a step leaves alone keeps what holds of it, unless the entry
\* becomes its own.
Same(q) ==
    /\ pc'[q] = pc[q] /\ stop'[q] = stop[q] /\ id'[q] = id[q] /\ token'[q] = token[q]
    /\ reply'[q] = reply[q] /\ cred'[q] = cred[q] /\ cancelled'[q] = cancelled[q]
    /\ stray'[q] = stray[q] /\ unsure'[q] = unsure[q] /\ excused'[q] = excused[q]
    /\ q \in serving' <=> q \in serving

LEMMA StandingProcess ==
    ASSUME NEW q \in Process, CourseInv(q), EntryInv(q), Same(q), entry' = entry \/ ~Owns(q)'
    PROVE  CourseInv(q)' /\ EntryInv(q)'
<1>1. CourseInv(q)'
  BY DEF CourseInv, Same
<1>2. EntryInv(q)'
  BY DEF EntryInv, Same, Owns
<1>3. QED
  BY <1>1, <1>2

LEMMA RuntimeStepKeeps ==
    ASSUME RuntimeInv, NEW p \in Process, TypeOK', ~coreUp' => entry' = None,
           \A q \in Process \ {p} : Same(q), \A q \in Process \ {p} : entry' = entry \/ ~Owns(q)',
           CourseInv(p)', EntryInv(p)'
    PROVE  RuntimeInv'
BY StandingProcess DEF RuntimeInv

LEMMA RuntimeInitInv == Init => RuntimeInv
<1> SUFFICES ASSUME Init PROVE RuntimeInv
  OBVIOUS
<1>1. TypeOK
  BY FaultsAssumption DEF Init, TypeOK, NoCred
<1>2. QED
  BY <1>1 DEF Init, RuntimeInv, CourseInv, EntryInv, Owns

LEMMA StartKeeps == ASSUME RuntimeInv, NEW p \in Process, Start(p) PROVE RuntimeInv'
<1>1. TypeOK /\ CourseInv(p) /\ EntryInv(p)
  BY DEF RuntimeInv
<1>2. TypeOK'
  BY <1>1, FreshId, FaultsAssumption DEF TypeOK, Start, Goto, At, core, history
<1>3. \A q \in Process \ {p} : Same(q) /\ (entry' = entry \/ ~Owns(q)')
  BY <1>1, AbsentAssumption DEF TypeOK, Same, Owns, Start, Goto, At, core, history
<1>4. CourseInv(p)'
  BY <1>1 DEF TypeOK, CourseInv, Start, Goto, At, core, history
<1>5. EntryInv(p)'
  BY <1>1 DEF TypeOK, CourseInv, EntryInv, Owns, Start, Goto, At, core, history
<1>6. ~coreUp' => entry' = None
  BY DEF RuntimeInv, Start, Goto, At, core, history
<1>7. QED
  BY <1>2, <1>3, <1>4, <1>5, <1>6, RuntimeStepKeeps

LEMMA CancelKeeps == ASSUME RuntimeInv, NEW p \in Process, Cancel(p) PROVE RuntimeInv'
<1>1. TypeOK /\ CourseInv(p) /\ EntryInv(p)
  BY DEF RuntimeInv
<1>2. TypeOK'
  BY <1>1, FreshId, FaultsAssumption DEF TypeOK, Cancel, Set, core, history
<1>3. \A q \in Process \ {p} : Same(q) /\ (entry' = entry \/ ~Owns(q)')
  BY <1>1, AbsentAssumption DEF TypeOK, Same, Owns, Cancel, Set, core, history
<1>4. CourseInv(p)'
  BY <1>1 DEF TypeOK, CourseInv, Cancel, Set, core, history
<1>5. EntryInv(p)'
  BY <1>1 DEF TypeOK, CourseInv, EntryInv, Owns, Cancel, Set, core, history
<1>6. ~coreUp' => entry' = None
  BY DEF RuntimeInv, Cancel, Set, core, history
<1>7. QED
  BY <1>2, <1>3, <1>4, <1>5, <1>6, RuntimeStepKeeps

LEMMA SendRegisterKeeps == ASSUME RuntimeInv, NEW p \in Process, SendRegister(p) PROVE RuntimeInv'
<1>1. TypeOK /\ CourseInv(p) /\ EntryInv(p)
  BY DEF RuntimeInv
<1>2. TypeOK'
  BY <1>1, FreshId, FaultsAssumption DEF TypeOK, SendRegister, Goto, At, Set, MaySend, core, history
<1>3. \A q \in Process \ {p} : Same(q) /\ (entry' = entry \/ ~Owns(q)')
  BY <1>1, AbsentAssumption DEF TypeOK, Same, Owns, SendRegister, Goto, At, Set, MaySend, core, history
<1>4. CourseInv(p)'
  BY <1>1 DEF TypeOK, CourseInv, SendRegister, Goto, At, Set, MaySend, core, history
<1>5. EntryInv(p)'
  BY <1>1 DEF TypeOK, CourseInv, EntryInv, Owns, SendRegister, Goto, At, Set, MaySend, core, history
<1>6. ~coreUp' => entry' = None
  BY DEF RuntimeInv, SendRegister, Goto, At, Set, MaySend, core, history
<1>7. QED
  BY <1>2, <1>3, <1>4, <1>5, <1>6, RuntimeStepKeeps

LEMMA ServeRegisterKeeps == ASSUME RuntimeInv, NEW p \in Process, ServeRegister(p) PROVE RuntimeInv'
<1>1. TypeOK /\ CourseInv(p) /\ EntryInv(p)
  BY DEF RuntimeInv
<1>2. TypeOK'
  BY <1>1, FreshId, FaultsAssumption DEF TypeOK, ServeRegister, Goto, At, Evict, core, history
<1>3. \A q \in Process \ {p} : Same(q) /\ (entry' = entry \/ ~Owns(q)')
  BY <1>1, AbsentAssumption DEF TypeOK, Same, Owns, ServeRegister, Goto, At, Evict, core, history
<1>4. CourseInv(p)'
  BY <1>1 DEF TypeOK, CourseInv, ServeRegister, Goto, At, Evict, core, history
<1>5. EntryInv(p)'
  BY <1>1 DEF TypeOK, CourseInv, EntryInv, Owns, ServeRegister, Goto, At, Evict, core, history
<1>6. ~coreUp' => entry' = None
  BY DEF RuntimeInv, ServeRegister, Goto, At, Evict, core, history
<1>7. QED
  BY <1>2, <1>3, <1>4, <1>5, <1>6, RuntimeStepKeeps

LEMMA RegisterFailsKeeps == ASSUME RuntimeInv, NEW p \in Process, RegisterFails(p) PROVE RuntimeInv'
<1>1. TypeOK /\ CourseInv(p) /\ EntryInv(p)
  BY DEF RuntimeInv
<1>2. TypeOK'
  <2>1. stray' \in [Process -> BOOLEAN]
    <3>1. stray' = stray \/ stray' = [stray EXCEPT ![p] = TRUE]
      BY DEF RegisterFails, Set
    <3>2. QED
      BY <1>1, <3>1 DEF TypeOK
  <2>2. QED
    BY <1>1, <2>1, FaultsAssumption DEF TypeOK, RegisterFails, Goto, At, Fault, core, history
<1>3. \A q \in Process \ {p} : Same(q) /\ (entry' = entry \/ ~Owns(q)')
  BY <1>1, AbsentAssumption DEF TypeOK, Same, Owns, RegisterFails, Goto, At, Set, Fault, core, history
<1>4. CourseInv(p)'
  BY <1>1 DEF TypeOK, CourseInv, RegisterFails, Goto, At, Set, Fault, core, history
<1>5. EntryInv(p)'
  BY <1>1 DEF TypeOK, CourseInv, EntryInv, Owns, RegisterFails, Goto, At, Set, Fault, core, history
<1>6. ~coreUp' => entry' = None
  BY DEF RuntimeInv, RegisterFails, Goto, At, Set, Fault, core, history
<1>7. QED
  BY <1>2, <1>3, <1>4, <1>5, <1>6, RuntimeStepKeeps

LEMMA ServeStrayKeeps == ASSUME RuntimeInv, NEW p \in Process, ServeStray(p) PROVE RuntimeInv'
<1>1. TypeOK /\ CourseInv(p) /\ EntryInv(p)
  BY DEF RuntimeInv
<1>2. TypeOK'
  BY <1>1, FreshId, FaultsAssumption DEF TypeOK, ServeStray, Evict, core, history
<1>3. \A q \in Process \ {p} : Same(q) /\ (entry' = entry \/ ~Owns(q)')
  BY <1>1, AbsentAssumption DEF TypeOK, Same, Owns, ServeStray, Evict, core, history
<1>4. CourseInv(p)'
  BY <1>1 DEF TypeOK, CourseInv, ServeStray, Evict, core, history
<1>5. EntryInv(p)'
  BY <1>1 DEF TypeOK, CourseInv, EntryInv, Owns, ServeStray, Evict, core, history
<1>6. ~coreUp' => entry' = None
  BY DEF RuntimeInv, ServeStray, Evict, core, history
<1>7. QED
  BY <1>2, <1>3, <1>4, <1>5, <1>6, RuntimeStepKeeps

LEMMA AnswerGarbledKeeps == ASSUME RuntimeInv, NEW p \in Process, AnswerGarbled(p) PROVE RuntimeInv'
<1>1. TypeOK /\ CourseInv(p) /\ EntryInv(p)
  BY DEF RuntimeInv
<1>2. TypeOK'
  <2>1. excused' \in [Process -> BOOLEAN]
    <3>1. excused' = excused \/ excused' = [excused EXCEPT ![p] = excused[p] \/ unsure[p]]
      BY DEF AnswerGarbled, GiveUp
    <3>2. QED
      BY <1>1, <3>1 DEF TypeOK
  <2>2. pc' \in [Process -> {"off", "register", "sent", "answered", "stored", "beat", "done"}]
    BY <1>1 DEF TypeOK, AnswerGarbled, Goto, GiveUp, Started
  <2>3. /\ stop' \in [Process -> {"none", "waiting", "deregister", "shutdown", "closed"}]
        /\ serving' \subseteq Process
    BY <1>1 DEF TypeOK, AnswerGarbled, GiveUp, Started
  <2>4. /\ reply' \in [Process -> Id \cup {None}]
        /\ missed' \in [Process -> 0..2]
    BY <1>1 DEF TypeOK, AnswerGarbled, GiveUp
  <2>5. faults' \in 0..MaxFaults
    BY <1>1, FaultsAssumption DEF TypeOK, AnswerGarbled, Fault
  <2>6. UNCHANGED <<coreUp, entry, id, token, cred, cancelled, stray, unsure>>
    BY DEF AnswerGarbled, core
  <2>7. QED
    BY <1>1, <2>1, <2>2, <2>3, <2>4, <2>5, <2>6 DEF TypeOK
<1>3. \A q \in Process \ {p} : Same(q) /\ (entry' = entry \/ ~Owns(q)')
  BY <1>1, AbsentAssumption DEF TypeOK, Same, Owns, AnswerGarbled, Goto, At, Fault, GiveUp, Started, core, history
<1>4. CourseInv(p)'
  BY <1>1 DEF TypeOK, CourseInv, AnswerGarbled, Goto, At, Fault, GiveUp, Started, core, history
<1>5. EntryInv(p)'
  BY <1>1 DEF TypeOK, CourseInv, EntryInv, Owns, AnswerGarbled, Goto, At, Fault, GiveUp, Started, core, history
<1>6. ~coreUp' => entry' = None
  BY DEF RuntimeInv, AnswerGarbled, Goto, At, Fault, GiveUp, Started, core, history
<1>7. QED
  BY <1>2, <1>3, <1>4, <1>5, <1>6, RuntimeStepKeeps

LEMMA RegisterCancelledKeeps == ASSUME RuntimeInv, NEW p \in Process, RegisterCancelled(p) PROVE RuntimeInv'
<1>1. TypeOK /\ CourseInv(p) /\ EntryInv(p)
  BY DEF RuntimeInv
<1>2. TypeOK'
  <2>1. stray' \in [Process -> BOOLEAN]
    <3>1. stray' = stray \/ stray' = [stray EXCEPT ![p] = TRUE]
      BY DEF RegisterCancelled, Set
    <3>2. QED
      BY <1>1, <3>1 DEF TypeOK
  <2>2. excused' \in [Process -> BOOLEAN]
    <3>1. excused' = excused \/ excused' = [excused EXCEPT ![p] = excused[p] \/ unsure[p]]
      BY DEF RegisterCancelled, GiveUp
    <3>2. QED
      BY <1>1, <3>1 DEF TypeOK
  <2>3. pc' \in [Process -> {"off", "register", "sent", "answered", "stored", "beat", "done"}]
    BY <1>1 DEF TypeOK, RegisterCancelled, Goto, GiveUp, Started
  <2>4. /\ stop' \in [Process -> {"none", "waiting", "deregister", "shutdown", "closed"}]
        /\ serving' \subseteq Process
    BY <1>1 DEF TypeOK, RegisterCancelled, GiveUp, Started
  <2>5. reply' \in [Process -> Id \cup {None}]
    BY <1>1 DEF TypeOK, RegisterCancelled, GiveUp
  <2>6. UNCHANGED <<coreUp, entry, id, token, cred, missed, cancelled, unsure, faults>>
    BY DEF RegisterCancelled, core
  <2>7. QED
    BY <1>1, <2>1, <2>2, <2>3, <2>4, <2>5, <2>6 DEF TypeOK
<1>3. \A q \in Process \ {p} : Same(q) /\ (entry' = entry \/ ~Owns(q)')
  BY <1>1, AbsentAssumption DEF TypeOK, Same, Owns, RegisterCancelled, Goto, At, Set, GiveUp, Started, core, history
<1>4. CourseInv(p)'
  BY <1>1 DEF TypeOK, CourseInv, RegisterCancelled, Goto, At, Set, GiveUp, Started, core, history
<1>5. EntryInv(p)'
  BY <1>1 DEF TypeOK, CourseInv, EntryInv, Owns, RegisterCancelled, Goto, At, Set, GiveUp, Started, core, history
<1>6. ~coreUp' => entry' = None
  BY DEF RuntimeInv, RegisterCancelled, Goto, At, Set, GiveUp, Started, core, history
<1>7. QED
  BY <1>2, <1>3, <1>4, <1>5, <1>6, RuntimeStepKeeps

LEMMA StoreIdKeeps == ASSUME RuntimeInv, NEW p \in Process, StoreId(p) PROVE RuntimeInv'
<1>1. TypeOK /\ CourseInv(p) /\ EntryInv(p)
  BY DEF RuntimeInv
<1>2. TypeOK'
  BY <1>1, FreshId, FaultsAssumption DEF TypeOK, StoreId, Goto, At, core, history
<1>3. \A q \in Process \ {p} : Same(q) /\ (entry' = entry \/ ~Owns(q)')
  BY <1>1, AbsentAssumption DEF TypeOK, Same, Owns, StoreId, Goto, At, core, history
<1>4. CourseInv(p)'
  BY <1>1 DEF TypeOK, CourseInv, StoreId, Goto, At, core, history
<1>5. EntryInv(p)'
  BY <1>1 DEF TypeOK, CourseInv, EntryInv, Owns, StoreId, Goto, At, core, history
<1>6. ~coreUp' => entry' = None
  BY DEF RuntimeInv, StoreId, Goto, At, core, history
<1>7. QED
  BY <1>2, <1>3, <1>4, <1>5, <1>6, RuntimeStepKeeps

LEMMA StoreTokenKeeps == ASSUME RuntimeInv, NEW p \in Process, StoreToken(p) PROVE RuntimeInv'
<1>1. TypeOK /\ CourseInv(p) /\ EntryInv(p)
  BY DEF RuntimeInv
<1>2. TypeOK'
  BY <1>1, FreshId, FaultsAssumption DEF TypeOK, StoreToken, Goto, At, Started, core, history
<1>3. \A q \in Process \ {p} : Same(q) /\ (entry' = entry \/ ~Owns(q)')
  BY <1>1, AbsentAssumption DEF TypeOK, Same, Owns, StoreToken, Goto, At, Started, core, history
<1>4. CourseInv(p)'
  BY <1>1 DEF TypeOK, CourseInv, StoreToken, Goto, At, Started, core, history
<1>5. EntryInv(p)'
  BY <1>1 DEF TypeOK, CourseInv, EntryInv, Owns, StoreToken, Goto, At, Started, core, history
<1>6. ~coreUp' => entry' = None
  BY DEF RuntimeInv, StoreToken, Goto, At, Started, core, history
<1>7. QED
  BY <1>2, <1>3, <1>4, <1>5, <1>6, RuntimeStepKeeps

LEMMA HeartbeatOkKeeps == ASSUME RuntimeInv, NEW p \in Process, HeartbeatOk(p) PROVE RuntimeInv'
<1>1. TypeOK /\ CourseInv(p) /\ EntryInv(p)
  BY DEF RuntimeInv
<1>2. TypeOK'
  BY <1>1, FreshId, FaultsAssumption DEF TypeOK, HeartbeatOk, At, Beats, core, history
<1>3. \A q \in Process \ {p} : Same(q) /\ (entry' = entry \/ ~Owns(q)')
  BY <1>1, AbsentAssumption DEF TypeOK, Same, Owns, HeartbeatOk, At, Beats, core, history
<1>4. CourseInv(p)'
  BY <1>1 DEF TypeOK, CourseInv, HeartbeatOk, At, Beats, core, history
<1>5. EntryInv(p)'
  BY <1>1 DEF TypeOK, CourseInv, EntryInv, Owns, HeartbeatOk, At, Beats, core, history
<1>6. ~coreUp' => entry' = None
  BY DEF RuntimeInv, HeartbeatOk, At, Beats, core, history
<1>7. QED
  BY <1>2, <1>3, <1>4, <1>5, <1>6, RuntimeStepKeeps

LEMMA HeartbeatRefusedKeeps == ASSUME RuntimeInv, NEW p \in Process, HeartbeatRefused(p) PROVE RuntimeInv'
<1>1. TypeOK /\ CourseInv(p) /\ EntryInv(p)
  BY DEF RuntimeInv
<1>2. TypeOK'
  BY <1>1, FreshId, FaultsAssumption DEF TypeOK, HeartbeatRefused, Goto, At, Beats, AfterRefusal, core, history
<1>3. \A q \in Process \ {p} : Same(q) /\ (entry' = entry \/ ~Owns(q)')
  BY <1>1, AbsentAssumption DEF TypeOK, Same, Owns, HeartbeatRefused, Goto, At, Beats, AfterRefusal, core, history
<1>4. CourseInv(p)'
  BY <1>1 DEF TypeOK, CourseInv, HeartbeatRefused, Goto, At, Beats, AfterRefusal, core, history
<1>5. EntryInv(p)'
  BY <1>1 DEF TypeOK, CourseInv, EntryInv, Owns, HeartbeatRefused, Goto, At, Beats, AfterRefusal, core, history
<1>6. ~coreUp' => entry' = None
  BY DEF RuntimeInv, HeartbeatRefused, Goto, At, Beats, AfterRefusal, core, history
<1>7. QED
  BY <1>2, <1>3, <1>4, <1>5, <1>6, RuntimeStepKeeps

LEMMA HeartbeatMissedKeeps == ASSUME RuntimeInv, NEW p \in Process, HeartbeatMissed(p) PROVE RuntimeInv'
<1>1. TypeOK /\ CourseInv(p) /\ EntryInv(p)
  BY DEF RuntimeInv
<1>2. TypeOK'
  BY <1>1, FreshId, FaultsAssumption DEF TypeOK, HeartbeatMissed, Goto, At, Beats, Fault, TooMany, core, history
<1>3. \A q \in Process \ {p} : Same(q) /\ (entry' = entry \/ ~Owns(q)')
  BY <1>1, AbsentAssumption DEF TypeOK, Same, Owns, HeartbeatMissed, Goto, At, Beats, Fault, TooMany, core, history
<1>4. CourseInv(p)'
  BY <1>1 DEF TypeOK, CourseInv, HeartbeatMissed, Goto, At, Beats, Fault, TooMany, core, history
<1>5. EntryInv(p)'
  BY <1>1 DEF TypeOK, CourseInv, EntryInv, Owns, HeartbeatMissed, Goto, At, Beats, Fault, TooMany, core, history
<1>6. ~coreUp' => entry' = None
  BY DEF RuntimeInv, HeartbeatMissed, Goto, At, Beats, Fault, TooMany, core, history
<1>7. QED
  BY <1>2, <1>3, <1>4, <1>5, <1>6, RuntimeStepKeeps

LEMMA HeartbeatStopsKeeps == ASSUME RuntimeInv, NEW p \in Process, HeartbeatStops(p) PROVE RuntimeInv'
<1>1. TypeOK /\ CourseInv(p) /\ EntryInv(p)
  BY DEF RuntimeInv
<1>2. TypeOK'
  BY <1>1, FreshId, FaultsAssumption DEF TypeOK, HeartbeatStops, Goto, At, core, history
<1>3. \A q \in Process \ {p} : Same(q) /\ (entry' = entry \/ ~Owns(q)')
  BY <1>1, AbsentAssumption DEF TypeOK, Same, Owns, HeartbeatStops, Goto, At, core, history
<1>4. CourseInv(p)'
  BY <1>1 DEF TypeOK, CourseInv, HeartbeatStops, Goto, At, core, history
<1>5. EntryInv(p)'
  BY <1>1 DEF TypeOK, CourseInv, EntryInv, Owns, HeartbeatStops, Goto, At, core, history
<1>6. ~coreUp' => entry' = None
  BY DEF RuntimeInv, HeartbeatStops, Goto, At, core, history
<1>7. QED
  BY <1>2, <1>3, <1>4, <1>5, <1>6, RuntimeStepKeeps

LEMMA SendDeregisterKeeps == ASSUME RuntimeInv, NEW p \in Process, SendDeregister(p) PROVE RuntimeInv'
<1>1. TypeOK /\ CourseInv(p) /\ EntryInv(p)
  BY DEF RuntimeInv
<1>2. TypeOK'
  BY <1>1, FreshId, FaultsAssumption DEF TypeOK, SendDeregister, core, history
<1>3. \A q \in Process \ {p} : Same(q) /\ (entry' = entry \/ ~Owns(q)')
  BY <1>1, AbsentAssumption DEF TypeOK, Same, Owns, SendDeregister, core, history
<1>4. CourseInv(p)'
  BY <1>1 DEF TypeOK, CourseInv, SendDeregister, core, history
<1>5. EntryInv(p)'
  BY <1>1 DEF TypeOK, CourseInv, EntryInv, Owns, SendDeregister, core, history
<1>6. ~coreUp' => entry' = None
  BY DEF RuntimeInv, SendDeregister, core, history
<1>7. QED
  BY <1>2, <1>3, <1>4, <1>5, <1>6, RuntimeStepKeeps

LEMMA ServeDeregisterKeeps == ASSUME RuntimeInv, NEW p \in Process, ServeDeregister(p) PROVE RuntimeInv'
<1>1. TypeOK /\ CourseInv(p) /\ EntryInv(p)
  BY DEF RuntimeInv
<1>2. TypeOK'
  BY <1>1, FreshId, FaultsAssumption DEF TypeOK, ServeDeregister, Deregistered, NoCred, Recognizes, core, history
<1>3. \A q \in Process \ {p} : Same(q) /\ (entry' = entry \/ ~Owns(q)')
  BY <1>1, AbsentAssumption DEF TypeOK, Same, Owns, ServeDeregister, Deregistered, NoCred, Recognizes, core, history
<1>4. CourseInv(p)'
  BY <1>1 DEF TypeOK, CourseInv, ServeDeregister, Deregistered, NoCred, Recognizes, core, history
<1>5. EntryInv(p)'
  BY <1>1 DEF TypeOK, CourseInv, EntryInv, Owns, ServeDeregister, Deregistered, NoCred, Recognizes, core, history
<1>6. ~coreUp' => entry' = None
  BY DEF RuntimeInv, ServeDeregister, Deregistered, NoCred, Recognizes, core, history
<1>7. QED
  BY <1>2, <1>3, <1>4, <1>5, <1>6, RuntimeStepKeeps

LEMMA DeregisterFailsKeeps == ASSUME RuntimeInv, NEW p \in Process, DeregisterFails(p) PROVE RuntimeInv'
<1>1. TypeOK /\ CourseInv(p) /\ EntryInv(p)
  BY DEF RuntimeInv
<1>2. TypeOK'
  <2>1. excused' \in [Process -> BOOLEAN] /\ faults' \in 0..MaxFaults
    <3>1. excused' = excused \/ excused' = [excused EXCEPT ![p] = TRUE]
      BY DEF DeregisterFails, Set
    <3>2. excused' \in [Process -> BOOLEAN]
      BY <1>1, <3>1 DEF TypeOK
    <3>3. faults' \in 0..MaxFaults
      <4>1. faults' = faults \/ (faults < MaxFaults /\ faults' = faults + 1)
        BY DEF DeregisterFails, Fault
      <4>2. QED
        BY <1>1, <4>1, FaultsAssumption DEF TypeOK
    <3>4. QED
      BY <3>2, <3>3
  <2>2. QED
    BY <1>1, <2>1 DEF TypeOK, DeregisterFails, Deregistered, NoCred, core, history
<1>3. \A q \in Process \ {p} : Same(q) /\ (entry' = entry \/ ~Owns(q)')
  BY <1>1, AbsentAssumption DEF TypeOK, Same, Owns, DeregisterFails, Deregistered, NoCred, Fault, Set, core, history
<1>4. CourseInv(p)'
  BY <1>1 DEF TypeOK, CourseInv, DeregisterFails, Deregistered, NoCred, Fault, Set, core, history
<1>5. EntryInv(p)'
  <2>1. coreUp \/ entry = None
    BY DEF RuntimeInv
  <2>2. CASE coreUp
    BY <1>1, <2>2 DEF TypeOK, CourseInv, EntryInv, Owns, DeregisterFails, Deregistered, NoCred, Fault, Set, core, history
  <2>3. CASE ~coreUp
    BY <1>1, <2>1, <2>3 DEF TypeOK, CourseInv, EntryInv, Owns, DeregisterFails, Deregistered, NoCred, Fault, Set, core, history
  <2>4. QED
    BY <2>2, <2>3
<1>6. ~coreUp' => entry' = None
  BY DEF RuntimeInv, DeregisterFails, Deregistered, NoCred, Fault, Set, core, history
<1>7. QED
  BY <1>2, <1>3, <1>4, <1>5, <1>6, RuntimeStepKeeps

LEMMA ShutdownKeeps == ASSUME RuntimeInv, NEW p \in Process, Shutdown(p) PROVE RuntimeInv'
<1>1. TypeOK /\ CourseInv(p) /\ EntryInv(p)
  BY DEF RuntimeInv
<1>2. TypeOK'
  BY <1>1, FreshId, FaultsAssumption DEF TypeOK, Shutdown, core, history
<1>3. \A q \in Process \ {p} : Same(q) /\ (entry' = entry \/ ~Owns(q)')
  BY <1>1, AbsentAssumption DEF TypeOK, Same, Owns, Shutdown, core, history
<1>4. CourseInv(p)'
  BY <1>1 DEF TypeOK, CourseInv, Shutdown, core, history
<1>5. EntryInv(p)'
  BY <1>1 DEF TypeOK, CourseInv, EntryInv, Owns, Shutdown, core, history
<1>6. ~coreUp' => entry' = None
  BY DEF RuntimeInv, Shutdown, core, history
<1>7. QED
  BY <1>2, <1>3, <1>4, <1>5, <1>6, RuntimeStepKeeps

LEMMA KillKeeps == ASSUME RuntimeInv, NEW p \in Process, Kill(p) PROVE RuntimeInv'
<1>1. TypeOK /\ CourseInv(p) /\ EntryInv(p)
  BY DEF RuntimeInv
<1>2. TypeOK'
  BY <1>1, FreshId, FaultsAssumption DEF TypeOK, Kill, Goto, At, Fault, Set, NoCred, core, history
<1>3. \A q \in Process \ {p} : Same(q) /\ (entry' = entry \/ ~Owns(q)')
  BY <1>1, AbsentAssumption DEF TypeOK, Same, Owns, Kill, Goto, At, Fault, Set, NoCred, core, history
<1>4. CourseInv(p)'
  BY <1>1 DEF TypeOK, CourseInv, Kill, Goto, At, Fault, Set, NoCred, core, history
<1>5. EntryInv(p)'
  BY <1>1 DEF TypeOK, CourseInv, EntryInv, Owns, Kill, Goto, At, Fault, Set, NoCred, core, history
<1>6. ~coreUp' => entry' = None
  BY DEF RuntimeInv, Kill, Goto, At, Fault, Set, NoCred, core, history
<1>7. QED
  BY <1>2, <1>3, <1>4, <1>5, <1>6, RuntimeStepKeeps

LEMMA CoreStopsKeeps == ASSUME RuntimeInv, CoreStops PROVE RuntimeInv'
<1>1. TypeOK' /\ entry' = None
  <2>1. faults' \in 0..MaxFaults
    BY FaultsAssumption DEF RuntimeInv, TypeOK, CoreStops, Fault
  <2>2. stray' \in [Process -> BOOLEAN]
    BY DEF CoreStops
  <2>3. QED
    BY <2>1, <2>2 DEF RuntimeInv, TypeOK, CoreStops, history
<1>2. \A p \in Process : CourseInv(p)' /\ EntryInv(p)'
  BY DEF RuntimeInv, CourseInv, EntryInv, Owns, CoreStops, history
<1>3. QED
  BY <1>1, <1>2 DEF RuntimeInv

LEMMA CoreStartsKeeps == ASSUME RuntimeInv, CoreStarts PROVE RuntimeInv'
<1>1. TypeOK' /\ coreUp'
  BY DEF RuntimeInv, TypeOK, CoreStarts, history
<1>2. \A p \in Process : CourseInv(p)' /\ EntryInv(p)'
  BY DEF RuntimeInv, CourseInv, EntryInv, Owns, CoreStarts, history
<1>3. QED
  BY <1>1, <1>2 DEF RuntimeInv

LEMMA RuntimeNextKeeps == RuntimeInv /\ Next => RuntimeInv'
<1> SUFFICES ASSUME RuntimeInv, Next PROVE RuntimeInv'
  OBVIOUS
<1>1. ASSUME NEW p \in Process, Runs(p) PROVE RuntimeInv'
  BY <1>1, SendRegisterKeeps, ServeRegisterKeeps, RegisterCancelledKeeps, StoreIdKeeps, StoreTokenKeeps,
     HeartbeatOkKeeps, HeartbeatRefusedKeeps, HeartbeatStopsKeeps DEF Runs
<1>2. ASSUME NEW p \in Process, Stops(p) PROVE RuntimeInv'
  BY <1>2, SendDeregisterKeeps, ServeDeregisterKeeps, DeregisterFailsKeeps, ShutdownKeeps DEF Stops
<1>3. ASSUME NEW p \in Process, Fails(p) PROVE RuntimeInv'
  BY <1>3, RegisterFailsKeeps, AnswerGarbledKeeps, HeartbeatMissedKeeps, ServeStrayKeeps, KillKeeps DEF Fails
<1>4. QED
  BY <1>1, <1>2, <1>3, StartKeeps, CancelKeeps, CoreStopsKeeps, CoreStartsKeeps DEF Next

LEMMA RuntimeStutters == RuntimeInv /\ UNCHANGED vars => RuntimeInv'
<1> SUFFICES ASSUME RuntimeInv, UNCHANGED vars PROVE RuntimeInv'
  OBVIOUS
<1>1. TypeOK' /\ (~coreUp' => entry' = None)
  BY DEF RuntimeInv, TypeOK, vars, core, history
<1>2. \A p \in Process : CourseInv(p)' /\ EntryInv(p)'
  BY DEF RuntimeInv, CourseInv, EntryInv, Owns, vars, core, history
<1>3. QED
  BY <1>1, <1>2 DEF RuntimeInv

\* What a process knows of Core's entry, and Core of the process, in every reachable state.
THEOREM RuntimeInvariantHolds == Spec => []RuntimeInv
<1>1. RuntimeInv /\ [Next]_vars => RuntimeInv'
  BY RuntimeNextKeeps, RuntimeStutters
<1>2. QED
  BY <1>1, RuntimeInitInv, PTL DEF Spec

\* Requests are routed to a process that serves them, however many overlap and
\* whatever is lost, but for registrations it could not know of when it ended
\* (plugin.go: Run deregisters before the server is shut down).
THEOREM RoutesHold == Spec => []RoutesSound
<1>1. RuntimeInv => RoutesSound
  BY AbsentAssumption DEF RuntimeInv, TypeOK, CourseInv, EntryInv, Owns, RoutesSound, RoutesServed
<1>2. QED
  BY <1>1, RuntimeInvariantHolds, PTL
=============================================================================
