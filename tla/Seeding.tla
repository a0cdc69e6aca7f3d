------------------------------ MODULE Seeding -------------------------------
(***************************************************************************)
(* Seeding the system roles at every boot (internal/rbac/store.go, called  *)
(* by main.go): several instances, of one version or of two, look each     *)
(* role up, create it, list its permissions, add the missing ones and      *)
(* remove the rest, one statement at a time over one database. A statement *)
(* that fails ends the process, which is started again.                    *)
(***************************************************************************)
EXTENDS Integers, FiniteSets

CONSTANTS
    Instance, SystemRole, Perm,
    Wanted,           \* the permission tables versions may have: sets of role -> permissions
    Unborn,
    MaxDeaths, MaxRows   \* bounds: crashes and failing statements; rows ever inserted

ASSUME SeedingAssumption ==
    /\ Instance # {} /\ SystemRole # {}
    /\ Wanted \subseteq [SystemRole -> SUBSET Perm]
    /\ Unborn \notin Perm
    /\ MaxDeaths \in Nat /\ MaxRows \in Nat

VARIABLES
    version,          \* per instance: what it wants
    roleRows,         \* system roles that have their row
    permRows,         \* permission rows: [role, perm, id]
    boot,             \* per instance: how far its seeding is
    alone,            \* history: no other instance took a step since this boot began
    rowsMade, deaths

seedVars == <<version, roleRows, permRows, boot, alone, rowsMade, deaths>>

\* at: find, create, list, add, remove, serving, dead. todo: roles still to come.
Booting == [at |-> "find", role |-> Unborn, todo |-> SystemRole, have |-> {}]

SeedInit ==
    /\ version \in [Instance -> Wanted]
    /\ roleRows \in SUBSET SystemRole
    /\ \E p \in SUBSET (roleRows \X Perm) :
          permRows = {[role |-> q[1], perm |-> q[2], id |-> 0] : q \in p}
    /\ boot = [i \in Instance |-> [Booting EXCEPT !.at = "dead"]]
    /\ alone = [i \in Instance |-> TRUE]
    /\ rowsMade = 0
    /\ deaths = 0

RowsOf(r) == {row \in permRows : row.role = r}
Permissions(r) == {row.perm : row \in RowsOf(r)}

Stage(i, at) == boot[i].at = at
Becomes(i, rec) == boot' = [boot EXCEPT ![i] = rec]
Running(i) == boot[i].at \notin {"serving", "dead"}
WantedOf(i) == version[i][boot[i].role]
Missing(i) == WantedOf(i) \ {row.perm : row \in boot[i].have}
Extra(i) == {row \in boot[i].have : row.perm \notin WantedOf(i)}

\* A step of i, seen by the other boots.
StepOf(i) ==
    /\ alone' = [j \in Instance |-> IF j = i THEN alone[j] ELSE FALSE]
    /\ UNCHANGED version

Dies(i) == Becomes(i, [Booting EXCEPT !.at = "dead"])

\* The process is started: by hand, or again after it died.
Starts(i) ==
    /\ Stage(i, "dead")
    /\ Becomes(i, Booting)
    /\ alone' = [j \in Instance |-> (j = i /\ \A k \in Instance \ {i} : ~Running(k)) \/ (j # i /\ ~Running(j))]
    /\ UNCHANGED <<version, roleRows, permRows, rowsMade, deaths>>

\* Only: the roles in one fixed order, the same for every process.
FindRole(i) ==
    /\ Stage(i, "find")
    /\ LET r == CHOOSE x \in boot[i].todo : TRUE
       IN  Becomes(i, [boot[i] EXCEPT !.at = IF r \in roleRows THEN "list" ELSE "create",
                                      !.role = r, !.todo = @ \ {r}])
    /\ StepOf(i) /\ UNCHANGED <<roleRows, permRows, rowsMade, deaths>>

\* (tenant_id, slug) is unique, and a system role's tenant_id is "", not NULL.
CreateRole(i) ==
    /\ Stage(i, "create")
    /\ IF boot[i].role \in roleRows THEN Dies(i) /\ UNCHANGED roleRows
       ELSE /\ Becomes(i, [boot[i] EXCEPT !.at = "list"])
            /\ roleRows' = roleRows \cup {boot[i].role}
    /\ StepOf(i) /\ UNCHANGED <<permRows, rowsMade, deaths>>

ListPermissions(i) ==
    /\ Stage(i, "list")
    /\ Becomes(i, [boot[i] EXCEPT !.at = "add", !.have = RowsOf(boot[i].role)])
    /\ StepOf(i) /\ UNCHANGED <<roleRows, permRows, rowsMade, deaths>>

\* (role_id, permission) is unique; every row has an id of its own.
AddMissing(i) ==
    /\ Stage(i, "add") /\ rowsMade < MaxRows
    /\ LET b == boot[i] IN \E p \in Missing(i) :
          IF p \in Permissions(b.role) THEN Dies(i) /\ UNCHANGED <<permRows, rowsMade>>
          ELSE LET row == [role |-> b.role, perm |-> p, id |-> rowsMade + 1]
               IN  /\ permRows' = permRows \cup {row}
                   /\ rowsMade' = rowsMade + 1
                   /\ Becomes(i, [b EXCEPT !.have = @ \cup {row}])
    /\ StepOf(i) /\ UNCHANGED <<roleRows, deaths>>

Added(i) ==
    /\ Stage(i, "add") /\ Missing(i) = {}
    /\ Becomes(i, [boot[i] EXCEPT !.at = "remove"])
    /\ StepOf(i) /\ UNCHANGED <<roleRows, permRows, rowsMade, deaths>>

\* Slip: every row listed goes.
RemoveExtra_All(i) ==
    /\ Stage(i, "remove")
    /\ \E row \in boot[i].have :
          IF row \notin permRows THEN Dies(i) /\ UNCHANGED permRows
          ELSE /\ permRows' = permRows \ {row}
               /\ Becomes(i, [boot[i] EXCEPT !.have = @ \ {row}])
    /\ StepOf(i) /\ UNCHANGED <<roleRows, rowsMade, deaths>>

\* DeleteOneID: no row of that id is an error.
RemoveExtra(i) ==
    /\ Stage(i, "remove")
    /\ \E row \in Extra(i) :
          IF row \notin permRows THEN Dies(i) /\ UNCHANGED permRows
          ELSE /\ permRows' = permRows \ {row}
               /\ Becomes(i, [boot[i] EXCEPT !.have = @ \ {row}])
    /\ StepOf(i) /\ UNCHANGED <<roleRows, rowsMade, deaths>>

\* Slip: the rows that are too many are left.
Removed_Early(i) ==
    /\ Stage(i, "remove")
    /\ Becomes(i, [boot[i] EXCEPT !.at = IF boot[i].todo = {} THEN "serving" ELSE "find", !.have = {}])
    /\ StepOf(i) /\ UNCHANGED <<roleRows, permRows, rowsMade, deaths>>

Removed(i) ==
    /\ Stage(i, "remove") /\ Extra(i) = {}
    /\ Becomes(i, [boot[i] EXCEPT !.at = IF boot[i].todo = {} THEN "serving" ELSE "find", !.have = {}])
    /\ StepOf(i) /\ UNCHANGED <<roleRows, permRows, rowsMade, deaths>>

\* A statement fails, the process crashes or is replaced by a new one.
Crash(i) ==
    /\ ~Stage(i, "dead") /\ deaths < MaxDeaths
    /\ deaths' = deaths + 1
    /\ Dies(i)
    /\ StepOf(i) /\ UNCHANGED <<roleRows, permRows, rowsMade>>

SeedStep(i) ==
    \/ FindRole(i) \/ CreateRole(i) \/ ListPermissions(i)
    \/ AddMissing(i) \/ Added(i) \/ RemoveExtra(i) \/ Removed(i)

SeedNext == \E i \in Instance : Starts(i) \/ SeedStep(i) \/ Crash(i)

SeedSpec ==
    /\ SeedInit /\ [][SeedNext]_seedVars
    /\ \A i \in Instance : WF_seedVars(Starts(i)) /\ WF_seedVars(SeedStep(i))

----------------------------------------------------------------------------
\* Properties.

AllWant(r) == {p \in Perm : \A i \in Instance : p \in version[i][r]}
AnyWants(r) == UNION {version[i][r] : i \in Instance}
AllServe == \A i \in Instance : Stage(i, "serving")

\* Every variable stays in its domain; a role lists a permission once.
SeedTypeOK ==
    /\ roleRows \subseteq SystemRole
    /\ \A row \in permRows : row.role \in roleRows /\ row.perm \in Perm /\ row.id \in 0..rowsMade
    /\ \A row, other \in permRows : row.role = other.role /\ row.perm = other.perm => row = other
    /\ \A i \in Instance : boot[i].todo \subseteq SystemRole
    /\ rowsMade \in 0..MaxRows /\ deaths \in 0..MaxDeaths

(***************************************************************************)
(* store.go:99: rows are added and removed one by one, never cleared and   *)
(* written again, so that a permission every version wants stays there,    *)
(* for requests running meanwhile, through all boots.                      *)
(***************************************************************************)
CommonPermissionsKept ==
    \A r \in SystemRole : AllWant(r) \cap Permissions(r) \subseteq Permissions(r)'

(***************************************************************************)
(* store.go:23: "safe to call on every startup". A boot that no other      *)
(* overlaps is never ended by what it finds: two at a time may trip over   *)
(* each other's rows.                                                      *)
(***************************************************************************)
LoneBootsSucceed ==
    \A i \in Instance : Running(i) /\ alone[i] /\ deaths' = deaths => boot'[i].at # "dead"

\* No step of a boot disturbs the requests of others, or ends a boot that runs alone.
BootStepsSound == [][CommonPermissionsKept /\ LoneBootsSucceed]_seedVars

(***************************************************************************)
(* When all instances serve, every role has all permissions every version  *)
(* wants and none that no version wants.                                   *)
(***************************************************************************)
RolesComplete ==
    AllServe => \A r \in SystemRole :
        r \in roleRows /\ AllWant(r) \subseteq Permissions(r) /\ Permissions(r) \subseteq AnyWants(r)

\* The seeded tables stay in their domains, and no boot ends with a role half seeded.
RolesSound == SeedTypeOK /\ RolesComplete

(***************************************************************************)
(* However the boots of one version trip over each other, they end: all    *)
(* serve, with exactly the permissions of that version, for good.          *)
(***************************************************************************)
BootsConverge ==
    (\A i, j \in Instance : version[i] = version[j])
        => <>[](AllServe /\ \A i \in Instance, r \in SystemRole : Permissions(r) = version[i][r])
=============================================================================
