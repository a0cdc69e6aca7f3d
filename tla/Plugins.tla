------------------------------ MODULE Plugins ------------------------------
(***************************************************************************)
(* One plugin across the tenants: Install, InstallAll, ReconcileAll and    *)
(* Uninstall of internal/pluginmgr/installer.go over RunForTenant and      *)
(* RollbackForTenant of internal/migrator/migrator.go. A migration commits *)
(* in the tenant's schema first and is recorded in the history afterwards, *)
(* calls overlap, and the panic of SaveX, a cancelled request or a crash   *)
(* ends a call anywhere. InstallForNewTenant is in Registration.           *)
(***************************************************************************)
EXTENDS Naturals

CONSTANTS
    Tenant,
    Latest,      \* bound: the versions the plugin ever ships are 1..Latest
    Call,        \* slots: how many calls are in flight at once
    MaxRows,     \* bound: ids of install rows that exist or are held at one time
    MayFail,     \* statements fail and requests are cancelled
    None

Version == 1..Latest
RowId == 1..MaxRows
InstallRow == [tenant : Tenant, id : RowId, migrations : SUBSET Version]

ASSUME BoundAssumption == {Latest, MaxRows} \subseteq Nat
ASSUME SwitchAssumption == MayFail \in BOOLEAN
ASSUME AbsentAssumption == None \notin Tenant \cup Nat /\ None \notin InstallRow

VARIABLES
    installs,  \* plugin_installs; migrations is history: what the installer applied
    applied,   \* plugin_migration_histories: tenant -> versions recorded as applied
    schema,    \* tenant -> versions whose objects are in its schema
    shipped,   \* Core's manifest holds the versions up to this one
    call,      \* the calls in flight
    asked,     \* history: tenants somebody asked to install the plugin for
    torn       \* history: tenants whose history and schema may have come apart

tables == <<installs, applied, schema>>
pluginVars == <<tables, shipped, call, asked, torn>>

Op == {"install", "installAll", "reconcile", "uninstall", "drop"}

\* rest: what a bulk call has still to visit; pending: the versions the migrator
\* goes through.
Process ==
    [pc : {"idle", "exists", "fetch", "list", "next", "applied", "up", "record", "insert",
           "find", "down", "unrecord", "delete"},
     op : Op \cup {"none"},
     tenant : Tenant \cup {None},
     rest : SUBSET Tenant,
     migrations : SUBSET Version,
     pending : SUBSET Version,
     row : InstallRow \cup {None}]

Idle == [pc |-> "idle", op |-> "none", tenant |-> None, rest |-> {}, migrations |-> {},
         pending |-> {}, row |-> None]

PluginsTypeOK ==
    /\ installs \subseteq InstallRow
    /\ \A i, j \in installs : i.tenant = j.tenant /\ i.id = j.id => i = j
    /\ applied \in [Tenant -> SUBSET Version]
    /\ schema \in [Tenant -> SUBSET Version]
    /\ shipped \in 0..Latest
    /\ call \in [Call -> Process]
    /\ asked \subseteq Tenant
    /\ torn \subseteq Tenant

PluginsInit ==
    /\ installs = {}
    /\ applied = [t \in Tenant |-> {}]
    /\ schema = [t \in Tenant |-> {}]
    /\ shipped \in {0, 1} \cap 0..Latest
    /\ call = [c \in Call |-> Idle]
    /\ asked = {}
    /\ torn = {}

CallAt(c, pc) == call[c].pc = pc
CallGoes(c, pc) == call' = [call EXCEPT ![c].pc = pc]
CallReturns(c) == call' = [call EXCEPT ![c] = Idle]

BeginCall(c, process) ==
    /\ CallAt(c, "idle")
    /\ call' = [call EXCEPT ![c] = process]
    /\ UNCHANGED <<tables, shipped>>

BeginInstall(c, t) ==
    /\ BeginCall(c, [Idle EXCEPT !.pc = "exists", !.op = "install", !.tenant = t])
    /\ asked' = asked \cup {t}

\* The active tenants, whichever these are now.
BeginInstallAll(c, active) ==
    /\ BeginCall(c, [Idle EXCEPT !.pc = "next", !.op = "installAll", !.rest = active])
    /\ asked' = asked \cup active

BeginReconcileAll(c) ==
    BeginCall(c, [Idle EXCEPT !.pc = "fetch", !.op = "reconcile"]) /\ UNCHANGED asked

BeginUninstall(c, t, op) ==
    BeginCall(c, [Idle EXCEPT !.pc = "find", !.op = op, !.tenant = t]) /\ UNCHANGED asked

\* External: the plugin registers with Core in a new version.
Ship ==
    /\ shipped < Latest
    /\ shipped' = shipped + 1
    /\ UNCHANGED <<tables, call, asked>>

----------------------------------------------------------------------------
(* Bulk calls *)

Bulk(c) == call[c].op \in {"installAll", "reconcile"}

\* The call is through with this tenant, with or without an error.
NextTenant(c) ==
    call' = [call EXCEPT ![c] = IF Bulk(c)
                                THEN [@ EXCEPT !.pc = "next", !.tenant = None, !.pending = {}]
                                ELSE Idle]

RowsOf(t) == {i \in installs : i.tenant = t}

Installed(t) == RowsOf(t) # {}

\* InstallAll asks whether the tenant has the plugin, and Install asks again.
Visit(c, t) ==
    /\ CallAt(c, "next")
    /\ t \in call[c].rest
    /\ call' = [call EXCEPT ![c] =
         IF call[c].op = "installAll" /\ Installed(t)
         THEN [call[c] EXCEPT !.rest = @ \ {t}]
         ELSE [call[c] EXCEPT !.rest = @ \ {t}, !.tenant = t,
                              !.pc = IF call[c].op = "installAll" THEN "exists" ELSE "applied"]]
    /\ UNCHANGED <<tables, shipped, asked>>

Finish(c) ==
    /\ CallAt(c, "next")
    /\ call[c].rest = {}
    /\ CallReturns(c)
    /\ UNCHANGED <<tables, shipped, asked>>

\* A tenant with two rows is visited once here; its second visit would repeat
\* the first.
Listed == {i.tenant : i \in installs}

ListInstalls(c) ==
    /\ CallAt(c, "list")
    /\ call' = [call EXCEPT ![c].pc = "next", ![c].rest = Listed]
    /\ UNCHANGED <<tables, shipped, asked>>

----------------------------------------------------------------------------
(* Install *)

CheckInstalled(c) ==
    /\ CallAt(c, "exists")
    /\ IF Installed(call[c].tenant) THEN NextTenant(c) ELSE CallGoes(c, "fetch")
    /\ UNCHANGED <<tables, shipped, asked>>

\* Without migrations ReconcileAll is done, Install goes straight to the row
\* and Uninstall rolls nothing back.
AfterFetch(op, migrations) ==
    CASE op = "reconcile" -> IF migrations = {} THEN "idle" ELSE "list"
      [] op = "drop" -> "applied"
      [] OTHER -> IF migrations = {} THEN "insert" ELSE "applied"

FetchMigrations(c) ==
    LET pc == AfterFetch(call[c].op, 1..shipped) IN
    /\ CallAt(c, "fetch")
    /\ call' = [call EXCEPT ![c] = IF pc = "idle" THEN Idle
                                   ELSE [@ EXCEPT !.pc = pc, !.migrations = 1..shipped]]
    /\ UNCHANGED <<tables, shipped, asked>>

\* Slip: the row is written although a migration failed.
AfterFailure_Insert(c) == IF call[c].op = "reconcile" THEN NextTenant(c) ELSE CallGoes(c, "insert")

\* What a migration that failed leads to.
AfterFailure(c) == NextTenant(c)

\* Ids of none of the tenant's rows and of none of them a call holds.
FreshIds(t) ==
    {n \in RowId : \A i \in installs \cup ({call[c].row : c \in Call} \ {None}) :
                      i.tenant = t => i.id # n}

\* No index keeps a second row of the same tenant out.
RecordInstall(c) ==
    LET t == call[c].tenant IN
    /\ CallAt(c, "insert")
    /\ FreshIds(t) # {}
    /\ installs' = installs \cup {[tenant |-> t, id |-> CHOOSE n \in FreshIds(t) : TRUE,
                                   migrations |-> call[c].migrations]}
    /\ NextTenant(c)
    /\ UNCHANGED <<applied, schema, shipped, asked>>

----------------------------------------------------------------------------
(* RunForTenant and RollbackForTenant *)

Rollback(c) == call[c].op = "drop"

\* The versions left to run, given what the history was read to say.
Pending(c, history) ==
    IF Rollback(c) THEN call[c].migrations \cap history ELSE call[c].migrations \ history

\* Where a call is with these versions left.
Turn(c, left) ==
    IF Rollback(c) THEN IF left = {} THEN "delete" ELSE "down"
    ELSE IF left # {} THEN "up"
    ELSE IF call[c].op = "reconcile" THEN "next" ELSE "insert"

Proceed(c, left) ==
    call' = [call EXCEPT ![c].pc = Turn(c, left), ![c].pending = left,
                         ![c].tenant = IF Turn(c, left) = "next" THEN None ELSE @]

\* An error of the query is dropped: the history then looks empty.
ReadApplied(c) ==
    /\ CallAt(c, "applied")
    /\ \/ Proceed(c, Pending(c, applied[call[c].tenant]))
       \/ MayFail /\ Proceed(c, Pending(c, {}))
    /\ UNCHANGED <<tables, shipped, asked>>

Up(versions) == CHOOSE v \in versions : \A w \in versions : v <= w

Down(versions) == CHOOSE v \in versions : \A w \in versions : w <= v

\* Whether SQL that ran before may run again is the plugin's choice.
RunUp(c) ==
    LET t == call[c].tenant
        v == Up(call[c].pending)
    IN
    /\ CallAt(c, "up")
    /\ schema' = [schema EXCEPT ![t] = @ \cup {v}]
    /\ CallGoes(c, "record")
    /\ UNCHANGED <<installs, applied, shipped, asked>>

RecordApplied(c) ==
    LET v == Up(call[c].pending) IN
    /\ CallAt(c, "record")
    /\ applied' = [applied EXCEPT ![call[c].tenant] = @ \cup {v}]
    /\ Proceed(c, call[c].pending \ {v})
    /\ UNCHANGED <<installs, schema, shipped, asked>>

\* The objects are there already, and the plugin's SQL minds.
UpFails(c) ==
    /\ CallAt(c, "up")
    /\ Up(call[c].pending) \in schema[call[c].tenant]
    /\ AfterFailure(c)
    /\ UNCHANGED <<tables, shipped, asked>>

RunDown(c) ==
    LET t == call[c].tenant
        v == Down(call[c].pending)
    IN
    /\ CallAt(c, "down")
    /\ schema' = [schema EXCEPT ![t] = @ \ {v}]
    /\ CallGoes(c, "unrecord")
    /\ UNCHANGED <<installs, applied, shipped, asked>>

\* Slip: the history is updated without the version in the filter.
RolledBack_Whole(versions, v) == {}

\* Every row of that version, whoever wrote it.
RolledBack(versions, v) == versions \ {v}

RecordRolledBack(c) ==
    LET t == call[c].tenant
        v == Down(call[c].pending)
    IN
    /\ CallAt(c, "unrecord")
    /\ applied' = [applied EXCEPT ![t] = RolledBack(@, v)]
    /\ Proceed(c, call[c].pending \ {v})
    /\ UNCHANGED <<installs, schema, shipped, asked>>

\* Logged and passed over.
SkipDown(c) ==
    LET v == Down(call[c].pending) IN
    /\ CallAt(c, "down")
    /\ MayFail \/ v \notin schema[call[c].tenant]
    /\ Proceed(c, call[c].pending \ {v})
    /\ UNCHANGED <<tables, shipped, asked>>

----------------------------------------------------------------------------
(* Uninstall *)

\* Only is an error for two rows as well as for none.
FindInstall(c) ==
    LET rows == RowsOf(call[c].tenant) IN
    /\ CallAt(c, "find")
    /\ \/ \E row \in rows :
            /\ rows = {row}
            /\ call' = [call EXCEPT ![c].row = row,
                                    ![c].pc = IF Rollback(c) THEN "fetch" ELSE "delete"]
       \/ (~\E row \in rows : rows = {row}) /\ CallReturns(c)
    /\ UNCHANGED <<tables, shipped, asked>>

\* The row is gone already: an error, and the end as well.
DeleteInstall(c) ==
    /\ CallAt(c, "delete")
    /\ installs' = installs \ {call[c].row}
    /\ CallReturns(c)
    /\ UNCHANGED <<applied, schema, shipped, asked>>

----------------------------------------------------------------------------
(* Failures *)

\* A statement fails or Core does not answer; a bulk call goes on with the next tenant.
StepFails(c) ==
    /\ MayFail
    /\ \/ CallAt(c, "exists") /\ NextTenant(c)
       \/ CallAt(c, "fetch") /\ (IF call[c].op = "reconcile" THEN CallReturns(c) ELSE NextTenant(c))
       \/ CallAt(c, "up") /\ AfterFailure(c)
       \/ CallAt(c, "insert") /\ NextTenant(c)
    /\ UNCHANGED <<tables, shipped, asked>>

\* The panic of SaveX, a cancelled request, a crash.
Abandon(c) ==
    /\ MayFail
    /\ ~CallAt(c, "idle")
    /\ CallReturns(c)
    /\ UNCHANGED <<tables, shipped, asked>>

----------------------------------------------------------------------------

\* A rollback that has found the tenant's install, and another call that works
\* on the tenant's schema or rows.
Rolling(c, t) == Rollback(c) /\ ~CallAt(c, "find") /\ call[c].tenant = t
Busy(c, t) == call[c].pc \in {"up", "record", "insert"} /\ call[c].tenant = t
Crossed == {t \in Tenant : \E c, d \in Call : c # d /\ Rolling(c, t) /\ (Rolling(d, t) \/ Busy(d, t))}

\* A migration that ran is never recorded, or a rollback skips a version or
\* stops before its end.
Interrupted(c) ==
    IF \/ Abandon(c) /\ call[c].pc \in {"record", "unrecord"}
       \/ Abandon(c) /\ call[c].pc \in {"down", "delete"} /\ Rollback(c)
       \/ CallAt(c, "down") /\ SkipDown(c)
    THEN {call[c].tenant} ELSE {}

Begins(c) ==
    \/ \E t \in Tenant : BeginInstall(c, t)
    \/ \E active \in SUBSET Tenant : BeginInstallAll(c, active)
    \/ BeginReconcileAll(c)
    \/ \E t \in Tenant, op \in {"uninstall", "drop"} : BeginUninstall(c, t, op)

Step(c) ==
    \/ (\E t \in Tenant : Visit(c, t)) \/ Finish(c) \/ ListInstalls(c)
    \/ CheckInstalled(c) \/ FetchMigrations(c) \/ RecordInstall(c)
    \/ ReadApplied(c) \/ RunUp(c) \/ RecordApplied(c) \/ UpFails(c)
    \/ RunDown(c) \/ RecordRolledBack(c) \/ SkipDown(c)
    \/ FindInstall(c) \/ DeleteInstall(c)

PluginsNext ==
    /\ Ship \/ \E c \in Call : Begins(c) \/ Step(c) \/ StepFails(c) \/ Abandon(c)
    /\ torn' = torn \cup Crossed' \cup UNION {Interrupted(c) : c \in Call}

PluginsSpec == PluginsInit /\ [][PluginsNext]_pluginVars

----------------------------------------------------------------------------
(* Properties *)

\* RunForTenant and RollbackForTenant: the history says of a version what the
\* schema says, but for the one version a call has just run and is about to
\* record. With any number of overlapping calls, failing statements, re-installs
\* and new versions; not once a rollback was cut short or met another call.
HistoryTruthful ==
    \A t \in Tenant \ torn, v \in Version :
       /\ v \in schema[t] \ applied[t] =>
             \E c \in Call : CallAt(c, "record") /\ call[c].tenant = t /\ Up(call[c].pending) = v
       /\ v \in applied[t] \ schema[t] =>
             \E c \in Call : CallAt(c, "unrecord") /\ call[c].tenant = t /\ Down(call[c].pending) = v

\* Migrations are applied and rolled back in the order of their versions, so
\* that a schema holds the versions up to one of them.
VersionsInOrder ==
    \A t \in Tenant \ torn : \A v \in schema[t] : 1..v \subseteq schema[t]

\* A tenant that is listed as having the plugin has all the migrations its
\* installer fetched, unless a rollback is at work on it.
InstallsComplete ==
    \A i \in installs :
       i.tenant \in torn \/ (\E c \in Call : Rolling(c, i.tenant)) \/ i.migrations \subseteq schema[i.tenant]

\* ReconcileAll rolls a new version out without touching tenants that never
\* installed the plugin, and no bulk call leaks from one tenant into another.
OthersUntouched ==
    \A t \in Tenant \ asked : schema[t] = {} /\ applied[t] = {} /\ RowsOf(t) = {}

\* Schemas and their histories agree, and hold the versions in order.
MigrationsSound == PluginsTypeOK /\ HistoryTruthful /\ VersionsInOrder

\* Only tenants that asked for the plugin have it, and those listed have all of it.
InstallsSound == InstallsComplete /\ OthersUntouched
=============================================================================
