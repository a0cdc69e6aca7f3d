---------------------------- MODULE Registration ----------------------------
(***************************************************************************)
(* Tenant registration: Saga.Register and compensate in                    *)
(* internal/tenant/saga.go, resolveSlug in internal/tenant/slug.go and     *)
(* InstallForNewTenant in internal/pluginmgr/installer.go, for sagas that  *)
(* run side by side. Each statement commits by itself; a failing one sends *)
(* the saga into compensation, which undoes newest first, logs what it     *)
(* cannot undo and goes on. A cancelled request, a panic (SaveX in the     *)
(* migrator) or a crash stops a saga where it is.                          *)
(***************************************************************************)
EXTENDS Naturals, Sequences, Functions

CONSTANTS
    Saga,             \* calls of Register; each one names the tenant it makes
    Candidate,        \* the slugs resolveSlug tries for a name, in order
    Email,
    Elsewhere,        \* stands for the tenants and accounts from other requests
    PluginInstalled,  \* some other tenant has the plugin
    MayStop,          \* sagas are cancelled or crash
    MayFailUndo,      \* a compensating statement fails by itself
    None

Slug == Range(Candidate)
Account == Email \X (Saga \cup {Elsewhere})

TenantRow == [slug : Slug, status : {"provisioning", "active"}]
Schema == [table : BOOLEAN, profiles : SUBSET Account, plugin : BOOLEAN]

\* The name itself is the first candidate.
ASSUME CandidateAssumption ==
    Candidate \in Seq(Slug) /\ Candidate # <<>> /\ IsInjective(Candidate)
ASSUME ElsewhereAssumption == Elsewhere \notin Saga
ASSUME SwitchAssumption == {PluginInstalled, MayStop, MayFailUndo} \subseteq BOOLEAN
ASSUME AbsentAssumption == None \notin Slug \cup Email \cup Account \cup TenantRow \cup Schema

VARIABLES
    tenants,   \* tenants: saga -> row
    branches,  \* sagas whose main branch exists
    users,     \* users: email and who created the row, which stands for its id
    members,   \* tenant_users: tenant and user
    schemas,   \* slug -> what the schema tenant_<slug> holds
    history,   \* tenants with a plugin_migration_histories row
    installs,  \* tenants with a plugin_installs row
    proc,      \* the sagas: program counter, arguments, locals, steps to undo
    skipped    \* history: sagas one of whose compensations failed by itself

tables == <<tenants, branches, users, members, schemas, history, installs>>
vars == <<tables, proc, skipped>>

Forward == {"slug", "tenant", "branch", "user", "newUser", "member", "schema", "migrate",
            "profile", "plugins", "history", "install", "activate"}
\* The steps with a compensation, in the order every saga comes to them.
Rank == [tenant |-> 1, branch |-> 2, user |-> 3, member |-> 4, schema |-> 5]
Undoable == DOMAIN Rank
Ended == {"done", "failed", "stopped"}

Process ==
    [pc : {"new", "undo"} \cup Forward \cup Ended,
     slug : Slug \cup {None},
     next : 1..Len(Candidate),
     email : Email \cup {None},
     account : Account \cup {None},
     undo : SUBSET Undoable]

TypeOK ==
    /\ tenants \in [Saga -> TenantRow \cup {None}]
    /\ branches \subseteq Saga
    /\ users \subseteq Account
    /\ members \subseteq (Saga \cup {Elsewhere}) \X Account
    /\ schemas \in [Slug -> Schema \cup {None}]
    /\ history \subseteq Saga
    /\ installs \subseteq Saga \cup {Elsewhere}
    /\ proc \in [Saga -> Process]
    /\ skipped \subseteq Saga

Init ==
    /\ tenants = [s \in Saga |-> None]
    /\ branches = {}
    /\ users = {}
    /\ members = {}
    /\ schemas = [slug \in Slug |-> None]
    /\ history = {}
    /\ installs = IF PluginInstalled THEN {Elsewhere} ELSE {}
    /\ proc = [s \in Saga |-> [pc |-> "new", slug |-> None, next |-> 1, email |-> None,
                               account |-> None, undo |-> {}]]
    /\ skipped = {}

At(s, pc) == proc[s].pc = pc
Goto(s, pc) == proc' = [proc EXCEPT ![s].pc = pc]

\* The statement succeeded: its compensation is remembered.
Done(s, step, pc) == proc' = [proc EXCEPT ![s].pc = pc, ![s].undo = @ \cup {step}]

----------------------------------------------------------------------------
(* Slug and tenant *)

\* The unique index on tenants.slug.
\* Slip: no such index, so two sagas share a schema.
Taken_Never(slug) == FALSE

Taken(slug) == \E s \in Saga : tenants[s] # None /\ tenants[s].slug = slug

\* Slip: an empty slug is taken as it is.
AfterRequest_AsIs(slug) == "tenant"

AfterRequest(slug) == IF slug = None THEN "slug" ELSE "tenant"

\* The caller chose the slug, or left it to resolveSlug.
Register(s, slug, email) ==
    /\ At(s, "new")
    /\ proc' = [proc EXCEPT ![s].pc = AfterRequest(slug),
                            ![s].slug = slug, ![s].email = email]
    /\ UNCHANGED <<tables, skipped>>

\* One turn of resolveSlug's loop; the loop is cut where Candidate ends.
ResolveSlug(s) ==
    LET slug == Candidate[proc[s].next] IN
    /\ At(s, "slug")
    /\ \/ /\ ~Taken(slug)
          /\ proc' = [proc EXCEPT ![s].pc = "tenant", ![s].slug = slug]
       \/ /\ Taken(slug)
          /\ proc[s].next < Len(Candidate)
          /\ proc' = [proc EXCEPT ![s].next = @ + 1]
    /\ UNCHANGED <<tables, skipped>>

CreateTenant(s) ==
    /\ At(s, "tenant")
    /\ ~Taken(proc[s].slug)
    /\ tenants' = [tenants EXCEPT ![s] = [slug |-> proc[s].slug, status |-> "provisioning"]]
    /\ Done(s, "tenant", "branch")
    /\ UNCHANGED <<branches, users, members, schemas, history, installs, skipped>>

CreateBranch(s) ==
    /\ At(s, "branch")
    /\ branches' = branches \cup {s}
    /\ Done(s, "branch", "user")
    /\ UNCHANGED <<tenants, users, members, schemas, history, installs, skipped>>

----------------------------------------------------------------------------
(* The owner's account and membership *)

\* users.email is unique.
AccountOf(email) == {u \in users : u[1] = email}

\* Slip: the account is deleted on failure whoever created it.
AfterFound_Undone(s, u) ==
    proc' = [proc EXCEPT ![s].pc = "member", ![s].account = u, ![s].undo = @ \cup {"user"}]

AfterFound(s, u) == proc' = [proc EXCEPT ![s].pc = "member", ![s].account = u]

ResolveUser(s) ==
    /\ At(s, "user")
    /\ \/ \E u \in AccountOf(proc[s].email) : AfterFound(s, u)
       \/ AccountOf(proc[s].email) = {} /\ Goto(s, "newUser")
    /\ UNCHANGED <<tables, skipped>>

\* bcrypt runs between the query and the insert.
CreateUser(s) ==
    LET u == <<proc[s].email, s>> IN
    /\ At(s, "newUser")
    /\ AccountOf(proc[s].email) = {}
    /\ users' = users \cup {u}
    /\ proc' = [proc EXCEPT ![s].pc = "member", ![s].account = u, ![s].undo = @ \cup {"user"}]
    /\ UNCHANGED <<tenants, branches, members, schemas, history, installs, skipped>>

\* tenant_users references users.
CreateMembership(s) ==
    /\ At(s, "member")
    /\ proc[s].account \in users
    /\ members' = members \cup {<<s, proc[s].account>>}
    /\ Done(s, "member", "schema")
    /\ UNCHANGED <<tenants, branches, users, schemas, history, installs, skipped>>

----------------------------------------------------------------------------
(* The tenant's schema *)

EmptySchema == [table |-> FALSE, profiles |-> {}, plugin |-> FALSE]

\* Slip: the schema is not among the steps to undo.
SchemaCreated_Forgotten(s) == Goto(s, "migrate")

SchemaCreated(s) == Done(s, "schema", "migrate")

\* CREATE SCHEMA IF NOT EXISTS.
CreateSchema(s) ==
    /\ At(s, "schema")
    /\ schemas' = [schemas EXCEPT ![proc[s].slug] = IF @ = None THEN EmptySchema ELSE @]
    /\ SchemaCreated(s)
    /\ UNCHANGED <<tenants, branches, users, members, history, installs, skipped>>

MigrateTenantSchema(s) ==
    /\ At(s, "migrate")
    /\ schemas[proc[s].slug] # None
    /\ schemas' = [schemas EXCEPT ![proc[s].slug].table = TRUE]
    /\ Goto(s, "profile")
    /\ UNCHANGED <<tenants, branches, users, members, history, installs, skipped>>

\* The profile's key is the user id.
CreateOwnerProfile(s) ==
    /\ At(s, "profile")
    /\ schemas[proc[s].slug] # None
    /\ proc[s].account \notin schemas[proc[s].slug].profiles
    /\ schemas' = [schemas EXCEPT ![proc[s].slug].profiles = @ \cup {proc[s].account}]
    /\ Goto(s, "plugins")
    /\ UNCHANGED <<tenants, branches, users, members, history, installs, skipped>>

----------------------------------------------------------------------------
(* InstallForNewTenant, for one plugin with one migration *)

\* Nobody has the plugin, Core does not give its manifest, or it has no migration.
SkipPlugin(s) ==
    /\ At(s, "plugins")
    /\ Goto(s, "activate")
    /\ UNCHANGED <<tables, skipped>>

MigratePlugin(s) ==
    /\ At(s, "plugins")
    /\ installs # {}
    /\ schemas[proc[s].slug] # None
    /\ schemas' = [schemas EXCEPT ![proc[s].slug].plugin = TRUE]
    /\ Goto(s, "history")
    /\ UNCHANGED <<tenants, branches, users, members, history, installs, skipped>>

RecordMigration(s) ==
    /\ At(s, "history")
    /\ history' = history \cup {s}
    /\ Goto(s, "install")
    /\ UNCHANGED <<tenants, branches, users, members, schemas, installs, skipped>>

\* The error of this insert is dropped.
RecordInstall(s) ==
    /\ At(s, "install")
    /\ installs' \in {installs, installs \cup {s}}
    /\ Goto(s, "activate")
    /\ UNCHANGED <<tenants, branches, users, members, schemas, history, skipped>>

Activate(s) ==
    /\ At(s, "activate")
    /\ tenants' = [tenants EXCEPT ![s].status = "active"]
    /\ Goto(s, "done")
    /\ UNCHANGED <<branches, users, members, schemas, history, installs, skipped>>

----------------------------------------------------------------------------
(* Failure and compensation *)

\* A failed statement, by itself or refused by a constraint. The history insert
\* panics instead, which no step of the saga recovers.
Fail(s) ==
    /\ proc[s].pc \in Forward \ {"history", "install"}
    /\ Goto(s, "undo")
    /\ UNCHANGED <<tables, skipped>>

\* Slip: the completed steps are undone in the order they were made.
NextUndo_Oldest(steps, step) == step \in steps /\ \A other \in steps : Rank[step] <= Rank[other]

\* Newest first.
NextUndo(steps, step) == step \in steps /\ \A other \in steps : Rank[other] <= Rank[step]

Undoes(s, step) ==
    /\ At(s, "undo")
    /\ NextUndo(proc[s].undo, step)
    /\ proc' = [proc EXCEPT ![s].undo = @ \ {step}]

UndoSchema(s) ==
    /\ Undoes(s, "schema")
    /\ schemas' = [schemas EXCEPT ![proc[s].slug] = None]
    /\ UNCHANGED <<tenants, branches, users, members, history, installs, skipped>>

UndoMembership(s) ==
    /\ Undoes(s, "member")
    /\ members' = members \ {<<s, proc[s].account>>}
    /\ UNCHANGED <<tenants, branches, users, schemas, history, installs, skipped>>

\* Memberships reference the user: while one is left the delete is refused.
UndoUser(s) ==
    /\ Undoes(s, "user")
    /\ users' = IF \E m \in members : m[2] = proc[s].account THEN users
                ELSE users \ {proc[s].account}
    /\ UNCHANGED <<tenants, branches, members, schemas, history, installs, skipped>>

UndoBranch(s) ==
    /\ Undoes(s, "branch")
    /\ branches' = branches \ {s}
    /\ UNCHANGED <<tenants, users, members, schemas, history, installs, skipped>>

\* Branches, memberships and plugin_installs reference the tenant.
Referenced(s) == s \in branches \/ s \in installs \/ \E m \in members : m[1] = s

UndoTenant(s) ==
    /\ Undoes(s, "tenant")
    /\ tenants' = IF Referenced(s) THEN tenants ELSE [tenants EXCEPT ![s] = None]
    /\ UNCHANGED <<branches, users, members, schemas, history, installs, skipped>>

UndoFails(s) ==
    /\ MayFailUndo
    /\ \E step \in Undoable : Undoes(s, step)
    /\ skipped' = skipped \cup {s}
    /\ UNCHANGED tables

Compensated(s) ==
    /\ At(s, "undo")
    /\ proc[s].undo = {}
    /\ Goto(s, "failed")
    /\ UNCHANGED <<tables, skipped>>

Stop(s) ==
    /\ MayStop
    /\ proc[s].pc \notin Ended \cup {"new"}
    /\ Goto(s, "stopped")
    /\ UNCHANGED <<tables, skipped>>

----------------------------------------------------------------------------

\* AddMember of another tenant takes the account of an email, or makes it.
AdmitElsewhere(email) ==
    /\ \/ \E u \in AccountOf(email) :
             members' = members \cup {<<Elsewhere, u>>} /\ UNCHANGED users
       \/ /\ AccountOf(email) = {}
          /\ users' = users \cup {<<email, Elsewhere>>}
          /\ members' = members \cup {<<Elsewhere, <<email, Elsewhere>>>>}
    /\ UNCHANGED <<tenants, branches, schemas, history, installs, proc, skipped>>

Step(s) ==
    \/ ResolveSlug(s) \/ CreateTenant(s) \/ CreateBranch(s)
    \/ ResolveUser(s) \/ CreateUser(s) \/ CreateMembership(s)
    \/ CreateSchema(s) \/ MigrateTenantSchema(s) \/ CreateOwnerProfile(s)
    \/ SkipPlugin(s) \/ MigratePlugin(s) \/ RecordMigration(s) \/ RecordInstall(s)
    \/ Activate(s) \/ Fail(s)
    \/ UndoSchema(s) \/ UndoMembership(s) \/ UndoUser(s) \/ UndoBranch(s) \/ UndoTenant(s)
    \/ UndoFails(s) \/ Compensated(s)

Next ==
    \/ \E s \in Saga : \/ \E slug \in Slug \cup {None}, email \in Email : Register(s, slug, email)
                       \/ Step(s) \/ Stop(s)
    \/ \E email \in Email : AdmitElsewhere(email)

Spec == Init /\ [][Next]_vars

\* The goroutine of a saga goes on as long as it is not stopped.
FairSpec == Spec /\ \A s \in Saga : WF_vars(Step(s))

----------------------------------------------------------------------------
(* Properties *)

\* What Register promises of a tenant it activates: its branch, its owner with a
\* live account, and its schema with the owner's profile, whatever the other
\* sagas undo, fail to undo or leave behind.
ActiveIsComplete ==
    \A s \in Saga :
       tenants[s] # None /\ tenants[s].status = "active" =>
          /\ s \in branches
          /\ \E u \in users : <<s, u>> \in members
          /\ schemas[tenants[s].slug] # None
          /\ proc[s].account \in schemas[tenants[s].slug].profiles

\* "Its dedicated Postgres schema": an active tenant's schema holds nobody
\* else's profile and no plugin tables but its own. A schema outlives a dead
\* saga only under the slug that saga's row still occupies, so a later saga
\* finds one only where a compensation failed.
SchemaIsDedicated ==
    \A s \in Saga :
       /\ tenants[s] # None /\ tenants[s].status = "active" /\ skipped = {}
       /\ schemas[tenants[s].slug] # None
       =>
          /\ schemas[tenants[s].slug].profiles = {proc[s].account}
          /\ schemas[tenants[s].slug].plugin => s \in history

\* resolveUser: compensation deletes only the account this saga created.
OnlyOwnAccountDeleted ==
    [][\A u \in users \ users' : u[2] \in Saga /\ At(u[2], "undo")]_vars

RowsGone(s) ==
    /\ tenants[s] = None
    /\ s \notin branches \cup installs \cup history
    /\ \A m \in members : m[1] # s

\* The package comment: a failure at any step rolls back the prior steps. What a
\* saga made is gone when its compensation is over.
RolledBack == \A s \in Saga : (At(s, "failed") /\ s \notin skipped) => RowsGone(s)

\* The same where InstallForNewTenant had nothing to record: the compensations
\* satisfy every reference between the rows they delete, and the schema goes
\* before the slug is free for others.
RolledBackWithoutPlugin ==
    /\ \A s \in Saga : (At(s, "failed") /\ s \notin skipped \cup history) => RowsGone(s)
    /\ skipped = {} => \A slug \in Slug : schemas[slug] # None => Taken(slug)

\* A tenant does not stay provisioning: it becomes active or its row goes away,
\* and its slug is free again.
ProvisioningEnds ==
    \A s \in Saga :
       (tenants[s] # None /\ tenants[s].status = "provisioning")
          ~> (tenants[s] = None \/ tenants[s].status = "active")
=============================================================================
