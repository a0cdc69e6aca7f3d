# apicorex-identity in TLA+

`apicorex-identity` is the identity service behind the ApiCoreX gateway ("Core"): tenants
and their registration, users, memberships, roles, branches, opaque device tokens and the
introspection the gateway asks for on every request, and the installation of the other
plugins' migrations per tenant. These modules model its Go code, TLC checks them on small
instances and TLAPS proves what matters most for all instances.

Two facts about the code shape every model:

- **Each database statement commits by itself.** There is no transaction around a handler
  and no lock: a handler is a sequence of statements.
- **Each HTTP request is a goroutine** with the request's own context, and several
  instances of the service may share the database. Statements of different handlers
  interleave freely, and a handler may end between two of them (an error, a client that
  went away, a crash).

So a model's actions are single statements (with the in-memory work up to the next one),
and the state is the tables plus, per handler in flight, a program counter and the locals
that later statements use.

## Inventory

| Component | Code | State | Operations | What makes it correct |
|---|---|---|---|---|
| Member management | `internal/auth/member_manage.go`, `branch.go` (AddMember) | `shared.tenant_users` | change role, remove, suspend, reactivate, add | the last active manager is not taken away; a change lands on the row it was decided on; one membership per user and tenant |
| Tenant roles | `internal/auth/roles.go` | `roles`, `role_permissions` | create, update, delete | a role in use is kept; permissions belong to live roles |
| Role store, matching | `internal/rbac` | seeded system roles | seed at boot, resolve a slug, read permissions, `Allows` | boots end with complete roles and disturb nobody; gateway and service agree on what a pattern grants |
| Login, tokens | `internal/auth/login.go`, `device_token.go` | `device_tokens` | login (password, Google), logout | a token only for an active member of an active tenant |
| Introspection | `internal/auth/introspect.go` | none | Introspect | a token is accepted exactly while owner and acting user may act; an answer says nothing that was not so during its reads; answers follow the tables |
| Branches | `internal/auth/branch.go` | `branches`, the branch of a membership and of a token | create, update, switch | everything of a tenant stays in its branches |
| Tenant administration | `internal/auth/tenant.go` | `tenants.status` | suspend, reactivate | suspension pauses and loses nothing |
| Platform admins | `platform_admin.go`, `platform_admins_manage.go` | `users.is_platform_admin` | grant, revoke, grant at boot | a revoke holds until somebody grants again |
| Registration | `internal/tenant/saga.go`, `client.go` | tenants, branches, users, memberships, a schema per tenant | Register, compensate | all or nothing; a schema has one tenant; no tenant stays provisioning |
| Slugs | `internal/tenant/slug.go` | none | derive, validate, make unique | every base and candidate is valid; the search ends |
| Plugin installation | `internal/pluginmgr` | `plugin_installs` | Install, InstallForNewTenant, InstallAll, ReconcileAll, Uninstall | a plugin is installed where its migrations ran |
| Migrator | `internal/migrator` | `plugin_migration_histories`, tenant schemas | run, roll back | each migration once, in order |
| PINs, profiles | `member_manage.go`, `members.go` | `pin_hash`, `user_profiles` | set, verify, resolve a PIN, edit a profile | a PIN resolves to one member |
| Passwords | `password.go` | `users.password_hash` | change, reset | who changes one has proved the old one, who resets one owns the staff |
| Google keys | `google.go` | cached key set | verify | no retired key is accepted for long, no key in use is called unknown |
| Plugin runtime | `internal/plugin` | registration with Core | register, heartbeat, deregister | registered exactly while running |
| HTTP handlers | `cmd/identity/plugin.go` | none | decode, check permission, call one service function | the handlers' checks agree with the permissions declared to the gateway; other tenants are reached by platform admins only |
| Generated client | `ent/` | the tables | create, update, delete, query with eager loading | columns the schema calls immutable or not empty stay so; an edge is loaded whole |
| Boot, backups, console, clients | `cmd/identity/main.go`, `internal/dbbackup`, `cmd/identity/admin`, `internal/tenantclient` | none of their own | | |

How they interact: all of them meet in the shared tables. Member management, login, branch
switching and introspection read and write memberships and tokens of the same people;
registration creates what all of them use, and calls the plugin installer, which calls the
migrator; the gateway calls Introspect and passes tenant, acting user and token hash on to
the other routes, so what a handler was told may be out of date when it acts. Uniqueness and
foreign keys of PostgreSQL decide some of the races: `(user, tenant)` is unique in
`tenant_users`, emails and tenant slugs are unique; branches, memberships and
`plugin_installs` reference `tenants`, memberships reference `users`, `role_permissions`
references `roles` (all NO ACTION). `tenant_users.role_id` and `branch_id` and everything in
`device_tokens` reference nothing.

Hard behaviour: check-then-write without a transaction (last manager, role in use, not yet a
member, slug free, email free, PIN free, subject unbound, password current); a withdrawal of
access in two statements; a login that overlaps a withdrawal; an introspection of up to eight
reads with writes between them; a saga that fails, crashes or cannot compensate next to
another one; migrations that commit before they are recorded; instances of two versions
that boot together; answers that arrive out of order (key refresh, heartbeat).
`PROJECT.json` lists the hazards one by one with their lines, including the two no property
covers.

## Modules

| Module | Models | Composition |
|---|---|---|
| `Members` | roles, role permissions and memberships of one tenant, under all member and role handlers | |
| `Members_proofs` | theorems about `Members` | extends `Members` |
| `Sessions` | abstract: what a device is promised | |
| `DeviceTokens` | memberships, branches, tenants' status, platform admins and tokens; login, logout, switch, introspection, withdrawal | refines `Sessions` |
| `DeviceTokens_proofs` | theorems about `DeviceTokens` and its refinement of `Sessions` | extends `DeviceTokens` |
| `Registration` | registration sagas with `InstallForNewTenant` and the migrator inside | |
| `Plugins` | install, bulk install, reconcile and uninstall of one plugin, with the migrator | |
| `Runtime` | processes of the service registering with Core, heartbeats, deregistration | |
| `Profiles` | accounts, memberships, profiles and PINs of one tenant | |
| `Permissions` | the permission vocabulary, the system roles and the two matchers | |
| `Handlers` | the routes, what each declares to the gateway and what its handler checks | extends `Permissions` |
| `Access` | Introspect read by read against other requests' writes, the cached answer, the gateway and the handlers behind it | extends `Handlers` |
| `Accounts` | `users`: logins up to the tenant choice, passwords, platform admins, their grant at boot | |
| `Seeding` | the system roles at boot, several instances | |
| `GoogleKeys` | the cache of Google's signing keys | |
| `Slugs` | slug derivation and the search for a free slug | |
| `Store` | the generated client: builders, constraints, eager loading | |
| `Registration_proofs`, `Plugins_proofs`, `Access_proofs` | theorems about the module of that name | extend it |
| `Profiles_proofs` | theorems about `Profiles`, and about `Registration` beside it | extends `MCFaults`, `Registration_proofs` |
| `Shared_proofs` | theorems about `Accounts`, `GoogleKeys`, `Store` and `Slugs` | extends all four |
| `Processes_proofs` | theorems about `Seeding` and `Runtime` | extends both |
| `MCMembers`, `MCDeviceTokens`, `MCRegistration`, `MCRuntime`, `MCAccess` | instances for TLC | extend their module |
| `MCFaults` | `Registration` and `Profiles` | extends `MCRegistration`, `Profiles` |
| `MCEnding` | `Registration` and `Seeding` | extends both |
| `MCShared` | `Accounts`, `GoogleKeys`, `Slugs`, `Plugins`, `Store` | extends all five |

`MCFaults`, `MCEnding` and `MCShared` put parts that share no variable into one run. Their
variable `focus` is chosen in the initial state and says which part moves: the reachable states
are the union of those of each part, not their product, and the properties of the other parts
are checked in a state that does not move. Where the parts do interact, the interaction is
inside one module: registration installs plugins in `Registration`, boots grant platform admins
next to logins in `Accounts`, and everything that moves an introspection is in `Access`.

### Members

`row` is the membership table of one tenant: user to `(id, role, status)`. Ids are fresh for
each membership (`nextId`), because `UpdateOneID` and `DeleteOneID` address the row by the id
read at the lookup. `roleRow` and `perms` are the tables of custom roles; the owner role has
`*:*`, and one system role without `tenant:manage` stands for admin, manager and member.
`ManagePatterns` are the patterns `rbac.Allows` accepts for `tenant:manage`. `req[r]` is the
handler in slot `r`. `overtaken[r]` is a history variable: some other handler wrote since
this one began.

An action per statement: `LookupMember`, `ResolveRoleID`, `WasManager`, `WillManage`,
`LastManagerGuard`, `WriteMember` for the three member operations, `CheckNotMember` and
`CreateMembership` for AddMember, `CreateRoleRow`, `GetRole`, `CheckInUse`,
`ClearPermissions`, `InsertPermission`, `DeleteRoleRow` for the roles, each with the
alternatives the code or an index decides. `Abandon` ends any handler anywhere.

Abstractions: `countManagers` reads the memberships and then the permissions of each role;
here these reads are one step. The permissions of a new handler's request are a set (the
code drops duplicates). Slugs are ids: resolving a slug is testing that the role lives, and
the clash test and insert of CreateRole are one step, as the index on tenant and slug decides
both. Names, the account and profile of AddMember and RemoveMember's clean-up of profile and
tokens are not here: tokens are in `DeviceTokens`, the rest in `Profiles`.

### DeviceTokens and Sessions

`member` keeps per user and tenant the branch and status; `join` stands for the row id.
Withdrawal is the two statements of the code: `WithdrawAccess` (delete the row, or mark it
suspended) and `RevokeTokens` (the sweep). A login reads its memberships once
(`LoadMemberships`), then reads the tenant (`PickTenant`), then inserts (`IssueDeviceToken`).
`BeginSwitch` starts only with a token the gateway saw accepted; after that any of it may
change. `Accepts` is Introspect's verdict as a reading of one state; the throttled
last-used stamp and the roles in the answer are left out. Roles and the last-manager guard
belong to `Members`: here a guarded handler may be refused at any time, so what holds does
not rest on the guard. Branches are archived but never deleted. Two history variables: `cut`, the
tokens that were alive when their owner's access was withdrawn, and `late`, those a login inserted
while its user's access was withdrawn or the sweep for it still to come (`Withdrawn`).

`Sessions` is the promise: a session belongs to one user in one tenant, ends by logout or
together with all sessions of that user in that tenant, never comes back, and a suspended
tenant only pauses its sessions. The refinement maps a token to its session, which is over
once the token is revoked or its owner is not an active member, and the paused tenants to
the suspended ones.

### Registration

One saga per call of `Register`, with the statements of `saga.go` in order, the slug loop of
`resolveSlug` over a short list of candidates, the find-or-create of `resolveUser` in two
statements, and for the plugin step one plugin with one migration: migrate, history row,
install row. `proc[s].undo` is the slice of compensations: a set of steps, since every saga comes
to them in one order, `Rank`. A failing statement leads into `compensate`, newest step first; `UndoUser` and `UndoTenant` are refused by the foreign keys
while a row refers to theirs. `UndoFails` is a compensation that fails by itself, which the
code logs and passes over. `Stop` is a crash, a panic (the history insert uses `SaveX`) or a
cancelled context, after which no later statement of the saga, its compensations included,
takes effect. `AdmitElsewhere` is another tenant's AddMember taking or creating the same
account. `skipped` is a history variable: whose compensation failed by itself.

### Plugins

One plugin, any number of tenants; plugins do not share anything but the tenants' schemas.
`schema[t]` is what the migrations' SQL has left in the tenant's schema, `applied[t]` the
versions with an `applied` history row, `installs` the rows of `plugin_installs`, whose
`migrations` field is a history variable: what the installer had fetched. `Ship` is the
plugin registering a newer manifest. The four operations share their statements: `Visit`
goes through the tenants of a bulk call, `ReadApplied`, `RunUp`, `RecordApplied`, `RunDown`
and `RecordRolledBack` are the migrator's loops. SQL that has run before may fail or succeed
when it runs again, as the plugin wrote it. `ReadApplied` may find nothing, because the code
drops the error. `StepFails` is an error that a bulk call notes before it goes on, `Abandon`
the panic of `SaveX`, a cancelled request or a crash. `torn` is a history variable: tenants
where a call ended between a migration and its record, where a rollback skipped a version or
stopped, or where a rollback met another call. Left out: a tenant listed twice by
ReconcileAll is visited once, and tenants neither appear nor vanish (registration does that).

### Profiles

`account` is `users`, `member` the tenant's memberships, `profile` the tenant's
`user_profiles`, keyed by user id, of which only the PIN matters. `join` numbers the
memberships by creation, which is both their id and the order ResolvePin goes by. AddMember
is `FindAccount`, `CreateAccount`, `CheckNotMember`, `CreateMember` and, for a new account
only, `CreateProfile`; RemoveMember is `Lookup`, `RemoveMember` and `DeleteProfile`; setting a PIN is
`CheckMember` (SetMemberPin only), the loop of PinAvailable and `WritePin`; ResolvePin is the
same loop in the order of `Turn`. Each profile of the loop is read in a step of its own, and
`Unread` is one that could not be read, which the code passes over. A bcrypt comparison is
equality of PINs. Login, tokens and roles are left to the other modules, so a removal or
suspension may be refused at any time. `misled[r]` is a history variable: another handler
wrote since this one began, or it passed over a matching profile. `leftover` is another: the
profiles whose deletion failed, or that an overtaken handler wrote.

### Runtime

Each process of the service has two goroutines: `pc` is the one that registers and then sends
heartbeats, `stop` the one that waits for the context, deregisters and shuts the server down.
A registration is sent (`SendRegister`), acted on by Core (`ServeRegister`), and its answer
stored in two unsynchronised writes (`StoreId`, `StoreToken`), which `SendDeregister` may read
between. A request or answer may be lost, an answer may not decode (`AnswerGarbled`, which the
code does not retry), the context may cut a request off (`RegisterCancelled`), and a request
whose client is gone may still reach Core (`ServeStray`). Core is external and modelled by
what the plugin's code says of it: an in-memory registry with one entry per name that the
next registration evicts, 404 or 401 for what it does not recognise. Pauses between attempts
and the ticker are not timed. Ids that nothing holds any more are used again, which keeps the
model finite without a bound on registrations. `unsure` and `excused` are history variables.

### Permissions, Handlers and Access

A permission string is the tuple of its segments. `Match` is the matcher of `internal/rbac`,
`PermMatch` that of `internal/plugin`, and they differ where a segment is empty. `Manifest` joins
the routes with the permissions declared for them, by method and path as text, as
`buildManifest` does; `AllHandlers` says of each handler whether it asks for a platform admin or
a permission, and which tenant it acts on: the device's, one from the path, one from the body or
none. The gateway is external: by what introspect.go:97-103 and the comments on
RequirePermission say, it lets platform admins pass and matches the declared permission for
others.

`Access` has one device and one introspection at a time. `ReadToken`, `ReadTenant`, `ReadOwner`,
`ReadOwnerMembership`, `ReadMembership`, `ReadActing`, `ReadRole` and `ReadPermissions` are the
reads, each of which may fail, with what the code makes of the failure: an error, a refusal in
the words of a revoked membership, or a value passed over. The answer is kept, as the gateway's
cache keeps it, until `Expire`. The writes of all other components to these tables are single
actions. `was` and `lacked` are history variables: the facts that held, and that did not hold, at
some moment of the call. The cache's 30 s are not timed.

### Accounts

`registered`, `googleSub`, `password`, `staff` and `admins` are columns of `users` and the
memberships `SetMemberPassword` asks for. `LoginWithGoogle` is `FindBySub`, `FindByEmail`,
`BindSub`; `Login` is `CheckCredential`; `ChangeOwnPassword` is `ProveCurrent` and the write;
`SetMemberPassword` is `CheckStaff` and the write; grant and revoke are `FindAccount` and
`SetFlag`; a boot is one `SyncOne` for each configured address. An address stands for its user,
and `LowerCase` are the users whose stored address has no capitals: the configured list is
lowered and the stored addresses are not. Hashes stand for their passwords. What follows a login,
from the tenant choice on, is `DeviceTokens`. `held` and `revoked` are history variables.

### Seeding

Per instance of the service the loop of `SeedSystemRoles`: find the role, create it, list its
permissions, `AddMissing` and `RemoveExtra` row by row. A row the other instance already inserted
fails on the index and a row it already deleted is an error as well; both end the process, as in
`main.go`. `Starts` starts it again, `Crash` ends it anywhere. Each instance has a version, which
is the table of permissions it wants. Row ids matter, because a deletion names the id it listed.

### GoogleKeys

A verification looks its key up under the read lock, fetches the published set if the key is
unknown or the cache stale, installs the answer as a whole and looks again. Two fetches may end
in either order. Time is counted in ticks: a cache lives `Ttl`, a fetch ends within `Timeout` (the
HTTP client's). `FetchFails` falls back on the cached key if there was one. `Rotate` is Google
publishing or retiring a key. Signatures and claims are one Boolean of the token. `lastIn` and
`lastOut` are history variables. `Tick` waits for what is done in memory only.

### Slugs

Names and slugs are sequences of characters. `GenerateSlugBase` composes the same steps as the
code (lower, collapse, trim, cut the front to a letter, cut to the limit, pad); `Try` is a turn of
the loop in `resolveSlug`, `TakeOne` another registration that takes a slug meanwhile.

### Store

`rows` are the tables as functions from columns to values, with the unique indices, foreign keys
and nullable columns of `ent/migrate/schema.go`. Each entity has its create, update, update-one
and delete builder with the setters the generated code has (no setter for an immutable column),
its validators and defaults, and each query its edges: `Select` reads the rows, then each edge is
a statement of its own, `LoadParent` or `LoadChildren`. Builders are more general than their
callers: any column may be set, any rows selected. The other modules model what the callers do
with them.

## Properties and runs

TLC runs all of them without state constraints: the bounds are constants in the guards.

**RolesOverlap** (two users, one custom role, one permission that manages, two handlers in
flight, two memberships ever). Any two member and role handlers interleave and either may be
abandoned.
- `GuardsHold`: what a handler found out (the row and its role, a manager besides this one,
  the role to assign exists, the role to delete is unused) holds up to its write, unless
  another handler wrote meanwhile.
- `LastManagerKept`: the step that takes the last active manager away is an edit of a role's
  permissions, or a write of a handler that was overtaken.
- `RefusalNeeded`: an active member is refused only if nobody else manages. (A suspended
  manager may be refused although another manages: the code tests the role of the target,
  not its status, and compares with a count that leaves the target out.)
- `RolesInUseKept`, `ChangesWhatItRead`, `NoOrphanPermissions`, `TypeOK`.

Two users are enough for every boundary of `n <= 1`, two handlers for every pairwise race;
a second membership id lets a user be removed and admitted again under a held id.

**MembersStranded** (`ManagerRemains`, without custom roles) checks what the comment on
ErrLastManager says without the "unless overtaken", and fails: two simultaneous withdrawals
both count two managers. That `UpdateRole` takes `tenant:manage` from the last manager's role
with no check at all needs no race, and is the exception `LastManagerKept` names. The same
race in DeleteRole, where a role is assigned between the count of its members and its
deletion and the membership is left with a role that is gone, is the exception that
`RolesInUseKept` names.

**TokensSerial** (two users, one tenant, two branches, two tokens, one readmission, one
handler at a time, none failing). `ServesValidSessions`: whoever is no platform admin (for whom the
code asks no membership) is accepted exactly while the session is valid. The refinement `SessionsKept` and
`NoRevival`. `ScopedTogether`: a device comes to a branch only together with the person who
brings it there, by login or switch. (The person's other devices stay behind on the branch
the membership has left, although docs/branch-isolation.md says that "a device token only
ever scopes to a branch its owner is a member of".) One handler at a time is what the
promise needs: the next two runs drop it.

**TokensTwoTenants** (one user in two tenants, failures on, the user may become platform
admin). `BranchesInTenant` and `DevicesOfOthersKept`: what is done in one tenant does not
reach the other, nor a token of another person; a sweep takes what a withdrawal cut off, or a
login it overtook.

**TokensOverlap** (one user, one token, two branches, two handlers, none failing, fairness).
`WithdrawalsSound`: a token that was alive when its owner's access was withdrawn is revoked or
the withdrawing handler is about to (`CutTokensSwept`), and someone without access keeps no
live token but one about to be swept and those of logins that the withdrawal overtook
(`OnlyLateLeft`); `CutTokensRevoked`: in the end it is revoked for good.
Failures are off because the code drops the sweep's error on purpose.

**TokenRevival** (`NoRevival` with two handlers) fails: a login that read its memberships
before the removal inserts its token after the sweep, and the next readmission makes that
token valid.

**AdmissionFaults** (`MCFaults`). First, two sagas, two slug candidates, one email, plugin,
crashes, failing statements, failing compensations. `ActiveIsComplete`: an active tenant has its
branch, its owner with a live account, its schema and profile, whatever the other saga undoes.
`SchemaIsDedicated`: nobody else's profile or tables in it, as long as no compensation failed
by itself (if DROP SCHEMA fails, the later compensations free the slug and the next tenant of
that slug takes the old schema over). `RolledBackWithoutPlugin`: a compensated saga leaves no
row, and schemas exist only under slugs that are taken. `OnlyOwnAccountDeleted`. One email is
the hard case, and two sagas are enough for one to rely on what the other undoes.

Second, two people, one PIN, three memberships ever, two handlers in flight, failures.
`PinsSound` has two parts. `NoNewClash`: "unlock-by-PIN always resolves to one staff" is lost only
in the ways it lists. One needs neither race nor failure: suspend a member, give the PIN to
another, reactivate the first. `ResolvesFirst`: then, as the comment on ResolvePin says, the older
member is answered, and nobody is refused who has a PIN. `ProfilesOfMembers`: personal data
outlives a membership only while or because the clean-up did not happen, or because a handler
that was overtaken wrote it afterwards. Two people and one PIN are what a clash takes, three
memberships let one of them leave and return, and the loop of one handler meets every write
of the other. Not a property, but visible in the model: a member who had an account already
gets no profile, so setting a PIN for him is an error until he edits his own profile.

**EndingLive** (`MCEnding`). First, two sagas without crashes, failing compensations and plugin;
fairness. `ProvisioningEnds`: no tenant stays provisioning. Second, two instances, two roles,
three permissions, two versions that both want some of the permissions and differ in others, any
rows at first, one crash, six rows ever inserted. `BootStepsSound`: no step takes a permission
away that both versions want, so requests that need it are never refused for a boot; and a boot
that no other overlaps is not ended by what it finds. `RolesSound`: when all instances serve,
each role has what both want and nothing that neither wants. `BootsConverge`: two instances of
one version both end up serving with exactly its permissions, however often they trip over each
other's rows. Two versions do not converge to one of them: the later boot wins, row by row.
Each instance starts again for ever, so six rows are a bound on how often two instances may undo
each other's work, and for one version nothing is undone.

**PluginRowsLeft** (`RolledBack`) fails for one saga: step 6 records no compensation, and the
`plugin_installs` row keeps the tenant row alive when a later statement fails.

**SharedOverlap** (`MCShared`), five parts.

*Accounts*: two users, two subjects, two passwords, one tenant, two calls in flight and three
ever, one failing statement, one registration or change of membership from elsewhere.
`CredentialsSound` has three parts besides the types. A Google login by a subject that was bound
when it began signs that user in (`SubDecides`). A password login or change was let through on a
password that was the user's during the call, a reset for somebody who was on the staff during it
(`CredentialsProven`). A revoke holds until a grant or a boot beside or after it (`RevokeHolds`).
`SubKept`: a bound subject is replaced only by a login that began when the account was unbound;
the guard "not already bound" is read before the write, so two first logins of one account with
two subjects leave the later one.

*Keys*: two verifications, two keys, one rotation, one failing fetch, a lifetime of two ticks and
a fetch of one, four ticks. `KeysSound`: an accepted key was published within lifetime plus fetch,
unless the call fell back on the key it held; a key published since one fetch before the call
began is never called unknown, although an older answer may overwrite the newer. Four ticks let a
cache go stale and be fetched again; two verifications are all that overtaking takes.

*Slugs*: names of up to three characters over five, and longer ones for the cut, a limit of six
in place of 32, three slugs taken in any order. `SlugsSound`: a base is valid, its own base, and
empty only for a name without letters; candidates are valid, and no turn repeats an earlier one
but for one case, so the loop makes at most one turn more than slugs are taken. The case: a base
as long as the limit (or one short of it) that ends in `_2` comes back as its own second candidate,
and one ending in `_3` as its third; then it is one turn more again. Two of the names do that. With
a limit of six the cut meets each of the characters and the suffix.

*Plugins*: one tenant, two versions, two calls in flight, statements failing and calls dying.
`MigrationsSound`: history and schema say the same of every version but the one a call is about
to record, and a schema holds the versions up to one of them. `InstallsSound`: a listed tenant has
all its installer fetched, and tenants nobody asked for have nothing. The exemption of the
tenants in `torn` is needed in each of its parts: a crash between a migration and its record
leaves a version that every later run applies again; a rollback that overlaps an install can
leave what the history denies; a rollback passes over a version that fails and takes the older
ones away. Two calls of overlap and two versions show every one of these, re-installs and
upgrades included, since calls follow one another without bound. One tenant is enough for
properties of each tenant by itself: an action reads and writes the tables of its call's tenant
only, except `ListInstalls`.

*Client*: one row per table at first, two words, two writes, one query at a time.
`StatementsSound`: after every statement a row has NULL only where the schema has it optional and a
token has its hash, user and tenant; none changes a tenant's slug or schema or the time a row was
made; and an eager load leaves a parent out only for a row that is no longer what was read. Two
writes are what it takes to change a row and its parent between the two SELECTs.

**AccessOverlap** (`MCAccess`: the owner and one more user, two roles, two permissions one of them
a wildcard, two writes, one failing read). `AnswersSound`: a refusal, and every part of an answer,
rests on facts that held during the call; no permission is missing that the role had all the
time; nobody gets less than the baseline. Not that all facts held at one moment: an answer may
join the role from before a write with the permissions from after it, and the property says
exactly when. `CrossTenantByAdmins`: of all routes, those that act on a tenant other than the
device's are passed only by somebody who was a platform admin during the call, or, if the read of
the acting user failed, by somebody on a platform admin's device: the answer then keeps the
owner's user type. `HandlersAgree`: a handler that checks a permission and the gateway agree on
each tenant user. `AnswersSettle`: once the writes stop, so do the answers that differ from the
tables. Two writes tear a reading in every pair of places; a third would only repeat one.

**RuntimeOverlap** (an old and a new process, Core up or down at first, one fault: a lost or
garbled message, a killed process, or a stop of Core, during which any number of heartbeats
and registrations fail; fairness). `RoutesSound`: Core's entry names a process whose server
serves, except for what a process could not know of when it ended. The exceptions are real:
a process that is stopped while it re-registers deregisters the id it knew, and leaves the
new entry behind. `SelfHeals`: the process that remains under a Core that stays up ends up
registered and stays so. Two processes evict each other's entry and find out by a refused
heartbeat, which is what a restart during a deployment does.

Deadlock is checked everywhere but in RuntimeOverlap, where all processes may have ended, in
EndingLive, where all instances may serve with no crash left, and in SharedOverlap, where parts
stop at their bounds. The symmetry sets permute handler slots, callers and sagas, and
in the token runs tokens as well, only in runs without liveness.

### Fairness

`FairSpec` asks weak fairness of the steps of each handler, saga or process in flight, nothing of
requests that were not made. A goroutine that was started is scheduled by the Go runtime and
its statement returns with a result or an error; crashes are switched off for handlers and sagas,
since nothing in the code resumes one that died. An
instance that died at boot is started again: docker-compose.yml:15 says `restart: unless-stopped`,
which is the fairness of `Starts` in `Seeding`. In `Access` it is the introspection in flight and the
expiry of a cached answer that go on; the writes may stop. In `Runtime` it also means that Core, while
it is up, answers: the HTTP client has no timeout for one that does not.

## Proofs

Each theorem is for every value of the constants that the named assumptions of its module allow,
so for any number of handlers, sagas, calls or processes unless its table says otherwise. The
invariant behind a theorem was first checked by TLC on the instances of the runs. The history
variables the properties speak of are the model's own; the proofs show that they are kept right.

### Member and role administration

`Members_proofs` proves, for any finite set of users, any sets of roles, permissions and
handler slots, and any bound on memberships:

| Theorem | Statement |
|---|---|
| `TypeCorrect` | `Spec => []TypeOK` |
| `GuardsSound` | `Spec => []GuardsHold` |
| `LastManagerGuarded` | `Spec => LastManagerKept` |
| `HeldRowChanged` | `Spec => ChangesWhatItRead` |
| `PermissionsOwned` | `Spec => []NoOrphanPermissions` |
| `RolesInUseGuarded` | `Spec => RolesInUseKept` |
| `RefusalsNeeded` | `Spec => RefusalNeeded` |

`TypeOK` is not inductive: it does not say that a handler at a given program counter has the
locals its next statement uses. `TypeInv` adds `Shape`, which does. `GuardsHold` is inductive
relative to `TypeInv`: a handler's own read establishes its clause, its later reads keep it,
another handler's write sets `overtaken` and makes it vacuous, and a handler at its beginning
claims nothing. The action properties follow from `GuardsHold` in the state before the
write: for `LastManagerKept`, a writer nobody overtook has counted two managers, and removing
one user from a finite set of two or more leaves one (`FS_RemoveElement`). `RefusalNeeded` is
about the other answer of the same guard: `CountInv` says that a handler on its way to the count
read a role that manages, so a count of fewer than two is the member himself and nobody else.
Assumptions: users
are finite, the founder is one, custom roles differ from the system roles, and `None` is no
row, user or role.

### Tokens and sessions

`DeviceTokens_proofs` proves, for any sets of users, tenants, branches and tokens and any
bound on memberships:

| Theorem | Statement | Handlers |
|---|---|---|
| `TypeCorrect` | `Spec => []TypeOK` | any number, failing or not |
| `TokensInTenant` | `Spec => []BranchesInTenant` | any number, failing or not |
| `ValidSessionsServed` | `Spec => []ServesValidSessions` | any number, failing or not |
| `OthersKept` | `Spec => DevicesOfOthersKept` | any number, failing or not |
| `WithdrawalsHold` | `Spec => []WithdrawalsSound` | any number, none failing |
| `RevivalsLate` | `Spec => [][OnlyLateRevived]_vars` | any number, none failing |
| `SessionsRefined` | `Spec => SessionsKept` | one at a time, none failing |
| `NoRevivalSerially` | `Spec => NoRevival` | one at a time, none failing |
| `DevicesComeWithPeople` | `Spec => ScopedTogether` | one at a time, failing or not, no platform admins |

`TypeInv` adds `Local` to `TypeOK`: the locals a program counter stands for, and that the
token of a switch in flight exists and belongs to the tenant of the switch. Its second half
is what `BranchesInTenant` needs: a switch writes its branch into a token it introspected
earlier, so `BranchInv` adds `Scoped`, that the branch a handler holds (or, for a login, each
branch it has seen) lies in the tenant it holds. That tokens keep their tenant (`TokensKept`)
carries both over the steps of other handlers. `ValidSessionsServed` needs no more than
`TypeInv`: the verdict of Introspect and the session mapped from the tables are readings of one
state, and the theorem says that they agree.

`WithdrawalsHold` needs that tokens in `cut` exist, that only a handler's own sweep ends its
sweeping (`SweepEnds`), that only a withdrawal ends a membership (`ActiveKept`), and that a live
token was live before, with the same owner and tenant, unless the step issues it (`LiveBefore`).
That a readmission brings back only tokens of overtaken logins is then a reading of
`OnlyLateLeft` in the state before the step; `TokenRevival` shows that these do come back.
`OthersKept` rests on `SweepInv`: what a handler is about to sweep was cut off by a withdrawal or
issued since by a login it overtook. A failed sweep leaves tokens behind but takes none from
anyone, so that this one holds whatever fails.

For the refinement `SerialInv` says that a live token of someone without access is one the
handler is about to revoke, and that the membership a login has read is still active when it
inserts; each handler's step then is a step of `Sessions` or changes no session. Without the
premise on the handlers both fail: `TokenRevival` is the counterexample to `NoRevival`, and a
failed sweep leaves tokens that a readmission revives. For `DevicesComeWithPeople`, `ScopeInv`
says that the branch a handler is about to write into a device is that of an active membership
of the person who acts, which it has read or moved. Platform admins are left out because they
act without a membership. Assumptions: the main branch of a tenant is one of its branches, and
`None` is no row, id or session.

### Signing in

`Shared_proofs`:

| Theorem | Statement |
|---|---|
| `AccountsInvariantHolds`, `CredentialsHold` | `AccountsSpec => []AccountsInv`, `[]CredentialsSound` |
| `SubjectsKept` | `AccountsSpec => SubKept` |
| `KeysInvariantHolds`, `KeysHold` | `KeysSpec => []KeysInv`, `[]KeysSound` |

`CredentialsSound` speaks of calls that are over, so `AccountsInv` says what each stage before
knows (`Knows`): its account exists, a subject it saw bound is still some subject, and the password
or membership it was let through on is among those `held` since it began. `RevokedInv` extends
`RevokeHolds` to those who are about to set the flag: nobody revoked for good is in the list of a
boot or at the write of a grant. Uniqueness of subjects is needed for `SubDecides`, since the
login of a subject may find at most one account.

`KeysInv` dates the cache: `CacheInv` says a key in it was published, and one not in it
unpublished, no longer than one fetch before its date, and `Sound` says the same of an answer
on its way. An older answer may overwrite a newer one, and `CacheInv` survives because the age of an
answer is bounded by the client's timeout. Assumption: that timeout is shorter than the lifetime
of the cache (google.go:75-76: five seconds, one hour).

### The generated client

`Shared_proofs`, for any words, any number of statements and queries:

| Theorem | Statement |
|---|---|
| `StoreInvHolds`, `StoreTypeHolds` | `StoreSpec => []StoreInv`, `[](StoreTypeOK /\ TokensWhole)` |
| `StatementsHold` | `StoreSpec => StatementsSound` |

`StoreInv` is what the database enforces (`Accepts`) of every table, rows with the columns of
their table, and the validator of the three token columns, which the database does not know. A
statement that sends rows of the right type, moves no immutable column and keeps that
validator is sound (`SendSound`); `CreateSound`, `UpdateSound` and `DeleteSound` reduce each builder
to it, and one lemma per entity checks that its builder has no setter for an immutable column.
Parents are found because a row that is still there names one by a foreign key, and its column is
not nullable (`LoadParentSound`).

### Slugs

`Shared_proofs`, for any set of names over the characters of the model, any limit from 6 to 32
and up to seven slugs taken meanwhile:

| Theorem | Statement |
|---|---|
| `SlugsHold` | `SlugsSpec => []SlugsSound` |

The derivation is a composition of operators, and a lemma each says what they keep: `CollapseSound`
and `CollapseNothing` (a run becomes one underscore, a slug stays what it is), `FromSound`,
`TrimSound`, `CutToSound`, `PadSound`; `BaseSound` and `BaseOfGood` put them together. No induction
is needed, because `Collapse` selects the kept positions by their rank among them (`InOrder`), which
is a bijection by counting (`RankHits`). That the search ends is `TriesFew`: the candidates from the
second on end in different digits, so those tried are as many as the taken ones among them, and
the first may come back once. The suffixes have one digit, hence the bound of seven.

### Registration

`Registration_proofs`, for any set of sagas, slugs and addresses:

| Theorem | Statement |
|---|---|
| `InvariantHolds`, `Typed` | `Spec => []Inv`, `[]TypeOK` |
| `Complete` | `Spec => []ActiveIsComplete` |
| `Dedicated` | `Spec => []SchemaIsDedicated` |
| `RollsBack` | `Spec => []RolledBackWithoutPlugin` |
| `OwnAccounts` | `Spec => OnlyOwnAccountDeleted` |

`Inv` ties each program counter to the rows the saga has made: `Local` says which steps are to be
undone there, `Rows` that a step to undo has its row and (where no compensation failed) that a
row is a step to undo or kept by the plugin's, `Holds` what the tenant's schema holds at that
stage. `Keys` is what one saga needs of the others: slugs are unique, memberships refer to
accounts, and a schema stands under a slug that is taken as long as every compensation went
through. The last is why nobody else's DROP SCHEMA reaches an active tenant, and the foreign keys
are why `UndoUser` of one saga cannot take the account another relies on.
Assumptions: the candidates differ, there is one, and `None` is no row.

### Plugins

`Plugins_proofs`, for any set of tenants and calls and any number of versions:

| Theorem | Statement |
|---|---|
| `InvariantHolds` | `PluginsSpec => []PluginsInv` |
| `MigrationsHold` | `PluginsSpec => []MigrationsSound` |
| `InstallsHold` | `PluginsSpec => []InstallsSound` |

`PluginsInv` gives each call its share in the difference between history and schema (`Work`): what a
run has passed is in the schema, a rollback has the versions still pending and nothing else there,
and its install row is the tenant's only one. `InstallsComplete` alone is not inductive, because a
row stays listed while a rollback takes its versions away, until the row is deleted: `RowsComplete`
says which calls those are. `Up` and `Down`, least and greatest of a set of versions, need that a
non-empty set of naturals has a least element (`NatLessThanWellFounded`).

### Boot and registration with Core

`Processes_proofs`:

| Theorem | Statement |
|---|---|
| `SeedInvariantHolds`, `RolesSeeded` | `SeedSpec => []SeedInv`, `[]RolesSound` |
| `BootsDisturbNobody` | `SeedSpec => BootStepsSound` |
| `RuntimeInvariantHolds`, `RoutesHold` | `Spec => []RuntimeInv`, `[]RoutesSound` |

`SeedInv` says of the rows an instance has listed that those all versions want are still there and
those nobody wants are all listed (`ListInv`), and that a role an instance is done with is complete
whatever the others do (`DoneInv`): an instance only removes what its own version does not want, so
never what all want, and adds only what one wants. Any number of versions and instances, not only
the run's two. Assumptions: there is an instance and a role.

`RuntimeInv` relates Core's entry to what the process knows: unless it is unsure of Core's last
answer or excused, the entry is the id and token it holds (`EntryInv`), and one that deregisters
sends nothing after it. Core draws ids at random, and `FreshAssumption` says there are
enough of them that one is unused: every id in play is in Core's entry or one of five
variables of a process, which is what `Cardinality(Id) > 5 * Cardinality(Process) + 1` counts.

### Introspection, gateway and handlers

`Access_proofs`, for any users, roles, permissions, writes and failing reads:

| Theorem | Statement |
|---|---|
| `AccessInvariantHolds`, `AnswersHold` | `AccessSpec => []AccessInv`, `[]AnswersSound` |
| `AdminsCrossTenants` | `AccessSpec => []CrossTenantByAdmins` |
| `GuardsAgree` | `AccessSpec => []HandlersAgree` |

`RecordedInv` says that while a call reads, `was` holds all that holds now and `lacked` all that
does not, so each read finds its fact recorded. `ReadInv`, `RoleInv` and `AnswerInv` say what
the reads so far have put into the answer; they only grow with the history, which is why no later
write can spoil them. For `HandlersAgree` the two matchers differ on permissions with an empty segment:
`MatchersAgree` shows that they agree on those of two non-empty segments, and the tables of routes
and handlers, gone through entry by entry, declare and check no other.
Assumption: users are not roles.

### Members' profiles and PINs

`Profiles_proofs`, for any people, PINs and handlers:

| Theorem | Statement |
|---|---|
| `ProfilesInvariantHolds`, `ProfilesTyped` | `ProfilesSpec => []ProfilesInv`, `[]ProfilesTypeOK` |
| `ProfilesFollowMembers` | `ProfilesSpec => []ProfilesOfMembers` |
| `PinsHold` | `ProfilesSpec => PinsSound` |
| `FaultsContained` | `FaultsSpec => []` of `TypesOK` and the state invariants of **AdmissionFaults** |

`HandlerInv` says of each handler nobody overtook that what it has read is so: its person is a
member, the members it has still to compare include all who have the PIN, and the PIN it found
free is nobody's. The two halves of `PinsSound` are about steps: `ClashesArise` goes through every
write that can make two members share a PIN.

`FaultsContained` puts the two parts of `MCFaults` together: they share no variable, so a behaviour
of `FaultsSpec` is one of `Spec` and one of `ProfilesSpec` (`EachPartAlone`), and what is proved of
each holds of both.

### Only model-checked

- Liveness (`ProvisioningEnds`, `SelfHeals`, `AnswersSettle`, `BootsConverge`, `CutTokensRevoked`):
  out of the prover's reach, together with ENABLED.

## Divergences without a run

Met while reading the code for the models, and not a property of a run because they concern
wording, one line, or code that is not modelled:

- README.md:79-80 says handlers re-check permissions; `listBranches`, `pinAvailable`, `install` and
  `uninstall` declare one to the gateway and check none. `HandlersAgree` speaks of those that do.
- A platform admin without a membership passes the gateway, but `requirePerm` refuses him on the
  tenant routes, and the re-check of `/me` answers "membership revoked".
- `PLATFORM_ADMIN_EMAILS` is lowered while stored addresses keep their case: such a user is never
  granted at boot (`ParsePlatformAdminEmails`).
- main.go:76-79 speaks of a one-time seed; every boot grants again, also whom a handler revoked.
- slug.go:20-21 speaks of a name with no usable letters or digits; one of digits only gives the
  empty base as well (`GenerateSlugBase`).
- Introspect reports a failed read of a membership in the words of a revoked one.
- The backup's schema pattern `^tenant_[a-z0-9]+$` (dbbackup.go:19-21) has no underscore, which
  slugs may have.
- `restoreTenant` leaves the tenant in its path unread.
- Route docs say "Owner/admin only" where managers hold `user:invite` or `branch:write` too.

## Not modelled

- Hashing, token generation, signature and claim checks: opaque, one condition each.
- HTTP decoding and the wording of answers; formatting and validation of names and phone numbers.
- Backups (`internal/dbbackup`): they run `pg_dump` and `psql` on files; no other part reads them.
- The tenant client: it opens a connection on one schema. The admin console: a browser front end
  of the same routes.
- Of the generated client: bulk creation, linking a child from the parent's side, group-by, scans,
  hooks and transactions, none of which is called.
- Of boot: opening the database, creating its schema, reading the environment, in sequence.
- Some behaviour is in the models without a property, because no text of the repository says what
  should hold: a failed sweep of tokens (the code calls it best-effort), a switch to a branch that
  is archived meanwhile, two processes that evict each other for ever. A Core that accepts a
  connection and never answers is excluded by fairness; the HTTP client has no timeout for it.

## Plan

Modelling: done for every component that keeps state. Left is a weaker promise than `Sessions`
that overlapping handlers refine, with the sessions of overtaken logins named.

Proofs: the safety properties of `Members`, `DeviceTokens` (with the refinement of `Sessions`),
`Registration`, `Plugins`, `Profiles`, `Accounts`, `GoogleKeys`, `Seeding`, `Runtime`, `Access`,
`Store` and `Slugs` are done. Left:

1. `ScopedTogether` for handlers that overlap, with what the overlap can do named: the membership
   moved or withdrawn between a handler's read and its write.
2. Suffixes of two digits in `Slugs`, and with them any number of taken slugs.

The runs are kept few, one per question, and parts that share no variable share a run. A run checks
at most one type invariant; related invariants are the named parts of one.
