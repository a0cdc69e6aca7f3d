------------------------------- MODULE Store --------------------------------
(***************************************************************************)
(* The tables of the shared schema and of one tenant as the generated      *)
(* client (ent/) reads and writes them. A builder checks what it was       *)
(* given, then sends one statement, which commits on its own or fails on a *)
(* constraint and changes nothing; a query with eager-loaded edges sends   *)
(* one SELECT for the rows and another for each edge, and other writes     *)
(* fall between them. A value is a word, the empty string or NULL: times,  *)
(* flags and texts are not told apart. Left out: bulk creation and linking *)
(* of rows to a parent from the parent's side, which nothing calls.        *)
(***************************************************************************)
EXTENDS Naturals, FiniteSets, Sequences

CONSTANTS
    Word, First,      \* values; First is also every default that is not empty
    Empty, Null,
    MaxWrites         \* bound on the statements that write

ASSUME StoreAssumption ==
    First \in Word /\ Empty \notin Word /\ Null \notin Word \cup {Empty} /\ MaxWrites \in Nat

Value == Word \cup {Empty}

----------------------------------------------------------------------------
\* The columns.

BranchColumns == {"id", "tenant_id", "slug", "name", "status", "created_at"}
DeviceTokenColumns == {"id", "token_hash", "user_id", "tenant_id", "branch_id", "device_name",
                       "created_at", "last_used_at", "revoked_at"}
PluginInstallColumns == {"id", "tenant_id", "plugin_name", "installed_at", "permissions"}
PluginMigrationHistoryColumns ==
    {"id", "tenant_id", "plugin_name", "version", "name", "status", "applied_at"}
RoleColumns == {"id", "tenant_id", "slug", "name", "is_system", "created_at"}
RolePermissionColumns == {"id", "role_id", "permission"}
TenantColumns == {"id", "slug", "name", "plan", "status", "schema_name"}
TenantUserColumns == {"id", "user_id", "tenant_id", "branch_id", "role_id", "status", "created_at"}
UserColumns == {"id", "email", "password_hash", "google_sub", "is_platform_admin", "created_at"}
UserProfileColumns ==
    {"id", "full_name", "phone", "job_title", "system_role", "pin_hash", "created_at"}

Columns == [
    branches |-> BranchColumns, device_tokens |-> DeviceTokenColumns,
    plugin_installs |-> PluginInstallColumns,
    plugin_migration_histories |-> PluginMigrationHistoryColumns,
    roles |-> RoleColumns, role_permissions |-> RolePermissionColumns,
    tenants |-> TenantColumns, tenant_users |-> TenantUserColumns,
    users |-> UserColumns, user_profiles |-> UserProfileColumns]

Table == DOMAIN Columns

\* What the database itself enforces (ent/migrate/schema.go).
Nullable(t) ==
    CASE t = "device_tokens" -> {"branch_id", "device_name", "last_used_at", "revoked_at"}
      [] t = "plugin_installs" -> {"permissions"}
      [] t = "roles" -> {"tenant_id"}
      [] t = "users" -> {"google_sub"}
      [] t = "user_profiles" -> {"phone", "job_title", "pin_hash"}
      [] OTHER -> {}

Unique(t) ==
    {{"id"}} \cup
    CASE t = "branches" -> {{"tenant_id", "slug"}}
      [] t = "device_tokens" -> {{"token_hash"}}
      [] t = "roles" -> {{"tenant_id", "slug"}}
      [] t = "role_permissions" -> {{"role_id", "permission"}}
      [] t = "tenants" -> {{"slug"}, {"schema_name"}}
      [] t = "tenant_users" -> {{"user_id", "tenant_id"}}
      [] t = "users" -> {{"email"}, {"google_sub"}}
      [] OTHER -> {}

\* Slip: the key of the permissions is lost.
ForeignKeys_NoRole ==
    {[of |-> "branches", column |-> "tenant_id", to |-> "tenants"],
     [of |-> "plugin_installs", column |-> "tenant_id", to |-> "tenants"],
     [of |-> "tenant_users", column |-> "tenant_id", to |-> "tenants"],
     [of |-> "tenant_users", column |-> "user_id", to |-> "users"]}

ForeignKeys ==
    {[of |-> "branches", column |-> "tenant_id", to |-> "tenants"],
     [of |-> "plugin_installs", column |-> "tenant_id", to |-> "tenants"],
     [of |-> "role_permissions", column |-> "role_id", to |-> "roles"],
     [of |-> "tenant_users", column |-> "tenant_id", to |-> "tenants"],
     [of |-> "tenant_users", column |-> "user_id", to |-> "users"]}

----------------------------------------------------------------------------
VARIABLES
    rows,             \* per table: its rows, functions from columns to values
    load,             \* a query whose edges are being loaded
    writes

storeVars == <<rows, load, writes>>

\* nodes: the rows read; todo: edges still to load; edges: <<edge, node, row loaded>>.
NoLoad == [of |-> "none", nodes |-> {}, todo |-> <<>>, edges |-> {}]

Row(t, w) == [c \in Columns[t] |-> w]

StoreInit ==
    /\ rows = [t \in Table |-> {Row(t, First)}]
    /\ load = NoLoad
    /\ writes = 0

\* NULLs differ from each other in a unique index.
Same(r, s, key) == \A c \in key : r[c] = s[c] /\ r[c] # Null

Accepts(db, t) ==
    /\ \A r \in db[t], c \in Columns[t] \ Nullable(t) : r[c] # Null
    /\ \A r, s \in db[t], key \in Unique(t) : Same(r, s, key) => r = s
    /\ \A fk \in ForeignKeys : t \in {fk.of, fk.to} =>
          \A r \in db[fk.of] : r[fk.column] = Null \/ \E p \in db[fk.to] : p["id"] = r[fk.column]

\* The statement: t's rows become new, or nothing does. What it does between a
\* query's last SELECT and its return is the same after the return.
Send(t, new) ==
    LET db == [rows EXCEPT ![t] = new]
    IN  /\ writes < MaxWrites /\ (load = NoLoad \/ load.todo # <<>>)
        /\ new # rows[t] /\ Accepts(db, t)
        /\ rows' = db
        /\ writes' = writes + 1
        /\ UNCHANGED load

NotEmpty(row, cols) == \A c \in cols : row[c] # Empty

\* The caller gives every column the word w, but for column d: another value or,
\* for v = Null, none. Defaults are filled in, the required columns checked, the
\* row inserted.
Create(t, defaults, required, notEmpty) ==
    writes < MaxWrites /\ \E w \in Word, d \in Columns[t], v \in Value \cup {Null} :
        LET row == [c \in Columns[t] |->
                       IF c # d THEN w
                       ELSE IF v # Null THEN v
                       ELSE IF c \in DOMAIN defaults THEN defaults[c] ELSE Null]
        IN  /\ \A c \in required : row[c] # Null
            /\ NotEmpty(row, notEmpty)
            /\ \A r \in rows[t] : r["id"] # row["id"]
            /\ Send(t, rows[t] \cup {row})

\* One column set, or one cleared, in all rows of hit.
Change(t, hit, m, notEmpty) ==
    /\ hit # {} /\ writes < MaxWrites
    /\ \E c \in m.set, v \in Value \cup {Null} :
          /\ v = Null => c \in m.clear
          /\ v = Empty => c \notin notEmpty
          /\ Send(t, (rows[t] \ hit) \cup {[r EXCEPT ![c] = v] : r \in hit})

\* Where: whatever the predicates, they select some of the rows.
Update(t, m, notEmpty) == \E hit \in SUBSET rows[t] : Change(t, hit, m, notEmpty)
\* By id: no such row is an error.
UpdateOne(t, m, notEmpty) == \E r \in rows[t] : Change(t, {r}, m, notEmpty)

\* Delete sends the predicates; DeleteOne an id, and reports one that is not there.
Delete(t) == \E hit \in SUBSET rows[t] : Send(t, rows[t] \ hit)

\* The rows first; then the edges asked for, in the order of names.
Select(t, names) ==
    /\ load = NoLoad
    /\ rows[t] # {}
    /\ \E wanted \in SUBSET {names[i] : i \in DOMAIN names} \ {{}} :
          load' = [of |-> t, nodes |-> rows[t],
                   todo |-> SelectSeq(names, LAMBDA e : e \in wanted), edges |-> {}]
    /\ UNCHANGED <<rows, writes>>

Loaded(t, e, pairs) ==
    /\ load.of = t /\ load.todo # <<>> /\ Head(load.todo) = e
    /\ load' = [load EXCEPT !.todo = Tail(@), !.edges = @ \cup {<<e, q[1], q[2]>> : q \in pairs}]
    /\ UNCHANGED <<rows, writes>>

\* The parent a column names; the children whose column names the row.
LoadParent(t, e, column, parents) ==
    Loaded(t, e, {q \in load.nodes \X rows[parents] : q[1][column] = q[2]["id"]})
LoadChildren(t, e, children, column) ==
    Loaded(t, e, {q \in load.nodes \X rows[children] : q[2][column] = q[1]["id"]})

\* The columns a builder has a setter for, without those of no.
Without(m, no) == [m EXCEPT !.set = @ \ no]

----------------------------------------------------------------------------
BranchMutation == [set |-> BranchColumns, clear |-> {"tenant_id"}]

BranchCreate ==
    Create("branches", [status |-> First, created_at |-> First],
           {"tenant_id", "slug", "name", "status", "created_at"}, {})

BranchUpdate == Update("branches", Without(BranchMutation, {"id", "created_at"}), {})
BranchUpdateOne == UpdateOne("branches", Without(BranchMutation, {"id", "created_at"}), {})
BranchDelete == Delete("branches")

BranchQuery ==
    \/ Select("branches", <<"tenant">>)
    \/ LoadParent("branches", "tenant", "tenant_id", "tenants")

BranchClient == BranchCreate \/ BranchUpdate \/ BranchUpdateOne \/ BranchDelete \/ BranchQuery

----------------------------------------------------------------------------
DeviceTokenMutation == [set |-> DeviceTokenColumns, clear |-> {"branch_id", "device_name", "last_used_at", "revoked_at"}]

DeviceTokenCreate ==
    Create("device_tokens", [device_name |-> Empty, created_at |-> First],
           {"token_hash", "user_id", "tenant_id", "created_at"}, {"token_hash", "user_id", "tenant_id"})

DeviceTokenUpdate == Update("device_tokens", Without(DeviceTokenMutation, {"id", "created_at"}), {"token_hash", "user_id", "tenant_id"})
DeviceTokenUpdateOne == UpdateOne("device_tokens", Without(DeviceTokenMutation, {"id", "created_at"}), {"token_hash", "user_id", "tenant_id"})
DeviceTokenDelete == Delete("device_tokens")

DeviceTokenClient ==
    \/ DeviceTokenCreate
    \/ DeviceTokenUpdate
    \/ DeviceTokenUpdateOne
    \/ DeviceTokenDelete

----------------------------------------------------------------------------
PluginInstallMutation == [set |-> PluginInstallColumns, clear |-> {"permissions", "tenant_id"}]

PluginInstallCreate ==
    Create("plugin_installs", [installed_at |-> First],
           {"tenant_id", "plugin_name", "installed_at"}, {})

PluginInstallUpdate == Update("plugin_installs", Without(PluginInstallMutation, {"id"}), {})
PluginInstallUpdateOne == UpdateOne("plugin_installs", Without(PluginInstallMutation, {"id"}), {})
PluginInstallDelete == Delete("plugin_installs")

PluginInstallQuery ==
    \/ Select("plugin_installs", <<"tenant">>)
    \/ LoadParent("plugin_installs", "tenant", "tenant_id", "tenants")

PluginInstallClient ==
    \/ PluginInstallCreate
    \/ PluginInstallUpdate
    \/ PluginInstallUpdateOne
    \/ PluginInstallDelete
    \/ PluginInstallQuery

----------------------------------------------------------------------------
PluginMigrationHistoryMutation == [set |-> PluginMigrationHistoryColumns, clear |-> {}]

PluginMigrationHistoryCreate ==
    Create("plugin_migration_histories", [status |-> First, applied_at |-> First],
           PluginMigrationHistoryColumns \ {"id"}, {})

PluginMigrationHistoryUpdate == Update("plugin_migration_histories", Without(PluginMigrationHistoryMutation, {"id"}), {})
PluginMigrationHistoryUpdateOne == UpdateOne("plugin_migration_histories", Without(PluginMigrationHistoryMutation, {"id"}), {})
PluginMigrationHistoryDelete == Delete("plugin_migration_histories")

PluginMigrationHistoryClient ==
    \/ PluginMigrationHistoryCreate
    \/ PluginMigrationHistoryUpdate
    \/ PluginMigrationHistoryUpdateOne
    \/ PluginMigrationHistoryDelete

----------------------------------------------------------------------------
RoleMutation == [set |-> RoleColumns, clear |-> {"tenant_id"}]

RoleCreate ==
    Create("roles", [is_system |-> First, created_at |-> First],
           {"slug", "name", "is_system", "created_at"}, {})

RoleUpdate == Update("roles", Without(RoleMutation, {"id", "created_at"}), {})
RoleUpdateOne == UpdateOne("roles", Without(RoleMutation, {"id", "created_at"}), {})
RoleDelete == Delete("roles")

RoleQuery ==
    \/ Select("roles", <<"permissions">>)
    \/ LoadChildren("roles", "permissions", "role_permissions", "role_id")

RoleClient == RoleCreate \/ RoleUpdate \/ RoleUpdateOne \/ RoleDelete \/ RoleQuery

----------------------------------------------------------------------------
RolePermissionMutation == [set |-> RolePermissionColumns, clear |-> {"role_id"}]

RolePermissionCreate ==
    Create("role_permissions", <<>>,
           {"role_id", "permission"}, {})

RolePermissionUpdate == Update("role_permissions", Without(RolePermissionMutation, {"id"}), {})
RolePermissionUpdateOne == UpdateOne("role_permissions", Without(RolePermissionMutation, {"id"}), {})
RolePermissionDelete == Delete("role_permissions")

RolePermissionQuery ==
    \/ Select("role_permissions", <<"role">>)
    \/ LoadParent("role_permissions", "role", "role_id", "roles")

RolePermissionClient ==
    \/ RolePermissionCreate
    \/ RolePermissionUpdate
    \/ RolePermissionUpdateOne
    \/ RolePermissionDelete
    \/ RolePermissionQuery

----------------------------------------------------------------------------
TenantMutation == [set |-> TenantColumns, clear |-> {}]

TenantCreate ==
    Create("tenants", [plan |-> First, status |-> First],
           {"slug", "name", "plan", "status", "schema_name"}, {})

TenantUpdate == Update("tenants", Without(TenantMutation, {"id", "slug", "schema_name"}), {})
TenantUpdateOne == UpdateOne("tenants", Without(TenantMutation, {"id", "slug", "schema_name"}), {})
TenantDelete == Delete("tenants")

TenantQuery ==
    \/ Select("tenants", <<"tenant_users", "plugin_installs", "branches">>)
    \/ LoadChildren("tenants", "tenant_users", "tenant_users", "tenant_id")
    \/ LoadChildren("tenants", "plugin_installs", "plugin_installs", "tenant_id")
    \/ LoadChildren("tenants", "branches", "branches", "tenant_id")

TenantClient == TenantCreate \/ TenantUpdate \/ TenantUpdateOne \/ TenantDelete \/ TenantQuery

----------------------------------------------------------------------------
TenantUserMutation == [set |-> TenantUserColumns, clear |-> {"user_id", "tenant_id"}]

TenantUserCreate ==
    Create("tenant_users", [status |-> First, created_at |-> First],
           TenantUserColumns \ {"id"}, {})

TenantUserUpdate == Update("tenant_users", Without(TenantUserMutation, {"id", "created_at"}), {})
TenantUserUpdateOne == UpdateOne("tenant_users", Without(TenantUserMutation, {"id", "created_at"}), {})
TenantUserDelete == Delete("tenant_users")

TenantUserQuery ==
    \/ Select("tenant_users", <<"user", "tenant">>)
    \/ LoadParent("tenant_users", "user", "user_id", "users")
    \/ LoadParent("tenant_users", "tenant", "tenant_id", "tenants")

TenantUserClient ==
    \/ TenantUserCreate
    \/ TenantUserUpdate
    \/ TenantUserUpdateOne
    \/ TenantUserDelete
    \/ TenantUserQuery

----------------------------------------------------------------------------
UserMutation == [set |-> UserColumns, clear |-> {"google_sub"}]

UserCreate ==
    Create("users", [is_platform_admin |-> First, created_at |-> First],
           {"email", "password_hash", "is_platform_admin", "created_at"}, {})

UserUpdate == Update("users", Without(UserMutation, {"id", "created_at"}), {})
UserUpdateOne == UpdateOne("users", Without(UserMutation, {"id", "created_at"}), {})
UserDelete == Delete("users")

UserQuery ==
    \/ Select("users", <<"tenant_users">>)
    \/ LoadChildren("users", "tenant_users", "tenant_users", "user_id")

UserClient == UserCreate \/ UserUpdate \/ UserUpdateOne \/ UserDelete \/ UserQuery

----------------------------------------------------------------------------
UserProfileMutation == [set |-> UserProfileColumns, clear |-> {"phone", "job_title", "pin_hash"}]

UserProfileCreate ==
    Create("user_profiles", [system_role |-> First, pin_hash |-> Empty, created_at |-> First],
           {"full_name", "system_role", "created_at"}, {})

UserProfileUpdate == Update("user_profiles", Without(UserProfileMutation, {"id", "created_at"}), {})
UserProfileUpdateOne == UpdateOne("user_profiles", Without(UserProfileMutation, {"id", "created_at"}), {})
UserProfileDelete == Delete("user_profiles")

UserProfileClient ==
    \/ UserProfileCreate
    \/ UserProfileUpdate
    \/ UserProfileUpdateOne
    \/ UserProfileDelete

----------------------------------------------------------------------------
\* The query is over, its result used.
Used ==
    /\ load # NoLoad /\ load.todo = <<>>
    /\ load' = NoLoad
    /\ UNCHANGED <<rows, writes>>

StoreNext ==
    \/ BranchClient
    \/ DeviceTokenClient
    \/ PluginInstallClient
    \/ PluginMigrationHistoryClient
    \/ RoleClient
    \/ RolePermissionClient
    \/ TenantClient
    \/ TenantUserClient
    \/ UserClient
    \/ UserProfileClient
    \/ Used

StoreSpec == StoreInit /\ [][StoreNext]_storeVars

----------------------------------------------------------------------------
\* Properties, from the schema the client is generated from (ent/schema).

Optional ==
    {<<"roles", "tenant_id">>, <<"users", "google_sub">>, <<"plugin_installs", "permissions">>}
    \cup {"user_profiles"} \X {"phone", "job_title", "pin_hash"}
    \cup {"device_tokens"} \X {"branch_id", "device_name", "last_used_at", "revoked_at"}

\* Every row has its table's columns, and NULL only where the schema says Optional.
StoreTypeOK ==
    /\ \A t \in Table : \A r \in rows[t] :
          /\ DOMAIN r = Columns[t]
          /\ \A c \in Columns[t] : r[c] \in Value \/ (r[c] = Null /\ <<t, c>> \in Optional)
    /\ load = NoLoad \/ load.of \in Table
    /\ writes \in 0..MaxWrites

(***************************************************************************)
(* ent/schema/device_token.go: hash, user and tenant are NotEmpty, which   *)
(* the database does not know: every way to write a token checks them. No  *)
(* two tokens have one hash, no two memberships one user and tenant.       *)
(***************************************************************************)
TokensWhole ==
    /\ \A r \in rows["device_tokens"], c \in {"token_hash", "user_id", "tenant_id"} :
          r[c] \in Word
    /\ \A r, s \in rows["device_tokens"] : r["token_hash"] = s["token_hash"] => r = s
    /\ \A r, s \in rows["tenant_users"] :
          r["user_id"] = s["user_id"] /\ r["tenant_id"] = s["tenant_id"] => r = s

(***************************************************************************)
(* ent/schema/tenant.go: the slug "cannot change after creation", for it   *)
(* names the tenant's database schema: no statement changes the slug or    *)
(* the schema of a tenant, whoever sends it, or the time a row was made.   *)
(***************************************************************************)
ImmutableKept ==
    \A t \in Table : \A r \in rows[t], s \in rows'[t] :
       r["id"] = s["id"] => \A c \in {"slug", "schema_name", "created_at"} \cap Columns[t] :
           r[c] = s[c] \/ (t \in {"branches", "roles"} /\ c = "slug")

(***************************************************************************)
(* A parent is loaded by a statement of its own, after the row. It is      *)
(* there unless the row was deleted or moved in between: a row that still  *)
(* is what was read has its tenant, user or role loaded (NotLoaded and     *)
(* NotFound errors of the edge are for the others).                        *)
(***************************************************************************)
ParentsLoaded ==
    load.todo # <<>> /\ load' # load =>
       LET e == Head(load.todo)
       IN  e \in {"tenant", "user", "role"} =>
              \A n \in load.nodes \cap rows[load.of] :
                 \E p \in load'.edges : p[1] = e /\ p[2] = n

\* No statement of the client leaves a row short of what its schema promises,
\* changes what must not change, or loads an edge with a parent missing.
SoundStatement ==
    /\ rows' # rows => StoreTypeOK' /\ TokensWhole' /\ ImmutableKept
    /\ ParentsLoaded

\* Every statement of the builders in ent/ is sound.
StatementsSound == [][SoundStatement]_storeVars
=============================================================================
