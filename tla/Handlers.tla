------------------------------ MODULE Handlers ------------------------------
(***************************************************************************)
(* Who may do what over HTTP: the routes of cmd/identity/plugin.go with    *)
(* the permission each declares to Core's gateway (RequirePermission,      *)
(* buildManifest), and the guards its handlers apply themselves            *)
(* (requirePerm, requirePlatformAdmin, the tenant they act on).            *)
(***************************************************************************)
EXTENDS Permissions, FiniteSets

----------------------------------------------------------------------------
\* What is registered: <<method, path, handler>>.

PublicPaths == {"/auth/register", "/auth/login", "/auth/google", "/auth/config",
                "/auth/slug-available", "/auth/slug-suggest", "/console/*"}

AuthRoutes ==
    {<<"GET", "/console/*", "serveAdmin">>,
     <<"POST", "/auth/register", "register">>, <<"GET", "/auth/slug-available", "slugAvailable">>,
     <<"GET", "/auth/slug-suggest", "slugSuggest">>, <<"POST", "/auth/login", "login">>,
     <<"GET", "/auth/config", "authConfig">>, <<"POST", "/auth/google", "googleLogin">>,
     <<"POST", "/auth/logout", "logout">>, <<"GET", "/me", "me">>}

PluginRoutes ==
    {<<"POST", "/plugins/install", "install">>, <<"POST", "/plugins/uninstall", "uninstall">>,
     <<"GET", "/tenants/:id/plugins", "listTenantPlugins">>,
     <<"POST", "/plugins/install-all", "installAll">>,
     <<"POST", "/plugins/reconcile", "reconcilePlugin">>}

PlatformRoutes ==
    {<<"GET", "/tenants", "listTenants">>, <<"GET", "/platform-admins", "listPlatformAdmins">>,
     <<"POST", "/platform-admins", "grantPlatformAdmin">>,
     <<"DELETE", "/platform-admins/:email", "revokePlatformAdmin">>}

BranchRoutes ==
    {<<"GET", "/branches", "listBranches">>, <<"POST", "/branches", "createBranch">>,
     <<"PATCH", "/branches/:id", "updateBranch">>,
     <<"POST", "/branches/:id/members", "addMember">>,
     <<"POST", "/branches/switch", "switchBranch">>}

MemberRoutes ==
    {<<"GET", "/members", "listMembers">>, <<"PATCH", "/members/:userId", "updateMemberRole">>,
     <<"PATCH", "/members/:userId/status", "setMemberStatus">>,
     <<"DELETE", "/members/:userId", "removeMember">>,
     <<"PATCH", "/me/pin", "setOwnPin">>, <<"PATCH", "/members/:userId/pin", "setMemberPin">>,
     <<"POST", "/members/pin/available", "pinAvailable">>,
     <<"POST", "/me/pin/verify", "verifyOwnPin">>, <<"POST", "/me/pin/resolve", "resolvePin">>,
     <<"PATCH", "/me/profile", "updateOwnProfile">>, <<"PATCH", "/me/password", "changeOwnPassword">>,
     <<"PATCH", "/members/:userId/password", "setMemberPassword">>}

RoleRoutes ==
    {<<"GET", "/roles", "listRoles">>, <<"POST", "/roles", "createRole">>,
     <<"PATCH", "/roles/:id", "updateRole">>, <<"DELETE", "/roles/:id", "deleteRole">>}

TenantRoutes ==
    {<<"PATCH", "/tenant", "updateTenant">>, <<"PATCH", "/tenants/:id/status", "setTenantStatus">>,
     <<"PATCH", "/tenants/:id", "setTenantByAdmin">>}

ConsoleRoutes ==
    {<<"GET", "/tenants/:id/members", "adminListMembers">>,
     <<"POST", "/tenants/:id/members", "adminAddMember">>,
     <<"PATCH", "/tenants/:id/members/:userId/role", "adminUpdateMemberRole">>,
     <<"PATCH", "/tenants/:id/members/:userId/status", "adminSetMemberStatus">>,
     <<"PATCH", "/tenants/:id/members/:userId/password", "adminSetMemberPassword">>,
     <<"DELETE", "/tenants/:id/members/:userId", "adminRemoveMember">>,
     <<"GET", "/tenants/:id/roles", "adminListRoles">>,
     <<"GET", "/tenants/:id/branches", "adminListBranches">>,
     <<"POST", "/tenants/:id/branches", "adminCreateBranch">>,
     <<"PATCH", "/tenants/:id/branches/:branchId", "adminUpdateBranch">>,
     <<"POST", "/tenants/:id/roles", "adminCreateRole">>,
     <<"PATCH", "/tenants/:id/roles/:roleId", "adminUpdateRole">>,
     <<"DELETE", "/tenants/:id/roles/:roleId", "adminDeleteRole">>}

BackupRoutes ==
    {<<"GET", "/permissions", "adminListPermissions">>,
     <<"GET", "/tenants/:id/backup", "backupTenant">>, <<"POST", "/tenants/:id/restore", "restoreTenant">>,
     <<"GET", "/platform/db/backup", "backupAll">>, <<"POST", "/platform/db/restore", "restoreAll">>}

Routes == AuthRoutes \cup PluginRoutes \cup PlatformRoutes \cup BranchRoutes \cup MemberRoutes
          \cup RoleRoutes \cup TenantRoutes \cup ConsoleRoutes \cup BackupRoutes

\* <<method, path, permission>>: declared apart from the routes and joined to
\* them by their text.
RouteNeeds(perm, keys) == {<<k[1], k[2], perm>> : k \in keys}

DeclaredPermissions ==
    RouteNeeds(<<"branch", "read">>, {<<"GET", "/branches">>})
    \cup RouteNeeds(<<"branch", "write">>, {<<"POST", "/branches">>})
    \cup RouteNeeds(<<"branch", "manage">>, {<<"PATCH", "/branches/:id">>})
    \cup RouteNeeds(<<"user", "read">>, {<<"GET", "/members">>})
    \cup RouteNeeds(<<"user", "invite">>,
            {<<"POST", "/branches/:id/members">>, <<"PATCH", "/members/:userId">>,
             <<"DELETE", "/members/:userId">>, <<"PATCH", "/members/:userId/status">>,
             <<"PATCH", "/members/:userId/pin">>, <<"POST", "/members/pin/available">>,
             <<"PATCH", "/members/:userId/password">>})
    \cup RouteNeeds(<<"plugin", "install">>, {<<"POST", "/plugins/install">>})
    \cup RouteNeeds(<<"plugin", "uninstall">>, {<<"POST", "/plugins/uninstall">>})
    \cup RouteNeeds(<<"tenant", "manage">>,
            {<<"GET", "/roles">>, <<"POST", "/roles">>, <<"PATCH", "/roles/:id">>,
             <<"DELETE", "/roles/:id">>, <<"PATCH", "/tenant">>})

\* Public is looked up by path alone, the permission by method and path.
Manifest ==
    {[handler    |-> r[3],
      public     |-> r[2] \in PublicPaths,
      permission |-> LET d == {e \in DeclaredPermissions : e[1] = r[1] /\ e[2] = r[2]}
                     IN  IF d = {} THEN NoPermission ELSE (CHOOSE e \in d : TRUE)[3]] : r \in Routes}

----------------------------------------------------------------------------
\* What the handlers check. tenant says which tenant a handler acts on: the one
\* in the gateway's header, one named in the path, one named in the body, or none.

Guarded(names, adminOnly, perm, tenant) ==
    {[name |-> n, adminOnly |-> adminOnly, checks |-> perm, tenant |-> tenant] : n \in names}

Unchecked(names, tenant) == Guarded(names, FALSE, NoPermission, tenant)
Checked(names, perm) == Guarded(names, FALSE, perm, "device")
AdminOnly(names, tenant) == Guarded(names, TRUE, NoPermission, tenant)

SignUpHandlers == Unchecked({"register", "slugSuggest", "slugAvailable"}, "none")

SignInHandlers == Unchecked({"login", "authConfig", "googleLogin"}, "none")

ConsoleFiles == Unchecked({"serveAdmin"}, "none")

CallerHandlers == Unchecked({"logout", "me"}, "device")

InstallHandlers == Unchecked({"install", "uninstall"}, "body")

PluginAdminHandlers == AdminOnly({"listTenantPlugins", "installAll", "reconcilePlugin"}, "path")

TenantAdminHandlers == AdminOnly({"listTenants", "setTenantStatus", "setTenantByAdmin"}, "path")

\* Slip: the guard of the console's member routes is left out.
MemberAdminHandlers_Open ==
    Unchecked({"adminListMembers", "adminUpdateMemberRole", "adminSetMemberStatus",
               "adminRemoveMember", "adminSetMemberPassword"}, "path")

MemberAdminHandlers ==
    AdminOnly({"adminListMembers", "adminUpdateMemberRole", "adminSetMemberStatus",
               "adminRemoveMember", "adminSetMemberPassword"}, "path")

ConsoleHandlers ==
    AdminOnly({"adminAddMember", "adminListRoles", "adminListBranches", "adminCreateBranch",
               "adminUpdateBranch"}, "path")

RoleAdminHandlers ==
    AdminOnly({"adminCreateRole", "adminUpdateRole", "adminDeleteRole", "adminListPermissions"}, "path")

BackupHandlers == AdminOnly({"backupTenant", "backupAll", "restoreTenant", "restoreAll"}, "path")

PlatformAdminHandlers ==
    AdminOnly({"listPlatformAdmins", "grantPlatformAdmin", "revokePlatformAdmin"}, "path")

\* Slip: adding a member asks for a permission of its own.
BranchHandlers_Strict ==
    Unchecked({"listBranches", "switchBranch"}, "device")
    \cup Checked({"createBranch"}, <<"branch", "write">>)
    \cup Checked({"updateBranch"}, <<"branch", "manage">>)
    \cup Checked({"addMember"}, <<"user", "write">>)

BranchHandlers ==
    Unchecked({"listBranches", "switchBranch"}, "device")
    \cup Checked({"createBranch"}, <<"branch", "write">>)
    \cup Checked({"updateBranch"}, <<"branch", "manage">>)
    \cup Checked({"addMember"}, <<"user", "invite">>)

MemberHandlers ==
    Checked({"listMembers"}, <<"user", "read">>)
    \cup Checked({"updateMemberRole", "removeMember", "setMemberStatus"}, <<"user", "invite">>)

PinHandlers ==
    Unchecked({"setOwnPin", "updateOwnProfile", "pinAvailable", "verifyOwnPin", "resolvePin"}, "device")

CredentialHandlers ==
    Unchecked({"changeOwnPassword"}, "device")
    \cup Checked({"setMemberPin", "setMemberPassword"}, <<"user", "invite">>)

RoleHandlers ==
    Checked({"listRoles", "createRole", "updateRole", "deleteRole", "updateTenant"},
            <<"tenant", "manage">>)

AllHandlers ==
    SignUpHandlers \cup SignInHandlers \cup ConsoleFiles \cup CallerHandlers \cup InstallHandlers
    \cup PluginAdminHandlers \cup TenantAdminHandlers \cup MemberAdminHandlers
    \cup ConsoleHandlers \cup RoleAdminHandlers \cup BackupHandlers \cup PlatformAdminHandlers
    \cup BranchHandlers \cup MemberHandlers \cup PinHandlers \cup CredentialHandlers \cup RoleHandlers

\* Each route with the handler behind it.
Served == {s \in Manifest \X AllHandlers : s[1].handler = s[2].name}

----------------------------------------------------------------------------
\* caller is an accepted introspection: its user type and its permissions.

isPlatformAdmin(caller) == caller.type = "platform_admin"

requirePlatformAdmin(caller, h) == h.adminOnly => isPlatformAdmin(caller)

requirePerm(caller, h) == h.checks = NoPermission \/ HasPermission(caller.permissions, h.checks)

\* Whether the handler would act on a tenant that is not the device's.
ActsElsewhere(caller, h) ==
    \/ h.tenant = "path"
    \/ h.tenant = "body" /\ isPlatformAdmin(caller)

Permits(caller, h) == requirePlatformAdmin(caller, h) /\ requirePerm(caller, h)

\* Core: a platform admin passes, others need the declared permission.
GatewayLets(caller, route) ==
    route.public \/ isPlatformAdmin(caller) \/ Allows(caller.permissions, route.permission)
=============================================================================
