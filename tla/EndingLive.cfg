SPECIFICATION EndingSpec
\* Instances that all serve, with no crash left, are at rest.
CONSTANTS
    s1 = s1
    s2 = s2
    slugA = slugA
    slugB = slugB
    e1 = e1
    None = None
    Elsewhere = Elsewhere
    Saga <- TwoSagas
    Candidate <- TwoSlugs
    Email <- OneEmail
    PluginInstalled = FALSE
    MayStop = FALSE
    MayFailUndo = FALSE
    i1 = i1
    i2 = i2
    owner = owner
    member = member
    p = p
    q = q
    z = z
    Instance <- TwoInstances
    SystemRole <- TwoRoles
    Perm <- ThreePermissions
    Wanted <- TwoVersions
    Unborn = Unborn
    MaxDeaths = 1
    MaxRows = 6
INVARIANTS RolesSound
PROPERTIES ProvisioningEnds BootStepsSound BootsConverge
CHECK_DEADLOCK FALSE
