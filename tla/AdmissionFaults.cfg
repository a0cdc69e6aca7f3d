SPECIFICATION FaultsSpec
CONSTANTS
    s1 = s1
    s2 = s2
    slugA = slugA
    slugB = slugB
    e1 = e1
    None = None
    Elsewhere = Elsewhere
    Saga <- TwoSagas
    Candidate <- TwoSlugs
    Email <- OneEmail
    PluginInstalled = TRUE
    MayStop = TRUE
    MayFailUndo = TRUE
    u1 = u1
    u2 = u2
    p1 = p1
    r1 = r1
    r2 = r2
    Nil = Nil
    User <- TwoUsers
    Founder = u1
    Pin <- OnePin
    MaxJoins = 3
    Request <- TwoRequests
    MayFail = TRUE
SYMMETRY FaultsSymmetry
INVARIANTS TypesOK ActiveIsComplete SchemaIsDedicated RolledBackWithoutPlugin ProfilesOfMembers
PROPERTIES OnlyOwnAccountDeleted PinsSound
