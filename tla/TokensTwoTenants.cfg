SPECIFICATION Spec
CONSTANTS
    u1 = u1
    u2 = u2
    t1 = t1
    t2 = t2
    b1 = b1
    b2 = b2
    k1 = k1
    k2 = k2
    r1 = r1
    r2 = r2
    None = None
    User <- OneUser
    Tenant <- TwoTenants
    Branch <- TwoTenantBranches
    BranchTenant <- TwoTenantOf
    MainBranch <- TwoTenantMain
    Founder <- TwoTenantFounder
    Console <- FirstUser
    Token <- TwoTokens
    MaxJoins = 1
    Request <- OneRequest
    MayFail = TRUE
SYMMETRY Hashes
INVARIANTS TypeOK BranchesInTenant
PROPERTIES DevicesOfOthersKept
