SPECIFICATION Spec
CONSTANTS
    u1 = u1
    u2 = u2
    t1 = t1
    t2 = t2
    b1 = b1
    b2 = b2
    k1 = k1
    k2 = k2
    r1 = r1
    r2 = r2
    None = None
    User <- OneUser
    Tenant <- OneTenant
    Branch <- MainOnly
    BranchTenant <- MainOnlyOf
    MainBranch <- OneTenantMain
    Founder <- OneTenantFounder
    Console <- NoOne
    Token <- OneToken
    MaxJoins = 1
    Request <- TwoRequests
    MayFail = FALSE
PROPERTIES NoRevival
