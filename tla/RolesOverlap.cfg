SPECIFICATION Spec
CONSTANTS
    u1 = u1
    u2 = u2
    r1 = r1
    r2 = r2
    c1 = c1
    None = None
    Founder = u1
    User <- TwoUsers
    Request <- TwoRequests
    CustomRole <- OneRole
    Permission <- OnePermission
    MaxMembershipId = 2
SYMMETRY Slots
INVARIANTS TypeOK GuardsHold NoOrphanPermissions
PROPERTIES RolesInUseKept LastManagerKept RefusalNeeded 
