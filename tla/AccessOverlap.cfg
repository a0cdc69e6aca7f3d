SPECIFICATION AccessSpec
CONSTANTS
    u1 = u1
    u2 = u2
    r1 = r1
    r2 = r2
    None = None
    User <- TwoUsers
    Owner = u1
    Role <- TwoRoles
    Grant <- InviteAndBranches
    Seeded <- AllAndLess
    MaxWrites = 2
    MaxReadFaults = 1
INVARIANTS AnswersSound CrossTenantByAdmins HandlersAgree
PROPERTIES AnswersSettle
