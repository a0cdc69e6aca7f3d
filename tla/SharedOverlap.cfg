SPECIFICATION SharedSpec
CONSTANTS
    u1 = u1
    u2 = u2
    t1 = t1
    sub1 = sub1
    sub2 = sub2
    pA = pA
    pB = pB
    c1 = c1
    c2 = c2
    v1 = v1
    v2 = v2
    k1 = k1
    k2 = k2
    Nobody = Nobody
    NoToken = NoToken
    Account <- TwoUsers
    LowerCase <- OneUser
    Configured <- TwoUsers
    Shop <- OneShop
    Sub <- TwoSubs
    Password <- TwoPasswords
    FirstPassword = pA
    FirstStaff <- StaffAtFirst
    Caller <- TwoCallers
    MaxCalls = 3
    MaxCuts = 1
    MaxOther = 1
    Verifier <- TwoVerifiers
    Kid <- TwoKeys
    IdToken <- Tokens
    Ttl = 2
    Timeout = 1
    MaxClock = 3
    MaxRotations = 1
    MaxFetchFaults = 1
    Name <- Names
    MaxSlug = 6
    MaxTaken = 3
    None = None
    Tenant <- OneShop
    Latest = 2
    Call <- TwoCallers
    MaxRows = 3
    MayFail = TRUE
    Word <- TwoWords
    First = "x"
    Empty = ""
    Null = Null
    MaxWrites = 2
SYMMETRY SharedSymmetry
INVARIANTS CredentialsSound KeysSound  MigrationsSound InstallsSound
PROPERTIES SubKept 
\* Each part stops at its bounds.
CHECK_DEADLOCK FALSE
