SPECIFICATION Spec
CONSTANTS
    s1 = s1
    s2 = s2
    slugA = slugA
    slugB = slugB
    e1 = e1
    None = None
    Elsewhere = Elsewhere
    Saga <- OneSaga
    Candidate <- TwoSlugs
    Email <- OneEmail
    PluginInstalled = TRUE
    MayStop = FALSE
    MayFailUndo = FALSE
INVARIANTS RolledBack
