CONSTANTS
    Proc = {p1}
    Upload = {u1, u2}
    Page = {g1, g2}
    Content = {c1, c2}
    Run = {r1, r2, r3, r4}
    MaxCrash = 1
    Outages = TRUE
    None = None
SYMMETRY Symmetry
SPECIFICATION Spec
INVARIANTS
    TypeOK
    OneJobAtATime
    NoDuplicateUpload
    VersionsDiffer
    OpenRunsAreEnabled
CHECK_DEADLOCK FALSE
