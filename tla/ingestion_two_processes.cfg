CONSTANTS
    Proc = {p1, p2}
    Upload = {u1, u2}
    Page = {g1, g2}
    Content = {c1, c2}
    Run = {r1, r2}
    MaxCrash = 2
    Outages = FALSE
    None = None
SPECIFICATION FairSpec
PROPERTIES
    VersionsComeFromOpenRuns
    EveryRunCloses
CHECK_DEADLOCK FALSE
