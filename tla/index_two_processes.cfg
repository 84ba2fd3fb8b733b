CONSTANTS
    Proc = {p1, p2}
    Source = {s1}
    MaxVersion = 2
    Index = {i1, i2}
    MaxCrash = 1
    Reloads = FALSE
    Outages = FALSE
    Shell = {o1}
    None = None
SPECIFICATION FairSpec
INVARIANTS
    OneActive
PROPERTY EveryRunCloses
CHECK_DEADLOCK FALSE
