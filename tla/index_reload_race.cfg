CONSTANTS
    Proc = {p1}
    Source = {s1}
    MaxVersion = 2
    Index = {i1, i2}
    MaxCrash = 0
    Reloads = TRUE
    Outages = FALSE
    Shell = {}
    None = None
SPECIFICATION Spec
PROPERTY ReloadInstallsActive
CHECK_DEADLOCK FALSE
