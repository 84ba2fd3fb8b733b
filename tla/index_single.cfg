CONSTANTS
    Proc = {p1}
    Source = {s1, s2}
    MaxVersion = 1
    Index = {i1, i2, i3}
    MaxCrash = 1
    Reloads = TRUE
    Outages = TRUE
    Shell = {}
    None = None
SYMMETRY Symmetry
SPECIFICATION Spec
INVARIANTS
    RegistryServesApplied
PROPERTIES
    NumberedIndexIsFixed
    OnlyOpenRunsFinish
    ImplementsServedIndex
CHECK_DEADLOCK FALSE
