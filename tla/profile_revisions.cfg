SPECIFICATION Spec
CONSTANTS
    r1 = r1
    r2 = r2
    r3 = r3
    s1 = s1
    s2 = s2
    c1 = c1
    t1 = t1
    Rev = {r1, r2, r3}
    Setting = {s1, s2}
    Current = s1
    Conv = {c1}
    Turn = {t1}
    MaxHand = 1
    MaxDeploy = 1
    MaxVersion = 3
    MaxMigrate = 2
    None = None
SYMMETRY MCSymmetry
INVARIANTS
    TestedBeforeServed
    TurnsAreExplained
    TurnStaysInService
PROPERTIES
    ServiceStaysUp
CHECK_DEADLOCK FALSE
