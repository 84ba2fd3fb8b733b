CONSTANTS
    Conv = {c1, c2}
    Run = {r1, r2}
    MaxRewriteTurns = 1
    MaxCrash = 1
    Losses = TRUE
    None = None
SYMMETRY Symmetry
SPECIFICATION Spec
INVARIANTS
    OpenTurnIsLast
    OnlyUnconfirmedCallsStay
    ContextIsAnswered
PROPERTIES
    OutcomeIsFinal
CHECK_DEADLOCK FALSE
