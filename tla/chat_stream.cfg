CONSTANTS
    Conv = {c1}
    Run = {r0, r1}
    Earlier = {r0}
    Rater = {p1, p2}
    MaxRewriteTurns = 1
    MaxCrash = 1
    Losses = TRUE
    None = None
SPECIFICATION StreamSpec
INVARIANTS
    StreamIsLawful
    EventsAreTrue
PROPERTIES
    FlipIsAFlip
    StreamCloses
    EveryTurnEnds
CHECK_DEADLOCK FALSE
