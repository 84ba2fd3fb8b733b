SPECIFICATION Spec
CONSTANTS
    e1 = e1
    e2 = e2
    r1 = r1
    r2 = r2
    p1 = p1
    None = None
    Evaluator = {e1, e2}
    Run = {r1, r2}
    Plan = {p1}
    PlanOf <- PlanOfEvaluator
    RunsOf <- RunsOfEvaluator
    Turns = 2
    Data <- TwoTurns
    Verdict = {"SERVED", "REJECTED", "FAILED"}
    MaxFaults = 2
INVARIANTS
    RunsHaveOneOwner
    LedgersTellTheTruth
    ComparedWasMeasured
    ChildrenMeasureAlike
    NothingIsLeftOpen
CHECK_DEADLOCK FALSE
