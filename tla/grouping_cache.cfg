CONSTANTS
    Sub = {s1}
    Canon = {k1, k2}
    Turn = {t1, t2}
    FirstTurn = {t1}
    Options = {"SHADOW", "SERVING", None}
    Profiles = {{"EXACT", "SEMANTIC"}}
    MaxChange = 3
    None = None
    Unrecorded = Unrecorded
SYMMETRY Symmetry
SPECIFICATION Spec
INVARIANTS
    AnswerFitsDefinition
    AttemptMatchesAnswer
    JudgedAnswersWereLive
    StoppedIsNotServed
CHECK_DEADLOCK FALSE
