CONSTANTS
    Chunk = {1, 2, 3, 4}
    VersionOf <- MCVersionOf
    PathOf <- MCPathOf
    Console = {12}
    SourceOf <- MCSourceOf
    ContentOf <- MCContentOf
    IdentityOf <- MCIdentityOf
    OrderOf <- MCOrderOf
    Off = {2}
    Approved <- MCApproved
    RrfK = 60
    CandidateK = 2
    TopK = 3
    DocumentTopK = 3
    MaxRelated = 2
    Subproblem = {1, 2, 3}
    KeyOf <- MCKeyOf
    SubproblemTopK = 2
    Judges = {"OPENAI", "JEV"}
    Fragment = {"THAT", "SAID", "IT", "BUTTON", "EXPORT", "RIIDO", "WHICH", "SERVICE",
                "DOES", "PLAN", "PAY", "USER"}
    Reference = {"THAT", "SAID", "IT"}
    UiReferences <- MCUiReferences
    Expansions <- MCExpansions
    Question <- MCQuestion
    Candidates <- MCCandidates
    Written <- MCWritten
    Named <- MCNamed
    MaxQuery = 3
SPECIFICATION Spec
INVARIANTS
    SearchesWhatItSays
    FusionIsRanked
    CompletedIsGrounded
    
    AttributionFollowsEvidence
CHECK_DEADLOCK FALSE
