CONSTANTS
    Nodes <- MCNodes
    Kind <- MCKind
    Children <- MCChildren
    Retries <- MCRetries
    Roots = {"a", "b", "c"}
    Job = Job
SPECIFICATION FairSpec
INVARIANTS
    TypeOK
    StragglersCancelled
    ContextsAreScoped
    SetupOutlivesUse
    OutcomeAgrees
PROPERTIES
    CancelledCallsReturn
    TimeLimitHolds
    ResultsAreCollected
