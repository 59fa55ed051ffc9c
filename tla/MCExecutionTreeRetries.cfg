CONSTANTS
    Nodes <- MCNodes
    Kind <- MCKind
    Children <- MCChildren
    Retries <- MCRetries
    Roots = {"b"}
    Job = Job
SPECIFICATION Spec
INVARIANT RetriesMade
