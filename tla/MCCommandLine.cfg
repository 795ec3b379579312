SPECIFICATION Spec
CONSTANTS
    BUFSIZE = 6
    NameMax = 2
    ArgEnd = 5
    Letters = {"a", "e", "q"}
    MaxLine = 4
    Stale <- MCStale
INVARIANTS NameIsFirstWord TypedArgsArrive
