\* Two requests, three functions and a table for two: every order of begins, ends,
\* opens and closes in nine handler calls.
CONSTANTS
    Function = {"handle", "query", "deliver"}
    Spanning = {"query"}
    Dispatchers = {"deliver"}
    MaxFunctions = 2
    MaxEdges = 2
    MaxRequests = 2
    MaxDepth = 4
    MaxClock = 9
SPECIFICATION Spec
\* the clock stops at its bound
CHECK_DEADLOCK FALSE
INVARIANTS
    FramesPaired
    TimesFit
    CountsAgree
    SpansNest
PROPERTIES
    EndsWithItsOpener
