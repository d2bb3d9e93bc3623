\* Two profiled requests; one function that computes, one call that waits.
CONSTANTS
    None = None
    r1 = r1
    r2 = r2
    work = work
    query = query
    Requests = {r1, r2}
    Functions = {work, query}
    Waits = {query}
    Callbacks = {work}
    Kinds = {"cpu", "wall", "off_cpu", "io"}
    Period = 2
    MinIo = 1
    MaxSamples = 3
    MaxDepth = 1
    MaxNesting = 2
    MaxTime = 4
SPECIFICATION Spec
SYMMETRY Interchangeable
\* the clock has been read to its bound
CHECK_DEADLOCK FALSE
INVARIANTS
    TicksChargedOnce
    WindowsTile
    NoWaitIsMissed
    IoIsExact
