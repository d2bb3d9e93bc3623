\* Two workers and the agent race; failed calls, short writes and killed workers between
\* any two calls.
CONSTANTS
    w1 = w1
    w2 = w2
    Worker = {w1, w2}
    Blind = {}
    Inode = {1, 2, 3, 4, 5}
    None = None
    SegmentMax = 1
    MaxSegments = 1
    MaxAppends = 2
    MaxFaults = 2
SPECIFICATION Spec
SYMMETRY Interchangeable
\* every document handed over: nothing is left to do
CHECK_DEADLOCK FALSE
INVARIANTS
    SegmentStaysNearLimit
    SegmentBudget
    LossesAddUp
PROPERTIES
    NewestNeverRetreats
    ImplementsFrameLog
