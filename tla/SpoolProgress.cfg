\* Every append returns and the budget is restored, when the kernel runs the workers.
CONSTANTS
    w1 = w1
    w2 = w2
    Worker = {w1, w2}
    Blind = {}
    Inode = {1, 2, 3, 4, 5}
    None = None
    SegmentMax = 1
    MaxSegments = 1
    MaxAppends = 2
    MaxFaults = 0
SPECIFICATION FairSpec
\* every document handed over: nothing is left to do
CHECK_DEADLOCK FALSE
PROPERTIES
    AppendReturns
    BudgetRestored
