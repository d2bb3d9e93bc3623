SPECIFICATION Spec
CONSTANTS
  MaxRequests = 2
  MaxIds = 5
  MaxSpans = 3
  MaxBatch = 2
  MaxPending = 1
INVARIANTS
  OneTraceOnTheStack
  PromiseKept
  OnlyOpenSpansAreParents
CHECK_DEADLOCK FALSE
