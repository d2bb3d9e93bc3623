\* One process, two requests and two spans: an allowlisted function, an HTTP call, three
\* ways to publish, a delivery, a directive that arms the recording late, with room for one
\* span and one body.
CONSTANTS
    None = None
    Foreign = Foreign
    act = act
    query = query
    send = send
    anonymous = anonymous
    keep = keep
    produce = produce
    dispatch = dispatch
    message = message
    Functions <- MCFunctions
    Table <- MCTable
    Headers <- MCHeaders
    Deployments <- MCDeployments
    Verdicts <- MCVerdicts
    Internal = {query, produce}
    Excluded = {}
    Messages = {message}
    Manifest = {act}
    Kinds = {"messaging"}
    MaxSpans = 1
    MaxBodies = 1
    MaxRequests = 2
    MaxIds = 2
    MaxTraced = 1
    MaxDepth = 2
    Outermost = {dispatch, keep}
    Reentrant = {act}
SPECIFICATION Spec
\* the requests of the bound are over
CHECK_DEADLOCK FALSE
INVARIANTS
    PromiseIsKept
    BatchIsBounded
    TreeIsConnected
    BodiesHaveTheirSpans
    VerdictIsCurrent
    CallDepthIsTrue
