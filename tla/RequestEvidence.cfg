\* Two requests of one process under every deployment: evidence stays with its request.
CONSTANTS
    Deployments <- AllKinds
    BridgeDirectives = {TRUE, FALSE}
    Tags = {"action"}
    MaxPending = 1
    MaxAttributes = 2
    MaxLabels = 3
    MaxRequests = 2
    MaxCalls = 3
SPECIFICATION Spec
\* the process has served its requests and made its calls
CHECK_DEADLOCK FALSE
INVARIANTS
    OwnEvidenceOnly
    NoPromiseWithoutBody
    NothingAcceptedIsLost
    RecordingKeepsEveryEffect
PROPERTIES
    IdentityIsFixed
    EveryCaptureHasItsTrace
