\* One request: bodies of up to seven bytes over previews of one to three, marks beyond the
\* cap, every write may fail and the worker may die between two.
CONSTANTS
    Absent = Absent
    a = a
    b = b
    c = c
    Characters = {1, 2, 3, 4, 5}
    Names = {a, b, c}
    NameBytes <- MCNameBytes
    Exchanges <- MCExchanges
    Responses <- MCResponses
    Outbound <- MCOutbound
    Buffers <- MCBuffers
    Payloads <- MCPayloads
    Listed <- MCListed
    Mask <- MCMask
    Sensitive = {b}
    Wide = {2, 4}
    ChunkBytes = 2
    MaxDocument = 6
    Envelope = 3
    ChunkBlock = 2
    SpanOverhead = 2
    TargetBytes = 4
    DefaultInline = 3
    DefaultTotal = 4
    Ceiling = 6
    MaxMapEntries = 2
    MaxMapBytes = 6
    MaxValueBytes = 3
    MaxPhases = 2
    MaxBodies = 1
    PublishPreview = 2
    MaxCalls = 3
    MaxTime = 2
    MaxFailures = 1
SPECIFICATION CaptureSpec
\* the request is over
CHECK_DEADLOCK FALSE
INVARIANTS
    PreviewTells
    PartsReassemble
    TimelineTiles
    LossIsAdmitted
