\* Two handles used again and again for statements, curl handles and channels.
CONSTANTS
    None = None
    h1 = h1
    h2 = h2
    q1 = q1
    q2 = q2
    s1 = s1
    s2 = s2
    c1 = c1
    c2 = c2
    i1 = i1
    i2 = i2
    i3 = i3
    n1 = n1
    n2 = n2
    line = line
    Handle = {h1, h2}
    Sql = {s1, s2}
    Header = {line}
    Tag = {"tag"}
    Queue = {q1, q2}
    Class = {c1, c2}
    Identity = {i1, i2, i3}
    Sid = {n1, n2}
    MaxStatements = 1
    MaxQueues = 1
    MaxSids = 1
    Capacity = 2
    MaxRequests = 3
    MaxCalls = 6
SPECIFICATION Spec
SYMMETRY Interchangeable
\* the worker has made its calls
CHECK_DEADLOCK FALSE
INVARIANTS
    NothingFalseIsSaid
