SPECIFICATION Spec
CONSTANTS
    m1 = m1
    m2 = m2
    r1 = r1
    r2 = r2
    b1 = b1
    b2 = b2
    Messages = {m1, m2}
    Requests = {r1, r2}
    Buckets = {b1, b2}
    MaxTokens = 2
    Amounts = {1}
    MaxBatches = 2
    MaxBatch = 2
    MaxLines = 4
    MaxRestarts = 1
    MaxQueue = 2
INVARIANTS CodexRestartCounted
CHECK_DEADLOCK FALSE
