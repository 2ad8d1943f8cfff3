SPECIFICATION Spec
CONSTANTS
    u = u
    d = d
    e = e
    User = {u}
    Door = {d, e}
    Identity <- Callers
    Key = {x}
    Hash = {h1, h2}
    Batches <- Sent
    Limits = {0, 1}
    Fallback = 1
    Client = {k1, k2}
    MaxEntries = 1
    MaxRequests = 5
SYMMETRY Interchangeable
INVARIANTS BurstBounded AnswersOwn
CHECK_DEADLOCK FALSE
