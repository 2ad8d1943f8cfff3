SPECIFICATION FairMailSpec
CONSTANTS
    u = u
    m = m
    c1 = c1
    c2 = c2
    c3 = c3
    User = {u, m}
    Admin = {m}
    NoUser = NoUser
    Contract = {c1, c2, c3}
    Owner <- Owners
    Rank <- Ranks
    Limit = 2
    Request = {}
    Delivery = {}
    Digest = digest
    MaxFaults = 2
    MaxChanges = 2
INVARIANTS SentMeansAccepted LedgerMeansTold
PROPERTIES NoticedOnce DueIsTold
CHECK_DEADLOCK FALSE
