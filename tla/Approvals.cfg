SPECIFICATION FairSpec
CONSTANTS
    u = u
    m = m
    a = a
    p1 = p1
    User = {u, m, a}
    Admin = {a}
    NoUser = NoUser
    Contract = {}
    Owner <- None
    Rank <- Zero
    Limit = 1
    Request = {q1}
    Delivery = {d1}
    Digest = digest
    MaxFaults = 1
    MaxChanges = 2
    Policy = {p1}
    Place <- Places
    Entity = {e1}
    Amount <- Amounts
    Condition <- Conditions
    TextIn <- Digits
    Manager <- Managers
    RoleMember = {a}
    MayRequest = {u}
    MayApprove = {m, a}
    Caller = {x1, x2}
INVARIANTS DecidedOnce NewsIsTrue PolicyOutlivesRequests
PROPERTY RequesterIsTold
CHECK_DEADLOCK FALSE
