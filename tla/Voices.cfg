SPECIFICATION Spec
CONSTANTS
    Workspace = {w}
    NoWorkspace = NoWorkspace
    o1 = o1
    o2 = o2
    Org = {o1, o2}
    Category = {t}
    Member = {c}
    Code = {x}
    Voice = {v}
    Global = Global
    Settings <- Options
    Client = {k1, k2}
    MaxVersion = 4
    MaxRequests = 4
    Verdicts = {"UNREVIEWED", "APPROVED"}
SYMMETRY Interchangeable
INVARIANTS LifecycleHonest ClocksTold FiledAtHome
CHECK_DEADLOCK FALSE
