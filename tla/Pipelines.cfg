SPECIFICATION Spec
CONSTANTS
    Pipeline = {p, q}
    NoPipeline = NoPipeline
    Stage = {s1, s2, s3}
    NoStage = NoStage
    Deal = {d}
    Executions <- Saved
    Client = {k1, k2}
    First = p
    Opening = s1
    Won = s2
    MaxOrder = 3
    MaxVersion = 2
    MaxRequests = 4
SYMMETRY Interchangeable
PROPERTIES StageChangeGated BoardOrderKept
CHECK_DEADLOCK FALSE
