SPECIFICATION KeysFairSpec
CONSTANTS
    KeyRow = {k1, k2}
    Request = {r1, r2}
    read = read
    write = write
    Scope <- Grants
    Access <- AccessSets
    MaxPerUser = 1
    Lifetimes = {1, 2}
    MaxLifetime = 2
    Grace = 1
    MaxTime = 1
    MaxVersion = 2
PROPERTIES NeverAcceptedAgain UpdateReplacesWhatWasSeen RotationNeverStrands KeysEnd
