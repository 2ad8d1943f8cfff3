SPECIFICATION Spec
CONSTANTS
    Account = {a1}
    Leaving = {a1}
    Situations <- UrgentOrMild
    Desk = {d1}
    MaxFaults = 0
    MaxDecisions = 0
INVARIANT EveryTickIsSafe
CHECK_DEADLOCK FALSE
