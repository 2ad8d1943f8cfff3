SPECIFICATION FairSpec
CONSTANTS
    Account = {a1}
    Leaving = {a1}
    Situations <- UrgentOrMild
    Desk = {d1}
    MaxFaults = 1
    MaxDecisions = 1
PROPERTIES DecisionsStand RowsFollowFacts AdviceFollowsFacts InsightsAgeOut
CHECK_DEADLOCK FALSE
