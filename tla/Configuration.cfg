SPECIFICATION ConfigFairSpec
CONSTANTS
    currency = currency
    seller = seller
    funnel = funnel
    renewals = renewals
    region = region
    idleDeals = idleDeals
    discounts = discounts
    primary = primary
    secondary = secondary
    hq = hq
    Item = {currency, seller, funnel, renewals, region, idleDeals, discounts}
    SectionOf <- Kinds
    Barred = {}
    Value = {primary, secondary}
    Default = primary
    Plain = secondary
    Org = {hq}
    OrgOf <- Orgs
    Bundles <- Presented
    Initial <- Start
    Client = {k1, k2}
    Editor = {e1}
    MaxConns = 2
    MaxRequests = 2
    MaxEdits = 1
PROPERTIES PoolRecovers EditsSeen ImportsWholeAndKeeps
CHECK_DEADLOCK FALSE
