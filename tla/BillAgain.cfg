SPECIFICATION Spec
CONSTANTS
    b1 = b1
    b2 = b2
    None = None
    Bills = {b1, b2}
    Approvals = {a1}
    Workers = {w1}
    SaleType <- CreditAndNormal
    Amount <- TwoAndOne
    FromOrder = {}
    Limit = 2
    SkipsApproval = FALSE
    Payments = {1}
    Stock <- Goods
    MaxJobs = 3
CHECK_DEADLOCK FALSE
PROPERTIES CompletedSellsNoMore
