SPECIFICATION Spec
CONSTANTS
    b1 = b1
    b2 = b2
    None = None
    Bills = {b1, b2}
    Approvals = {a1}
    Workers = {w1, w2}
    SaleType <- CreditAndBlack
    Amount <- TwoAndOne
    FromOrder = {b1}
    Limit = 2
    SkipsApproval = FALSE
    Payments = {1}
    Stock <- Goods
    MaxJobs = 5
CHECK_DEADLOCK FALSE
INVARIANTS TypeOK  BalanceIsLedger OverLimitApproved SoldIsCompleted
