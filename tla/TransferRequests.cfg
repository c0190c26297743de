SPECIFICATION Spec
CONSTANTS
    shop = shop
    depot = depot
    store = store
    r1 = r1
    r2 = r2
    Locations = {shop, depot, store}
    Requests = {r1, r2}
    Transfers = {t1, t2}
    Workers = {w1, w2}
    Home <- Homes
    Quantity <- Quantities
    Opening <- Stocks
    MaxJobs = 4
    None = None
CHECK_DEADLOCK FALSE
INVARIANTS TypeOK CreditNeedsDebit StockAccountedFor
PROPERTIES LifecycleKept
