SPECIFICATION Spec
CONSTANTS
    i1 = i1
    Rows = {i1}
    Workers = {w1, w2}
    Requests <- ReserveRequests
    Opening <- OpeningRow
    MaxRequests = 2
    NoOne = NoOne
INVARIANTS ReservedStockProtected
