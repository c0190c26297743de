SPECIFICATION Spec
CONSTANTS
    i1 = i1
    Rows = {i1}
    Workers = {w1, w2}
    Requests <- SingleRowRequests
    Opening <- OpeningRow
    MaxRequests = 3
    NoOne = NoOne
INVARIANTS TypeOK StockNeverNegative LedgerBalanced
