SPECIFICATION Spec
CONSTANTS
    i1 = i1
    i2 = i2
    u1 = u1
    Rows = {i1, i2, u1}
    Workers = {w1}
    Requests <- AllRequests
    Opening <- OpeningRows
    MaxRequests = 3
    NoOne = NoOne
PROPERTIES AtomicSpec
