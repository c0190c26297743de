SPECIFICATION Spec
CONSTANTS
    Size = 2
    Workers = {w1, w2, w3}
    Logs = {l1}
    Rows = {r1, r2}
    Chosen = {"COMPLETED"}
    MaxJobs = 3
    None = None
CHECK_DEADLOCK FALSE
INVARIANTS TypeOK PoolMoves LogIsTrue
PROPERTY RequestsEnd
