SPECIFICATION Spec
CONSTANTS
    Bills = {b1}
    Items = {i1, i2}
    Lines <- MCLines
    Edits <- MCEdits
    Scale = 2
    Fine = 2
    Workers = {w1, w2}
    MaxJobs = 3
    None = None
SYMMETRY Alike
CHECK_DEADLOCK FALSE
INVARIANTS TypeOK   
