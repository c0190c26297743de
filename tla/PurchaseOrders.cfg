SPECIFICATION Spec
CONSTANTS
    cups = cups
    pans = pans
    Items = {cups, pans}
    Ordered <- OrderedQty
    Deliveries <- Received
    Allocations <- Split
    Patches = {"asRead", "cancelled"}
    Workers = {w1, w2}
    MaxJobs = 4
CHECK_DEADLOCK FALSE
INVARIANTS TypeOK RecordsWithinStock AllocatedWithinRecords OrderAddsUp
