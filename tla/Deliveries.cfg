SPECIFICATION Spec
CONSTANTS
    o1 = o1
    o2 = o2
    None = None
    Orders = {o1, o2}
    Trips = {t1}
    Users = {u1, u2}
    Workers = {w1, w2}
    Total <- Totals
    Required <- Advance
    Collected = {o1}
    OnCredit = {o2}
    Amounts = {1, 2}
    Changes = {"cancelled"}
    Budget = 4
SYMMETRY Alike
CHECK_DEADLOCK FALSE
INVARIANTS TypeOK DispatchedIsPaid DeliveredIsConfirmed TripFollowsStops ClaimedByOne
