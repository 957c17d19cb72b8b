SPECIFICATION FairSpec
CONSTANTS
    r1 = r1
    r2 = r2
    r3 = r3
    v1 = v1
    v2 = v2
    Requests = {r1, r2, r3}
    Visitors = {v1, v2}
    VisitorOf <- MCVisitorOf
    CallsOf <- MCCallsOf
    VisitorLimit = 1
    GlobalLimit = 2
    MaxDay = 1
INVARIANTS
    TypeOK
    CallCaps
    DenialsAreTrue
    ExpiredCountersStayGone
PROPERTIES
    ReservationSettles
    ImplementsDailyCallCap
\* Every request ends and the last day arrives: the model really stops there.
CHECK_DEADLOCK FALSE
