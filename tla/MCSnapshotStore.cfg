SPECIFICATION Spec
CONSTANTS
    p1 = p1
    p2 = p2
    o1 = o1
    o2 = o2
    a = a
    b = b
    Nobody = Nobody
    Procs = {p1, p2}
    Bytes = {a, b}
    ReviewedAt <- MCReviewedAt
    Origins = {o1}
    MaxTime = 2
    MaxRows = 2
    MaxResults = 0
    Offered <- MCNone
INVARIANTS
    ChainIsSound
PROPERTIES
    RecordsNeverChange
