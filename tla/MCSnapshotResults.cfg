SPECIFICATION FairSpec
CONSTANTS
    p1 = p1
    p2 = p2
    o1 = o1
    o2 = o2
    a = a
    b = b
    Nobody = Nobody
    Procs = {p1, p2}
    Bytes = {a, b}
    ReviewedAt <- MCReviewedAt
    Origins = {o1, o2}
    MaxTime = 0
    MaxRows = 1
    MaxResults = 1
    Offered <- MCOffered
INVARIANTS
    ResultsAreSound
PROPERTIES
    ImplementsEvidenceHistory
    CallsEnd
