SPECIFICATION Spec
CONSTANTS
    Null = Null
    M1 = M1
    M2 = M2
    M3 = M3
INVARIANTS
    ScoresAreHonest
    IntervalsAreExact
    CorpusIsHonest
\* Every part ends at its bounds.
CHECK_DEADLOCK FALSE
