SPECIFICATION TourSpec
CONSTANTS
    fix44 = fix44
    dialect = dialect
    flagging = flagging
    f1 = f1
    o1 = o1
    o2 = o2
    Null = Null
    Scenarios = {fix44, dialect}
    WorkedCase = fix44
    HasManifest = {fix44}
    Eligible = {dialect}
    MutationsOf <- MCMutationsOf
    Drafts = {flagging}
    Fields = {f1}
    FlaggedOf <- MCFlaggedOf
    RowsUnder <- MCRowsUnder
    Orders = {o1, o2}
    Committed = o1
    MaxEngine = 1
    MaxTasks = 2
INVARIANTS
    TourIsSafe
PROPERTIES
    MovedOnlyIfStayed
