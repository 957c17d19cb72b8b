SPECIFICATION MCSpec
CONSTANTS
    Null = Null
    Coordinates <- TwoRows
    Values <- TwoValues
    Bytes <- Retained
    Templates = {"total"}
    MaxChanges = 2
    FirstDays <- MCFirstDays
    Span = 430
    Clocks <- MCClocks
    Offsets <- MCOffsets
    Records <- MCRecords
    MaxRecords = 3
    Arrivals <- MCArrivals
    CaseManifests <- MCCaseManifests
    MaxCaseEvents = 3
    Artifacts <- MCArtifacts
    MaxArtifacts = 2
    MaxAlterations = 2
    Inputs <- MCInputs
    GoodFields <- MCGoodFields
    Changes <- MCFieldChanges
    Registered <- MCRegistered
    MaxEdits = 2
    Instruments <- MCInstruments
    Bindings <- MCBindings
    Datasets <- MCDatasets
    Definitions <- MCDefinitions
    Sources <- MCSources
    Wordings <- MCWordings
    Days <- MCDays
    MaxEntries = 5
INVARIANTS
    TimesAreExact
    ReplayIsDeterministic
    IngestIsFaithful
    GateIsSound
    CaseFitsItsDataset
    VerdictIsOfTheNumbers
    ReversalVerdictHolds
    GradeIsEarned
    BundleIsHonest
    ScopeIsExact
\* Every part ends at its bounds.
CHECK_DEADLOCK FALSE
