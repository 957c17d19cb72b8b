SPECIFICATION MCSpec
CONSTANTS
    Null = Null
    Candidates <- MCCandidates
    Dialects <- MCDialects
    Repeats = 1
    Answers <- MCAnswers
    MaxRuns = 2
    MaxTampers = 1
    MaxCommits = 2
    M1 = M1
    M2 = M2
    Reference = Reference
    None = None
    Names <- MCNames
    Labels <- MCLabels
    Samples <- MCSamples
    RuleTemplates <- MCRuleTemplates
    Required = {"eventTime"}
    FirstLabels <- MCFirstLabels
    MaxLabels = 2
    MaxColumns = 2
INVARIANTS
    EvidenceIsOfOneRun
    SelectionIsEarned
    BaselinesNeverGuess
\* Every part ends at its bounds.
CHECK_DEADLOCK FALSE
