SPECIFICATION Spec
CONSTANTS
    Null = Null
    Topics = {topic}
    SummaryId <- MCSummaryId
    TopicOf <- MCTopicOf
    Atoms <- ThreeAtoms
    Similar <- Chain
    Conflict <- NoPairs
    ObservedAt <- ObservedTogether
    Trust0 <- EqualTrust
    Salience0 <- EqualSalience
    HalfLife0 <- NoHalfLife
    MaxTime = 0
    SharedStore = TRUE
    CommandLine = FALSE
    AnyOrder = FALSE
    MaxRuns = 2
    MaxCrashes = 0
    MaxAccess = 2
    TopK = 1
INVARIANTS
    MergeChainsEnd
    MergeRecordsAgree
    IndexMatchesActive
PROPERTIES
    RollbackRestores
    DeduplicationComplete
    OnlyRollbackRevives
    RetrievalCounts
