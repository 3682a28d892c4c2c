SPECIFICATION ServiceSpec
CONSTANTS
    Null = Null
    Topics = {topic}
    SummaryId <- MCSummaryId
    TopicOf <- MCTopicOf
    Atoms <- ThreeAtoms
    Similar <- AllPairs
    Conflict <- LastWithBoth
    ObservedAt <- ObservedBackwards
    Trust0 <- LowTrust
    Salience0 <- EqualSalience
    HalfLife0 <- NoHalfLife
    MaxTime = 0
    SharedStore = TRUE
    CommandLine = FALSE
    AnyOrder = FALSE
    MaxRuns = 3
    MaxCrashes = 1
    MaxAccess = 0
    TopK = 0
    Cadence = 0
    MinimumCount = 3
    KeepRunner = FALSE
INVARIANTS
    TypeOK
    RecordsFaithful
    MergedAreArchived
    NoDanglingEdges
    TrustLedger
    SupersessionForward
    RepairsFollowRepairs
PROPERTIES
    RepairComplete
    RollbackRestores
CHECK_DEADLOCK FALSE
