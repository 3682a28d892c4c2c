SPECIFICATION ServiceSpec
CONSTANTS
    Null = Null
    Topics = {topic}
    SummaryId <- MCSummaryId
    TopicOf <- MCTopicOf
    Atoms <- ThreeAtoms
    Similar <- FirstTwo
    Conflict <- LastWithFirst
    ObservedAt <- ObservedTogether
    Trust0 <- EqualTrust
    Salience0 <- EqualSalience
    HalfLife0 <- OneHalfLife
    MaxTime = 1
    SharedStore = TRUE
    CommandLine = FALSE
    AnyOrder = FALSE
    MaxRuns = 3
    MaxCrashes = 0
    MaxAccess = 0
    TopK = 0
    Cadence = 1
    MinimumCount = 3
    KeepRunner = TRUE
INVARIANTS
    ServiceTypeOK
PROPERTIES
    CallsReturn
    CadenceHolds
    PendingMerges
CHECK_DEADLOCK FALSE
