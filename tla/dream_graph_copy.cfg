SPECIFICATION Spec
CONSTANTS
    Null = Null
    Topics = {topic}
    SummaryId <- MCSummaryId
    TopicOf <- MCTopicOf
    Atoms <- TwoAtoms
    Similar <- FirstTwo
    Conflict <- FirstTwo
    ObservedAt <- ObservedTogether
    Trust0 <- EqualTrust
    Salience0 <- EqualSalience
    HalfLife0 <- OneHalfLife
    MaxTime = 1
    SharedStore = FALSE
    CommandLine = FALSE
    AnyOrder = FALSE
    MaxRuns = 2
    MaxCrashes = 1
    MaxAccess = 1
    TopK = 2
INVARIANTS
    GraphCopyAgrees
PROPERTIES
    OnlyCrashesPartCopies
CHECK_DEADLOCK FALSE
