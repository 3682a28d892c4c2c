SPECIFICATION Spec
CONSTANTS
    Null = Null
    Topics = {topic}
    SummaryId <- MCSummaryId
    TopicOf <- MCTopicOf
    Atoms <- TwoAtoms
    Similar <- FirstTwo
    Conflict <- NoPairs
    ObservedAt <- ObservedTogether
    Trust0 <- EqualTrust
    Salience0 <- EqualSalience
    HalfLife0 <- NoHalfLife
    MaxTime = 0
    SharedStore = FALSE
    CommandLine = FALSE
    AnyOrder = FALSE
    MaxRuns = 1
    MaxCrashes = 0
    MaxAccess = 2
    TopK = 2
PROPERTIES
    RetrievalCounts
