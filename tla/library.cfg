SPECIFICATION Spec
CONSTANTS
    x = x
    y = y
    topic = topic
    chat = chat
    text = text
    scan = scan
    Absent = Absent
    Placeholder = Placeholder
    Ids <- MCIds
    Texts <- MCTexts
    Deployments <- MCDeployments
    Batches <- MCBatches
    Queries <- MCQueries
    Adapters = {text}
    LexicalLimit = 1
    VectorLimit = 1
    CandidateLimit = 2
    TokenBudget = 2
    TopKs = {2}
    MaxIngests = 2
    MaxArchives = 1
    MaxRetrievals = 1
    MaxCrashes = 1
INVARIANTS
    TypeOK
    ReturnedIsStored
    GraphReadsAgree
    TracesLeadToMemories
PROPERTY
    RetrievalIsSound
CHECK_DEADLOCK FALSE
