CONSTANTS
    alpha = alpha
    beta = beta
    NoBook = NoBook
    NoStep = NoStep
    NoPage = NoPage
    NoProof = NoProof
    Books = {alpha, beta}
    GenesisBooks = {alpha}
    BookOrder <- AlphaThenBeta
    MaxSequence = 3
    RecordLimit = 1
    RequestLimit = 1
    Interval = 1
    MaxTime = 1
    Limits <- OneEach
    TroubleLimit = 2
SPECIFICATION FairSpec
INVARIANTS EveryTransitionOnce ArchiveIsChain NothingReverts
PROPERTIES ProofsAreAnchored
CHECK_DEADLOCK FALSE
