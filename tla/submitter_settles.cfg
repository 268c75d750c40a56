CONSTANTS
    id1 = id1
    id2 = id2
    req1 = req1
    req2 = req2
    NoTx = NoTx
    NoId = NoId
    NoRequest = NoRequest
    NoBudget = NoBudget
    Ids = {id1, id2}
    Requests = {req1, req2}
    Fees = {1, 2}
    GasBudget = NoBudget
    FaultLimit <- SoundStore
SPECIFICATION FairSpec
INVARIANTS PersistedBeforeSent NeverReplaced
PROPERTIES StepsSpec SignedIsSettled
