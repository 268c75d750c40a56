CONSTANTS
    id1 = id1
    id2 = id2
    req1 = req1
    req2 = req2
    NoTx = NoTx
    NoId = NoId
    NoRequest = NoRequest
    NoBudget = NoBudget
    Ids = {id1, id2}
    Requests = {req1}
    Fees = {1}
    GasBudget = NoBudget
    FaultLimit <- OneFailedSave
SPECIFICATION Spec
INVARIANTS PersistedBeforeSent
