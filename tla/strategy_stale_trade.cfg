CONSTANTS
    alpha = alpha
    beta = beta
    r1 = r1
    r2 = r2
    r3 = r3
    w1 = w1
    NoBook = NoBook
    NoStep = NoStep
    Books = {alpha, beta}
    Requests = {r1, r2, r3}
    RequestBook <- RequestEach
    Weight <- NeighbourBuys
    Withdrawals = {w1}
    WithdrawalBook <- AlphaWithdrawals
    Units <- FourUnits
    ToBalance = {}
    BookOrder <- AlphaThenBeta
    Pending <- EightEach
    Prices = {2}
    FirstPrice = 2
    FeeChoices = {0}
    StopLoss = 30
    Tries = 1
    TradeCost = 1
    Headroom = 1
    TroubleLimit = 1
    Limits <- RefusedOnly
SPECIFICATION Spec
PROPERTIES OwnLotsOnly
CHECK_DEADLOCK FALSE
