CONSTANTS
    alpha = alpha
    beta = beta
    r1 = r1
    r2 = r2
    r3 = r3
    w1 = w1
    NoBook = NoBook
    NoStep = NoStep
    Books = {alpha, beta}
    Requests = {r1, r2}
    RequestBook <- RequestEach
    Weight <- BothInvest
    Withdrawals = {}
    WithdrawalBook <- AlphaWithdrawals
    Units <- TwoUnits
    ToBalance = {}
    BookOrder <- AlphaThenBeta
    Pending <- EightEach
    Prices = {1, 2}
    FirstPrice = 2
    FeeChoices = {0}
    StopLoss = 30
    Tries = 2
    TradeCost = 1
    Headroom = 1
    TroubleLimit = 1
    Limits <- UnansweredOnly
SPECIFICATION Spec
PROPERTIES OwnMoneyOnly
CHECK_DEADLOCK FALSE
