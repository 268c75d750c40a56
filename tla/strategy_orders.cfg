CONSTANTS
    alpha = alpha
    beta = beta
    r1 = r1
    r2 = r2
    r3 = r3
    w1 = w1
    NoBook = NoBook
    NoStep = NoStep
    Books = {alpha, beta}
    Requests = {r1, r2}
    RequestBook <- AlphaRequests
    Weight <- InvestThenExit
    Withdrawals = {w1}
    WithdrawalBook <- AlphaWithdrawals
    Units <- FourUnits
    ToBalance = {}
    BookOrder <- AlphaThenBeta
    Pending <- EightEach
    Prices = {1, 2, 3}
    FirstPrice = 2
    FeeChoices = {0, 1}
    StopLoss = 30
    Tries = 2
    TradeCost = 1
    Headroom = 1
    TroubleLimit = 2
    Limits <- AnyTrouble
SPECIFICATION Spec
INVARIANTS BooksReconcile FinishedIsSettled NothingForgotten SignedPayoutIsCovered
CHECK_DEADLOCK FALSE
