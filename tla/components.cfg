SPECIFICATION Spec
CONSTANTS
    x1 = x1
    x2 = x2
    y1 = y1
    y2 = y2
    z1 = z1
    z2 = z2
    Reserve = 60
    Lending = 20
    TradeLimit = 3
    CommandLimit = 3
    Null = Null
    Files = {"proofs", "book"}
    Own = Own
    ChangeLimit = 2
    ResumeLimit = 1
    DepositLimit = 3
    VaultLimit = 2
    Gains <- GainOrLoss
    Policies <- TwoPolicies
    First <- Daily
    Redeemers = {"a"}
    MaxAge = 1
    LastTime = 8
    VersionLimit = 3
    ClickLimit = 2
    AttemptLimit = 3
    Amounts = {1, 3}
    Targets = {0, 2}
    Returns = {5}
    FeeBps = 5
    Bps = 10
    Ttl = 1
    CohortEnd = 1
    IntentLimit = 2
    RotationLimit = 1
    CashLimit = 4
    Users = {x1, x2}
    Wallets = {y1, y2}
    Names = {z1, z2}
    ReadLimit = 2
    RowLimit = 2
    Releases = {1, 2}
    FirstRelease = 1
    Margin = 0
    Patience = 1
    ChannelEnd = 3
    RolloutLimit = 1
    LoginLimit = 2
    WaitLimit = 1
    Holdings = {"long"}
    LastDay = 2
    RequestLimit = 3
    CopyLimit = 1
    Grosses = {2, 3}
    Limit = 2
    DraftLimits = {2, 3}
    SequenceLimit = 2
    DialogLimit = 2
    ConfirmLimit = 1
    PublicNames = {"n1", "n2"}
    FirstName = "n1"
    Cutoffs = {2}
    DefaultCutoff <- HalfPeriod
    FirstPolicy <- FirstTerms
    FormLimit = 3
    Signers = {"a"}
    Desks = {x1, x2}
    Tickets = {y1, y2}
    SignerOf <- OneSigner
    Stake = 8
    ApprovalTtl = 0
    RefundDelay = 1
    VaultEnd = 1
    RollbackLimit = 1
    Providers = {"p"}
    MinSubmitted = 1
    Investment = 100
    Earnings = {40}
    Losses = {50}
    PilotScale = 100
    MarkAge = 1
    PilotEnd = 7
    RoundLimit = 2
    InvestLimit = 1
    StopLimit = 1
    Coins = {"btc", "eth"}
    PaperBps = 100
    ProviderCap = 50
    CoinCap = 40
    GrossCap = 60
    MinProviders = 1
    TradeBps = 2
    Raters = {z1, z2}
    Predictions <- PairSignals
    Quotes <- PairPrices
    FirstQuotes <- EqualPrices
    PaperSeed = 100
    Transfers = {1}
    TransferAmount = 40
    Workspaces = {"demo", "forward"}
    Windows = {1}
    CreditPool = 10
    PaperEnd = 4
    PaperEpochs = 2
SYMMETRY Symmetry
INVARIANTS
    VaultsSettle FundsAddUp DoneAsCommitted TermsAreKept AccountsOwnTheirMoney NothingIsLost
    PoolsKeepSidesApart RequestsApplyOnce ReferencesAgree
CHECK_DEADLOCK FALSE
