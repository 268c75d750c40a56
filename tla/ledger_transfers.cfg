CONSTANTS
    alice = alice
    bob = bob
    w1 = w1
    w2 = w2
    Investors = {alice, bob}
    InvestorOrder <- AliceThenBob
    Withdrawals = {w1, w2}
    WithdrawalOrder <- OneThenTwo
    Scale = 10
    RateScale = 10
    RateCap = 2
    Capacities <- Narrow
    Amounts = {15}
    Returns = {14}
    VenueAmounts = {15}
    Percentages = {50}
    Costs = {2}
    Rates = {0}
    FirstRate = 2
    StopLoss = 6
    Limits <- AtMost
    OccasionLimit = 1
SPECIFICATION Spec
INVARIANTS TransfersArePaired
CHECK_DEADLOCK FALSE
