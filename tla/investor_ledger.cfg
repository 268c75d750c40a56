CONSTANTS
    alice = alice
    bob = bob
    w1 = w1
    w2 = w2
    Investors = {alice, bob}
    InvestorOrder <- AliceThenBob
    Withdrawals = {w1, w2}
    WithdrawalOrder <- OneThenTwo
    Scale = 10
    RateScale = 10
    RateCap = 2
    Capacities <- WideOrNarrow
    Amounts = {15}
    Returns = {14}
    VenueAmounts = {15}
    Percentages = {50, 100}
    Costs <- LossOrGain
    Rates = {0}
    FirstRate = 2
    StopLoss = 6
    Limits <- AtMost
    OccasionLimit = 1
SPECIFICATION Spec
INVARIANTS ShownIsBacked SharesAddUp StayersKeepTheirValue EventsAreProvable ReplayMatches
CHECK_DEADLOCK FALSE
