CONSTANTS
    w1 = w1
    w2 = w2
    k1 = k1
    k2 = k2
    k3 = k3
    k4 = k4
    dep1 = dep1
    NoWallet = NoWallet
    NoKey = NoKey
    NoRequest = NoRequest
    Wallets = {w1, w2}
    Keys = {k1, k2, k3, k4}
    KeyOwner <- TwoCustomers
    Intents = {dep1}
    Amounts = {1, 2}
    InterruptionLimit = 2
SPECIFICATION FairSpec
INVARIANTS BalanceMatchesHistory ReservedIsCovered CancelledIsNeverPaid
PROPERTIES PaymentIsCommitted WithdrawalsComplete
