-------------------------- MODULE MCStrategyExecution --------------------------
(* Small instances of StrategyExecution for TLC. *)
EXTENDS StrategyExecution

CONSTANTS alpha, beta, r1, r2, r3, w1

\* Requests of one strategy; or the second one is the other strategy's.
AlphaRequests == [r \in Requests |-> alpha]
RequestEach == [r \in Requests |-> IF r = r2 THEN beta ELSE alpha]
AlphaWithdrawals == [w \in Withdrawals |-> alpha]

\* The first request invests half, the second one nothing (or half as well, or a quarter
\* before the third one sells what the first one bought).
InvestThenExit == [r \in Requests |-> IF r = r1 THEN 50 ELSE 0]
BothInvest == [r \in Requests |-> 50]
NeighbourBuys == [r \in Requests |-> CASE r = r1 -> 50 [] r = r2 -> 25 [] OTHER -> 0]

AlphaThenBeta == <<alpha, beta>>
EightEach == [b \in Books |-> 8]
TwoUnits == [w \in Withdrawals |-> 2]
FourUnits == [w \in Withdrawals |-> 4]

Allow(kinds) == [k \in TroubleKinds |-> IF k \in kinds THEN 1 ELSE 0]
UnansweredOnly == Allow({"giveUp"})
RefusedOnly == Allow({"rpc"})
CrashAndPrice == Allow({"crash", "price"})
AnyTrouble == Allow(TroubleKinds)
================================================================================
