----------------------------- MODULE MCComponents -----------------------------
(***************************************************************************)
(* The components that do not share state with the operator of the         *)
(* platform, one at a time: the protocols, whose constants the cfg gives   *)
(* small values, and small instances of the other parts, each of which     *)
(* uses the first of w1 .. w6.  The values x, y and z are interchangeable: *)
(* each pair is one part's strategies, deposits, accounts, wallets, names. *)
(***************************************************************************)
EXTENDS Protocols, TLC

CONSTANTS x1, x2, y1, y2, z1, z2, Reserve, Lending, TradeLimit, CommandLimit
VARIABLES w1, w2, w3, w4, w5, w6

Daily == [period |-> 4, cutoff |-> 1]
Hourly == [period |-> 1, cutoff |-> 0]
TwoPolicies == {Daily, Hourly}
FirstTerms == [period |-> 4, cutoff |-> 2]
HalfPeriod == [p \in {2, 4} |-> p \div 2]
GainOrLoss == {-1, 1}
Pair(a, b) == [x \in {"btc", "eth"} |-> IF x = "btc" THEN a ELSE b]
PairSignals == {Pair(90, -40), Pair(-60, 100)}
PairPrices == {Pair(10, 10), Pair(15, 10)}
EqualPrices == Pair(10, 10)
OneSigner == [i \in {y1, y2} |-> "a"]

\* The vectors the two reference programs are compared on: scalars inside and outside
\* their widths, intents and notes in and out of canonical order, and the arithmetic at
\* its boundaries.
Widths == [u64 |-> 4, price |-> 4, bps |-> 6, address |-> 4, bool |-> 2, bytes32 |-> 16, qty |-> 3, amount |-> 4]
Number(x) == <<"n", x>>
Scalars == [op: {"encode"}, type: {"qty", "bytes32"}, value: {-3, -2, -1, 0, 2, 3, 10, 15, 16}, loose: {FALSE}]
           \cup [op: {"encode"}, type: {"hash", "snapCause"}, value: {0, 4, 11}, loose: BOOLEAN]
Header(id, tif) == <<Number(1), Number(1), Number(2), Number(id), Number(1), Number(3), Number(tif), Number(3)>>
Row(m, q) == <<Number(m), Number(q)>>
Rows == {Row(0, 0), Row(1, -1), Row(1, 1), Row(0, -3)}
Intents == [op: {"intent"}, header: {Header(1, 1), Header(2, 1)}, targets: {<<r>>: r \in Rows} \cup (Rows \X Rows), salt: {Number(5)}, loose: {FALSE}]
           \cup [op: {"intent"}, header: {Header(1, 0)}, targets: {<<Row(1, 1)>>}, salt: {Number(5)}, loose: {FALSE}]
NoteHeader(id, n) == <<Number(1), Number(id), Number(1), Number(1), Number(4), Number(0), Number(1), Number(-1), Number(n), Number(2), Number(0)>>
Slot(m, q) == <<Number(1), Number(m), Number(0), Number(q), Number(0)>>
SlotRows == {<<Slot(0, 0)>>, <<Slot(1, -1)>>, <<Slot(1, 1), Slot(0, 0)>>, <<Slot(0, 0), Slot(1, 1)>>, <<Slot(0, 0), Slot(0, 1)>>}
Notes == [op: {"note"}, header: {NoteHeader(id, n): id \in 1..2, n \in 1..2}, slots: SlotRows,
          anchor: {<<Number(3), Number(0), Number(-1)>>}, secret: {Number(3), Number(4)}, loose: {FALSE}]
Arithmetic ==
    [op: {"reduction"}, position: {-2, 0, 2}, delta: -3..3, loose: {FALSE}]
    \cup [op: {"delta"}, target: {-2, 2}, position: {-1, 0, 2}, open: {0, 1}, loose: {FALSE}]
    \cup [op: {"minimumReduction"}, position: {-2, 1}, bps: {-1, 0, 3, 4, 5}, loose: BOOLEAN]
    \cup [op: {"custodyDraw"}, margin: {-1, 1, 3}, credit: {-1, 0, 2}, available: {0, 1}, loose: {FALSE}]
Position(q, d) == [qty |-> q, price |-> 2, num |-> 1, den |-> d]
Leverages == [op: {"leverage"}, positions: {Position(-2, 3), Position(1, 0)} \X {Position(1, 3)}, equity: {-1, 1, 3},
              haircut: {0, 1, 5}, limit: {2, 4}, loose: {FALSE}]

Sleeves == INSTANCE SleeveVault WITH
    sleeves <- w1, pending <- w2, commands <- w3, vault <- w4, venue <- w5, trades <- w6,
    Strategies <- {x1, x2}, Investors <- {"i"}, DepositAmounts <- {40}, OrderAmounts <- {8},
    TradeAmounts <- {5, 35}, Scale <- 100, PriceScale <- 1000
ZkVault == INSTANCE ZkBooks WITH
    now <- w1, vault <- w2, signed <- w3, proofs <- w4, fills <- w5,
    Genesis <- <<2, 6>>, Amounts <- {2, 3}, Minimums <- {1}, Prices <- {1, 2}, SpendLimit <- 50, Ttl <- 1,
    LastTime <- 1, OrderLimit <- 3, BatchLimit <- 2
Trading == INSTANCE PilotTrading WITH
    venue <- w1, fund <- w2, held <- w3, epoch <- w4, audit <- w5, used <- w6,
    AssetCount <- 2, Targets <- {<<25, -25>>, <<-25, 0>>, <<0, 0>>}, FeeBase <- 100, Slippage <- 6, PriceScale <- 10,
    Prices <- {<<10, 10>>, <<11, 10>>}, Liquidity <- 4000, LendingStock <- 200, Amounts <- {400}, Gift <- 5,
    EpochLimit <- 2, FlowLimit <- 1, SwapLimit <- 2
Rewards == INSTANCE PilotRewards WITH
    roster <- w1, history <- w2, epoch <- w3, evaluation <- w4,
    Actors <- {"a1", "a2", "a3"}, Late <- {"a3"}, Keys <- 1..4, Owner <- <<"a1", "a2", "a3", "a1">>, AssetCount <- 2,
    Vectors <- [k \in 1..4 |-> CASE k = 1 -> {<<10, 0>>} [] k = 2 -> {<<-10, 0>>} [] OTHER -> {<<-10, 5>>}],
    Bps <- 10, ActorCap <- 10, AssetCap <- 12, MinActors <- 2, CostBps <- 1, MinHistory <- 2, MaxContribution <- 5,
    ScoreScale <- 100, Returns <- {<<2, -1>>}, Pools <- {7}, EpochLimit <- 3, SettleLimit <- 2, SubmitLimit <- 4
Pools == INSTANCE SharedPools WITH
    accounts <- w1, pools <- w2, books <- w3, turn <- w4, used <- w5,
    Books <- {"b1", "b2"}, NoBook <- Null, MarketCount <- 2, Plans <- {<<1, 0>>, <<-1, 1>>},
    Cap <- [b \in {"b1", "b2"} |-> IF b = "b1" THEN 500 ELSE 100], FirstCash <- 400, Price <- 100, TradeCost <- 1,
    Payments <- {10}, FirstMinimum <- 40, Minimum <- 10, AccountLimit <- 3, RequestLimit <- 3, TroubleLimit <- 1
Vectors == INSTANCE ReferenceVectors WITH
    answers <- w1, Field <- 11, Below <- Widths, MaskedBelow <- 8, Bps <- 4, TargetCap <- 2, GroupSize <- 1,
    Vectors <- Scalars \cup Intents \cup Notes \cup Arithmetic \cup Leverages, VectorLimit <- 2
Slots == INSTANCE ReferenceSlots WITH
    slots <- w1, held <- w2, index <- w3, seen <- w4, reduced <- w5,
    Slots <- {"btc", "eth"}, Targets <- {-2, 0, 1, 3}, Equity <- 2, Limit <- 2, Share <- 1, Bps <- 2, OrderLimit <- 3

--------------------------------------------------------------------------------
\* The parts that share w1 to w6.
shared == <<w1, w2, w3, w4, w5, w6>>
all == <<part, shared, protocolVars>>

InitSleeves == part = "sleeves" /\ Sleeves!Init
InitZk == part = "zk" /\ ZkVault!Init /\ w6 = Unused
InitTrading == part = "trading" /\ Trading!Init
InitRewards == part = "rewards" /\ Rewards!Init /\ w5 = Unused /\ w6 = Unused
InitPools == part = "pools" /\ Pools!Init /\ w6 = Unused
InitVectors == part = "vectors" /\ Vectors!Init /\ w2 = Unused /\ w3 = Unused /\ w4 = Unused /\ w5 = Unused
               /\ w6 = Unused
InitSlots == part = "slots" /\ Slots!Init /\ w6 = Unused
InitShared ==
    IF part \in Protocols
    THEN w1 = Unused /\ w2 = Unused /\ w3 = Unused /\ w4 = Unused /\ w5 = Unused /\ w6 = Unused
    ELSE InitSleeves \/ InitZk \/ InitTrading \/ InitRewards \/ InitPools \/ InitVectors \/ InitSlots
Init ==
    /\ part \in Protocols \cup {"sleeves", "zk", "trading", "rewards", "pools", "vectors", "slots"}
    /\ ProtocolInit /\ InitShared

Next ==
    \/ /\ UNCHANGED part
       /\ \/ part = "sleeves" /\ Sleeves!Next /\ UNCHANGED protocolVars
          \/ part = "zk" /\ ZkVault!Next /\ UNCHANGED <<w6, protocolVars>>
          \/ part = "trading" /\ Trading!Next /\ UNCHANGED protocolVars
          \/ part = "rewards" /\ Rewards!Next /\ UNCHANGED <<w5, w6, protocolVars>>
          \/ part = "pools" /\ Pools!Next /\ UNCHANGED <<w6, protocolVars>>
          \/ part = "vectors" /\ Vectors!Next /\ UNCHANGED <<w2, w3, w4, w5, w6, protocolVars>>
          \/ part = "slots" /\ Slots!Next /\ UNCHANGED <<w6, protocolVars>>
    \/ ProtocolNext /\ UNCHANGED shared
Spec == Init /\ [][Next]_all

Symmetry == Permutations({x1, x2}) \cup Permutations({y1, y2}) \cup Permutations({z1, z2})

--------------------------------------------------------------------------------
\* What a vault did can be booked, and for whom it was done: the sleeves book every mined
\* transaction and pay for their own losses (sleeves/runtime.js, process; ledger.js,
\* reconcile); the confidential vault carries out only what its coordinator holds
\* (coordinator.js, recover); the vault with hidden books can settle what it traded
\* (ZkBookVault.sol, settle); a cohort is settled as it subscribed and only reduces once
\* it closes (PerplCohortVault.sol, settle and execute).
VaultsSettle ==
    /\ part = "sleeves" => Sleeves!MinedIsBookable /\ Sleeves!PaidByOwnCapital
    /\ part = "confidential" => Confidential!BooksMatchVault
    /\ part = "zk" => ZkVault!PendingCanSettle /\ ZkVault!BooksFollowTheirFills
    /\ part = "cohort" => Cohort!SettlementIsFair
\* Money adds up: the pilot's books are its tokens, which its auditor finds again (verify.js),
\* and rewards and weights follow the committed predictions (runner.js, settlePilot); the paper
\* fund's capital is explained by its flows and epochs (service.js, evaluate).
FundsAddUp ==
    /\ part = "trading" => Trading!AuditAgrees /\ Trading!TokensCoverTheBooks
    /\ part = "rewards" => Rewards!RewardsAreEarned /\ Rewards!WeightsWereCommitted /\ Rewards!SettlementsAreAccepted
    /\ part = "paper" => Paper!CapitalIsExplained
\* The accounts several strategies trade in stay on one side of every market, owe each
\* strategy what it put in, and move collateral without losing any (shared-accounts.mjs).
PoolsKeepSidesApart ==
    part = "pools" => Pools!SidesApart /\ Pools!ClaimsAddUp /\ Pools!CollateralIsPreserved
\* The two reference programs of the protocol give the same answers (vector-runner.mts and
\* main.rs), a commitment is to one content, and roundings go against the customer
\* (encoding.mts); a slot's orders keep it inside its limit and a fallback only reduces it
\* (model.mts, reconcileSlot).
ReferencesAgree ==
    /\ part = "vectors" => Vectors!SameAnswers /\ Vectors!CommitmentsBind /\ Vectors!RoundedUp
    /\ part = "slots" => Slots!HeldWithinLimit /\ Slots!FallbacksReduce
================================================================================
