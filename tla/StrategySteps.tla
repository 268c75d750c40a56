----------------------------- MODULE StrategySteps -----------------------------
(***************************************************************************)
(* The state of the strategy operator (deploy/tee/operator/execution.mjs)  *)
(* and what all its jobs share: reading a strategy's value, the durable    *)
(* step with its effect, the error exits, and the chain.                   *)
(*                                                                         *)
(* The tick handles one strategy at a time, each in one turn of the queue  *)
(* that account requests also wait for.  `saved' is the sealed investments *)
(* file; a section changes its copy only where it saves it before the next *)
(* await, or where the error exit saves it, so the copy is not modelled    *)
(* apart.                                                                  *)
(*                                                                         *)
(* All strategies trade in one exchange account, as shared-accounts.mjs    *)
(* keeps it: per strategy a claim on the account's equity and the lots it  *)
(* owns, and the checkpoint, the account as it was last read.  There is    *)
(* one market and positions are long.  A lot is worth its price and is     *)
(* bought for its price; a trade also costs TradeCost.  A strategy keeps   *)
(* price + Headroom per lot in the account (the policy's margin estimate   *)
(* with its 10 percent on top).  Venue funding payments and rounding dust  *)
(* are left out: a difference of one unit stands for more than the code's  *)
(* tolerance.                                                              *)
(***************************************************************************)
EXTENDS Integers, FiniteSets, Functions, Sequences

CONSTANTS
    Books,          \* strategies
    NoBook,
    TradeCost,      \* what the venue takes per trade
    Headroom,
    Requests, RequestBook,      \* target submissions and their strategies
    Weight,                     \* the share of equity a request wants invested, percent
    Withdrawals, WithdrawalBook, Units, ToBalance,   \* redemptions; ToBalance: those paid to the platform balance
    BookOrder,                  \* the order in which the tick visits the strategies
    Pending,                    \* what each strategy's investors have paid in at first
    Prices, FirstPrice,
    FeeChoices,                 \* performance fees a crystallization may find
    StopLoss,                   \* percent
    Tries,                      \* bound of attempts
    Limits,                     \* how often each kind of trouble may happen,
    TroubleLimit,               \* and all kinds together
    NoStep

TroubleKinds == {"crash", "giveUp", "rpc", "revert", "partial", "unfilled", "late", "price"}

ASSUME CostAssumption == TradeCost \in Nat /\ Headroom \in Nat
ASSUME BooksAssumption == IsFiniteSet(Books) /\ NoBook \notin Books
ASSUME RequestsAssumption == RequestBook \in [Requests -> Books] /\ Weight \in [Requests -> 0 .. 100]
ASSUME WithdrawalsAssumption ==
    /\ WithdrawalBook \in [Withdrawals -> Books] /\ ToBalance \subseteq Withdrawals
    /\ Units \in [Withdrawals -> Nat \ {0}] /\ IsFiniteSet(Withdrawals)
ASSUME PricesAssumption == Prices \subseteq Nat \ {0} /\ FirstPrice \in Prices
ASSUME BoundsAssumption ==
    /\ Tries \in Nat /\ TroubleLimit \in Nat /\ Limits \in [TroubleKinds -> Nat] /\ FeeChoices \subseteq Nat
    /\ StopLoss \in 1 .. 100 /\ Pending \in [Books -> Nat] /\ BookOrder \in Seq(Books) /\ IsInjective(BookOrder)

--------------------------------------------------------------------------------
(* The shared account. *)

\* The account at a block: free collateral, lots, and the mark price.
EquityAt(snap) == snap.free + snap.qty * snap.price

EmptyPool(price) ==
    [members |-> {},                              \* books with a claim
     equity |-> [b \in Books |-> 0],              \* claims[b].equity
     lots |-> [b \in Books |-> 0],                \* claims[b].quantities
     checkpoint |-> [equity |-> 0, free |-> 0, qty |-> 0, price |-> price]]

Pool == [members : SUBSET Books, equity : [Books -> Int], lots : [Books -> Nat],
         checkpoint : [equity : Int, free : Int, qty : Nat, price : Nat]]

\* totalQty() and the sum of the claims.
TotalLots(pool) == SumFunctionOnSet(pool.lots, Books)
TotalClaims(pool) == SumFunctionOnSet(pool.equity, Books)

Larger(x, y) == IF x > y THEN x ELSE y

\* The change of equity that the price does not explain.
Remainder(pool, snap) ==
    EquityAt(snap) - pool.checkpoint.equity
        - TotalLots(pool) * (snap.price - pool.checkpoint.price)

\* Every claim moves with the price of its own lots; the rest is the actor's.
Attributed(pool, snap, actor) ==
    [b \in Books |-> pool.equity[b] + pool.lots[b] * (snap.price - pool.checkpoint.price)
                       + IF b = actor THEN Remainder(pool, snap) ELSE 0]

\* checkpointSharedAccount() does not throw: lots no claim accounts for, equity
\* nobody accounts for, or a claim below zero.
Explained(pool, snap, actor, trading) ==
    /\ ~trading => snap.qty = TotalLots(pool)
    /\ actor = NoBook => Remainder(pool, snap) = 0
    /\ \A b \in Books : Attributed(pool, snap, actor)[b] >= 0

Checkpointed(pool, snap, actor) ==
    [pool EXCEPT !.equity = Attributed(pool, snap, actor),
                 !.checkpoint = [equity |-> EquityAt(snap), free |-> snap.free,
                                 qty |-> snap.qty, price |-> snap.price]]

\* Collateral a strategy needs for some lots.
Margin(lots, price) == lots * (price + Headroom)

\* free(): what each strategy could take out, never more than is there.
Spare(pool, b) ==
    IF b \in pool.members
    THEN Larger(0, pool.equity[b] - Margin(pool.lots[b], pool.checkpoint.price))
    ELSE 0
Free(pool, b) ==
    LET total == SumFunctionOnSet([c \in Books |-> Spare(pool, c)], Books)
    IN  IF total > pool.checkpoint.free
        THEN (Spare(pool, b) * pool.checkpoint.free) \div total
        ELSE Spare(pool, b)

\* funding(): what the strategy must add to hold the target.
Funding(pool, b, target) ==
    Larger(0, Margin(target, pool.checkpoint.price) - pool.equity[b])

\* Fault variant: the checkpoint does not move with the claim.
Moved_ClaimOnly(pool, b, delta) == [pool EXCEPT !.equity[b] = @ + delta]

\* applyEffect() of SHARED_FUND (delta > 0) and SHARED_RECOVER (delta < 0).
Moved(pool, b, delta) ==
    [pool EXCEPT !.equity[b] = @ + delta,
                 !.checkpoint.equity = @ + delta, !.checkpoint.free = @ + delta]

\* applyEffect() of SHARED_TRADE: the fill lies between nothing and all.
FillInRange(before, delta, qty) ==
    IF delta > 0 THEN qty \in before .. before + delta ELSE qty \in before + delta .. before

--------------------------------------------------------------------------------
(* Steps. *)

\* Steps: a kind, the job it belongs to and the attempt.
TradeKinds == {"flatten", "target", "risk", "close"}
RequestKinds == {"flatten", "target", "back", "fund"}
ReadingKinds == TradeKinds \cup {"fund", "back", "collect"}   \* effects that read the account
StepIds ==
    ({"flatten", "target"} \X Requests \X (0 .. Tries))
        \cup ({"back", "fund"} \X Requests \X {0})
        \cup ({"risk", "close", "collect", "fee"} \X Books \X (1 .. Tries))
        \cup ({"pay"} \X Withdrawals \X {0})

ASSUME NoStepAssumption == NoStep \notin StepIds

Kind(s) == s[1]
Job(s) == s[2]
Attempt(s) == s[3]
BookOf(s) == CASE Kind(s) \in RequestKinds -> RequestBook[Job(s)]
               [] Kind(s) = "pay" -> WithdrawalBook[Job(s)]
               [] OTHER -> Job(s)

\* amount: cash moved, or lots to trade; before and owned: lots of the account and
\* of the strategy when the trade was decided.
Step == [st : {"none", "saved", "applied"}, amount : Int, before : Nat, owned : Nat, filled : BOOLEAN]
UnusedStep == [st |-> "none", amount |-> 0, before |-> 0, owned |-> 0, filled |-> FALSE]

NoPlan == -1
Request == [status : {"none", "QUEUED", "EXECUTING", "EXECUTED", "PARTIALLY_FILLED", "EXPIRED", "FAILED"},
            plan : Nat \cup {NoPlan}, attempt : Nat, fill : BOOLEAN]
NewRequest == [status |-> "none", plan |-> NoPlan, attempt |-> 0, fill |-> FALSE]

Withdrawal == [status : {"none", "REQUESTED", "SETTLING", "PAID", "CANCELLED"}, payout : Nat]

\* costBase: the strategy's equity and the price before the closing trade.
Settlement == [ids : SUBSET Withdrawals, target : Nat, attempt : Nat,
               costBase : [equity : Int, price : Nat], costApplied : BOOLEAN,
               cost : Int, priced : BOOLEAN]
NoBase == [equity |-> 0, price |-> 0]
NoSettlement == [ids |-> {}, target |-> 0, attempt |-> 0, costBase |-> NoBase,
                 costApplied |-> FALSE, cost |-> 0, priced |-> FALSE]

\* high: the value per unit up to which performance fees were charged; base: the one
\* from which the stop loss counts.
\* riskTry, feeTry: number of the risk job and of the fee payment; feeAmount: the
\* open fee payment; credited: redeemed to platform balances.
Book == [pending : Nat, cash : Int, fees : Nat, units : Nat, credited : Nat,
         high : [equity : Nat, units : Nat], base : [equity : Nat, units : Nat],
         status : {"ACTIVE", "RISK_EXIT", "HALTED"},
         riskTry : Nat, feeTry : Nat, feeAmount : Nat, lastCutoff : Nat,
         settlement : Settlement]
NewBook(b) == [pending |-> Pending[b], cash |-> 0, fees |-> 0, units |-> 0, credited |-> 0,
               high |-> [equity |-> 0, units |-> 0], base |-> [equity |-> 1, units |-> 1],
               status |-> "ACTIVE", riskTry |-> 0, feeTry |-> 0, feeAmount |-> 0,
               lastCutoff |-> 0, settlement |-> NoSettlement]

State == [books : [Books -> Book], pool : Pool, requests : [Requests -> Request],
          withdrawals : [Withdrawals -> Withdrawal], steps : [StepIds -> Step]]

Snapshot == [free : Int, qty : Nat, price : Nat]
NoSnapshot == [free |-> 0, qty |-> 0, price |-> 0]

VARIABLES
    record, mined,  \* ExecutionSteps
    receipt,        \* the account right after a step was mined, until it is applied
    vault,          \* the vault's cash
    account,        \* the exchange account now
    saved,
    matured,        \* withdrawals whose settlement time has come
    cutoffs,        \* settlement times that have passed
    late,           \* jobs past their deadline
    pc, todo, book, cur,
    trouble         \* how often each kind of trouble has happened

INSTANCE ExecutionSteps

vars == <<record, mined, receipt, vault, account, saved, matured, cutoffs, late,
          pc, todo, book, cur, trouble>>
submitterVars == <<record, mined>>
chainVars == <<record, mined, receipt, vault, account>>
timeVars == <<matured, cutoffs, late>>
tickVars == <<pc, todo, book, cur>>

SumOf(set, f(_)) == SumFunctionOnSet([x \in set |-> f(x)], set)

Init ==
    /\ StepsInit
    /\ receipt = [s \in StepIds |-> NoSnapshot]
    /\ vault = SumOf(Books, LAMBDA b : Pending[b])
    /\ account = [free |-> 0, qty |-> 0, price |-> FirstPrice]
    /\ saved = [books |-> [b \in Books |-> NewBook(b)], pool |-> EmptyPool(FirstPrice),
                requests |-> [r \in Requests |-> NewRequest],
                withdrawals |-> [w \in Withdrawals |-> [status |-> "none", payout |-> 0]],
                steps |-> [s \in StepIds |-> UnusedStep]]
    /\ matured = {} /\ cutoffs = 0
    /\ late = [requests |-> {}, risk |-> {}, settle |-> {}]
    /\ pc = "idle" /\ todo = <<>> /\ book = NoBook /\ cur = NoStep
    /\ trouble = [k \in TroubleKinds |-> 0]

May(kind) ==
    /\ trouble[kind] < Limits[kind]
    /\ SumOf(TroubleKinds, LAMBDA k : trouble[k]) < TroubleLimit
Happens(kind) == trouble' = [trouble EXCEPT ![kind] = @ + 1]

--------------------------------------------------------------------------------
(* What a strategy is worth. *)

Member(s, b) == b \in s.pool.members
Lots(s, b) == s.pool.lots[b]

\* Cash without fees due, and the claim on the shared account.
Equity(s, b) == s.books[b].cash - s.books[b].fees + s.pool.equity[b]

units(w) == Units[w]

\* Exit costs of withdrawals not paid yet count for those who stay.
ReservedCost(s, b) ==
    LET x == s.books[b].settlement
        unpaid == {w \in x.ids : s.withdrawals[w].status # "PAID"}
    IN  IF x.ids = {} THEN 0
        ELSE IF ~x.priced THEN x.cost
        ELSE (x.cost * SumOf(unpaid, units)) \div SumOf(x.ids, units)

\* What markBook() values the units at.
MarkedEquity(s, b) == Larger(0, Equity(s, b) + ReservedCost(s, b))

\* markBook(): the stop loss.
Loss(s, b) ==
    LET k == s.books[b]
    IN  /\ k.units > 0 /\ k.base.equity > 0
        /\ MarkedEquity(s, b) * 100 * k.base.units <= k.units * k.base.equity * (100 - StopLoss)

\* The account can be read: the strategy has no claim, or the claims explain it.
Readable(b) == Member(saved, b) => Explained(saved.pool, account, NoBook, FALSE)

\* refresh() and observeBook(), with or without the assessment of the risk.
Refreshed(s, b) ==
    IF Member(s, b) THEN [s EXCEPT !.pool = Checkpointed(@, account, NoBook)] ELSE s
Observed(s, b) ==
    LET t == Refreshed(s, b)
    IN  [t EXCEPT !.books[b].status = IF Loss(t, b) THEN "RISK_EXIT" ELSE @]

--------------------------------------------------------------------------------
(* Errors. *)

OpenRequests(s, b) ==
    {r \in Requests : RequestBook[r] = b /\ s.requests[r].status \in {"QUEUED", "EXECUTING"}}

RequestLocations == {"orders", "release", "flattened", "back", "fund", "trade", "check"}
InRequest ==
    IF pc \in {"submit", "await", "apply"} THEN Kind(cur) \in RequestKinds ELSE pc \in RequestLocations

\* Something of the request may still come: any transaction without a receipt, or a
\* confirmed step of this request that is not applied.
\* Fault variant: only what is still in flight counts.
Unresolved_InFlight(s, r, records) == \E x \in StepIds : records[x] = "signed"

Unresolved(s, r, records) ==
    \E x \in StepIds :
        \/ records[x] = "signed"
        \/ /\ Kind(x) \in RequestKinds /\ Job(x) = r
           /\ s.steps[x].st = "saved" /\ records[x] = "ok"

\* The catch block around execute().
Caught(s, r, error, records) ==
    IF Unresolved(s, r, records) \/ (error = "gas" /\ r \notin late.requests)
    THEN [s EXCEPT !.requests[r].status = "EXECUTING"]
    ELSE IF error = "partial" /\ r \notin late.requests
    THEN [s EXCEPT !.requests[r].status = "EXECUTING", !.requests[r].attempt = @ + 1]
    ELSE [s EXCEPT !.requests[r].status =
             IF s.requests[r].fill THEN "PARTIALLY_FILLED"
             ELSE IF error \in {"gas", "expired", "partial"} THEN "EXPIRED" ELSE "FAILED"]

EndSection ==
    /\ pc' = IF todo = <<>> THEN "idle" ELSE "ready"
    /\ book' = NoBook /\ cur' = NoStep /\ UNCHANGED todo

EndTick == pc' = "idle" /\ todo' = <<>> /\ book' = NoBook /\ cur' = NoStep

Goto(location) == pc' = location /\ cur' = NoStep /\ UNCHANGED <<todo, book>>

\* An error leaves execute(), and the section goes on, or it ends the section.
ThrowKnowing(records, s, error) ==
    IF InRequest
    THEN /\ \E r \in OpenRequests(s, book) : saved' = Caught(s, r, error, records)
         /\ Goto("mark")
    ELSE saved' = s /\ EndSection

Throw(s, error) == ThrowKnowing(record, s, error)

--------------------------------------------------------------------------------
(* step(): request saved once, submitted, effect applied with the mark. *)

\* Where the job goes on after a step.
After == [flatten |-> "flattened", back |-> "check", fund |-> "trade", target |-> "check",
          risk |-> "flat", close |-> "closed", collect |-> "price", pay |-> "pay", fee |-> "feePaid"]

LateStep(x) ==
    CASE Kind(x) \in RequestKinds -> Job(x) \in late.requests
      [] Kind(x) = "risk" -> Job(x) \in late.risk
      [] Kind(x) \in {"close", "collect"} -> Job(x) \in late.settle
      [] OTHER -> FALSE

\* The call, up to the submission.
CallStep(s, x, args) ==
    LET t == IF s.steps[x].st = "none" THEN [s EXCEPT !.steps[x] = args] ELSE s
    IN  IF s.steps[x].st = "applied"
        THEN /\ saved' = s
             /\ pc' = After[Kind(x)] /\ cur' = x /\ UNCHANGED <<todo, book>>
        ELSE IF record[x] = "absent" /\ LateStep(x)
        THEN Throw(t, "expired")
        ELSE /\ saved' = t
             /\ pc' = IF record[x] = "ok" THEN "apply" ELSE "submit"
             /\ cur' = x /\ UNCHANGED <<todo, book>>

Cash(amount) == [st |-> "saved", amount |-> amount, before |-> 0, owned |-> 0, filled |-> FALSE]
Trade(s, b, target) ==
    [st |-> "saved", amount |-> target - Lots(s, b), before |-> TotalLots(s.pool), owned |-> Lots(s, b),
     filled |-> FALSE]

SubmitSync(x) ==
    /\ pc = "submit" /\ Learn(x)
    /\ IF mined[x] = "ok" THEN UNCHANGED <<saved, tickVars>>
       ELSE ThrowKnowing([record EXCEPT ![x] = mined[x]], saved, "other")
    /\ UNCHANGED <<receipt, vault, account, timeVars, trouble>>

SubmitKnown ==
    /\ pc = "submit" /\ InFlight = {} /\ record[cur] \in Outcomes
    /\ IF record[cur] = "ok"
       THEN pc' = "apply" /\ UNCHANGED <<saved, todo, book, cur>>
       ELSE Throw(saved, "other")
    /\ UNCHANGED <<chainVars, timeVars, trouble>>

SubmitSign ==
    /\ pc = "submit" /\ Sign(cur)
    /\ pc' = "await"
    /\ UNCHANGED <<receipt, vault, account, saved, timeVars, todo, book, cur, trouble>>

SubmitAnswered ==
    /\ pc = "await" /\ Learn(cur)
    /\ IF mined[cur] = "ok"
       THEN pc' = "apply" /\ UNCHANGED <<saved, todo, book, cur>>
       ELSE ThrowKnowing([record EXCEPT ![cur] = mined[cur]], saved, "other")
    /\ UNCHANGED <<receipt, vault, account, timeVars, trouble>>

\* An RPC error or an empty operator wallet, before anything is signed.
SubmitFails ==
    /\ pc = "submit" /\ May("rpc") /\ Happens("rpc")
    /\ \E error \in {"other", "gas"} : Throw(saved, error)
    /\ UNCHANGED <<chainVars, timeVars>>

\* maxPolls without a receipt: for this transaction, or for an earlier one.
SubmitGivesUp ==
    /\ pc \in {"submit", "await"} /\ InFlight # {} /\ May("giveUp") /\ Happens("giveUp")
    /\ Throw(saved, "other")
    /\ UNCHANGED <<chainVars, timeVars>>

--------------------------------------------------------------------------------
(* Effects. *)

\* applyEffect() for the kinds that move cash between the strategy and the account.
ToAccount(s, x) == IF Kind(x) = "fund" THEN s.steps[x].amount ELSE -s.steps[x].amount

MayApply(s, x) ==
    LET b == BookOf(x)
        p == s.steps[x]
    IN  CASE Kind(x) \in {"fund", "back", "collect"} ->
                Explained(Moved(s.pool, b, ToAccount(s, x)), receipt[x], b, FALSE)
          [] Kind(x) \in TradeKinds ->
                /\ FillInRange(p.before, p.amount, receipt[x].qty)
                /\ Explained(s.pool, receipt[x], b, TRUE)
          [] Kind(x) = "pay" ->
                /\ Units[Job(x)] <= s.books[b].units
                /\ p.amount <= s.books[b].cash - s.books[b].fees
          [] OTHER -> TRUE

\* Fault variant: the effect is saved without its mark.
Marked_Not(s, x) == s

\* The mark that is saved together with the effect.
Marked(s, x) == [s EXCEPT !.steps[x].st = "applied"]

\* The lots a strategy owns after its trade: what was filled, not what was ordered.
OwnedAfter(p, snap) == p.owned + (snap.qty - p.before)

\* burnWithdrawal() of a redemption.
Burned(s, w, amount) ==
    LET b == WithdrawalBook[w]
        k == s.books[b]
    IN  [s EXCEPT !.books[b] = [k EXCEPT !.units = @ - Units[w], !.cash = @ - amount],
                  !.withdrawals[w].status = "PAID"]

\* applyEffect() with the mark `applied'.
Applied(s, x) ==
    LET b == BookOf(x)
        p == s.steps[x]
        snap == receipt[x]
        done == Marked(s, x)
    IN  CASE Kind(x) \in {"fund", "back", "collect"} ->
                [done EXCEPT !.pool = Checkpointed(Moved(@, b, ToAccount(s, x)), snap, b),
                             !.books[b].cash = @ - ToAccount(s, x)]
          [] Kind(x) \in TradeKinds ->
                [done EXCEPT !.pool = [Checkpointed(@, snap, b) EXCEPT
                                          !.lots[b] = OwnedAfter(p, snap)],
                             !.steps[x].filled = (snap.qty # p.before)]
          [] Kind(x) = "pay" -> Burned(done, Job(x), p.amount)
          [] Kind(x) = "fee" -> [done EXCEPT !.books[b] = [s.books[b] EXCEPT !.cash = @ - p.amount, !.fees = @ - p.amount]]

\* job.hasFill, after a trade of a request returned.
WithFill(s) ==
    IF cur # NoStep /\ Kind(cur) \in TradeKinds \cap RequestKinds /\ s.steps[cur].filled
    THEN [s EXCEPT !.requests[Job(cur)].fill = TRUE] ELSE s

ApplyStep ==
    /\ pc = "apply"
    /\ IF MayApply(saved, cur)
       THEN /\ saved' = Applied(saved, cur)
            /\ pc' = After[Kind(cur)] /\ UNCHANGED <<todo, book, cur>>
       ELSE Throw(saved, "other")
    /\ receipt' = IF MayApply(saved, cur) THEN [receipt EXCEPT ![cur] = NoSnapshot] ELSE receipt
    /\ UNCHANGED <<record, mined, vault, account, timeVars, trouble>>

\* The receipt or the account cannot be read.
ApplyFails ==
    /\ pc = "apply" /\ Kind(cur) \in ReadingKinds
    /\ May("rpc") /\ Happens("rpc")
    /\ Throw(saved, "other")
    /\ UNCHANGED <<chainVars, timeVars>>

--------------------------------------------------------------------------------
(* The chain and the market. *)

\* What a successful transaction does to the vault and the account.
ChainEffect(x) ==
    LET p == saved.steps[x]
    IN  CASE Kind(x) = "fund" ->
                vault' = vault - p.amount /\ account' = [account EXCEPT !.free = @ + p.amount]
          [] Kind(x) \in {"back", "collect"} ->
                vault' = vault + p.amount /\ account' = [account EXCEPT !.free = @ - p.amount]
          [] Kind(x) \in TradeKinds ->
                /\ \E filled \in {p.amount, p.amount \div 2, 0} :
                      LET cost == IF filled = 0 THEN 0 ELSE TradeCost
                          free == account.free - filled * account.price - cost
                          kind == IF filled = 0 THEN "unfilled" ELSE "partial"
                      IN  /\ IF filled = p.amount THEN UNCHANGED trouble ELSE May(kind) /\ Happens(kind)
                          /\ free >= 0
                          /\ account' = [account EXCEPT !.free = free, !.qty = @ + filled]
                /\ UNCHANGED vault
          [] OTHER ->
                vault' = vault - p.amount /\ UNCHANGED account

\* The contracts' checks: cash in the vault, free collateral, the expected position
\* and the deadline.
CanSucceed(x) ==
    LET p == saved.steps[x]
    IN  CASE Kind(x) \in {"back", "collect"} -> p.amount <= account.free
          [] Kind(x) \in TradeKinds ->
                /\ account.qty = p.before /\ ~LateStep(x)
                /\ \/ p.amount * account.price + TradeCost <= account.free
                   \/ May("partial") \/ May("unfilled")
          [] OTHER -> p.amount <= vault

MineOk(x) ==
    /\ Mine(x) /\ mined'[x] = "ok"
    /\ CanSucceed(x) /\ ChainEffect(x)
    /\ Kind(x) \notin TradeKinds => UNCHANGED trouble
    /\ receipt' = [receipt EXCEPT ![x] = IF Kind(x) \in {"pay", "fee"} THEN NoSnapshot ELSE account']
    /\ UNCHANGED <<saved, timeVars, tickVars>>

\* A transaction that cannot succeed reverts; others may, within the bound.
MineRevert(x) ==
    /\ Mine(x) /\ mined'[x] = "reverted"
    /\ IF CanSucceed(x) THEN May("revert") /\ Happens("revert") ELSE UNCHANGED trouble
    /\ UNCHANGED <<receipt, vault, account, saved, timeVars, tickVars>>

PriceMoves ==
    /\ May("price") /\ Happens("price")
    /\ \E p \in Prices \ {account.price} : account' = [account EXCEPT !.price = p]
    /\ UNCHANGED <<record, mined, receipt, vault, saved, timeVars, tickVars>>
================================================================================
