--------------------------- MODULE StrategyExecution ---------------------------
(***************************************************************************)
(* The tick of the strategy operator: StrategySteps and StrategyJobs       *)
(* composed (deploy/tee/operator/execution.mjs tick).                      *)
(***************************************************************************)
EXTENDS StrategyJobs

tickUnchanged == <<receipt, vault, account, timeVars, trouble>>

TickBegin ==
    /\ pc = "idle" /\ Goto("sync")
    /\ UNCHANGED <<submitterVars, saved, tickUnchanged>>

\* submitter.sync(): receipts of what is in flight; a revert makes it throw.
TickSync(x) ==
    /\ pc = "sync" /\ Learn(x)
    /\ IF mined[x] = "ok" THEN UNCHANGED tickVars ELSE EndTick
    /\ UNCHANGED <<saved, tickUnchanged>>

\* maxPolls pass without a receipt, or the RPC fails.
TickSyncThrows ==
    /\ pc = "sync"
    /\ \/ (\E x \in InFlight : mined[x] = "no") /\ UNCHANGED trouble
       \/ InFlight # {} /\ May("rpc") /\ Happens("rpc")
    /\ EndTick
    /\ UNCHANGED <<chainVars, saved, timeVars>>

\* Fault variant: the tick goes on although a transaction is unresolved.
TickSynced_Anyway ==
    /\ pc = "sync"
    /\ pc' = "ready" /\ todo' = BookOrder /\ UNCHANGED <<book, cur>>
    /\ UNCHANGED <<submitterVars, saved, tickUnchanged>>

\* Fault variant: only unresolved payments keep the tick from going on.
TickSynced_Payments ==
    /\ pc = "sync" /\ \A x \in InFlight : Kind(x) # "pay"
    /\ pc' = "ready" /\ todo' = BookOrder /\ UNCHANGED <<book, cur>>
    /\ UNCHANGED <<submitterVars, saved, tickUnchanged>>

TickSynced ==
    /\ pc = "sync" /\ InFlight = {}
    /\ pc' = IF BookOrder = <<>> THEN "idle" ELSE "ready"
    /\ todo' = BookOrder /\ UNCHANGED <<book, cur>>
    /\ UNCHANGED <<submitterVars, saved, tickUnchanged>>

OpenSection ==
    /\ pc = "ready"
    /\ pc' = "recover" /\ todo' = Tail(todo) /\ book' = Head(todo) /\ cur' = NoStep
    /\ UNCHANGED <<submitterVars, saved, tickUnchanged>>

\* The steps a section looks through: of all requests, and of the redemption, risk
\* and fee jobs the strategy has now.
Current(s, x) ==
    LET k == s.books[BookOf(x)]
    IN  CASE Kind(x) \in RequestKinds -> TRUE
          [] Kind(x) = "pay" -> Job(x) \in k.settlement.ids
          [] Kind(x) \in {"close", "collect"} ->
                k.settlement.ids # {} /\ Attempt(x) = k.settlement.attempt
          [] Kind(x) = "risk" -> Attempt(x) = k.riskTry
          [] Kind(x) = "fee" -> k.feeAmount > 0 /\ Attempt(x) = k.feeTry

Recoverable ==
    {x \in StepIds : /\ BookOf(x) = book /\ Current(saved, x)
                     /\ saved.steps[x].st = "saved" /\ record[x] = "ok"}

\* In the order the jobs are listed.
Rank(x) == CASE Kind(x) \in RequestKinds -> 1
             [] Kind(x) = "pay" -> 2
             [] Kind(x) \in {"close", "collect"} -> 3
             [] Kind(x) = "risk" -> 4
             [] OTHER -> 5
NextToRecover(x) == x \in Recoverable /\ \A y \in Recoverable : Rank(x) <= Rank(y)

\* "Apply saved monetary effects before reading venue state": nothing catches an
\* error here, the tick ends.
Recover(x) ==
    /\ pc = "recover" /\ NextToRecover(x)
    /\ IF MayApply(saved, x)
       THEN LET s == Applied(saved, x)
            IN  /\ saved' = IF Kind(x) \in TradeKinds \cap RequestKinds /\ s.steps[x].filled
                            THEN [s EXCEPT !.requests[Job(x)].fill = TRUE] ELSE s
                /\ receipt' = [receipt EXCEPT ![x] = NoSnapshot]
                /\ UNCHANGED tickVars
       ELSE EndTick /\ UNCHANGED <<saved, receipt>>
    /\ UNCHANGED <<submitterVars, vault, account, timeVars, trouble>>

RecoverFails ==
    /\ pc = "recover" /\ \E x \in Recoverable : NextToRecover(x) /\ Kind(x) \in ReadingKinds
    /\ May("rpc") /\ Happens("rpc")
    /\ EndTick
    /\ UNCHANGED <<chainVars, saved, timeVars>>

Recovered ==
    /\ pc = "recover" /\ Recoverable = {}
    /\ Goto("orders")
    /\ UNCHANGED <<submitterVars, saved, tickUnchanged>>

\* A read fails (RPC, stale price): the next await of the job throws.
ReadFails ==
    /\ pc \in RequestLocations \cup {"mark", "risk", "flat", "settle", "close", "closed", "collect", "price"}
    /\ InRequest => OpenRequests(saved, book) # {}
    /\ May("rpc") /\ Happens("rpc")
    /\ Throw(WithFill(saved), "other")
    /\ UNCHANGED <<chainVars, timeVars>>

Crash ==
    /\ pc # "idle" /\ May("crash") /\ Happens("crash")
    /\ EndTick
    /\ UNCHANGED <<chainVars, saved, timeVars>>

\* Deadlines pass: of a request, of a risk exit, of a settlement's attempt.
RequestDeadline(r) ==
    /\ saved.requests[r].status \in {"QUEUED", "EXECUTING"} /\ r \notin late.requests
    /\ late' = [late EXCEPT !.requests = @ \cup {r}]
RiskDeadline(b) ==
    /\ saved.books[b].riskTry > 0 /\ b \notin late.risk
    /\ late' = [late EXCEPT !.risk = @ \cup {b}]
SettlementDeadline(b) ==
    /\ saved.books[b].settlement.attempt > 0 /\ b \notin late.settle
    /\ late' = [late EXCEPT !.settle = @ \cup {b}]

Expire ==
    /\ May("late") /\ Happens("late")
    /\ \/ \E r \in Requests : RequestDeadline(r)
       \/ \E b \in Books : RiskDeadline(b) \/ SettlementDeadline(b)
    /\ UNCHANGED <<chainVars, saved, matured, cutoffs, tickVars>>

\* A job whose transaction has reverted can only wait for its deadline, which comes.
Overdue ==
    /\ \E b \in Books :
          \/ RiskDeadline(b) /\ record[<<"risk", b, saved.books[b].riskTry>>] = "reverted"
          \/ /\ SettlementDeadline(b)
             /\ \E kind \in {"close", "collect"} :
                    record[<<kind, b, saved.books[b].settlement.attempt>>] = "reverted"
    /\ UNCHANGED <<chainVars, saved, matured, cutoffs, tickVars, trouble>>

--------------------------------------------------------------------------------

Customers ==
    \/ \E r \in Requests : Accept(r)
    \/ \E b \in Books : Restart(b)
    \/ \E w \in Withdrawals : RequestWithdrawal(w) \/ CancelWithdrawal(w)

Orders ==
    \/ NoOrders \/ MarkBook \/ RiskExit \/ Flat
    \/ \E r \in Requests :
          \/ PlanRequest(r) \/ ResumeRequest(r) \/ Release(r) \/ Flattened(r)
          \/ Back(r) \/ Fund(r) \/ TradeToPlan(r) \/ Check(r)

Settle ==
    \/ OpenSettlement \/ NothingDue \/ SettlementJob \/ CloseLots \/ Closed \/ Collect
    \/ PriceRedemption \/ PayOne \/ CloseSettlement \/ PayFees \/ FeePaid

Submitting == SubmitKnown \/ SubmitSign \/ SubmitAnswered \/ \E x \in StepIds : SubmitSync(x)

Tick ==
    \/ TickBegin \/ TickSyncThrows \/ TickSynced \/ OpenSection \/ Recovered
    \/ \E x \in StepIds : TickSync(x) \/ Recover(x)
    \/ Orders \/ Settle \/ Submitting \/ ApplyStep

Troubles == SubmitFails \/ SubmitGivesUp \/ ApplyFails \/ RecoverFails \/ ReadFails \/ Crash \/ Expire \/ PriceMoves

Mining == \E x \in StepIds : MineOk(x) \/ MineRevert(x)

Next == Customers \/ Tick \/ Troubles \/ Mature \/ Overdue \/ Mining

Spec == Init /\ [][Next]_vars

\* The server starts a tick every five seconds, the chain takes what is sent and the
\* deadline of a job that can do nothing else passes.  Customers, troubles and the
\* other times may do as they like.
FairSpec == Spec /\ WF_vars(Tick) /\ WF_vars(Mining) /\ WF_vars(Overdue)

--------------------------------------------------------------------------------
(* Properties. *)

Locations == {"idle", "sync", "ready", "recover", "mark", "risk", "flat", "settle", "job", "close",
              "closed", "collect", "price", "pay", "fees", "feePaid", "submit", "await", "apply"}
                 \cup RequestLocations

TypeOK ==
    /\ StepsTypeOK
    /\ receipt \in [StepIds -> Snapshot] /\ vault \in Nat
    /\ account \in Snapshot /\ account.free >= 0
    /\ saved \in State
    /\ matured \subseteq Withdrawals /\ cutoffs \in Nat
    /\ late \in [requests : SUBSET Requests, risk : SUBSET Books, settle : SUBSET Books]
    /\ pc \in Locations /\ todo \in Seq(Books) /\ book \in Books \cup {NoBook} /\ cur \in StepIds \cup {NoStep}
    /\ trouble \in [TroubleKinds -> Nat] /\ \A k \in TroubleKinds : trouble[k] <= Limits[k]

Unapplied(kinds) ==
    {x \in StepIds : Kind(x) \in kinds /\ mined[x] = "ok" /\ saved.steps[x].st # "applied"}

\* The vault holds what the books say, up to the confirmed transactions whose effect
\* is still to be applied: no movement is lost or counted twice, whatever is retried,
\* given up or cut short.
VaultReconciles ==
    LET amount(x) == saved.steps[x].amount
        held(b) == saved.books[b].pending + saved.books[b].cash + saved.books[b].credited
    IN  vault + SumOf(Unapplied({"pay", "fee", "fund"}), amount)
            = SumOf(Books, held) + SumOf(Unapplied({"back", "collect"}), amount)

\* The claims on the shared account add up to its equity as it was last read.
ClaimsAddUp == TotalClaims(saved.pool) = saved.pool.checkpoint.equity

\* The operator's books account for all the money, in the vault and on the exchange.
BooksReconcile == VaultReconciles /\ ClaimsAddUp

\* A claim changes by the price of its own lots, the strategy's own transfers and the
\* cost of its own trades, and by nothing else: "never silently move another
\* strategy's money".
OwnTransfers(b) ==
    LET moved == {x \in StepIds : /\ Kind(x) \in {"fund", "back", "collect"} /\ BookOf(x) = b
                                  /\ saved.steps[x].st # "applied" /\ saved'.steps[x].st = "applied"}
        traded == {x \in StepIds : /\ Kind(x) \in TradeKinds /\ BookOf(x) = b
                                   /\ saved.steps[x].st # "applied" /\ saved'.steps[x].filled}
        amount(x) == ToAccount(saved, x)
    IN  SumOf(moved, amount) - SumOf(traded, LAMBDA x : TradeCost)
OwnMoneyOnly ==
    [][\A b \in Books :
          saved'.pool.equity[b] - saved.pool.equity[b]
              = saved.pool.lots[b] * (saved'.pool.checkpoint.price - saved.pool.checkpoint.price)
                  + OwnTransfers(b)]_vars

\* A trade changes the lots of its own strategy, by what it filled, and nobody else's:
\* no strategy's lots are sold for another one.
OwnLotsOnly ==
    [][\A b \in Books :
          LET traded == {x \in StepIds : /\ Kind(x) \in TradeKinds /\ BookOf(x) = b
                                         /\ saved.steps[x].st # "applied" /\ saved'.steps[x].st = "applied"}
          IN  saved'.pool.lots[b] - saved.pool.lots[b]
                  = SumOf(traded, LAMBDA x : receipt[x].qty - saved.steps[x].before)]_vars

\* A request that is reported as finished has nothing in flight and nothing left to
\* apply.
Finished == {"EXECUTED", "PARTIALLY_FILLED", "EXPIRED", "FAILED"}
FinishedIsSettled ==
    \A x \in StepIds : Kind(x) \in RequestKinds /\ saved.requests[Job(x)].status \in Finished =>
        /\ record[x] # "signed"
        /\ record[x] = "ok" => saved.steps[x].st = "applied"

\* A transaction that may still have an effect to apply belongs to a job the next
\* section looks through: no job is replaced or deleted over it.
NothingForgotten ==
    \A x \in StepIds : record[x] \in {"signed", "ok"} /\ saved.steps[x].st = "saved" =>
        Current(saved, x)

\* A payout that is signed, or confirmed and not yet applied, is for a redemption that
\* waits for it at a fixed price, and its units are there to be burned.
Payouts == Unapplied({"pay"}) \cup {x \in InFlight : Kind(x) = "pay"}
SignedPayoutIsAwaited ==
    \A x \in Payouts :
        /\ saved.withdrawals[Job(x)].status = "SETTLING"
        /\ saved.books[BookOf(x)].settlement.priced
        /\ Units[Job(x)] <= saved.books[BookOf(x)].units

\* It can be booked when it is confirmed.  The cash is there as long as no transaction
\* stays unanswered: one that does may be a funding, and its section goes on to the
\* redemptions with the cash that is on its way to the account.
SignedPayoutIsCovered ==
    /\ SignedPayoutIsAwaited
    /\ trouble.giveUp = 0 => \A x \in Payouts : MayApply(saved, x)

\* The payouts of a settlement are fixed, and the strategy's cash does not cover them:
\* WITHDRAWAL_LIQUIDITY_PENDING.  Nothing collects more for a settlement with fixed
\* payouts.
Short(b) == SettlementOf(saved, b).priced /\ ~Covered(b)

\* The strategy holds less than its settlement meant to keep: a risk exit has sold in
\* between.  The settlement's trade now buys, which the account may not afford.
Overtaken(b) ==
    SettlementOf(saved, b).ids # {} /\ ~SettlementOf(saved, b).priced
        /\ Lots(saved, b) < SettlementOf(saved, b).target

\* The redeemed units are worth less than what their exit has cost:
\* WITHDRAWAL_COST_EXCEEDS_VALUE, until the price recovers.
Overcharged(b) ==
    LET x == SettlementOf(saved, b)
    IN  /\ x.ids # {} /\ ~x.priced
        /\ Payout(saved, b, Larger(0, Equity(saved, b)) + x.cost, x.cost) < 0

\* A redemption whose time has come is paid, whatever fails on the way and however the
\* price moves, unless its settlement runs short after its payouts were fixed, a risk
\* exit overtakes it or its costs eat it up; in these three cases the code has nothing
\* that would pay it for sure.
RedemptionsComplete ==
    \A w \in Withdrawals :
        (w \in matured /\ saved.withdrawals[w].status \in {"REQUESTED", "SETTLING"})
            ~> \/ saved.withdrawals[w].status = "PAID"
               \/ \E b \in {WithdrawalBook[w]} : Short(b) \/ Overtaken(b) \/ Overcharged(b)
================================================================================
