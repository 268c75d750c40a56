------------------------------ MODULE StrategyJobs -----------------------------
(***************************************************************************)
(* The operator's jobs for a book: from a strategist's target to a         *)
(* position, and the risk exit (deploy/tee/operator/execution.mjs: accept, *)
(* execute, riskExit; trade, recover and allocate of shared-accounts.mjs); *)
(* redemptions of a strategy's units and the manager's performance fee     *)
(* (settle, payFees; burnWithdrawal, requestWithdrawal and                 *)
(* cancelWithdrawal of ledger.mjs).                                        *)
(*                                                                         *)
(* Deposits are made once, so that all investors share one high watermark; *)
(* a performance fee is some part of the gain above it.  The units a fee   *)
(* burns are taken from everybody in proportion and not counted.           *)
(***************************************************************************)
EXTENDS StrategySteps

--------------------------------------------------------------------------------
(* Targets and the risk exit. *)

orderUnchanged == <<chainVars, timeVars, trouble>>

\* accept(): one open request at a time, not while halted or settling.
Accept(r) ==
    LET b == RequestBook[r]
    IN  /\ pc \in {"idle", "ready"}
        /\ saved.requests[r].status = "none" /\ OpenRequests(saved, b) = {}
        /\ saved.books[b].status = "ACTIVE" /\ saved.books[b].settlement.ids = {}
        /\ saved' = [saved EXCEPT !.requests[r].status = "QUEUED"]
        /\ UNCHANGED <<orderUnchanged, tickVars>>

\* accept(), RESUME: a halted strategy goes on, and its losses count from here.  Its
\* risk job stays.
Restart(b) ==
    LET k == saved.books[b]
    IN  /\ pc \in {"idle", "ready"} /\ k.status = "HALTED"
        /\ saved' = [saved EXCEPT !.books[b] =
                       [k EXCEPT !.status = "ACTIVE",
                                 !.base = IF k.units = 0 THEN @
                                          ELSE [equity |-> MarkedEquity(saved, b), units |-> k.units]]]
        /\ UNCHANGED <<orderUnchanged, tickVars>>

NoOrders ==
    /\ pc = "orders" /\ OpenRequests(saved, book) = {}
    /\ Goto("mark")
    /\ UNCHANGED <<saved, orderUnchanged>>

\* activatePending(): investors' cash becomes units at the current price per unit.
Activated(s, b) ==
    LET k == s.books[b]
        minted == IF k.units = 0 THEN k.pending ELSE (k.pending * k.units) \div Equity(s, b)
    IN  [s EXCEPT !.books[b] =
            [k EXCEPT !.pending = 0, !.cash = @ + k.pending, !.units = @ + minted,
                      !.high = IF k.units = 0 THEN [equity |-> k.pending, units |-> minted] ELSE @]]

MayActivate(s, b) ==
    LET k == s.books[b]
    IN  k.units > 0 => /\ Equity(s, b) > 0
                       /\ k.pending > 0 => k.pending * k.units >= Equity(s, b)

\* targetLots().
PlanFor(s, r) ==
    (Larger(0, Equity(s, RequestBook[r])) * Weight[r]) \div (100 * account.price)

\* A request without a plan: checks, valuation, activation, plan.
PlanRequest(r) ==
    /\ pc = "orders" /\ r \in OpenRequests(saved, book) /\ saved.requests[r].plan = NoPlan
    /\ LET begun == [saved EXCEPT !.requests[r].status = "EXECUTING"]
           seen == Observed(begun, book)
           active == Activated(seen, book)
       IN  IF r \in late.requests THEN Throw(begun, "expired")
           ELSE IF ~Readable(book) THEN Throw(begun, "other")
           ELSE IF seen.books[book].status # "ACTIVE" \/ ~MayActivate(seen, book)
           THEN Throw(seen, "other")
           ELSE /\ saved' = [active EXCEPT !.requests[r].plan = PlanFor(active, r)]
                /\ Goto("release")
    /\ UNCHANGED orderUnchanged

\* A request that was begun before goes on with its plan.
ResumeRequest(r) ==
    /\ pc = "orders" /\ r \in OpenRequests(saved, book) /\ saved.requests[r].plan # NoPlan
    /\ saved' = [saved EXCEPT !.requests[r].status = "EXECUTING"]
    /\ Goto("release")
    /\ UNCHANGED orderUnchanged

Plan(s, r) == s.requests[r].plan

\* First an unwanted position is closed ...
Release(r) ==
    /\ pc = "release" /\ r \in OpenRequests(saved, book)
    /\ LET s == Refreshed(saved, book)
           x == <<"flatten", r, s.requests[r].attempt>>
       IN  IF ~Readable(book) THEN Throw(saved, "other")
           ELSE IF Lots(s, book) # 0 /\ Plan(s, r) = 0
           THEN IF r \in late.requests THEN Throw(s, "expired")
                ELSE s.requests[r].attempt <= Tries /\ CallStep(s, x, Trade(s, book, 0))
           ELSE saved' = s /\ Goto(IF Plan(s, r) = 0 THEN "back" ELSE "fund")
    /\ UNCHANGED orderUnchanged

Flattened(r) ==
    /\ pc = "flattened" /\ r \in OpenRequests(saved, book)
    /\ LET filled == WithFill(saved)
           s == Refreshed(filled, book)
       IN  IF ~Readable(book) THEN Throw(filled, "other")
           ELSE IF Lots(s, book) # 0 THEN Throw(s, "partial")
           ELSE saved' = s /\ Goto("back")
    /\ UNCHANGED orderUnchanged

\* ... and free collateral comes back to the vault ...
Back(r) ==
    /\ pc = "back" /\ r \in OpenRequests(saved, book)
    /\ LET s == Refreshed(saved, book)
       IN  IF ~Readable(book) THEN Throw(saved, "other")
           ELSE IF Free(s.pool, book) > 0
           THEN CallStep(s, <<"back", r, 0>>, Cash(Free(s.pool, book)))
           ELSE saved' = s /\ Goto("check")
    /\ UNCHANGED orderUnchanged

\* ... or the strategy joins the account, funds it ...
Fund(r) ==
    /\ pc = "fund" /\ r \in OpenRequests(saved, book)
    /\ LET joined == [saved EXCEPT !.pool.members = @ \cup {book}]
           s == Refreshed(joined, book)
           amount == Funding(s.pool, book, Plan(s, r))
           free == s.books[book].cash - s.books[book].fees
       IN  IF ~Explained(joined.pool, account, NoBook, FALSE) THEN Throw(joined, "other")
           ELSE IF amount = 0 THEN saved' = s /\ Goto("trade")
           ELSE IF amount > free THEN Throw(s, "other")
           ELSE CallStep(s, <<"fund", r, 0>>, Cash(amount))
    /\ UNCHANGED orderUnchanged

\* ... and trades towards its plan.
TradeToPlan(r) ==
    /\ pc = "trade" /\ r \in OpenRequests(saved, book)
    /\ LET s == Refreshed(saved, book)
           x == <<"target", r, s.requests[r].attempt>>
       IN  IF ~Readable(book) THEN Throw(saved, "other")
           ELSE IF Lots(s, book) = Plan(s, r) THEN saved' = s /\ Goto("check")
           ELSE IF r \in late.requests THEN Throw(s, "expired")
           ELSE s.requests[r].attempt <= Tries /\ CallStep(s, x, Trade(s, book, Plan(s, r)))
    /\ UNCHANGED orderUnchanged

Check(r) ==
    /\ pc = "check" /\ r \in OpenRequests(saved, book)
    /\ LET filled == WithFill(saved)
           s == Observed(filled, book)
       IN  IF ~Readable(book) THEN Throw(filled, "other")
           ELSE IF Lots(s, book) # Plan(s, r) THEN Throw(s, "partial")
           ELSE saved' = [s EXCEPT !.requests[r].status = "EXECUTED"] /\ Goto("mark")
    /\ UNCHANGED orderUnchanged

--------------------------------------------------------------------------------

\* The strategy is valued on every tick, whatever became of its request.
MarkBook ==
    /\ pc = "mark"
    /\ IF ~Readable(book) THEN Throw(saved, "other")
       ELSE LET s == Observed(saved, book)
            IN  /\ saved' = s
                /\ Goto(IF s.books[book].status = "RISK_EXIT" THEN "risk" ELSE "settle")
    /\ UNCHANGED orderUnchanged

\* riskExit(): a new job when there is none or its deadline has passed, then close.
RiskExit ==
    /\ pc = "risk"
    /\ LET renew == saved.books[book].riskTry = 0 \/ book \in late.risk
           begun == IF renew THEN [saved EXCEPT !.books[book].riskTry = @ + 1] ELSE saved
           s == Refreshed(begun, book)
           x == <<"risk", book, s.books[book].riskTry>>
       IN  /\ renew => saved.books[book].riskTry < Tries
           /\ late' = IF renew THEN [late EXCEPT !.risk = @ \ {book}] ELSE late
           /\ IF ~Readable(book) THEN Throw(begun, "other")
              ELSE IF Lots(s, book) = 0 THEN saved' = s /\ Goto("flat")
              ELSE CallStep(s, x, Trade(s, book, 0))
    /\ UNCHANGED <<chainVars, matured, cutoffs, trouble>>

Flat ==
    /\ pc = "flat"
    /\ LET s == Refreshed(saved, book)
       IN  IF ~Readable(book) THEN Throw(saved, "other")
           ELSE /\ saved' = IF Lots(s, book) = 0 THEN [s EXCEPT !.books[book].status = "HALTED"] ELSE s
                /\ Goto("settle")
    /\ UNCHANGED orderUnchanged

--------------------------------------------------------------------------------
(* Redemptions and fees. *)

settleUnchanged == <<chainVars, timeVars, trouble>>

OpenWithdrawals(b) ==
    {w \in Withdrawals : WithdrawalBook[w] = b /\ saved.withdrawals[w].status \in {"REQUESTED", "SETTLING"}}

\* requestWithdrawal(): units not reserved by another open redemption.
RequestWithdrawal(w) ==
    LET b == WithdrawalBook[w]
    IN  /\ pc \in {"idle", "ready"} /\ saved.withdrawals[w].status = "none"
        /\ Units[w] + SumOf(OpenWithdrawals(b), units) <= saved.books[b].units
        /\ saved' = [saved EXCEPT !.withdrawals[w].status = "REQUESTED"]
        /\ UNCHANGED <<settleUnchanged, tickVars>>

\* Fault variant: whatever its status.
MayCancel_Open(w) == w \in OpenWithdrawals(WithdrawalBook[w])

\* cancelWithdrawal(), before the cutoff.
MayCancel(w) == saved.withdrawals[w].status = "REQUESTED" /\ w \notin matured
CancelWithdrawal(w) ==
    /\ pc \in {"idle", "ready"} /\ MayCancel(w)
    /\ saved' = [saved EXCEPT !.withdrawals[w].status = "CANCELLED"]
    /\ UNCHANGED <<settleUnchanged, tickVars>>

\* The settlement times come.
Mature ==
    /\ \E w \in Withdrawals : saved.withdrawals[w].status = "REQUESTED" /\ w \notin matured
    /\ matured' = matured \cup {w \in Withdrawals : saved.withdrawals[w].status = "REQUESTED"}
    /\ cutoffs' = cutoffs + 1
    /\ UNCHANGED <<chainVars, saved, late, tickVars, trouble>>

--------------------------------------------------------------------------------

SettlementOf(s, b) == s.books[b].settlement
\* Fault variant: a strategy that was halted settles nothing.
Due_Active(b) ==
    {w \in OpenWithdrawals(b) : /\ saved.withdrawals[w].status = "REQUESTED" /\ w \in matured
                                /\ saved.books[b].status = "ACTIVE"}

\* Redemptions that were asked for before a cutoff that has come.
Due(b) == {w \in OpenWithdrawals(b) : saved.withdrawals[w].status = "REQUESTED" /\ w \in matured}

\* How many lots may stay: the shortfall is taken from the positions in proportion,
\* and the rest must not exceed the policy's leverage (one).
TargetLots(s, b, ids) ==
    LET equity == Larger(0, Equity(s, b))
        value == (equity * SumOf(ids, units)) \div s.books[b].units
        free == s.books[b].cash - s.books[b].fees + Free(s.pool, b)
        position == s.pool.equity[b] - Free(s.pool, b)
        needed == Larger(0, value - free)
        lots == Lots(s, b)
        gross == lots * s.pool.checkpoint.price
        stays == (lots * Larger(0, position - needed)) \div position
        capped == (lots * (equity - value)) \div gross
    IN  IF lots = 0 THEN 0 ELSE IF position <= 0 THEN (IF capped < lots THEN capped ELSE lots)
        ELSE IF capped < stays THEN capped ELSE stays

\* crystallizeFees(): a part of the gain above the high watermark, which moves up.
Fees(s, b, value) ==
    LET k == s.books[b]
    IN  {fee \in FeeChoices :
            fee = 0 \/ fee * k.high.units + k.high.equity * k.units <= value * k.high.units}
Crystallized(s, b, value, fee) ==
    LET k == s.books[b]
    IN  [s EXCEPT !.books[b] =
            [k EXCEPT !.fees = @ + fee,
                      !.high = IF value * k.high.units > k.high.equity * k.units
                               THEN [equity |-> value - fee, units |-> k.units] ELSE @]]

\* A cutoff without redemptions charges fees; due redemptions open a settlement.
OpenSettlement ==
    /\ pc = "settle" /\ SettlementOf(saved, book).ids = {}
    /\ Due(book) # {} \/ cutoffs > saved.books[book].lastCutoff
    /\ IF ~Readable(book) THEN Throw(saved, "other")
       ELSE /\ LET seen == Observed(saved, book)
                   s == [seen EXCEPT !.books[book].lastCutoff = cutoffs]
               IN  IF Due(book) = {}
                   THEN \E fee \in Fees(s, book, Larger(0, Equity(s, book))) :
                           saved' = Crystallized(s, book, Larger(0, Equity(s, book)), fee)
                   ELSE saved' =
                          [s EXCEPT !.books[book].settlement =
                                       [NoSettlement EXCEPT !.ids = Due(book),
                                                            !.target = TargetLots(s, book, Due(book))],
                                    !.withdrawals = [w \in Withdrawals |->
                                       IF w \in Due(book) THEN [@[w] EXCEPT !.status = "SETTLING"] ELSE @[w]]]
            /\ Goto("job")
    /\ UNCHANGED settleUnchanged

NothingDue ==
    /\ pc = "settle"
    /\ SettlementOf(saved, book).ids # {}
         \/ (Due(book) = {} /\ cutoffs <= saved.books[book].lastCutoff)
    /\ Goto("job")
    /\ UNCHANGED <<saved, settleUnchanged>>

\* A settlement has a job with a deadline; after it a new attempt begins.
JobIsOver(b) == SettlementOf(saved, b).attempt = 0 \/ b \in late.settle

SettlementJob ==
    /\ pc = "job"
    /\ LET x == SettlementOf(saved, book)
           renew == x.ids # {} /\ JobIsOver(book)
       IN  /\ renew => x.attempt < Tries
           /\ saved' = IF renew
                       THEN [saved EXCEPT !.books[book].settlement =
                               [x EXCEPT !.attempt = @ + 1, !.costBase = NoBase, !.costApplied = FALSE]]
                       ELSE saved
           /\ late' = IF renew THEN [late EXCEPT !.settle = @ \ {book}] ELSE late
           /\ Goto(IF x.ids = {} THEN "fees" ELSE IF x.priced THEN "pay" ELSE "close")
    /\ UNCHANGED <<chainVars, matured, cutoffs, trouble>>

\* The closing trade, with the value before it as the base of its cost.
CloseLots ==
    /\ pc = "close"
    /\ LET x == SettlementOf(saved, book)
           step == <<"close", book, x.attempt>>
           seen == Observed(saved, book)
           based == IF x.costBase # NoBase THEN Refreshed(saved, book)
                    ELSE [seen EXCEPT !.books[book].settlement.costBase =
                             [equity |-> Larger(0, Equity(seen, book)), price |-> account.price]]
       IN  IF ~Member(saved, book) THEN UNCHANGED saved /\ Goto("collect")
           ELSE IF ~Readable(book) THEN Throw(saved, "other")
           ELSE IF Lots(saved, book) = x.target /\ (x.costBase = NoBase \/ x.costApplied)
           THEN saved' = Refreshed(saved, book) /\ Goto("collect")
           ELSE IF Lots(saved, book) = x.target THEN saved' = based /\ Goto("closed")
           ELSE IF book \in late.settle THEN Throw(based, "expired")
           ELSE CallStep(based, step, Trade(based, book, x.target))
    /\ UNCHANGED settleUnchanged

\* What the trade cost, at the price before it.
Closed ==
    /\ pc = "closed"
    /\ LET s == Refreshed(saved, book)
           x == SettlementOf(s, book)
           cost == x.costBase.equity
                     - (Larger(0, Equity(s, book)) + Lots(s, book) * (x.costBase.price - account.price))
           t == IF x.costApplied THEN s
                ELSE [s EXCEPT !.books[book].settlement = [x EXCEPT !.cost = @ + cost, !.costApplied = TRUE]]
       IN  IF ~Readable(book) THEN Throw(saved, "other")
           ELSE IF Lots(t, book) # x.target THEN Throw(t, "other")
           ELSE saved' = t /\ Goto("collect")
    /\ UNCHANGED settleUnchanged

\* Free collateral comes back to the vault.
Collect ==
    /\ pc = "collect"
    /\ LET s == Refreshed(saved, book)
           amount == Free(s.pool, book)
       IN  IF ~Readable(book) THEN Throw(saved, "other")
           ELSE IF amount > 0
           THEN CallStep(s, <<"collect", book, SettlementOf(s, book).attempt>>, Cash(amount))
           ELSE saved' = s /\ Goto("price")
    /\ UNCHANGED settleUnchanged

\* The redeemed units at the value before exit costs, less the fee, less the costs.
Payout(s, b, equity, cost) ==
    (equity * SumOf(SettlementOf(s, b).ids, units)) \div s.books[b].units - cost

\* Shares of the payout by units; the last one takes what is left.
Shares(s, b, payout) ==
    LET ids == SettlementOf(s, b).ids
        total == SumOf(ids, units)
        share(w) == (payout * Units[w]) \div total
        last == CHOOSE w \in ids : TRUE
    IN  [w \in ids |-> IF w = last THEN payout - SumOf(ids \ {last}, share) ELSE share(w)]

PriceRedemption ==
    /\ pc = "price"
    /\ LET seen == Refreshed(saved, book)
           cost == SettlementOf(seen, book).cost
           value == Larger(0, Equity(seen, book)) + cost
       IN  IF ~Readable(book) THEN Throw(saved, "other")
           ELSE IF value < 0 THEN Throw(seen, "other")
           ELSE \E fee \in Fees(seen, book, value) :
                  LET s == Crystallized(seen, book, value, fee)
                      payout == Payout(s, book, value - fee, cost)
                      shares == Shares(s, book, payout)
                  IN  IF payout < 0 THEN Throw(s, "other")
                      ELSE /\ saved' =
                                [s EXCEPT !.books[book].settlement.priced = TRUE,
                                          !.withdrawals = [w \in Withdrawals |->
                                             IF w \in DOMAIN shares
                                             THEN [@[w] EXCEPT !.payout = shares[w]] ELSE @[w]]]
                           /\ Goto("pay")
    /\ UNCHANGED settleUnchanged

Unpaid(b) == {w \in SettlementOf(saved, b).ids : saved.withdrawals[w].status # "PAID"}

\* redeemToCash(): the payout moves to the investor's platform balance.
Redeemed(w) ==
    LET amount == saved.withdrawals[w].payout
    IN  [Burned(saved, w, amount) EXCEPT !.books[WithdrawalBook[w]].credited = @ + amount]

\* Fault variant: nobody looks at the cash.
Covered_Unchecked(b) == TRUE
Covered(b) ==
    LET payout(w) == saved.withdrawals[w].payout
    IN  SumOf(Unpaid(b), payout) <= saved.books[b].cash - saved.books[b].fees

\* One redemption after the other, when the strategy's cash covers them all.
PayOne ==
    /\ pc = "pay" /\ Unpaid(book) # {}
    /\ LET w == CHOOSE x \in Unpaid(book) : TRUE
           amount == saved.withdrawals[w].payout
       IN  IF ~Covered(book) THEN Throw(saved, "other")
           ELSE IF w \in ToBalance \/ amount = 0
           THEN IF Units[w] > saved.books[book].units THEN Throw(saved, "other")
                ELSE saved' = Redeemed(w) /\ Goto("pay")
           ELSE CallStep(saved, <<"pay", w, 0>>, Cash(amount))
    /\ UNCHANGED settleUnchanged

CloseSettlement ==
    /\ pc = "pay" /\ Unpaid(book) = {}
    /\ saved' = [saved EXCEPT !.books[book].settlement = NoSettlement]
    /\ Goto("fees")
    /\ UNCHANGED settleUnchanged

--------------------------------------------------------------------------------

\* payFees(): a payment that was applied before a crash is closed first.
FeeApplied(s, b) ==
    s.books[b].feeAmount > 0 /\ s.steps[<<"fee", b, s.books[b].feeTry>>].st = "applied"

PayFees ==
    /\ pc = "fees"
    /\ LET closed == IF FeeApplied(saved, book) THEN [saved EXCEPT !.books[book].feeAmount = 0] ELSE saved
           k == closed.books[book]
           begun == IF k.feeAmount > 0 THEN closed
                    ELSE [closed EXCEPT !.books[book] = [k EXCEPT !.feeTry = @ + 1, !.feeAmount = k.fees]]
           x == <<"fee", book, begun.books[book].feeTry>>
       IN  IF k.settlement.ids # {} \/ k.fees = 0 \/ k.cash < k.fees
           THEN saved' = closed /\ EndSection
           ELSE /\ begun.books[book].feeTry <= Tries
                /\ CallStep(begun, x, Cash(begun.books[book].feeAmount))
    /\ UNCHANGED settleUnchanged

FeePaid ==
    /\ pc = "feePaid"
    /\ saved' = [saved EXCEPT !.books[book].feeAmount = 0]
    /\ EndSection
    /\ UNCHANGED settleUnchanged
================================================================================
