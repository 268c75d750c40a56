----------------------------- MODULE PilotTrading ------------------------------
(***************************************************************************)
(* What the pilot fund trades, and who checks it: the exchange for test    *)
(* assets and the fund's positions on it (contracts/pilot/PilotFund.sol),  *)
(* and the auditor that reconstructs the fund from its events              *)
(* (src/pilot/verify.js).  PilotFund has the commands, the deadlines and   *)
(* the failures; here an epoch is opened, executed, closed and paid        *)
(* without them, and prices, positions and tokens are the contract's.      *)
(* Only the fund borrows.  A token's owners other than the fund and the    *)
(* exchange are not told apart.                                            *)
(***************************************************************************)
EXTENDS Integers, SequencesExt, FiniteSetsExt

CONSTANTS
    AssetCount, Targets,            \* the targets an epoch may have, in percent
    FeeBase,                        \* the exchange keeps one part of FeeBase (10000)
    Slippage,                       \* percent (2)
    PriceScale, Prices,             \* the marks the operator may set
    Liquidity, LendingStock,        \* what the exchange is seeded with
    Amounts, Gift,
    EpochLimit, FlowLimit, SwapLimit    \* bounds

VARIABLES
    venue,      \* reserves, loans
    fund,       \* the fund's books
    held,       \* tokens the fund and the exchange own
    epoch,      \* the latest epoch
    audit,      \* what the auditor makes of the events so far; the epoch settled last
    used        \* epochs, deposits and others' swaps there were (bounds)

vars == <<venue, fund, held, epoch, audit, used>>

Assets == 1 .. AssetCount
InOrder == [i \in Assets |-> i]
Each(x) == [i \in Assets |-> x]
NoEpoch == [phase |-> "none", targets |-> Each(0), initial |-> 0, fee |-> 0, events |-> {}]

\* installFund(): the exchange is seeded, and an investor's first deposit is taken.
FirstAmount == Max(Amounts)
Init ==
    /\ venue = [cash |-> Each(Liquidity), asset |-> Each(Liquidity), lend |-> Each(LendingStock), debt |-> Each(0),
                collateral |-> Each(0)]
    /\ held = [fund |-> [cash |-> FirstAmount, asset |-> Each(0)],
               venue |-> [cash |-> AssetCount * Liquidity, asset |-> Each(Liquidity + LendingStock)]]
    /\ fund = [cash |-> FirstAmount, reserve |-> 0, positions |-> Each(0), prices |-> Each(PriceScale),
               shares |-> FirstAmount, highWater |-> PriceScale]
    /\ epoch = NoEpoch /\ used = [epochs |-> 0, flows |-> 0, swaps |-> 0]
    /\ audit = [ok |-> TRUE, shares |-> FirstAmount, nav |-> FirstAmount, highWater |-> PriceScale, settled |-> NoEpoch]

--------------------------------------------------------------------------------
(* The exchange, as a function of s = [venue, held, fund, events, ok]; the events are those *)
(* of the epoch that name the fund. *)

State == [venue |-> venue, held |-> held, fund |-> fund, events |-> epoch.events, ok |-> TRUE]
Refused(s) == [s EXCEPT !.ok = FALSE]

Quote(v, i, buy, amount) ==
    LET input == IF buy THEN v.cash[i] ELSE v.asset[i]
        output == IF buy THEN v.asset[i] ELSE v.cash[i]
        net == amount * (FeeBase - 1)
    IN  (net * output) \div (input * FeeBase + net)
\* Tokens change hands between the exchange and the fund; out of the fund if they are
\* negative, and not more than it has.
Transferred(s, cash, i, asset) ==
    LET fundCash == s.held.fund.cash + cash
        fundAsset == s.held.fund.asset[i] + asset
    IN  IF fundCash < 0 \/ fundAsset < 0 THEN Refused(s)
        ELSE [s EXCEPT !.held.fund.cash = fundCash, !.held.venue.cash = @ - cash,
                       !.held.fund.asset[i] = fundAsset, !.held.venue.asset[i] = @ - asset]
\* swap(): the reserves of an asset after amount came in and out went out.
Swapped(v, i, buy, amount, out) ==
    IF buy THEN [v EXCEPT !.cash[i] = @ + amount, !.asset[i] = @ - out]
    ELSE [v EXCEPT !.asset[i] = @ + amount, !.cash[i] = @ - out]
Swap(s, i, buy, amount, least) ==
    LET out == Quote(s.venue, i, buy, amount)
        after == [s EXCEPT !.venue = Swapped(@, i, buy, amount, out), !.events = @ \cup {<<IF buy THEN "buy" ELSE "sell", i>>}]
    IN  IF out < least \/ out = 0 THEN Refused(s)
        ELSE IF buy THEN Transferred(after, -amount, i, out) ELSE Transferred(after, out, i, -amount)

\* buyExact(): rounded up.
ExactCost(v, i, quantity) ==
    LET denominator == (v.asset[i] - quantity) * (FeeBase - 1) IN
    (v.cash[i] * quantity * FeeBase + denominator - 1) \div denominator

\* Fault variant: what the sale brought is not kept.
Escrow_Collateral(collateral, proceeds) == collateral
Escrow(collateral, proceeds) == collateral + proceeds
\* openShort(): the quantity is lent, sold, and what it brought is kept with the collateral.
OpenShort(s, i, quantity, collateral, least) ==
    LET lent == Transferred([s EXCEPT !.venue.lend[i] = @ - quantity, !.venue.debt[i] = quantity], -collateral, i, quantity)
        sold == Swap(lent, i, FALSE, quantity, least)
        proceeds == sold.held.fund.cash - lent.held.fund.cash
        kept == Transferred(sold, -proceeds, i, 0)
    IN  IF s.venue.debt[i] # 0 \/ quantity = 0 \/ quantity > s.venue.lend[i]
           \/ collateral < Quote(s.venue, i, FALSE, quantity) \/ ~lent.ok \/ ~sold.ok \/ ~kept.ok
        THEN Refused(s)
        ELSE [kept EXCEPT !.venue.collateral[i] = Escrow(collateral, proceeds), !.events = @ \cup {<<"lent", i>>}]
\* closeShort(): the collateral comes back, and the debt is bought and repaid.
CloseShort(s, i, most) ==
    LET quantity == s.venue.debt[i]
        cost == ExactCost(s.venue, i, quantity)
        freed == Transferred([s EXCEPT !.venue.debt[i] = 0, !.venue.collateral[i] = 0], s.venue.collateral[i], i, 0)
        bought == Transferred([freed EXCEPT !.venue = Swapped(@, i, TRUE, cost, quantity)], -cost, i, quantity)
        repaid == Transferred(bought, 0, i, -quantity)
    IN  IF quantity >= s.venue.asset[i] \/ cost > most \/ ~bought.ok THEN Refused(s)
        ELSE [repaid EXCEPT !.venue.lend[i] = @ + quantity, !.fund.cash = @ + s.venue.collateral[i] - cost,
                            !.events = @ \cup {<<"buy", i>>, <<"repaid", i>>}]

--------------------------------------------------------------------------------
(* The fund. *)

\* Fault variant: what the fund owns, whoever sent it.
FundCash_Owned(s) == s.held.fund.cash
FundCash(s) == s.fund.cash
\* totalAssets()
Equity(s) ==
    FundCash(s) - s.fund.reserve
    + MapThenSumSet(LAMBDA i : (s.fund.positions[i] * s.fund.prices[i]) \div PriceScale + s.venue.collateral[i]
                                 - (s.venue.debt[i] * s.fund.prices[i]) \div PriceScale, Assets)
TotalAssets(s) == IF Equity(s) > 0 THEN Equity(s) ELSE 0
Take(s) == s.ok /\ venue' = s.venue /\ held' = s.held /\ fund' = s.fund

Idle == epoch.phase = "none"
MoreFlows == used.flows < FlowLimit /\ used' = [used EXCEPT !.flows = @ + 1]
\* The auditor expects every deposit and redemption at the share value it knows.
Deposit(amount) ==
    LET shares == (amount * (fund.shares + 1)) \div (TotalAssets(State) + 1) IN
    /\ Idle /\ shares > 0 /\ MoreFlows
    /\ fund' = [fund EXCEPT !.shares = @ + shares, !.cash = @ + amount]
    /\ held' = [held EXCEPT !.fund.cash = @ + amount]
    /\ audit' = [audit EXCEPT !.ok = @ /\ shares = (amount * (audit.shares + 1)) \div (audit.nav + 1),
                              !.shares = @ + shares, !.nav = @ + amount]
    /\ UNCHANGED <<venue, epoch>>
Redeem(shares) ==
    LET amount == (shares * (TotalAssets(State) + 1)) \div (fund.shares + 1) IN
    /\ Idle /\ shares > 0 /\ MoreFlows /\ fund.cash >= amount /\ held.fund.cash >= amount
    /\ \A i \in Assets : fund.positions[i] = 0 /\ venue.debt[i] = 0
    /\ fund' = [fund EXCEPT !.shares = @ - shares, !.cash = @ - amount]
    /\ held' = [held EXCEPT !.fund.cash = @ - amount]
    /\ audit' = [audit EXCEPT !.ok = @ /\ amount = (shares * (audit.nav + 1)) \div (audit.shares + 1),
                              !.shares = @ - shares, !.nav = @ - amount]
    /\ UNCHANGED <<venue, epoch>>
\* Anyone may send tokens to the fund: they are nobody's profit.
SendGift(i) ==
    /\ MoreFlows /\ held' \in {[held EXCEPT !.fund.cash = @ + Gift], [held EXCEPT !.fund.asset[i] = @ + Gift]}
    /\ UNCHANGED <<venue, fund, epoch, audit>>
SetMarks(prices) ==
    /\ prices # fund.prices /\ epoch.phase \in {"open", "executed"}
    /\ fund' = [fund EXCEPT !.prices = prices] /\ UNCHANGED <<venue, held, epoch, audit, used>>

OpenEpoch(targets) ==
    /\ Idle /\ fund.shares > 0 /\ used.epochs < EpochLimit /\ used' = [used EXCEPT !.epochs = @ + 1]
    /\ epoch' = [NoEpoch EXCEPT !.phase = "open", !.targets = targets]
    /\ UNCHANGED <<venue, fund, held, audit>>
Cancel == epoch.phase = "open" /\ epoch' = NoEpoch /\ UNCHANGED <<venue, fund, held, audit, used>>

\* execute(): asset by asset, all or nothing.
AmountFor(target, value) == (value * (IF target < 0 THEN -target ELSE target)) \div 100
Enter(s, i) ==
    LET target == epoch.targets[i]
        amount == AmountFor(target, TotalAssets(State))
        paid == [s EXCEPT !.fund.cash = @ - amount]
        quantity == (amount * PriceScale) \div fund.prices[i]
        bought == Swap(paid, i, TRUE, amount, (quantity * (100 - Slippage)) \div 100)
    IN  IF amount = 0 \/ ~s.ok THEN s
        ELSE IF s.fund.cash < amount THEN Refused(s)
        ELSE IF target > 0
        THEN [bought EXCEPT !.fund.positions[i] = bought.held.fund.asset[i] - s.held.fund.asset[i]]
        ELSE OpenShort(paid, i, quantity, amount, (amount * (100 - Slippage)) \div 100)
Execute ==
    /\ epoch.phase = "open"
    /\ LET s == FoldLeft(Enter, State, InOrder)
       IN  Take(s) /\ epoch' = [epoch EXCEPT !.phase = "executed", !.initial = TotalAssets(State), !.events = s.events]
    /\ audit' = [audit EXCEPT !.ok = @ /\ TotalAssets(State) = audit.nav]
    /\ UNCHANGED used

\* closeEpoch(): every position is closed, and a tenth of the new profit is set aside.
Exit(s, i) ==
    LET quantity == s.fund.positions[i]
        sold == Swap([s EXCEPT !.fund.positions[i] = 0], i, FALSE, quantity,
                     (((quantity * s.fund.prices[i]) \div PriceScale) * (100 - Slippage)) \div 100)
        flat == IF quantity = 0 THEN s
                ELSE [sold EXCEPT !.fund.cash = @ + sold.held.fund.cash - s.held.fund.cash]
        most == (((s.venue.debt[i] * s.fund.prices[i]) \div PriceScale) * (100 + Slippage)) \div 100
    IN  IF ~s.ok \/ ~flat.ok THEN Refused(s)
        ELSE IF s.venue.debt[i] = 0 THEN flat ELSE CloseShort(flat, i, most)
Profit(nav, shares, highWater) == Max({0, nav - (shares * highWater) \div PriceScale})
Close ==
    LET s == FoldLeft(Exit, State, InOrder)
        nav == TotalAssets(s)
        fee == (Profit(nav, fund.shares, fund.highWater) * 1000) \div 10000
    IN  /\ epoch.phase = "executed" /\ Take([s EXCEPT !.fund.reserve = fee]) /\ s.fund.cash >= 0
        /\ epoch' = [epoch EXCEPT !.phase = "closed", !.fee = fee, !.events = s.events]
        /\ audit' = [audit EXCEPT !.ok = @ /\ fee = Profit(nav, audit.shares, audit.highWater) \div 10, !.nav = nav]
        /\ UNCHANGED used
\* payRewards(): the pool, or a part of it, leaves; the mark only rises.
Pay(paid) ==
    LET after == [State EXCEPT !.fund.reserve = 0, !.fund.cash = @ - paid, !.held.fund.cash = @ - paid]
        price == (TotalAssets(after) * PriceScale) \div fund.shares
        known == ((audit.nav - paid) * PriceScale) \div audit.shares
    IN  /\ epoch.phase = "closed" /\ paid <= epoch.fee
        /\ Take([after EXCEPT !.fund.highWater = Max({@, price})])
        /\ epoch' = NoEpoch /\ UNCHANGED used
        /\ audit' = [audit EXCEPT !.nav = @ - paid, !.highWater = Max({@, known}), !.settled = epoch]

\* verify.js, of the fills of a settled epoch: every short was borrowed and repaid, and the
\* epoch was entered and left.  (What it says of manifests and weights is in PilotRewards.)
Refuses(e) ==
    \/ \E i \in Assets : e.targets[i] < 0 /\ ~({<<"lent", i>>, <<"repaid", i>>} \subseteq e.events)
    \/ \A i \in Assets : <<"buy", i>> \notin e.events
    \/ \A i \in Assets : <<"sell", i>> \notin e.events

\* Others trade on the exchange; alignTestLiquidity() moves it to the fund's marks.
Root(n) == FoldLeft(LAMBDA x, k : Min({x, (x + n \div x) \div 2}), n, [k \in 1 .. 20 |-> k])
Align(i) ==
    LET x == venue.cash[i]
        y == venue.asset[i]
        wanted == Root((x * y * fund.prices[i]) \div PriceScale)
        buy == wanted > x
        amount == IF buy THEN wanted - x ELSE Root((x * y * PriceScale) \div fund.prices[i]) - y
        out == Quote(venue, i, buy, amount)
    IN  /\ used.swaps < SwapLimit /\ amount > 0 /\ out > 0 /\ epoch.phase \in {"open", "executed"}
        /\ used' = [used EXCEPT !.swaps = @ + 1]
        /\ venue' = Swapped(venue, i, buy, amount, out)
        /\ held' = [held EXCEPT !.venue.cash = IF buy THEN @ + amount ELSE @ - out,
                                !.venue.asset[i] = IF buy THEN @ - out ELSE @ + amount]
        /\ UNCHANGED <<fund, epoch, audit>>

Next ==
    \/ \E amount \in Amounts : Deposit(amount)
    \/ \E shares \in {fund.shares \div 2, fund.shares} : Redeem(shares)
    \/ \E i \in Assets : SendGift(i) \/ Align(i)
    \/ \E prices \in Prices : SetMarks(prices)
    \/ \E targets \in Targets : OpenEpoch(targets)
    \/ Cancel \/ Execute \/ Close
    \/ \E paid \in {0, epoch.fee} : Pay(paid)
Spec == Init /\ [][Next]_vars

--------------------------------------------------------------------------------
(* Properties. *)

\* The auditor, who has the events only, finds nothing to object to in the amounts of
\* anything the contract does, and knows the shares, the value and the high-water mark
\* between epochs.  It misses fills in an honest epoch exactly when the target buys nothing:
\* it was zero, or rounded to nothing for a short or for every asset.
AuditAgrees ==
    /\ audit.ok
    /\ Idle => /\ audit.shares = fund.shares /\ audit.highWater = fund.highWater
               /\ audit.nav = TotalAssets(State)
    /\ LET e == audit.settled
           none(i) == AmountFor(e.targets[i], e.initial) = 0
       IN  e.phase = "closed" =>
              (Refuses(e) <=> (\A i \in Assets : none(i)) \/ (\E i \in Assets : e.targets[i] < 0 /\ none(i)))

\* The exchange owns what its reserves, its lending stock and its collateral say, no round
\* trip was paid out of its reserves, and the fund owns what its books say.
TokensCoverTheBooks ==
    /\ held.venue.cash = MapThenSumSet(LAMBDA i : venue.cash[i] + venue.collateral[i], Assets)
    /\ held.fund.cash >= fund.cash /\ fund.cash >= fund.reserve
    /\ \A i \in Assets :
          /\ held.venue.asset[i] = venue.asset[i] + venue.lend[i]
          /\ venue.lend[i] + venue.debt[i] = LendingStock
          /\ venue.cash[i] * venue.asset[i] >= Liquidity * Liquidity
          /\ held.fund.asset[i] >= fund.positions[i]
================================================================================
