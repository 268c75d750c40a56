----------------------------- MODULE InvestorLedger ----------------------------
(***************************************************************************)
(* The book of one strategy: who owns how many of its shares, in lots with *)
(* a high watermark each (deploy/tee/operator/ledger.mjs, cash-ledger.mjs, *)
(* ledger-journal.mjs, and the places where execution.mjs moves its money).*)
(* Every operation is one step, as it runs to its end inside one saved     *)
(* section; one that throws leaves what it changed, because its caller     *)
(* catches the error and saves the book.                                   *)
(*                                                                         *)
(* book.events and book.mark are the journal: what proofs have still to be *)
(* made of, and the mark that is not recorded yet.  Replay takes them      *)
(* into `mirror' (LedgerWitness); the mirror depends on nothing but the    *)
(* journal, so the operations wait for it.  `venue' is what the strategy's *)
(* accounts at the exchange are worth.  Customers' cash accounts appear as *)
(* the other half of each transfer.                                        *)
(***************************************************************************)
EXTENDS LedgerWitness

CONSTANTS
    InvestorOrder,      \* the order of the book's keys
    Withdrawals, WithdrawalOrder,
    Amounts,            \* what may be allocated at once
    Returns,            \* what may be asked back before it became shares
    VenueAmounts,       \* what may be moved to the venue at once
    Percentages,        \* of the shares asked back
    Costs,              \* what closing positions may cost
    Rates, FirstRate,   \* performance fees, per RateScale
    StopLoss,           \* per RateScale
    Limits,             \* how often each thing may happen
    OccasionLimit       \* and Occasions together

Occasions == {"market", "policy", "cancel", "return"}
Kinds == {"allocate", "activate", "venue", "cost"} \cup Occasions

ASSUME OrderAssumption ==
    InvestorOrder \in Seq(Investors) /\ ToSet(InvestorOrder) = Investors /\ IsInjective(InvestorOrder)
ASSUME WithdrawalOrderAssumption ==
    WithdrawalOrder \in Seq(Withdrawals) /\ ToSet(WithdrawalOrder) = Withdrawals /\ IsInjective(WithdrawalOrder)
ASSUME AmountsAssumption ==
    /\ Amounts \subseteq Nat /\ Returns \subseteq Nat /\ VenueAmounts \subseteq Nat
    /\ Percentages \subseteq 0 .. 100 /\ Costs \subseteq Int
ASSUME LimitsAssumption == Limits \in [Kinds -> Nat] /\ OccasionLimit \in Nat
ASSUME RatesAssumption == Rates \subseteq 0 .. RateCap /\ FirstRate \in 0 .. RateCap

VARIABLES
    book, venue, mirror, used,
    overcharged         \* a fee took more shares from a lot than it had

vars == <<book, venue, mirror, used, overcharged>>

NoWithdrawal == [status |-> "none", wallet |-> Nobody, kind |-> "UNITS", units |-> 0, amount |-> 0,
                 debit |-> FALSE, credit |-> FALSE]
NoSettlement == [ids |-> {}, units |-> 0, cost |-> 0, nav |-> 0, payouts |-> <<>>]
NewInvestor == [pending |-> 0, units |-> 0, lots |-> <<>>, deposited |-> 0, paid |-> 0, fees |-> 0]
NewBook ==
    [rate |-> FirstRate, cash |-> 0, equity |-> 0, units |-> 0, nav |-> Scale, due |-> 0,
     peak |-> Scale, status |-> "ACTIVE", investors |-> [i \in Investors |-> NewInvestor],
     withdrawals |-> [w \in Withdrawals |-> NoWithdrawal], settlement |-> NoSettlement,
     mark |-> <<>>, events |-> <<>>, halfMinted |-> FALSE, feePaid |-> 0]

Init ==
    /\ book = NewBook /\ venue = 0
    /\ \E room \in Capacities : mirror = ImportBook(FirstRate, Limits.activate, room)
    /\ used = [k \in Kinds |-> 0] /\ overcharged = FALSE

Spend(kind) ==
    /\ used[kind] < Limits[kind]
    /\ kind \in Occasions => SumFunctionOnSet(used, Occasions) < OccasionLimit
    /\ used' = [used EXCEPT ![kind] = @ + 1]

--------------------------------------------------------------------------------
(* The journal. *)

RecordedAll(b, events) ==
    IF events = <<>> THEN b ELSE [b EXCEPT !.events = @ \o b.mark \o events, !.mark = <<>>]
Recorded(b, e) == RecordedAll(b, <<e>>)
\* The events of those of `list' that have one, in its order.
EventsOf(list, has(_), event(_)) ==
    LET chosen == SelectSeq(list, has) IN [k \in DOMAIN chosen |-> event(chosen[k])]

\* Repeated observations replace each other until money moves.
\* Fault variant: one more event behind a mark that is not recorded yet.
LedgerMark(b, basis) ==
    [b EXCEPT !.mark = <<[kind |-> "MARK", basis |-> basis, amount |-> b.equity]>>]
LedgerValue_NewEvent(b) == [b EXCEPT !.events = Append(@, [kind |-> "VALUE", amount |-> b.equity])]
LedgerValue(b) ==
    IF b.mark # <<>> THEN [b EXCEPT !.mark[1].amount = b.equity]
    ELSE Recorded(b, [kind |-> "VALUE", amount |-> b.equity])

\* The proofs catch up with the journal.
Replay ==
    /\ book.events # <<>>
    /\ book' = [book EXCEPT !.events = <<>>]
    /\ mirror' = FoldLeft(ApplyEvent, mirror, book.events)
    /\ UNCHANGED <<venue, used, overcharged>>

--------------------------------------------------------------------------------
(* Marks. *)

Open == {"REQUESTED", "SETTLING"}
OpenOf(b, i, kind) ==
    {w \in Withdrawals : /\ b.withdrawals[w].wallet = i /\ b.withdrawals[w].kind = kind
                         /\ b.withdrawals[w].status \in Open}
ReservedUnits(b, i) == SumFunctionOnSet([w \in Withdrawals |-> b.withdrawals[w].units], OpenOf(b, i, "UNITS"))
ReservedCash(b, i) == SumFunctionOnSet([w \in Withdrawals |-> b.withdrawals[w].amount], OpenOf(b, i, "PENDING"))

\* markBook(): the first NAV is also the baseline of the stop loss.
MarkBook(b, equity, assessRisk) ==
    LET nav == IF b.units # 0 THEN PricePerUnit(equity, b.units) ELSE b.nav
        peak == IF assessRisk /\ nav > b.peak THEN nav ELSE b.peak
        fallen == \/ (peak - nav) * RateScale >= StopLoss * peak
                  \/ nav < Scale /\ (Scale - nav) * RateScale >= StopLoss * Scale
    IN  LedgerMark([b EXCEPT !.equity = equity, !.nav = nav, !.peak = peak,
                             !.status = IF assessRisk /\ fallen THEN "RISK_EXIT" ELSE @], equity)

Priced(b) == b.settlement # NoSettlement /\ b.settlement.payouts # <<>>
Unpaid(b) == {w \in b.settlement.ids : b.withdrawals[w].status # "PAID"}

\* markVenueEquity(): what a redemption cost is added back, so that the others'
\* NAV does not fall while it is under way.
\* Fault variant: only until the redemption is priced.
ReservedCost_Unpriced(b) == IF b.settlement = NoSettlement \/ Priced(b) THEN 0 ELSE b.settlement.cost
ReservedCost(b) ==
    IF b.settlement = NoSettlement THEN 0
    ELSE IF ~Priced(b) THEN b.settlement.cost
    ELSE SumFunctionOnSet([w \in Withdrawals |-> Quotient(b.withdrawals[w].units * b.settlement.nav, Scale)
                                        - b.settlement.payouts[w]], Unpaid(b))
MarkVenueEquity(b, actual, assessRisk) ==
    LedgerValue([MarkBook(b, Larger(0, actual + ReservedCost(b)), assessRisk) EXCEPT !.equity = Larger(0, actual)])

\* observeBook(): cash and venue, without the fees due.
Observed(b, value, assessRisk) == MarkVenueEquity(b, b.cash + value - b.due, assessRisk)

Observe ==
    /\ book' = Observed(book, venue, TRUE) /\ book' # book
    /\ UNCHANGED <<venue, used>>

--------------------------------------------------------------------------------
(* Money comes in. *)

\* allocateCash(), after the cash account's debit.
Allocate(i, amount) ==
    /\ book.status = "ACTIVE" /\ Spend("allocate")
    /\ book' = Recorded([book EXCEPT !.investors[i].pending = @ + amount, !.investors[i].deposited = @ + amount],
                        [kind |-> "DEPOSIT", who |-> i, amount |-> amount])
    /\ UNCHANGED venue

\* Deposits that are not asked back become shares, investor by investor; one too
\* small for a share ends the loop, after others were minted (halfMinted remembers it).
Admitted(b, i) == b.investors[i].pending - ReservedCash(b, i)
\* Fault variant: shares are rounded up.
SharesFor_Up(amount, nav) == (amount * Scale + nav - 1) \div nav
SharesFor(amount, nav) == (amount * Scale) \div nav
TooSmall(b, i) == Admitted(b, i) # 0 /\ SharesFor(Admitted(b, i), b.nav) = 0
Place(order, x) == CHOOSE k \in DOMAIN order : order[k] = x
Minted(b) ==
    {i \in Investors : /\ Admitted(b, i) # 0
                       /\ \A j \in Investors : Place(InvestorOrder, j) <= Place(InvestorOrder, i) => ~TooSmall(b, j)}
MintedInvestor(b, i) ==
    LET shares == SharesFor(Admitted(b, i), b.nav)
    IN  [b.investors[i] EXCEPT !.lots = Append(@, [units |-> shares, hwm |-> b.nav]),
                               !.units = @ + shares, !.pending = ReservedCash(b, i)]
MintEvents(b) ==
    EventsOf(InvestorOrder, LAMBDA i : i \in Minted(b),
             LAMBDA i : [kind |-> "MINT", who |-> i, amount |-> Admitted(b, i),
                         units |-> SharesFor(Admitted(b, i), b.nav), lot |-> Len(b.investors[i].lots) + 1])
WithMinted(b) ==
    RecordedAll([b EXCEPT
        !.units = @ + SumFunctionOnSet([i \in Investors |-> SharesFor(Admitted(b, i), b.nav)], Minted(b)),
        !.investors = [i \in Investors |-> IF i \in Minted(b) THEN MintedInvestor(b, i) ELSE @[i]]], MintEvents(b))

ActivatePending ==
    /\ Spend("activate")
    /\ LET b == Observed(book, venue, TRUE)
           admitted == SumFunctionOnSet([i \in Investors |-> Admitted(b, i)], Minted(b))
       IN  book' = IF b.status # "ACTIVE" \/ b.nav = 0 THEN b
                   ELSE IF \E i \in Investors : TooSmall(b, i)
                   THEN [WithMinted(b) EXCEPT !.halfMinted = @ \/ Minted(b) # {}]
                   ELSE [WithMinted(b) EXCEPT !.cash = @ + admitted, !.equity = @ + admitted]
    /\ UNCHANGED venue

--------------------------------------------------------------------------------
(* Performance fees. *)

\* Fault variant: the cost that lowered the fee is not recorded.
FeeEvent_NoCost(i, n, burn, fee, cost) ==
    [kind |-> "FEE", who |-> i, lot |-> n, units |-> burn, amount |-> fee, cost |-> 0]
FeeEvent(i, n, burn, fee, cost) ==
    [kind |-> "FEE", who |-> i, lot |-> n, units |-> burn, amount |-> fee, cost |-> cost]

\* The fee on a lot burns shares of it, whatever the other lots pay; `exit' is the
\* investor's part of a redemption's cost.
Gains(b, i, n) == b.nav > b.investors[i].lots[n].hwm
LotCost(b, i, n, exit) ==
    LET p == b.investors[i] IN IF p.units = 0 THEN 0 ELSE Quotient(exit * p.lots[n].units, p.units)
LotBurn(b, i, n, exit) ==
    LET lot == b.investors[i].lots[n]
    IN  IF Gains(b, i, n) THEN BurnOf(Profit(lot.units, b.nav, lot.hwm, LotCost(b, i, n, exit)), b.rate, b.nav) ELSE 0
LotFee(b, i, n, exit) == FeeOf(LotBurn(b, i, n, exit), b.nav)

Numbers(lots) == [n \in DOMAIN lots |-> n]
FeeEvents(b, i, exit) ==
    LET lots == b.investors[i].lots
    IN  EventsOf(Numbers(lots), LAMBDA n : Gains(b, i, n) /\ lots[n].units # 0,
                 LAMBDA n : FeeEvent(i, n, LotBurn(b, i, n, exit), LotFee(b, i, n, exit), LotCost(b, i, n, exit)))

BurnOfAll(b, i, exit) ==
    LET lots == DOMAIN b.investors[i].lots IN SumFunctionOnSet([n \in lots |-> LotBurn(b, i, n, exit)], lots)
FeeOfAll(b, i, exit) ==
    LET lots == DOMAIN b.investors[i].lots IN SumFunctionOnSet([n \in lots |-> LotFee(b, i, n, exit)], lots)
InvestorFees(b, i, exit) ==
    [b.investors[i] EXCEPT
        !.lots = [n \in DOMAIN @ |-> IF ~Gains(b, i, n) THEN @[n]
                                      ELSE [units |-> @[n].units - LotBurn(b, i, n, exit), hwm |-> b.nav]],
        !.units = @ - BurnOfAll(b, i, exit), !.fees = @ + FeeOfAll(b, i, exit)]

\* Open redemptions keep their part of the stake.
\* Fault variant: they keep what they asked for.
ScaledRequests_Kept(b, charged) == b.withdrawals
ScaledRequests(b, charged) ==
    [w \in Withdrawals |->
        LET x == b.withdrawals[w]
            old == b.investors[x.wallet].units
        IN  IF x.kind = "UNITS" /\ x.status \in Open /\ old # 0
            THEN [x EXCEPT !.units = Quotient(@ * charged[x.wallet].units, old)] ELSE x]

CrystallizeFees(b, exits) ==
    LET charged == [i \in Investors |-> InvestorFees(b, i, exits[i])]
        burned == SumFunctionOnSet([i \in Investors |-> BurnOfAll(b, i, exits[i])], Investors)
        fees == SumFunctionOnSet([i \in Investors |-> FeeOfAll(b, i, exits[i])], Investors)
        events == FlattenSeq([k \in DOMAIN InvestorOrder |-> FeeEvents(b, InvestorOrder[k], exits[InvestorOrder[k]])])
    IN  IF b.nav = 0 THEN b
        ELSE RecordedAll([b EXCEPT !.investors = charged, !.withdrawals = ScaledRequests(b, charged),
                                   !.units = @ - burned, !.equity = @ - fees, !.due = @ + fees], events)
NoExits == [i \in Investors |-> 0]

ChangePolicy(rate) ==
    /\ book.settlement = NoSettlement
    /\ \A w \in Withdrawals : book.withdrawals[w].status \notin Open
    /\ Spend("policy")
    /\ LET b == CrystallizeFees(Observed(book, venue, TRUE), NoExits)
       IN  book' = Recorded([b EXCEPT !.rate = rate], [kind |-> "POLICY", rate |-> rate])
    /\ UNCHANGED venue

\* payFees(), once the payment is mined.
PayFees ==
    /\ book.settlement = NoSettlement /\ book.due > 0 /\ book.cash >= book.due
    /\ book' = Recorded([book EXCEPT !.cash = @ - book.due, !.due = 0, !.feePaid = @ + book.due],
                        [kind |-> "FEE_PAY", amount |-> book.due])
    /\ UNCHANGED <<venue, used>>

--------------------------------------------------------------------------------
(* The venue. *)

Transferred(b, delta) == Recorded([b EXCEPT !.cash = @ + delta], [kind |-> "VENUE", amount |-> delta])
FundVenue(amount) ==
    /\ amount <= book.cash - book.due /\ Spend("venue")
    /\ book' = Transferred(book, -amount) /\ venue' = venue + amount
RecoverVenue ==
    /\ venue > 0
    /\ book' = Transferred(book, venue) /\ venue' = 0
    /\ UNCHANGED used

MarketMoves ==
    /\ venue > 0 /\ ~Priced(book) /\ Spend("market")
    /\ venue' \in {0, 2 * venue}
    /\ UNCHANGED book

--------------------------------------------------------------------------------
(* Redemptions. *)

\* The order in which they were requested.
Earlier(v, w) == Place(WithdrawalOrder, v) < Place(WithdrawalOrder, w)
Request(w, i, kind, value, reserved, owned) ==
    /\ book.withdrawals[w].status = "none" /\ value > 0 /\ value + reserved <= owned
    /\ \A v \in Withdrawals : Earlier(v, w) => book.withdrawals[v].status # "none"
    /\ book' = [book EXCEPT !.withdrawals[w] = [NoWithdrawal EXCEPT !.status = "REQUESTED", !.wallet = i, !.kind = kind,
                   !.units = IF kind = "UNITS" THEN value ELSE 0, !.amount = IF kind = "PENDING" THEN value ELSE 0]]
    /\ UNCHANGED venue
\* A part of what is not reserved yet, as accountRequest() computes it.
RequestWithdrawal(w, i, percentage) ==
    LET free == book.investors[i].units - ReservedUnits(book, i)
    IN  Request(w, i, "UNITS", (free * percentage) \div 100, ReservedUnits(book, i), book.investors[i].units)
        /\ UNCHANGED used
RequestPendingWithdrawal(w, i, amount) ==
    Spend("return") /\ Request(w, i, "PENDING", amount, ReservedCash(book, i), book.investors[i].pending)

CancelWithdrawal(w) ==
    /\ book.withdrawals[w].status = "REQUESTED" /\ Spend("cancel")
    /\ book' = [book EXCEPT !.withdrawals[w].status = "CANCELLED"]
    /\ UNCHANGED venue

\* redeemToCash(): the debit is in this book, the credit in the customer's cash
\* account; transferCredit() records none for nothing.
Paid(b, w, amount) ==
    [b EXCEPT !.withdrawals[w].status = "PAID", !.withdrawals[w].amount = amount,
              !.withdrawals[w].debit = TRUE, !.withdrawals[w].credit = amount # 0]

SettlePending(w) ==
    LET x == book.withdrawals[w]
    IN  /\ x.status = "REQUESTED" /\ x.kind = "PENDING" /\ x.amount <= book.investors[x.wallet].pending
        /\ book' = Recorded(Paid([book EXCEPT !.investors[x.wallet].pending = @ - x.amount,
                                              !.investors[x.wallet].paid = @ + x.amount], w, x.amount),
                            [kind |-> "PENDING_PAY", who |-> x.wallet, amount |-> x.amount])
        /\ UNCHANGED <<venue, used>>

\* A cutoff without redemptions crystallizes fees; due ones open a settlement.
Due == {w \in Withdrawals : book.withdrawals[w].status = "REQUESTED" /\ book.withdrawals[w].kind = "UNITS"}
UnitsOf(b, ids) == SumFunctionOnSet([w \in Withdrawals |-> b.withdrawals[w].units], ids)
CutoffFees ==
    /\ book.settlement = NoSettlement /\ Due = {}
    /\ book' = CrystallizeFees(Observed(book, venue, TRUE), NoExits) /\ book' # book
    /\ UNCHANGED <<venue, used>>
OpenSettlement ==
    /\ book.settlement = NoSettlement /\ Due # {}
    /\ book' = [Observed(book, venue, TRUE) EXCEPT
                  !.settlement = [NoSettlement EXCEPT !.ids = Due, !.units = UnitsOf(book, Due)],
                  !.withdrawals = [w \in Withdrawals |->
                     IF w \in Due THEN [@[w] EXCEPT !.status = "SETTLING"] ELSE @[w]]]
    /\ UNCHANGED <<venue, used>>

\* Closing positions for it costs something; the value it leaves is observed
\* before the cost is added up.
ClosePositions(cost) ==
    /\ book.settlement # NoSettlement /\ ~Priced(book) /\ cost <= venue /\ Spend("cost")
    /\ venue' = venue - cost
    /\ book' = [Observed(book, venue - cost, FALSE) EXCEPT !.settlement.cost = @ + cost]

\* The last one gets what rounding leaves; a division by zero leaves nothing to all.
PayoutsOf(ids, b, payout, total) ==
    LET part == [w \in Withdrawals |-> Quotient(payout * b.withdrawals[w].units, total)]
        others == {w \in ids : \E v \in ids : Earlier(w, v)}
    IN  [w \in ids |-> IF total = 0 /\ others # {} THEN 0
                       ELSE IF w \in others THEN part[w] ELSE payout - SumFunctionOnSet(part, others)]

\* Each redeemer bears its part of the cost before the fee on its gain; the price is
\* the NAV without the cost.  What an error leaves is kept.
ExitsOf(b) ==
    LET part == [w \in Withdrawals |-> Quotient(b.settlement.cost * b.withdrawals[w].units, b.settlement.units)]
    IN  [i \in Investors |-> SumFunctionOnSet(part, {w \in b.settlement.ids : b.withdrawals[w].wallet = i})]
PricedAt(b, units, nav) == [b EXCEPT !.settlement.units = units, !.settlement.nav = nav]
Grossed(b, seen) == MarkBook(seen, seen.equity + b.settlement.cost, FALSE)
PricedBook(b, value) ==
    LET x == b.settlement
        seen == Observed(b, value, FALSE)
        charged == CrystallizeFees(Grossed(b, seen), ExitsOf(b))
        units == UnitsOf(charged, x.ids)
        priced == PricedAt(charged, units, charged.nav)
        valued == LedgerValue([priced EXCEPT !.equity = @ - x.cost])
        payout == (priced.equity * units) \div priced.units - x.cost
    IN  IF x.units = 0 \/ seen.equity + x.cost < 0 THEN seen
        ELSE IF priced.units = 0 THEN priced
        ELSE IF payout < 0 THEN valued
        ELSE [valued EXCEPT !.settlement.payouts = PayoutsOf(x.ids, valued, payout, units)]
\* A negative cost, what closing gained, is added to the gain the fee is on.
FeesFit(b, exits) ==
    \A i \in Investors : \A n \in DOMAIN b.investors[i].lots : LotBurn(b, i, n, exits[i]) <= b.investors[i].lots[n].units
Overcharging(b, value) ==
    LET seen == Observed(b, value, FALSE) IN
    /\ b.settlement.units # 0 /\ seen.equity + b.settlement.cost >= 0
    /\ LET gross == Grossed(b, seen) IN gross.nav # 0 /\ ~FeesFit(gross, ExitsOf(b))
PriceSettlement ==
    /\ book.settlement # NoSettlement /\ ~Priced(book)
    /\ book' = PricedBook(book, venue) /\ book' # book
    /\ overcharged' = Overcharging(book, venue)
    /\ UNCHANGED <<venue, used>>

\* burnWithdrawal(): each lot gives in proportion, then the first ones what rounding left.
InProportion(lots, old, requested) == [n \in DOMAIN lots |-> (lots[n].units * requested) \div old]
FromTheFirst(kept, left) ==
    [n \in DOMAIN kept |-> Smaller(kept[n], Larger(0, left - SumFunctionOnSet(kept, 1 .. n - 1)))]
Burned(lots, old, requested) ==
    LET share == InProportion(lots, old, requested)
        kept == [n \in DOMAIN lots |-> lots[n].units - share[n]]
    IN  [share |-> share, rest |-> FromTheFirst(kept, requested - SumFunctionOnSet(share, DOMAIN share))]
BurnEvents(i, taken, requested, remainder) ==
    EventsOf(Numbers(taken), LAMBDA n : taken[n] # 0,
             LAMBDA n : [kind |-> "BURN", who |-> i, lot |-> n, units |-> taken[n],
                         requested |-> requested, remainder |-> remainder])

Without(lots, burned) == [n \in DOMAIN lots |-> [lots[n] EXCEPT !.units = @ - burned.share[n] - burned.rest[n]]]
Redeemed(p, units, amount) ==
    [p EXCEPT !.lots = Without(@, Burned(p.lots, p.units, units)), !.units = @ - units, !.paid = @ + amount]
PayEvents(i, p, requested, amount) ==
    LET burned == Burned(p.lots, p.units, requested)
    IN  BurnEvents(i, burned.share, requested, FALSE) \o BurnEvents(i, burned.rest, requested, TRUE)
            \o <<[kind |-> "PAY", who |-> i, amount |-> amount, requested |-> requested]>>
BurnWithdrawal(b, w, amount) ==
    LET x == b.withdrawals[w]
        p == b.investors[x.wallet]
        units == b.units - x.units
        equity == b.equity - amount
    IN  RecordedAll([b EXCEPT
            !.investors[x.wallet] = Redeemed(p, x.units, amount),
            !.units = units, !.cash = @ - amount, !.equity = equity,
            !.nav = IF units # 0 THEN PricePerUnit(equity, units)
                    ELSE IF x.units # 0 THEN PricePerUnit(amount, x.units) ELSE @],
            PayEvents(x.wallet, p, x.units, amount))

PaySettlement ==
    /\ Priced(book)
    /\ SumFunctionOnSet(book.settlement.payouts, Unpaid(book)) <= book.cash - book.due
    /\ \E w \in Unpaid(book) :
          LET amount == book.settlement.payouts[w]
              owned == book.investors[book.withdrawals[w].wallet].units
          IN  /\ \A v \in Unpaid(book) : ~Earlier(v, w)
              /\ owned # 0 /\ book.withdrawals[w].units <= owned
              /\ book' = Paid(BurnWithdrawal(book, w, amount), w, amount)
    /\ UNCHANGED <<venue, used>>
CloseSettlement ==
    /\ Priced(book) /\ Unpaid(book) = {}
    /\ book' = [book EXCEPT !.settlement = NoSettlement]
    /\ UNCHANGED <<venue, used>>

Operation ==
    \/ \E i \in Investors, a \in Amounts : Allocate(i, a)
    \/ ActivatePending
    \/ Observe
    \/ \E a \in VenueAmounts : FundVenue(a)
    \/ RecoverVenue
    \/ MarketMoves
    \/ \E w \in Withdrawals, i \in Investors, p \in Percentages : RequestWithdrawal(w, i, p)
    \/ \E w \in Withdrawals, i \in Investors, a \in Returns : RequestPendingWithdrawal(w, i, a)
    \/ \E w \in Withdrawals : CancelWithdrawal(w) \/ SettlePending(w)
    \/ CutoffFees
    \/ OpenSettlement
    \/ \E c \in Costs : ClosePositions(c)
    \/ PaySettlement
    \/ CloseSettlement
    \/ PayFees
    \/ \E r \in Rates : ChangePolicy(r)
\* The books are followed until a lot was overcharged: what the code does with negative
\* shares is left out.
Next ==
    \/ Replay
    \/ /\ book.events = <<>> /\ ~overcharged /\ UNCHANGED mirror
       /\ \/ Operation /\ UNCHANGED overcharged
          \/ PriceSettlement

Spec == Init /\ [][Next]_vars

--------------------------------------------------------------------------------
(* Properties. *)

AtRest == book.events = <<>> /\ ~book.halfMinted
Replayed == IF book.mark = <<>> THEN mirror ELSE ApplyEvent(mirror, book.mark[1])

\* Replaying the recorded events gives exactly the saved book, investor by investor and
\* lot by lot, so that a checkpoint can be made of it (assertMatches()).
ReplayMatches ==
    AtRest => LET m == Replayed IN m.verdict = "ok" => Matches(book, m)

\* The witness accepts every event the books record, and the circuit has a proof for it,
\* exactly as long as the mirror has room for the investors and lots there were and no lot
\* was overcharged.  A refusal is for ever: no checkpoint of any book is made again.
EventsAreProvable ==
    AtRest => LET m == Replayed IN
        CASE m.verdict = "ok" -> ~overcharged /\ Cardinality(ActiveInvestors(book)) <= m.room.investors
          [] m.verdict = "LEDGER_INVESTOR_CAPACITY" -> Cardinality(ActiveInvestors(book)) > m.room.investors
          [] m.verdict = "LEDGER_LOT_CAPACITY" -> \E i \in Investors : Len(book.investors[i].lots) > m.room.lots
          [] OTHER -> overcharged

\* Lots make up an investor's shares and investors' shares the book's, whatever fees
\* and redemptions rounded; what open redemptions ask for is there; and fees that
\* were charged are due or paid.  All of it until a lot is overcharged: closing positions
\* for a redemption may gain, and the fee on the gain may exceed the lot.
SharesAddUp ==
    \/ overcharged
    \/ /\ \A i \in Investors : LET p == book.investors[i] IN
             /\ SumFunctionOnSet([n \in DOMAIN p.lots |-> p.lots[n].units], DOMAIN p.lots) = p.units
             /\ ReservedUnits(book, i) <= p.units /\ ReservedCash(book, i) <= p.pending
       /\ SumFunctionOnSet([i \in Investors |-> book.investors[i].units], Investors) = book.units
       /\ SumFunctionOnSet([i \in Investors |-> book.investors[i].fees], Investors) = book.due + book.feePaid

\* The fee that would be charged now (managerFeeTotals()), and what an investor is
\* shown to own after it (portfolio()).
AccruedFee(i) ==
    LET p == book.investors[i]
        gain(n) == Larger(0, book.nav - p.lots[n].hwm)
        fee == [n \in DOMAIN p.lots |-> (p.lots[n].units * gain(n) * book.rate) \div (Scale * RateScale)]
    IN  SumFunctionOnSet(fee, DOMAIN p.lots)
PortfolioValue(i) == (book.investors[i].units * book.nav) \div Scale - AccruedFee(i)

\* While nobody is being paid out, what the investors and the manager are shown to own
\* together is covered by the book's equity, and nobody is shown a debt; until a lot is
\* overcharged.
ShownIsBacked ==
    book.settlement = NoSettlement /\ ~book.halfMinted /\ ~overcharged =>
        /\ SumFunctionOnSet([i \in Investors |-> PortfolioValue(i) + AccruedFee(i)], Investors) <= book.equity
        /\ \A i \in Investors : PortfolioValue(i) >= 0

\* Paying redeemers does not dilute those who stay: whenever the book is marked while
\* payouts are under way, a share is worth what it was priced at, up to rounding, also
\* where closing positions for them gained; until a lot is overcharged.
StayersKeepTheirValue ==
    Priced(book) /\ book.mark # <<>> /\ ~book.halfMinted /\ ~overcharged =>
        (book.nav + 1) * book.units + (Len(WithdrawalOrder) + 1) * Scale >= book.settlement.nav * book.units

\* A transfer between a strategy and a customer's cash account has both halves.
TransfersArePaired == \A w \in Withdrawals : book.withdrawals[w].debit = book.withdrawals[w].credit
================================================================================
