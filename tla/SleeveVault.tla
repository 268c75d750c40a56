------------------------------ MODULE SleeveVault ------------------------------
(***************************************************************************)
(* Several strategies in one vault: the omnibus vault and the exchange it  *)
(* trades on (contracts/sleeves/OmnibusVault.sol), the private ledger that *)
(* says which strategy owns what (src/sleeves/ledger.js) and the runtime   *)
(* that carries out one signed command at a time (src/sleeves/runtime.js). *)
(*                                                                         *)
(* A command becomes a saved plan, its transactions are sent through a     *)
(* journal that answers a repeated send with the first outcome, and the    *)
(* ledger is saved when they are mined.  A restart runs the saved plan     *)
(* again, which is why a crash between two steps needs no action here: it  *)
(* leaves the plan and the journal as they are.  One asset; the four pools *)
(* of the exchange do not touch each other.                                *)
(***************************************************************************)
EXTENDS Integers, FiniteSetsExt, Functions

CONSTANTS
    Strategies, Investors,
    DepositAmounts, OrderAmounts,   \* amounts clients choose
    Reserve, Lending,               \* what the exchange is seeded with
    TradeAmounts, TradeLimit,       \* what others swap there, and how often
    Scale, PriceScale,              \* fixed-point scales of marks and unit prices
    CommandLimit                    \* bound of the signed commands

VARIABLES
    sleeves,    \* the ledger: one record per strategy
    pending,    \* the saved plan, or Idle
    commands,   \* how many commands were accepted; the last one's id
    vault,      \* balances of the vault, deposits it has seen
    venue,      \* reserves of the exchange, its loans to the vault
    trades

vars == <<sleeves, pending, commands, vault, venue, trades>>

Idle == [kind |-> "none"]
Total(S, f(_)) == MapThenSumSet(f, S)

NewSleeve == [cash |-> 0, qty |-> 0, debt |-> 0, escrow |-> 0, units |-> 0, accrual |-> 0,
              highWater |-> PriceScale, investors |-> [i \in Investors |-> 0]]
Init ==
    /\ sleeves = [s \in Strategies |-> NewSleeve] /\ pending = Idle /\ commands = 0 /\ trades = 0
    /\ vault = [cash |-> 0, qty |-> 0, deposits |-> << >>]
    /\ venue = [cash |-> Reserve, qty |-> Reserve, lending |-> Lending,
                loans |-> [s \in Strategies |-> [debt |-> 0, escrow |-> 0]]]

--------------------------------------------------------------------------------
(* The exchange: a constant product with a fee of one basis point. *)

Quote(buy, amount) ==
    LET in == IF buy THEN venue.cash ELSE venue.qty
        out == IF buy THEN venue.qty ELSE venue.cash
    IN  (amount * 9999 * out) \div (in * 10000 + amount * 9999)
CostOf(qty) ==
    LET below == (venue.qty - qty) * 9999 IN (venue.cash * qty * 10000 + below - 1) \div below
Swapped(cash, qty) == [venue EXCEPT !.cash = @ + cash, !.qty = @ - qty]
Mark == (venue.cash * Scale) \div venue.qty

Trade(buy, amount) ==
    LET out == Quote(buy, amount) IN
    /\ trades < TradeLimit /\ trades' = trades + 1 /\ out > 0
    /\ venue' = IF buy THEN Swapped(amount, out) ELSE Swapped(-out, -amount)
    /\ UNCHANGED <<sleeves, pending, commands, vault>>

--------------------------------------------------------------------------------
(* The ledger. *)

Flat(st) == st.qty = 0 /\ st.debt = 0
Equity(st) == st.cash + (st.qty * Mark) \div Scale + st.escrow - (st.debt * Mark) \div Scale
\* Fault variant: what is owed to the provider belongs to the investors too.
InvestorPool_Gross(st) == Equity(st)
InvestorPool(st) == Equity(st) - st.accrual
Available(st) == st.cash - st.accrual

\* claims(): the rounding remainders go to the largest fractions.
Claim(st, i) ==
    LET pool == InvestorPool(st)
        floor(j) == (pool * st.investors[j]) \div st.units
        rest(j) == (pool * st.investors[j]) % st.units
        owners == {j \in Investors : st.investors[j] > 0}
        before == {j \in owners : rest(j) > rest(i)}
    IN  floor(i) + (IF Cardinality(before) < pool - Total(owners, floor) THEN 1 ELSE 0)

\* reconcile(): quantities first, then what the marks say.
Attributed(books, custody, exchange) ==
    /\ Total(Strategies, LAMBDA s : books[s].cash) = custody.cash
    /\ Total(Strategies, LAMBDA s : books[s].qty) = custody.qty
    /\ \A s \in Strategies : exchange.loans[s] = [debt |-> books[s].debt, escrow |-> books[s].escrow]
Solvent(books) ==
    \A s \in Strategies : InvestorPool(books[s]) >= 0 /\ (books[s].units = 0 => InvestorPool(books[s]) = 0)
Reconciled(books, custody) == Attributed(books, custody, venue) /\ Solvent(books)

MayAllocate(st, amount) ==
    /\ Flat(st) /\ amount > 0
    /\ st.units > 0 => InvestorPool(st) > 0 /\ (amount * st.units) \div InvestorPool(st) > 0
Allocated(st, p) ==
    LET units == IF st.units = 0 THEN p.amount ELSE (p.amount * st.units) \div InvestorPool(st)
    IN  [st EXCEPT !.cash = @ + p.amount, !.units = @ + units, !.investors[p.who] = @ + units]

MayRedeem(st, i) == Flat(st) /\ st.investors[i] > 0 /\ Claim(st, i) <= Available(st)
Redeemed(st, p) ==
    LET left == st.units - st.investors[p.who]
    IN  [st EXCEPT !.cash = @ - p.amount, !.units = left, !.investors[p.who] = 0,
                   !.highWater = IF left = 0 THEN PriceScale ELSE @]

\* crystallize(): a tenth of the profit above the high-water mark.
Crystallized(st) ==
    LET above == InvestorPool(st) - (st.units * st.highWater + PriceScale - 1) \div PriceScale
        fee == IF above > 0 THEN (above * 1000) \div 10000 ELSE 0
        price == ((InvestorPool(st) - fee) * PriceScale + st.units - 1) \div st.units
    IN  IF st.units = 0 \/ ~Flat(st) THEN st
        ELSE [st EXCEPT !.accrual = @ + fee, !.highWater = IF price > @ THEN price ELSE @]

\* recordFill(): refuses what the strategy cannot pay.
Acceptable(st, p) ==
    CASE p.kind = "buy" -> p.fill.cash <= Available(st)
      [] p.kind = "sell" -> p.fill.qty <= st.qty
      [] p.kind = "short" -> st.debt = 0 /\ p.collateral <= Available(st) /\ p.fill.cash = p.collateral
      [] p.kind = "cover" -> st.debt = p.fill.qty /\ st.escrow - p.fill.cash + Available(st) >= 0
      [] OTHER -> TRUE
Filled(st, p) ==
    CASE p.kind = "buy" -> [st EXCEPT !.cash = @ - p.fill.cash, !.qty = @ + p.fill.qty]
      [] p.kind = "sell" -> Crystallized([st EXCEPT !.cash = @ + p.fill.cash, !.qty = @ - p.fill.qty])
      [] p.kind = "short" -> [st EXCEPT !.cash = @ - p.collateral, !.debt = p.fill.qty, !.escrow = p.fill.escrow]
      [] p.kind = "cover" -> Crystallized([st EXCEPT !.cash = @ + st.escrow - p.fill.cash, !.debt = 0, !.escrow = 0])

Booked(st, p) ==
    CASE p.kind = "allocate" -> Allocated(st, p)
      [] p.kind = "redeem" -> Redeemed(st, p)
      [] p.kind = "pay" -> [st EXCEPT !.cash = @ - st.accrual, !.accrual = 0]
      [] OTHER -> Filled(st, p)

--------------------------------------------------------------------------------
(* Signed commands become a plan. *)

Plan(kind, s, who, amount, limit, collateral, state) ==
    /\ pending = Idle /\ commands < CommandLimit /\ commands' = commands + 1
    /\ pending' = [kind |-> kind, strategy |-> s, who |-> who, amount |-> amount, limit |-> limit,
                   collateral |-> collateral, state |-> state, fill |-> [cash |-> 0, qty |-> 0, escrow |-> 0]]
    /\ UNCHANGED <<sleeves, vault, venue, trades>>
Paid(id) == id \in DOMAIN vault.deposits

\* An allocation: from an account of the server, from a wallet that is told to pay, or
\* from one that has paid already (its deposit is not part of the books yet).
Allocate(s, i, amount, state) ==
    LET deposit == [who |-> i, amount |-> amount] IN
    /\ MayAllocate(sleeves[s], amount)
    /\ CASE state = "deposited" -> /\ Paid(commands + 1) /\ vault.deposits[commands + 1] = deposit
                                   /\ Reconciled(sleeves, [vault EXCEPT !.cash = @ - amount])
         [] OTHER -> ~Paid(commands + 1) /\ Reconciled(sleeves, vault)
    /\ Plan("allocate", s, i, amount, 0, 0, state)

Redeem(s, i) ==
    /\ Reconciled(sleeves, vault) /\ MayRedeem(sleeves[s], i)
    /\ Plan("redeem", s, i, Claim(sleeves[s], i), 0, 0, "saved")
PayProvider(s) ==
    /\ Reconciled(sleeves, vault) /\ Flat(sleeves[s]) /\ sleeves[s].accrual > 0 /\ sleeves[s].accrual <= sleeves[s].cash
    /\ Plan("pay", s, "provider", sleeves[s].accrual, 0, 0, "saved")

Capped(st, amount) == amount > 0 /\ amount <= InvestorPool(st) \div 4 /\ amount <= Available(st)
Within(quote) == (quote * 98) \div 100
Buy(s, amount) ==
    /\ Reconciled(sleeves, vault) /\ Flat(sleeves[s]) /\ Capped(sleeves[s], amount) /\ Within(Quote(TRUE, amount)) > 0
    /\ Plan("buy", s, "provider", amount, Within(Quote(TRUE, amount)), 0, "saved")
Sell(s) ==
    /\ Reconciled(sleeves, vault) /\ sleeves[s].qty > 0
    /\ Plan("sell", s, "provider", sleeves[s].qty, Within(Quote(FALSE, sleeves[s].qty)), 0, "saved")
Short(s, collateral) ==
    LET qty == (collateral * Scale) \div Mark IN
    /\ Reconciled(sleeves, vault) /\ Flat(sleeves[s]) /\ Capped(sleeves[s], collateral)
    /\ qty > 0 /\ Within(Quote(FALSE, qty)) > 0
    /\ Plan("short", s, "provider", qty, Within(Quote(FALSE, qty)), collateral, "saved")

\* Closing may cost a little more than quoted, but never more than the strategy has.
\* Fault variant: a fifth more, without that cap.
MostFor_Uncapped(cost, own) == (cost * 120) \div 100
MostFor(cost, own) == IF (cost * 102) \div 100 > own THEN own ELSE (cost * 102) \div 100
Cover(s) ==
    LET st == sleeves[s]
        own == st.escrow + Available(st)
        cost == CostOf(st.debt)
    IN  /\ Reconciled(sleeves, vault) /\ st.debt > 0
        /\ st.debt < venue.qty /\ cost <= own
        /\ Plan("cover", s, "provider", st.debt, MostFor(cost, own), 0, "saved")

--------------------------------------------------------------------------------
(* The plan is carried out. *)

Sent(state) == pending.kind # "none" /\ pending.state = state
Orders == {"buy", "sell", "short", "cover"}

Wallet(i, amount) ==
    /\ \E id \in {commands, commands + 1} \ ({0} \cup DOMAIN vault.deposits) :
          /\ id = commands => Sent("await")
          /\ vault' = [vault EXCEPT !.cash = @ + amount,
                                    !.deposits = [j \in DOMAIN @ \cup {id} |-> IF j = id THEN [who |-> i, amount |-> amount] ELSE @[j]]]
    /\ UNCHANGED <<sleeves, pending, commands, venue, trades>>
\* complete(): the wallet's transaction is the deposit that was asked for.
Complete ==
    /\ Sent("await") /\ Paid(commands)
    /\ vault.deposits[commands] = [who |-> pending.who, amount |-> pending.amount]
    /\ pending' = [pending EXCEPT !.state = "deposited"]
    /\ UNCHANGED <<sleeves, commands, vault, venue, trades>>

Mined(fill) == pending' = [pending EXCEPT !.state = "mined", !.fill = fill]
\* The vault refuses a transfer of nothing, which is what a redemption asks for whose claim
\* the rounding left at zero.
Sendable == pending.amount > 0 /\ (pending.kind # "allocate" => vault.cash >= pending.amount)
Transfer ==
    /\ Sent("saved") /\ pending.kind \in {"allocate", "redeem", "pay"} /\ Sendable
    /\ vault' = [vault EXCEPT !.cash = IF pending.kind = "allocate" THEN @ + pending.amount ELSE @ - pending.amount]
    /\ Mined(pending.fill)
    /\ UNCHANGED <<sleeves, commands, venue, trades>>

\* Orders are committed to in a block before the one they are executed in.
Commit ==
    /\ Sent("saved") /\ pending.kind \in Orders
    /\ pending' = [pending EXCEPT !.state = "committed"]
    /\ UNCHANGED <<sleeves, commands, vault, venue, trades>>

\* execute(): the transaction is mined with the prices of its block ...
Outcome ==
    LET p == pending
        loan == venue.loans[p.strategy]
    IN  CASE p.kind = "buy" -> [out |-> Quote(TRUE, p.amount), cash |-> p.amount, qty |-> Quote(TRUE, p.amount), escrow |-> 0]
          [] p.kind = "sell" -> [out |-> Quote(FALSE, p.amount), cash |-> Quote(FALSE, p.amount), qty |-> p.amount, escrow |-> 0]
          [] p.kind = "short" -> [out |-> Quote(FALSE, p.amount), cash |-> p.collateral, qty |-> p.amount,
                                  escrow |-> p.collateral + Quote(FALSE, p.amount)]
          [] p.kind = "cover" -> [out |-> CostOf(p.amount), cash |-> CostOf(p.amount), qty |-> p.amount, escrow |-> loan.escrow]
Executable(o) ==
    LET p == pending IN
    /\ p.kind \in {"buy", "sell", "short"} => o.out >= p.limit /\ o.out > 0
    /\ p.kind = "short" => p.amount <= venue.lending /\ p.collateral >= o.out
    /\ p.kind = "cover" => p.amount < venue.qty /\ o.cash <= p.limit /\ vault.cash + o.escrow >= o.cash
    /\ p.kind \in {"buy", "short"} => vault.cash >= o.cash
Execute ==
    /\ Sent("committed") /\ venue.qty > pending.amount
    /\ LET p == pending
           o == Outcome
           s == p.strategy
       IN  /\ Executable(o)
           /\ Mined([cash |-> o.cash, qty |-> o.qty, escrow |-> o.escrow])
           /\ CASE p.kind = "buy" -> /\ venue' = Swapped(o.cash, o.qty)
                                     /\ vault' = [vault EXCEPT !.cash = @ - o.cash, !.qty = @ + o.qty]
                [] p.kind = "sell" -> /\ venue' = Swapped(-o.cash, -o.qty)
                                      /\ vault' = [vault EXCEPT !.cash = @ + o.cash, !.qty = @ - o.qty]
                [] p.kind = "short" -> /\ venue' = [Swapped(-o.out, -o.qty) EXCEPT !.lending = @ - o.qty,
                                                       !.loans[s] = [debt |-> o.qty, escrow |-> o.escrow]]
                                       /\ vault' = [vault EXCEPT !.cash = @ - o.cash]
                [] p.kind = "cover" -> /\ venue' = [Swapped(o.cash, o.qty) EXCEPT !.lending = @ + o.qty,
                                                       !.loans[s] = [debt |-> 0, escrow |-> 0]]
                                       /\ vault' = [vault EXCEPT !.cash = @ + o.escrow - o.cash]
    /\ UNCHANGED <<sleeves, commands, trades>>
\* ... or it reverts, because of them or because the deadline passed, and so does a transfer
\* the vault refuses or a deposit the account has no money for; for good: the journal
\* answers every retry with that error.
Revert ==
    /\ \/ Sent("committed")
       \/ Sent("saved") /\ (pending.kind = "allocate" \/ (pending.kind \in {"redeem", "pay"} /\ ~Sendable))
    /\ pending' = [pending EXCEPT !.state = "reverted"]
    /\ UNCHANGED <<sleeves, commands, vault, venue, trades>>

\* The rest of process(): book it, reconcile, save.
Done(p) == p.state \in {"mined", "deposited"}
Book ==
    /\ pending.kind # "none" /\ Done(pending)
    /\ Acceptable(sleeves[pending.strategy], pending)
    /\ sleeves' = [sleeves EXCEPT ![pending.strategy] = Booked(@, pending)]
    /\ Reconciled(sleeves', vault)
    /\ pending' = Idle
    /\ UNCHANGED <<commands, vault, venue, trades>>

Next ==
    \/ \E s \in Strategies, i \in Investors, a \in DepositAmounts, state \in {"saved", "await", "deposited"} : Allocate(s, i, a, state)
    \/ \E s \in Strategies, i \in Investors : Redeem(s, i)
    \/ \E s \in Strategies : PayProvider(s) \/ Sell(s) \/ Cover(s)
    \/ \E s \in Strategies, a \in OrderAmounts : Buy(s, a) \/ Short(s, a)
    \/ \E i \in Investors, a \in DepositAmounts : Wallet(i, a)
    \/ Complete \/ Transfer \/ Commit \/ Execute \/ Revert \/ Book
    \/ \E buy \in BOOLEAN, a \in TradeAmounts : Trade(buy, a)

Spec == Init /\ [][Next]_vars

--------------------------------------------------------------------------------
(* Properties. *)

\* What can keep a mined transaction out of the books: the ledger never refuses the fill of
\* an order it let through, whatever the price did in between, and the books then add up to
\* the vault.  There are two obstacles: a deposit nobody asked for, and a strategy whose loan
\* outgrew its collateral at the marks of the moment, which delays the commands of every
\* other strategy as well (reconcile() throws for all of them) until the price returns or
\* for ever.  No strategy without a loan is ever in the way.
MinedIsBookable ==
    pending.kind # "none" /\ Done(pending) =>
        LET books == [sleeves EXCEPT ![pending.strategy] = Booked(@, pending)]
            unasked == DOMAIN vault.deposits \ (1 .. commands)
            outgrown == {s \in Strategies : books[s].debt > 0 /\ InvestorPool(books[s]) < 0}
        IN  /\ Acceptable(sleeves[pending.strategy], pending)
            /\ unasked = {} => Attributed(books, vault, venue)
            /\ unasked = {} /\ outgrown = {} => Reconciled(books, vault)

\* A strategy pays for its own losses: its cash covers what it owes its provider, and
\* once it is flat its investors' claims can be paid from its own cash.
PaidByOwnCapital ==
    \A s \in Strategies :
        LET st == sleeves[s] IN
        /\ st.cash >= st.accrual /\ st.accrual >= 0
        /\ Flat(st) => \A i \in Investors : st.investors[i] > 0 => Claim(st, i) <= Available(st)
================================================================================
