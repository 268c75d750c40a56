----------------------------- MODULE LedgerWitness -----------------------------
(***************************************************************************)
(* What a transition of a strategy's book does to the mirror that proofs   *)
(* are made from (protocol/platform/ledger-witness.mjs: applyEvent,        *)
(* checkBounds, assertMatches), and the circuit that has to follow it      *)
(* (circuits/platform-ledger-transition.circom).                           *)
(*                                                                         *)
(* Amounts are small integers: Scale stands for 10^18, RateScale for the   *)
(* 10000 basis points of a fee rate. Merkle roots are left out: rows and   *)
(* lots are compared as they are. An investor's lots are numbered in the   *)
(* order of their subscription; in the mirror a lot lives in one of a few  *)
(* slots, which are used again, and an investor in one of a few accounts.  *)
(***************************************************************************)
EXTENDS Integers, SequencesExt

CONSTANTS
    Scale, RateScale, RateCap, Investors,
    Capacities          \* LEDGER_CAPACITY: how many investors and lots of one a mirror has room for

ASSUME ScaleAssumption == Scale \in Nat \ {0} /\ RateScale \in Nat \ {0} /\ RateCap \in 0 .. RateScale
ASSUME CapacitiesAssumption == Capacities \subseteq [investors : Nat \ {0}, lots : Nat \ {0}]

--------------------------------------------------------------------------------
\* The circuit (generated from its template): which event has a proof, and what the proof
\* makes of the book, of one investor's row and of one lot.  A proof is about one event.
\* Numbers are integers: the ranges of the circuit are below its field's size by
\* construction of FloorDiv, so what remains of them is that nothing is negative; hashes
\* and Merkle paths are equality of what they are made of.  Padding and REGISTER do not
\* occur (importBook() has the book registered).
Magnitude(n) == IF n < 0 THEN -n ELSE n

\* The event as the circuit is given it (ledger-witness.mjs, applyEvent).
EventOf(e) ==
    LET none == [kind |-> e.kind, amount |-> 0, units |-> 0, value |-> 0, negative |-> FALSE, rate |-> 0, aux |-> 0]
    IN  CASE e.kind = "MINT" -> [none EXCEPT !.amount = e.amount, !.units = e.units]
          [] e.kind = "FEE" -> [none EXCEPT !.amount = e.amount, !.units = e.units,
                                            !.value = Magnitude(e.cost), !.negative = e.cost < 0]
          [] e.kind = "BURN" -> [none EXCEPT !.units = e.units, !.negative = e.remainder, !.aux = e.requested]
          [] e.kind = "PAY" -> [none EXCEPT !.amount = e.amount, !.aux = e.requested]
          [] e.kind = "VENUE" -> [none EXCEPT !.amount = Magnitude(e.amount), !.negative = e.amount < 0]
          [] e.kind = "MARK" -> [none EXCEPT !.amount = e.basis, !.value = e.amount]
          [] e.kind = "POLICY" -> [none EXCEPT !.rate = e.rate]
          [] OTHER -> [none EXCEPT !.amount = e.amount]

Is(ev, kinds) == ev.kind \in kinds
\* A term of an operation, and the denominator that another operation does not look at.
Gate(ev, kinds, n) == IF Is(ev, kinds) THEN n ELSE 0
Denominator(ev, kinds, n) == IF Is(ev, kinds) THEN n ELSE 1

\* FloorDiv: there is a quotient, and which.
Divides(numerator, denominator) == numerator >= 0 /\ denominator > 0
Floor(numerator, denominator) == IF Divides(numerator, denominator) THEN numerator \div denominator ELSE 0

--------------------------------------------------------------------------------
(* The divisions.  book, account (row, credit, goal, known) and lot are before the event. *)

GainOf(book, lot, ev) == lot.units * Gate(ev, {"FEE"}, book.nav - lot.hwm)
ProfitOf(book, lot, ev) ==
    LET gain == Floor(GainOf(book, lot, ev), Scale)
    IN  IF ev.negative THEN gain + ev.value ELSE IF ev.value < gain THEN gain - ev.value ELSE 0
BurnFor(book, lot, ev) ==
    Floor(Gate(ev, {"FEE"}, Floor(ProfitOf(book, lot, ev) * book.rate, RateScale)) * Scale,
          Denominator(ev, {"FEE"}, book.nav))
FeeFor(book, lot, ev) == Floor(BurnFor(book, lot, ev) * book.nav, Scale)

Whole(account) == account.row.units + account.credit
Share(account, lot, ev) ==
    Floor(Gate(ev, {"BURN"}, lot.units * ev.aux), Denominator(ev, {"BURN"}, Whole(account)))
Take(account, lot, ev) ==
    LET remaining == Gate(ev, {"BURN"}, ev.aux - account.credit)
    IN  IF ~ev.negative THEN Share(account, lot, ev)
        ELSE IF lot.units < remaining THEN lot.units ELSE remaining

MarkDenominator(book, ev) == IF book.units # 0 THEN Denominator(ev, {"MARK"}, book.units) ELSE 1
MarkNav(book, ev) ==
    IF book.units = 0 THEN book.nav ELSE Floor(Gate(ev, {"MARK"}, ev.amount) * Scale, MarkDenominator(book, ev))
PayNumerator(book, ev) == IF book.units = 0 THEN ev.amount ELSE book.equity - ev.amount
PayDenominator(book, ev) == Denominator(ev, {"PAY"}, IF book.units = 0 THEN ev.aux ELSE book.units)
PayNav(book, ev) == Floor(Gate(ev, {"PAY"}, PayNumerator(book, ev)) * Scale, PayDenominator(book, ev))

--------------------------------------------------------------------------------
(* What is after the event. *)

FreshLot(book, lot, ev) ==
    [units |-> lot.units + Gate(ev, {"MINT"}, ev.units) - Gate(ev, {"FEE", "BURN"}, ev.units),
     hwm |-> IF Is(ev, {"MINT", "FEE"}) THEN book.nav ELSE lot.hwm]

FreshRow(row, ev) ==
    [pending |-> row.pending + Gate(ev, {"DEPOSIT"}, ev.amount) - Gate(ev, {"MINT", "PENDING_PAY"}, ev.amount),
     units |-> row.units + Gate(ev, {"MINT"}, ev.units) - Gate(ev, {"FEE", "BURN"}, ev.units),
     deposited |-> row.deposited + Gate(ev, {"DEPOSIT"}, ev.amount),
     paid |-> row.paid + Gate(ev, {"PAY", "PENDING_PAY"}, ev.amount),
     fees |-> row.fees + Gate(ev, {"FEE"}, ev.amount)]
FreshCredit(account, ev) == IF Is(ev, {"PAY"}) THEN 0 ELSE account.credit + Gate(ev, {"BURN"}, ev.units)
FreshGoal(account, ev) ==
    IF Is(ev, {"PAY"}) THEN 0 ELSE IF Is(ev, {"BURN"}) /\ account.goal = 0 THEN ev.aux ELSE account.goal

FreshBook(book, ev) ==
    [rate |-> IF Is(ev, {"POLICY"}) THEN ev.rate ELSE book.rate,
     cash |-> book.cash + Gate(ev, {"MINT"}, ev.amount) - Gate(ev, {"PAY", "FEE_PAY"}, ev.amount)
                        + Gate(ev, {"VENUE"}, IF ev.negative THEN -ev.amount ELSE ev.amount),
     equity |-> CASE Is(ev, {"MARK"}) -> ev.value
                  [] Is(ev, {"VALUE"}) -> ev.amount
                  [] OTHER -> book.equity + Gate(ev, {"MINT"}, ev.amount) - Gate(ev, {"FEE", "PAY"}, ev.amount),
     units |-> book.units + Gate(ev, {"MINT"}, ev.units) - Gate(ev, {"FEE", "BURN"}, ev.units),
     nav |-> CASE Is(ev, {"MARK"}) -> MarkNav(book, ev) [] Is(ev, {"PAY"}) -> PayNav(book, ev) [] OTHER -> book.nav,
     due |-> book.due + Gate(ev, {"FEE"}, ev.amount) - Gate(ev, {"FEE_PAY"}, ev.amount)]

--------------------------------------------------------------------------------
(* The constraints. *)

NotNegative(record) == \A field \in DOMAIN record : record[field] >= 0

\* Whose row it is, and that a redemption that is under way is finished first.
RowConstraints(account, ev) ==
    /\ Is(ev, {"MINT", "FEE", "BURN", "PAY", "PENDING_PAY"}) => account.known
    /\ Is(ev, {"MINT", "FEE", "PENDING_PAY"}) => account.credit = 0
    /\ Is(ev, {"BURN"}) => account.goal \in {0, ev.aux} /\ account.credit <= ev.aux
    /\ Is(ev, {"PAY"}) => account.credit = ev.aux /\ account.goal = ev.aux

\* Every division has a quotient, also those whose result is not used.
DivisionConstraints(book, account, lot, ev) ==
    /\ Divides(Gate(ev, {"MINT"}, ev.amount), Denominator(ev, {"MINT"}, book.nav))
    /\ Divides(GainOf(book, lot, ev), Scale) /\ Divides(ProfitOf(book, lot, ev) * book.rate, RateScale)
    /\ Denominator(ev, {"FEE"}, book.nav) > 0 /\ Denominator(ev, {"BURN"}, Whole(account)) > 0
    /\ Divides(Gate(ev, {"MARK"}, ev.amount), MarkDenominator(book, ev))
    /\ Divides(Gate(ev, {"PAY"}, PayNumerator(book, ev)), PayDenominator(book, ev))

\* The amounts of the event are the ones the circuit computes.
AmountConstraints(book, account, lot, ev) ==
    /\ Is(ev, {"MINT"}) => ev.units = Floor(ev.amount * Scale, book.nav) /\ lot.units = 0
    /\ Is(ev, {"FEE"}) => /\ lot.hwm < book.nav
                          /\ ev.units = BurnFor(book, lot, ev) /\ ev.amount = FeeFor(book, lot, ev)
    /\ Is(ev, {"BURN"}) => ev.units = Take(account, lot, ev)
    /\ Is(ev, {"PAY"}) => book.due <= book.cash - ev.amount

RangeConstraints(ev, nextBook, next, nextLot) ==
    /\ ev.amount >= 0 /\ ev.units >= 0 /\ ev.value >= 0 /\ ev.aux >= 0
    /\ NotNegative(nextBook) /\ NotNegative(next.row) /\ NotNegative(nextLot)
    /\ next.credit >= 0 /\ next.goal >= 0
    /\ nextBook.rate <= RateCap

\* The proof is of exactly this step: what is committed to after it is what the book, the
\* account and the lot were saved as.
PlatformLedger(book, account, lot, ev, nextBook, next, nextLot) ==
    /\ RowConstraints(account, ev) /\ DivisionConstraints(book, account, lot, ev)
    /\ AmountConstraints(book, account, lot, ev)
    /\ nextBook = FreshBook(book, ev) /\ next.row = FreshRow(account.row, ev)
    /\ next.credit = FreshCredit(account, ev) /\ next.goal = FreshGoal(account, ev)
    /\ Is(ev, {"MINT", "FEE", "BURN"}) => nextLot = FreshLot(book, lot, ev)
    /\ RangeConstraints(ev, nextBook, next, nextLot)

--------------------------------------------------------------------------------
Nobody == "nobody"
NoLot == [units |-> 0, hwm |-> 0]
EmptyRow == [pending |-> 0, units |-> 0, deposited |-> 0, paid |-> 0, fees |-> 0]
Fields == {"rate", "cash", "equity", "units", "nav", "due"}

\* BigInt division truncates toward zero.
Quotient(a, b) == IF a >= 0 THEN a \div b ELSE -((-a) \div b)
Larger(a, b) == IF a > b THEN a ELSE b
Smaller(a, b) == IF a < b THEN a ELSE b

\* slot: where each of the investor's lots lives (0: it lost its slot, or never had one).
EmptyAccount(lots, slots) ==
    [row |-> EmptyRow, known |-> FALSE, credit |-> 0, goal |-> 0,
     lots |-> [k \in 1 .. slots |-> NoLot], slot |-> [k \in 1 .. lots |-> 0]]

ImportBook(rate, lots, room) ==
    [fields |-> [rate |-> rate, cash |-> 0, equity |-> 0, units |-> 0, nav |-> Scale, due |-> 0],
     accounts |-> [i \in Investors |-> EmptyAccount(lots, room.lots)], verdict |-> "ok", room |-> room]

LotKinds == {"MINT", "FEE", "BURN"}
AccountKinds == LotKinds \cup {"DEPOSIT", "PAY", "PENDING_PAY"}

FreeSlots(a) == {k \in DOMAIN a.lots : a.lots[k].units = 0}
\* A new lot takes the first empty slot from whoever had it.
TakeSlot(a, lot) ==
    LET free == CHOOSE k \in FreeSlots(a) : \A j \in FreeSlots(a) : k <= j
    IN  [a EXCEPT !.slot = [n \in DOMAIN a.slot |-> IF n = lot THEN free ELSE IF a.slot[n] = free THEN 0 ELSE a.slot[n]]]

\* The profit of a lot after its part of the redemption's cost, and the fee on it.
Profit(units, nav, hwm, cost) ==
    LET gain == (units * (nav - hwm)) \div Scale IN IF gain > cost THEN gain - cost ELSE 0
BurnOf(profit, rate, nav) == (((profit * rate) \div RateScale) * Scale) \div nav
FeeOf(burn, nav) == (burn * nav) \div Scale

TakeOf(e, a, old) ==
    IF e.remainder THEN Smaller(old.units, e.requested - a.credit)
                   ELSE (old.units * e.requested) \div (a.row.units + a.credit)

\* The assertions of applyEvent() about the event itself.
Asserted(f, a, old, e) ==
    CASE e.kind = "MINT" -> old.units = 0 /\ f.nav # 0 /\ e.units = (e.amount * Scale) \div f.nav
      [] e.kind = "FEE" -> /\ f.nav > old.hwm
                           /\ e.units = BurnOf(Profit(old.units, f.nav, old.hwm, e.cost), f.rate, f.nav)
                           /\ e.amount = FeeOf(e.units, f.nav)
      [] e.kind = "BURN" -> a.goal \in {0, e.requested} /\ a.row.units + a.credit # 0 /\ e.units = TakeOf(e, a, old)
      [] e.kind = "PAY" -> a.credit = e.requested /\ a.goal = e.requested /\ f.cash - e.amount >= f.due
      [] OTHER -> TRUE

\* The row of the investor, and the book's fields, after the event.
NextAccount(a, e, k, f) ==
    CASE e.kind = "DEPOSIT" ->
            [a EXCEPT !.known = TRUE, !.row.pending = @ + e.amount, !.row.deposited = @ + e.amount]
      [] e.kind = "MINT" -> [a EXCEPT !.row.pending = @ - e.amount, !.row.units = @ + e.units,
                                      !.lots[k] = [units |-> e.units, hwm |-> f.nav]]
      [] e.kind = "FEE" -> [a EXCEPT !.row.units = @ - e.units, !.row.fees = @ + e.amount,
                                     !.lots[k] = [units |-> @.units - e.units, hwm |-> f.nav]]
      [] e.kind = "BURN" -> [a EXCEPT !.row.units = @ - e.units, !.credit = @ + e.units,
                                      !.goal = e.requested, !.lots[k].units = @ - e.units]
      [] e.kind = "PAY" -> [a EXCEPT !.row.paid = @ + e.amount, !.credit = 0, !.goal = 0]
      [] e.kind = "PENDING_PAY" -> [a EXCEPT !.row.pending = @ - e.amount, !.row.paid = @ + e.amount]

PricePerUnit(value, units) == (value * Scale) \div units
NextFields(f, e) ==
    CASE e.kind = "MINT" -> [f EXCEPT !.cash = @ + e.amount, !.equity = @ + e.amount, !.units = @ + e.units]
      [] e.kind = "FEE" -> [f EXCEPT !.equity = @ - e.amount, !.units = @ - e.units, !.due = @ + e.amount]
      [] e.kind = "BURN" -> [f EXCEPT !.units = @ - e.units]
      [] e.kind = "PAY" ->
            [f EXCEPT !.cash = @ - e.amount, !.equity = @ - e.amount,
                      !.nav = IF f.units # 0 THEN PricePerUnit(f.equity - e.amount, f.units)
                              ELSE IF e.requested # 0 THEN PricePerUnit(e.amount, e.requested) ELSE @]
      [] e.kind = "VENUE" -> [f EXCEPT !.cash = @ + e.amount]
      [] e.kind = "MARK" -> [f EXCEPT !.equity = e.amount,
                                      !.nav = IF f.units # 0 THEN PricePerUnit(e.basis, f.units) ELSE @]
      [] e.kind = "FEE_PAY" -> [f EXCEPT !.cash = @ - e.amount, !.due = @ - e.amount]
      [] e.kind = "POLICY" -> [f EXCEPT !.rate = e.rate]
      [] e.kind = "VALUE" -> [f EXCEPT !.equity = e.amount]
      [] OTHER -> f

\* checkBounds(): nothing is negative, the fee rate is capped, the shares add up.
InBounds(m) ==
    /\ \A field \in Fields : m.fields[field] >= 0
    /\ m.fields.rate <= RateCap
    /\ \A i \in Investors : LET a == m.accounts[i] IN
          /\ \A column \in DOMAIN EmptyRow : a.row[column] >= 0
          /\ a.credit >= 0 /\ a.goal >= 0
          /\ \A k \in DOMAIN a.lots : a.lots[k].units >= 0 /\ a.lots[k].hwm >= 0
    /\ SumFunctionOnSet([i \in Investors |-> m.accounts[i].row.units], Investors) = m.fields.units

\* There is a proof of what applyEvent() did: of its amounts, and of nothing else.
NobodysAccount == EmptyAccount(0, 0)
HasProof(m, next, e, k) ==
    LET own == e.kind \in AccountKinds
        before == IF own THEN m.accounts[e.who] ELSE NobodysAccount
        after == IF own THEN next.accounts[e.who] ELSE NobodysAccount
    IN  PlatformLedger(m.fields, before, IF k = 0 THEN NoLot ELSE before.lots[k], EventOf(e),
                       next.fields, after, IF k = 0 THEN NoLot ELSE after.lots[k])
\* What is refused is refused at every later checkpoint; the mirror is not looked at again.
Refused(m, reason) == [verdict |-> reason, room |-> m.room]
Proved(m, next, e, k) ==
    IF ~InBounds(next) THEN Refused(m, "witness")
    ELSE IF HasProof(m, next, e, k) THEN next ELSE Refused(m, "circuit")

\* An account is found, or with a deposit a free one; the others have none.
Known(m) == {i \in Investors : m.accounts[i].known}
HasAccount(m, e) == e.who \in Known(m) \/ (e.kind = "DEPOSIT" /\ Cardinality(Known(m)) < m.room.investors)

\* applyEvent(), and whether the circuit can follow.
ApplyEvent(m, e) ==
    IF m.verdict # "ok" THEN m
    ELSE IF e.kind \notin AccountKinds THEN Proved(m, [m EXCEPT !.fields = NextFields(@, e)], e, 0)
    ELSE IF ~HasAccount(m, e) THEN Refused(m, "LEDGER_INVESTOR_CAPACITY")
    ELSE LET found == m.accounts[e.who]
             full == e.kind = "MINT" /\ found.slot[e.lot] = 0 /\ FreeSlots(found) = {}
             a == IF e.kind = "MINT" /\ found.slot[e.lot] = 0 /\ ~full THEN TakeSlot(found, e.lot) ELSE found
             k == IF e.kind \in LotKinds THEN a.slot[e.lot] ELSE 0
             old == IF k = 0 THEN NoLot ELSE a.lots[k]
             refused == (e.kind \in LotKinds /\ k = 0) \/ ~Asserted(m.fields, a, old, e)
         IN  IF full THEN Refused(m, "LEDGER_LOT_CAPACITY")
             ELSE IF refused THEN Refused(m, "witness")
             ELSE Proved(m, [m EXCEPT !.accounts[e.who] = NextAccount(a, e, k, m.fields),
                                      !.fields = NextFields(@, e)], e, k)

\* importBook() of the book as it was saved: it fits into a mirror and adds up.
ActiveInvestors(book) == {i \in Investors : \E column \in DOMAIN EmptyRow : book.investors[i][column] # 0}
Live(lots) == {n \in DOMAIN lots : lots[n].units # 0}
Imports(book, room) ==
    /\ Cardinality(ActiveInvestors(book)) <= room.investors
    /\ \A i \in ActiveInvestors(book) : LET p == book.investors[i] IN
          /\ Cardinality(Live(p.lots)) <= room.lots
          /\ SumFunctionOnSet([n \in DOMAIN p.lots |-> p.lots[n].units], Live(p.lots)) = p.units
    /\ SumFunctionOnSet([i \in Investors |-> book.investors[i].units], Investors) = book.units

\* assertMatches(): the book as it was saved, against the mirror.
LotsMatch(lots, a) ==
    /\ Live(lots) = {n \in DOMAIN a.slot : a.slot[n] # 0 /\ a.lots[a.slot[n]].units # 0}
    /\ \A n \in Live(lots) : a.lots[a.slot[n]] = lots[n]
Matches(book, m) ==
    /\ Imports(book, m.room)
    /\ \A field \in Fields : m.fields[field] = book[field]
    /\ \A i \in Known(m) : LET a == m.accounts[i] IN
          /\ a.row = [column \in DOMAIN EmptyRow |-> book.investors[i][column]]
          /\ a.credit = 0 /\ a.goal = 0
          /\ LotsMatch(book.investors[i].lots, a)
    /\ Cardinality(Known(m)) = Cardinality(ActiveInvestors(book))
================================================================================
