------------------------------- MODULE ZkBooks --------------------------------
(***************************************************************************)
(* Two books in one vault that are nowhere written down: the vault         *)
(* (contracts/integration/ZkBookVault.sol) keeps a commitment to them, and *)
(* takes an order and its outcome with a proof that the books change as    *)
(* they may (circuits/book-transition.circom).  The proofs are made by     *)
(* whoever knows the books (src/zk/book.js), from the books they knew      *)
(* then.  A commitment is what it commits to: the books and the order that *)
(* is being carried out; signatures are the set of signed orders.          *)
(***************************************************************************)
EXTENDS Integers, FiniteSets, FiniteSetsExt, Sequences

CONSTANTS
    Genesis,            \* the cash of the two books
    Amounts, Minimums,  \* what orders ask for
    Prices,             \* what the exchange gives for 2 of the other
    SpendLimit,         \* how much of its cash a book may spend at once, percent
    Ttl,                \* how far ahead a deadline may be
    LastTime, OrderLimit, BatchLimit    \* bounds of the clock, the orders, the batches

VARIABLES
    now,
    vault,      \* the contract
    signed,     \* the orders the books' owners signed
    proofs,     \* proofs of authorizations somebody made and may still send
    fills       \* history: what the exchange gave, and for which book

vars == <<now, vault, signed, proofs, fills>>

Books == {1, 2}
NoOrder == [batch |-> 0]
NewBooks == [b \in Books |-> [cash |-> Genesis[b], asset |-> 0, reserved |-> 0, seq |-> 0]]
Init ==
    /\ now = 0 /\ signed = {} /\ proofs = {} /\ fills = <<>>
    /\ vault = [seeded |-> FALSE, root |-> [books |-> NewBooks, order |-> NoOrder], batch |-> 0, settled |-> 0,
                pending |-> FALSE, plan |-> NoOrder, out |-> 0, cash |-> 0, asset |-> 0]

--------------------------------------------------------------------------------
(* The circuit. *)

Held(books, Field(_)) == MapThenSumSet(LAMBDA b : Field(books[b]), Books)
CashOf(books) == Held(books, LAMBDA k : k.cash)
AssetOf(books) == Held(books, LAMBDA k : k.asset)

\* What an authorization asks of the book that pays.
\* Fault variant: of the vault.
Affordable_Together(books, b, o) ==
    /\ o.amount <= IF o.buy THEN CashOf(books) ELSE AssetOf(books)
    /\ o.buy => o.amount * 100 <= CashOf(books) * SpendLimit
Affordable(books, b, o) ==
    /\ o.amount <= IF o.buy THEN books[b].cash ELSE books[b].asset
    /\ o.buy => o.amount * 100 <= books[b].cash * SpendLimit

\* The constraints over both commitments, the order and what the exchange gave.
BookTransition(phase, o, out, old, new, cashTotal, assetTotal) ==
    LET auth == phase = 1
        before == old.books
        after == new.books
        changes(b) == b = o.book /\ ~auth
        cashDelta == IF o.buy THEN -o.amount ELSE out
        assetDelta == IF o.buy THEN out ELSE -o.amount
    IN  /\ o.amount > 0 /\ o.minOut > 0
        /\ IF auth THEN out = 0 /\ o \in signed /\ Affordable(before, o.book, o) ELSE out >= o.minOut
        /\ o.seq = before[o.book].seq + (IF auth THEN 1 ELSE 0)
        /\ \A b \in Books :
              /\ before[b].cash >= 0 /\ before[b].asset >= 0 /\ after[b].cash >= 0 /\ after[b].asset >= 0
              /\ before[b].reserved = IF changes(b) THEN o.amount ELSE 0
              /\ after[b].reserved = IF auth /\ b = o.book THEN o.amount ELSE 0
              /\ after[b].cash = before[b].cash + (IF changes(b) THEN cashDelta ELSE 0)
              /\ after[b].asset = before[b].asset + (IF changes(b) THEN assetDelta ELSE 0)
              /\ after[b].seq = before[b].seq + (IF auth /\ b = o.book THEN 1 ELSE 0)
        /\ old.order = (IF auth THEN NoOrder ELSE o) /\ new.order = (IF auth THEN o ELSE NoOrder)
        /\ CashOf(after) = cashTotal /\ AssetOf(after) = assetTotal

\* transition(): the books a prover would have next.
Authorized(state, o) ==
    [books |-> [state.books EXCEPT ![o.book].reserved = o.amount, ![o.book].seq = @ + 1], order |-> o]
Settled(state, o, out) ==
    [books |-> [state.books EXCEPT ![o.book] = [@ EXCEPT !.reserved = 0,
         !.cash = IF o.buy THEN @ - o.amount ELSE @ + out,
         !.asset = IF o.buy THEN @ + out ELSE @ - o.amount]], order |-> NoOrder]

--------------------------------------------------------------------------------
Seed ==
    /\ ~vault.seeded
    /\ vault' = [vault EXCEPT !.seeded = TRUE, !.cash = CashOf(NewBooks)]
    /\ UNCHANGED <<now, signed, proofs, fills>>

\* The owner of a book signs an order, for whatever batch and place in its sequence.
Sign(b, buy, amount, minOut) ==
    /\ vault.seeded /\ Cardinality(signed) < OrderLimit
    /\ \E batch \in {vault.batch + 1, vault.batch + 2}, seq \in {vault.root.books[b].seq + 1, vault.root.books[b].seq + 2} :
          signed' = signed \cup {[book |-> b, seq |-> seq, batch |-> batch, buy |-> buy, amount |-> amount,
                                  minOut |-> minOut, deadline |-> now + Ttl]}
    /\ UNCHANGED <<now, vault, proofs, fills>>

\* A proof of an authorization, from the books as they are now.
Prove(o) ==
    LET new == Authorized(vault.root, o)
        proof == [order |-> o, old |-> vault.root, new |-> new, cash |-> vault.cash, asset |-> vault.asset]
    IN  /\ BookTransition(1, o, 0, vault.root, new, vault.cash, vault.asset)
        /\ proof \notin proofs /\ proofs' = proofs \cup {proof}
        /\ UNCHANGED <<now, vault, signed, fills>>

\* authorizeAndExecute(): the order is reserved, traded and booked as one transaction.
Execute(p, out) ==
    LET o == p.order IN
    /\ vault.seeded /\ ~vault.pending /\ o.batch = vault.batch + 1 /\ vault.batch < BatchLimit
    /\ o.deadline >= now /\ o.deadline <= now + Ttl
    /\ p.cash = vault.cash /\ p.asset = vault.asset /\ p.old = vault.root
    /\ o.amount <= (IF o.buy THEN vault.cash ELSE vault.asset)
    /\ out >= o.minOut
    /\ vault' = [vault EXCEPT !.root = p.new, !.batch = o.batch, !.pending = TRUE, !.plan = o, !.out = out,
                              !.cash = IF o.buy THEN @ - o.amount ELSE @ + out,
                              !.asset = IF o.buy THEN @ + out ELSE @ - o.amount]
    /\ fills' = Append(fills, [book |-> o.book, buy |-> o.buy, amount |-> o.amount, out |-> out])
    /\ proofs' = proofs \ {p}
    /\ UNCHANGED <<now, signed>>

\* settle(): a proof for the plan and what the exchange really gave; no deadline.
Settle ==
    LET o == vault.plan
        new == Settled(vault.root, o, vault.out)
    IN  /\ vault.pending /\ o.batch = vault.batch /\ vault.batch = vault.settled + 1
        /\ BookTransition(2, o, vault.out, vault.root, new, vault.cash, vault.asset)
        /\ vault' = [vault EXCEPT !.root = new, !.settled = vault.batch, !.pending = FALSE, !.plan = NoOrder, !.out = 0]
        /\ UNCHANGED <<now, signed, proofs, fills>>

Tick == now < LastTime /\ now' = now + 1 /\ UNCHANGED <<vault, signed, proofs, fills>>

Next ==
    \/ Seed \/ Settle \/ Tick
    \/ \E b \in Books, buy \in BOOLEAN, a \in Amounts, m \in Minimums : Sign(b, buy, a, m)
    \/ \E o \in signed : Prove(o)
    \/ \E p \in proofs, price \in Prices : Execute(p, (p.order.amount * price) \div 2)

Spec == Init /\ [][Next]_vars

--------------------------------------------------------------------------------
(* Properties. *)

\* What was traded can always be settled: the circuit has a proof for the vault's receipt
\* and balances, whatever the exchange gave and whichever proofs were around.  Without one
\* the vault could never trade again.
PendingCanSettle ==
    vault.pending =>
        BookTransition(2, vault.plan, vault.out, vault.root, Settled(vault.root, vault.plan, vault.out),
                       vault.cash, vault.asset)

\* A book has what it began with and what its own orders brought and cost, and the two
\* together have what the vault has.
BooksFollowTheirFills ==
    LET own(b) == {k \in DOMAIN fills : fills[k].book = b /\ k <= vault.settled}
        cash(k) == IF fills[k].buy THEN -fills[k].amount ELSE fills[k].out
        asset(k) == IF fills[k].buy THEN fills[k].out ELSE -fills[k].amount
    IN  /\ \A b \in Books :
              /\ vault.root.books[b].cash = Genesis[b] + MapThenSumSet(cash, own(b))
              /\ vault.root.books[b].asset = MapThenSumSet(asset, own(b))
        /\ vault.seeded /\ ~vault.pending =>
              CashOf(vault.root.books) = vault.cash /\ AssetOf(vault.root.books) = vault.asset
================================================================================
