------------------------------ MODULE SharedPools ------------------------------
(***************************************************************************)
(* Strategies in several execution accounts, as                            *)
(* deploy/tee/operator/shared-accounts.mjs places them: an account is      *)
(* shared by strategies on the same side of a market, a strategy on the    *)
(* other side gets another account, and the exchange applies one leverage  *)
(* to a whole position.  StrategyExecution has what one account does over  *)
(* time, with its prices and failing transactions; here there are several  *)
(* accounts, markets and sides, mark prices stand still, and a transaction *)
(* is mined where it is signed.  The operator handles one strategy at a    *)
(* time, from the beginning after an interruption; what it saved stays.    *)
(* The vault creates the accounts (nativeCreate).                          *)
(***************************************************************************)
EXTENDS Integers, FiniteSetsExt, SequencesExt

CONSTANTS
    Books, NoBook,
    MarketCount, Plans,         \* requested lots of every market
    Cap,                        \* a strategy's leverage limit, in hundredths
    FirstCash, Price, TradeCost,
    Payments,                   \* what the exchange pays or takes for open positions
    FirstMinimum, Minimum,      \* the smallest first and later funding
    AccountLimit, RequestLimit, TroubleLimit     \* bounds

VARIABLES
    accounts,   \* the exchange accounts, in the order of creation
    pools,      \* sharedAccounts: claims on the accounts, and the accounts as last read
    books,      \* cash, slots, the open request
    turn,       \* the strategy that is handled, and where
    used        \* the requests and disturbances there were (bounds)

vars == <<accounts, pools, books, turn, used>>

Markets == 1 .. MarketCount
None == 0
Abs(x) == IF x < 0 THEN -x ELSE x
Larger(x, y) == IF x > y THEN x ELSE y
Ceiling(x, y) == (x + y - 1) \div y
\* Integer division as the code has it: towards zero.
Quotient(x, y) == IF x < 0 THEN -(Abs(x) \div y) ELSE x \div y
SumOf(set, f(_)) ==
    LET sum[rest \in SUBSET set] ==
            IF rest = {} THEN 0 ELSE LET x == CHOOSE x \in rest : TRUE IN f(x) + sum[rest \ {x}]
    IN  sum[set]
SameSide(x, y) == x = 0 \/ y = 0 \/ (x > 0) = (y > 0)

NewAccount == [open |-> FALSE, free |-> 0, qty |-> [m \in Markets |-> 0], deposit |-> [m \in Markets |-> 0],
               premium |-> [m \in Markets |-> 0]]
EquityOf(acc) == acc.free + SumOf(Markets, LAMBDA m : acc.deposit[m] + acc.premium[m])
NoClaim == [known |-> FALSE, equity |-> 0, qty |-> [m \in Markets |-> 0]]
NewPool == [known |-> FALSE, claims |-> [b \in Books |-> NoClaim], seen |-> NewAccount]
NoStep == [label |-> <<"none", None>>, account |-> None, amount |-> 0, before |-> 0, owned |-> 0, leverage |-> 0]
\* created: the index of an account before it is created; steps: calls that were saved and
\* not applied yet; done: the labels of those that were.
NoJob == [open |-> FALSE, plan |-> [m \in Markets |-> 0], created |-> [m \in Markets |-> None], steps |-> {},
          done |-> {}, stuck |-> FALSE]
NoTurn == [book |-> NoBook, phase |-> "idle", released |-> FALSE, past |-> {}, step |-> NoStep]

Init ==
    /\ accounts = <<>> /\ pools = [a \in 1 .. AccountLimit |-> NewPool] /\ turn = NoTurn
    /\ books = [b \in Books |-> [cash |-> FirstCash, slots |-> [m \in Markets |-> None], job |-> NoJob]]
    /\ used = [requests |-> 0, troubles |-> 0]

--------------------------------------------------------------------------------
(* Claims. *)

Known == {a \in DOMAIN pools : pools[a].known}
Lots(pool, b, m) == pool.claims[b].qty[m]
TotalQty(pool, m) == SumOf(Books, LAMBDA b : Lots(pool, b, m))

\* compatible(): no other strategy is on the other side.
Compatible(pool, m, b, target) == \A c \in Books \ {b} : SameSide(Lots(pool, c, m), target)

\* lockedCollateral(): the strategy's part of the position's deposit, rounded up.
Locked(pool, b, m) ==
    LET whole == Abs(pool.seen.qty[m]) IN
    IF whole = 0 THEN 0 ELSE Ceiling(pool.seen.deposit[m] * Abs(Lots(pool, b, m)), whole)
\* The policy's estimate, with a tenth on top.
Estimate(b, lots) == (Abs(lots) * Price * 110) \div Cap[b]

\* free(): what the strategy can take out; not more than is there, shared out.
Spare(pool, c) ==
    Larger(0, pool.claims[c].equity - SumOf({m \in Markets : Lots(pool, c, m) # 0},
                 LAMBDA m : Larger(Locked(pool, c, m), Estimate(c, Lots(pool, c, m)))))
Free(pool, b) ==
    LET total == SumOf(Books, LAMBDA c : Spare(pool, c)) IN
    IF total > pool.seen.free THEN (Spare(pool, b) * pool.seen.free) \div total ELSE Spare(pool, b)

\* funding(): what is missing to hold the target beside the other markets' collateral.
Funding(pool, b, m, target) ==
    LET needed(k) == IF k = m THEN Estimate(b, target)
                     ELSE Larger(Estimate(b, Lots(pool, b, k)), Locked(pool, b, k))
    IN  Larger(0, SumOf(Markets, needed) - pool.claims[b].equity)

\* sharedLeverage(): one leverage under which the position locks what all owners must lock.
Precision == 1000000
SharedLeverage(pool, b, m, target) ==
    LET size(c) == Abs(IF c = b THEN target ELSE Lots(pool, c, m))
        total == SumOf(Books, size)
        margin == SumOf(Books, LAMBDA c : Ceiling(size(c) * Precision, Cap[c] * 100))
        leverage == (total * Precision) \div (margin * 100)
    IN  IF total = 0 THEN Cap[b] ELSE IF leverage < 100 THEN 100 ELSE IF leverage > 1000 THEN 1000 ELSE leverage

\* observations(): a strategy's part of an account, split over its markets; the free
\* collateral appears once.
Observed(pool, b, slots, a) ==
    LET mine == SetToSortSeq({m \in Markets : Lots(pool, b, m) # 0 \/ slots[m] = a}, <)
        free == Free(pool, b)
        bound == pool.claims[b].equity - free
        weight(k) == Abs(Lots(pool, b, mine[k]))
        total == SumOf(DOMAIN mine, weight)
        split(k) == IF total = 0 THEN 0 ELSE Quotient(bound * weight(k), total)
        part(k) == IF k = Len(mine) THEN bound - SumOf(1 .. k - 1, split) ELSE split(k)
    IN  IF mine = <<>> THEN <<[equity |-> pool.claims[b].equity, free |-> free]>>
        ELSE [k \in DOMAIN mine |-> [equity |-> part(k) + (IF k = 1 THEN free ELSE 0),
                                     free |-> IF k = 1 THEN free ELSE 0]]

--------------------------------------------------------------------------------
(* Reading an account. *)

Order == SetToSeq(Books)
\* distribute(): by size; the last owner gets what is left.
Shared(amount, weight) ==
    LET owners == SelectSeq(Order, LAMBDA b : weight[b] > 0)
        total == SumOf(Books, LAMBDA b : weight[b])
        share(k) == Quotient(amount * weight[owners[k]], total)
        given(k) == IF k = Len(owners) THEN amount - SumOf(1 .. k - 1, share) ELSE share(k)
    IN  [b \in Books |-> IF weight[b] > 0 THEN given(CHOOSE k \in DOMAIN owners : owners[k] = b) ELSE 0]

\* What the exchange paid in a market goes to the owners by their lots; in the market the
\* actor trades, and everything else, to the actor.
Paid(pool, acc, m, actor, market) ==
    IF actor # NoBook /\ m = market THEN 0 ELSE acc.premium[m] - pool.seen.premium[m]
\* Fault variant: a trade's cost is nobody's.
Attributed_Paid(pool, acc, actor, market) ==
    [b \in Books |-> pool.claims[b].equity
        + SumOf(Markets, LAMBDA m : Shared(Paid(pool, acc, m, actor, market), [c \in Books |-> Abs(Lots(pool, c, m))])[b])]
Attributed(pool, acc, actor, market) ==
    LET paid == [m \in Markets |-> Shared(Paid(pool, acc, m, actor, market), [b \in Books |-> Abs(Lots(pool, b, m))])]
        explained == SumOf(Markets, LAMBDA m : SumOf(Books, LAMBDA b : paid[m][b]))
        rest == EquityOf(acc) - EquityOf(pool.seen) - explained
    IN  [b \in Books |-> pool.claims[b].equity + SumOf(Markets, LAMBDA m : paid[m][b])
                           + IF b = actor THEN rest ELSE 0]

\* checkpointSharedAccount() does not throw: lots nobody owns, or a claim below zero.
Explained(pool, acc, actor, market) ==
    /\ \A m \in Markets : acc.qty[m] = TotalQty(pool, m) \/ (actor # NoBook /\ m = market)
    /\ \A b \in Books : Attributed(pool, acc, actor, market)[b] >= 0
Checkpointed(pool, acc, actor, market) ==
    [pool EXCEPT !.seen = acc,
                 !.claims = [b \in Books |-> [@[b] EXCEPT !.equity = Attributed(pool, acc, actor, market)[b]]]]

\* refresh(): the accounts a strategy has a claim on, all or none.
Mine(b) == {a \in Known : pools[a].claims[b].known}
Readable(b) == \A a \in Mine(b) : Explained(pools[a], accounts[a], NoBook, None)
Refreshed(b) == [a \in DOMAIN pools |-> IF a \in Mine(b) THEN Checkpointed(pools[a], accounts[a], NoBook, None) ELSE pools[a]]

--------------------------------------------------------------------------------
(* Requests and turns. *)

Job(b) == books[b].job
\* The queue is read between turns.
Submit(b, plan) ==
    /\ turn = NoTurn /\ ~Job(b).open /\ used.requests < RequestLimit
    /\ books' = [books EXCEPT ![b].job = [NoJob EXCEPT !.open = TRUE, !.plan = plan]]
    /\ used' = [used EXCEPT !.requests = @ + 1]
    /\ UNCHANGED <<accounts, pools, turn>>
\* An interruption, a payment of the exchange, or an order that is not filled.
Disturbed == used.troubles < TroubleLimit /\ used' = [used EXCEPT !.troubles = @ + 1]
Begin(b) ==
    /\ turn = NoTurn /\ Job(b).open /\ ~Job(b).stuck /\ turn' = [NoTurn EXCEPT !.book = b, !.phase = "release"]
    /\ UNCHANGED <<accounts, pools, books, used>>
\* A crash, or the wallet cannot pay: the request stays open and is begun again.  A call
\* the node refuses, an order that is too late: it is over.
Interrupt(b) ==
    /\ turn.book = b /\ Disturbed
    /\ turn' = NoTurn /\ UNCHANGED <<accounts, pools>>
    /\ books' = books \/ (turn.step # NoStep /\ books' = [books EXCEPT ![b].job = NoJob])
Over(b) == turn' = NoTurn /\ books' = [books EXCEPT ![b].job = NoJob]

At(b, phase) == turn.book = b /\ turn.phase = phase /\ turn.step = NoStep
Sending(b, labels) == turn.book = b /\ turn.step.label[1] \in labels
Done(b, label) == label \in Job(b).done
\* step(): a call is saved before it is sent, and a saved one is sent as it is.
Call(b, step) ==
    LET old == {s \in Job(b).steps : s.label = step.label} IN
    /\ turn' = [turn EXCEPT !.step = IF old = {} THEN step ELSE CHOOSE s \in old : TRUE]
    /\ books' = IF old = {} THEN [books EXCEPT ![b].job.steps = @ \cup {step}] ELSE books
Applied(b) == [books EXCEPT ![b].job.steps = @ \ {turn.step}, ![b].job.done = @ \cup {turn.step.label}]
Continue == turn' = [turn EXCEPT !.step = NoStep]
\* An effect that cannot be applied: the strategy is not handled any more.
Stuck(b) == turn' = NoTurn /\ books' = [books EXCEPT ![b].job.stuck = TRUE] /\ UNCHANGED pools

--------------------------------------------------------------------------------
(* trade(), for a target of lots. *)

MayTrade(pool, m, b, target) == Compatible(pool, m, b, target)
Trade(b, m, target, label) ==
    LET a == books[b].slots[m]
        now == Refreshed(b)
        owned == Lots(pools[a], b, m)
    IN  /\ UNCHANGED <<accounts, used>>
        /\ IF MayTrade(now[a], m, b, target) /\ ~Done(b, <<label, m>>)
           THEN /\ pools' = now
                /\ Call(b, [label |-> <<label, m>>, account |-> a, amount |-> target - owned,
                            before |-> TotalQty(now[a], m), owned |-> owned,
                            leverage |-> SharedLeverage(now[a], b, m, target)])
           ELSE Over(b) /\ UNCHANGED pools

\* executeDelta(), and what the exchange may do: fill all or nothing, against the free
\* collateral, and settle what it owes.
Traded(acc, step, filled) ==
    LET m == step.label[2]
        after == acc.qty[m] + filled
        deposit == Ceiling(Abs(after) * Price * 100, step.leverage)
    IN  IF filled = 0 THEN acc
        ELSE [acc EXCEPT !.qty[m] = after, !.deposit[m] = deposit, !.premium[m] = 0,
                         !.free = @ + acc.deposit[m] + acc.premium[m] - deposit - TradeCost]
Accepts(acc, step) ==
    LET m == step.label[2] IN
    /\ acc.open /\ acc.qty[m] = step.before
    /\ SameSide(step.before, step.before + step.amount) /\ Traded(acc, step, step.amount).free >= 0
TradeMined(b) ==
    LET step == turn.step
        m == step.label[2]
        a == step.account
        unfilled(filled) == IF filled = 0 THEN Disturbed ELSE UNCHANGED used
    IN  /\ Sending(b, {"flatten", "target"})
        /\ IF Accepts(accounts[a], step)
           THEN \E filled \in {0, step.amount} : unfilled(filled) /\
                    LET acc == Traded(accounts[a], step, filled)
                        read == Checkpointed(pools[a], acc, b, m)
                    IN  /\ accounts' = [accounts EXCEPT ![a] = acc]
                        /\ IF Explained(pools[a], acc, b, m)
                           THEN /\ pools' = [pools EXCEPT ![a] = [read EXCEPT !.claims[b].qty[m] = step.owned + filled]]
                                /\ books' = Applied(b) /\ Continue
                           ELSE Stuck(b)
           ELSE Over(b) /\ UNCHANGED <<accounts, pools, used>>

--------------------------------------------------------------------------------
(* execute(). *)

ToRelease(b) ==
    {m \in Markets : books[b].slots[m] # None /\ Lots(pools[books[b].slots[m]], b, m) # 0
                       /\ (Job(b).plan[m] = 0 \/ ~SameSide(Lots(pools[books[b].slots[m]], b, m), Job(b).plan[m]))}
Release(b) ==
    /\ At(b, "release")
    /\ IF ~Readable(b) THEN Over(b) /\ UNCHANGED <<accounts, pools, used>>
       ELSE IF ToRelease(b) # {} THEN Trade(b, Min(ToRelease(b)), 0, "flatten")
       ELSE /\ turn' = [turn EXCEPT !.phase =
                    IF turn.released \/ \E m \in Markets : Job(b).plan[m] = 0 THEN "recover" ELSE "open"]
            /\ pools' = Refreshed(b) /\ UNCHANGED <<accounts, books, used>>
\* releasedCash is known to the process that released it.
Released(b) ==
    /\ At(b, "release") /\ ToRelease(b) = {} /\ ~turn.released /\ \E m \in Markets : Done(b, <<"flatten", m>>)
    /\ turn' = [turn EXCEPT !.released = TRUE] /\ UNCHANGED <<accounts, pools, books, used>>

\* recover(): the free collateral of every account comes back to the vault.
ToRecover(b) == {a \in Mine(b) : Free(pools[a], b) >= Minimum /\ ~Done(b, <<"recover", a>>)}
Recover(b) ==
    /\ At(b, "recover") /\ UNCHANGED <<accounts, pools, used>>
    /\ IF ToRecover(b) = {} THEN turn' = [turn EXCEPT !.phase = "open"] /\ UNCHANGED books
       ELSE LET a == Min(ToRecover(b)) IN
            Call(b, [NoStep EXCEPT !.label = <<"recover", a>>, !.account = a, !.amount = Free(pools[a], b)])
\* Cash moves between the vault and an account: fundSlot() and recoverSlot().
CashMined(b) ==
    LET step == turn.step
        a == step.account
        delta == IF step.label[1] = "fund" THEN step.amount ELSE -step.amount
        acc == [accounts[a] EXCEPT !.free = @ + delta, !.open = TRUE]
        moved == [pools[a] EXCEPT !.claims[b].equity = @ + delta, !.seen.free = @ + delta]
    IN  /\ Sending(b, {"fund", "recover"}) /\ UNCHANGED used
        /\ IF acc.free >= 0
           THEN /\ accounts' = [accounts EXCEPT ![a] = acc]
                /\ IF Explained(moved, acc, b, None)
                   THEN /\ pools' = [pools EXCEPT ![a] = Checkpointed(moved, acc, b, None)]
                        /\ books' = [Applied(b) EXCEPT ![b].cash = @ - delta] /\ Continue
                   ELSE Stuck(b)
           ELSE Over(b) /\ UNCHANGED <<accounts, pools>>

\* selectSharedAccount(): the present account first, then one it has a claim on.
Candidates(b, m, target) == {a \in Known : Compatible(pools[a], m, b, target)}
Rank(a, b, m) == IF a = books[b].slots[m] THEN 3 ELSE IF pools[a].claims[b].known THEN 2 ELSE 1
Best(b, m, target) ==
    LET found == Candidates(b, m, target) IN {a \in found : \A c \in found : Rank(a, b, m) >= Rank(c, b, m)}
Place(b, m, a, bs) ==
    /\ pools' = [pools EXCEPT ![a].known = TRUE, ![a].claims[b].known = TRUE]
    /\ books' = [bs EXCEPT ![b].slots[m] = a]
    /\ turn' = [turn EXCEPT !.step = NoStep, !.past = @ \cup {<<"placed", m>>}]
\* The markets one after the other.
Past(what, m) == <<what, m>> \in turn.past
ToOpen(b) == {m \in Markets : Job(b).plan[m] # 0 /\ ~Past("opened", m)}
Opening(b, m) == At(b, "open") /\ ToOpen(b) # {} /\ m = Min(ToOpen(b))
Allocate(b, m) ==
    LET best == Best(b, m, Job(b).plan[m])
        index == IF Job(b).created[m] = None THEN Len(accounts) + 1 ELSE Job(b).created[m]
    IN  /\ Opening(b, m) /\ ~Past("placed", m) /\ UNCHANGED <<accounts, used>>
        /\ IF best # {} THEN \E a \in best : Place(b, m, a, books)
           ELSE IF Done(b, <<"create", m>>) THEN Place(b, m, index, books)
           ELSE /\ Len(accounts) < AccountLimit /\ UNCHANGED pools
                /\ turn' = [turn EXCEPT !.step = [NoStep EXCEPT !.label = <<"create", m>>]]
                /\ books' = [books EXCEPT ![b].job.created[m] = index,
                                          ![b].job.steps = @ \cup {[NoStep EXCEPT !.label = <<"create", m>>]}]
\* The account at the index that was saved before it was created.
Created(b, m) ==
    /\ Sending(b, {"create"}) /\ turn.step.label[2] = m /\ Len(accounts) < AccountLimit
    /\ accounts' = Append(accounts, NewAccount)
    /\ Place(b, m, Job(b).created[m], Applied(b)) /\ UNCHANGED used
Fund(b, m) ==
    LET a == books[b].slots[m]
        now == Refreshed(b)
        missing == Funding(now[a], b, m, Job(b).plan[m])
        first == IF now[a].seen.open THEN missing ELSE Larger(missing, FirstMinimum)
        amount == IF first > 0 THEN Larger(first, Minimum) ELSE 0
        funded == [turn EXCEPT !.past = @ \cup {<<"funded", m>>}]
    IN  /\ Opening(b, m) /\ Past("placed", m) /\ ~Past("funded", m) /\ UNCHANGED <<accounts, used>>
        /\ IF ~Readable(b) \/ amount > books[b].cash THEN Over(b) /\ UNCHANGED pools
           ELSE /\ pools' = now
                /\ IF amount = 0 \/ Done(b, <<"fund", m>>) THEN turn' = funded /\ UNCHANGED books
                   ELSE Call(b, [NoStep EXCEPT !.label = <<"fund", m>>, !.account = a, !.amount = amount])
Target(b, m) ==
    /\ Opening(b, m) /\ Past("funded", m)
    /\ IF ~Readable(b) THEN Over(b) /\ UNCHANGED <<accounts, pools, used>>
       ELSE IF Lots(pools[books[b].slots[m]], b, m) = Job(b).plan[m] \/ Done(b, <<"target", m>>)
       THEN /\ turn' = [turn EXCEPT !.past = @ \cup {<<"opened", m>>}]
            /\ pools' = Refreshed(b) /\ UNCHANGED <<accounts, books, used>>
       ELSE Trade(b, m, Job(b).plan[m], "target")
\* What is not filled is another request's business here.
Finish(b) == At(b, "open") /\ ToOpen(b) = {} /\ Over(b) /\ UNCHANGED <<accounts, pools, used>>

\* The exchange pays or takes for an open position (external).
VenuePays ==
    /\ Disturbed
    /\ \E a \in DOMAIN accounts, m \in Markets, p \in Payments :
          accounts[a].qty[m] # 0 /\ accounts' = [accounts EXCEPT ![a].premium[m] = @ + p]
    /\ UNCHANGED <<pools, books, turn>>

Next ==
    \/ VenuePays
    \/ \E b \in Books :
          \/ Begin(b) \/ Interrupt(b) \/ Release(b) \/ Released(b) \/ Recover(b) \/ Finish(b)
          \/ TradeMined(b) \/ CashMined(b)
          \/ \E m \in Markets : Allocate(b, m) \/ Created(b, m) \/ Fund(b, m) \/ Target(b, m)
          \/ \E plan \in Plans : Submit(b, plan)
Spec == Init /\ [][Next]_vars

--------------------------------------------------------------------------------
(* Properties. *)

\* Strategies on two sides of a market are never netted in one account, whichever of them
\* were interrupted while accounts were chosen, created, left and reversed.
SidesApart ==
    \A a \in DOMAIN pools, m \in Markets : \A b, c \in Books : SameSide(Lots(pools[a], b, m), Lots(pools[a], c, m))

\* The claims on an account are worth what the account was worth when it was last read, no
\* claim is negative, and what is shown for a strategy's markets is its claim.
ClaimsAddUp ==
    \A a \in Known :
        /\ SumOf(Books, LAMBDA b : pools[a].claims[b].equity) = EquityOf(pools[a].seen)
        /\ \A b \in Books :
              LET shown == Observed(pools[a], b, books[b].slots, a) IN
              /\ pools[a].claims[b].equity >= 0
              /\ SumOf(DOMAIN shown, LAMBDA k : shown[k].equity) = pools[a].claims[b].equity

\* A position locks what all its owners' limits demand, whoever traded last.
CollateralIsPreserved ==
    \A a \in Known, m \in Markets :
        accounts[a].deposit[m] >= SumOf(Books, LAMBDA b : (Abs(Lots(pools[a], b, m)) * Price * 100) \div Cap[b])
================================================================================
