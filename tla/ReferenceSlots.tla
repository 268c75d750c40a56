---------------------------- MODULE ReferenceSlots ----------------------------
(***************************************************************************)
(* The candidate policy for orders that may be filled in part (protocol/ts *)
(* model.mts, reconcileSlot, with the arithmetic of model.rs): a slot is   *)
(* moved toward a target, the venue fills any part of the order, and the   *)
(* slot counts again only once its outcome was observed, with evidence no  *)
(* older than the order.  The policy has no caller but the tests: they     *)
(* say how its steps follow each other (tests/protocol-v1/model.test.mjs). *)
(* Positions are marked at one quote unit each.                            *)
(***************************************************************************)
EXTENDS Integers, FiniteSets, FiniteSetsExt

CONSTANTS
    Slots,         \* the markets of a note
    Targets,       \* bound: what a slot may be moved to
    Equity,        \* the account's equity, in quote units
    Limit,         \* leverage limit: gross at most Limit times the equity
    Share,         \* bps a fallback must give up
    Bps,           \* 10000
    OrderLimit     \* bound: orders sent

VARIABLES
    slots,    \* slot -> [qty: as last observed, busy, and its order: before, delta, required, fallback]
    held,     \* slot -> its position at the venue
    index,    \* evidence index of the last order
    seen,     \* slot -> evidence that may be presented: [qty, at], set
    reduced   \* slots whose last fallback was found done: slot -> [before, after] or None

vars == <<slots, held, index, seen, reduced>>

None == [none |-> TRUE]
Idle(qty) == [qty |-> qty, busy |-> FALSE, before |-> qty, delta |-> 0, required |-> 0, fallback |-> 0]
Abs(x) == IF x < 0 THEN -x ELSE x

Init ==
    /\ slots = [s \in Slots |-> Idle(0)]
    /\ held = [s \in Slots |-> 0]
    /\ index = 0
    /\ seen = [s \in Slots |-> {[qty |-> 0, at |-> 0]}]
    /\ reduced = [s \in Slots |-> None]

Reduction(position, delta) == Abs(position + delta) <= Abs(position) /\ (position + delta) * position >= 0
\* Rounded down.
MinimumReduction_Floor(position) == (Abs(position) * Share) \div Bps
MinimumReduction(position) == (Abs(position) * Share + Bps - 1) \div Bps

Gross(qty) == MapThenSumSet(LAMBDA s: Abs(qty[s]), Slots)
WithinLeverage(qty) == Gross(qty) <= Equity * Limit

\* A slot with an outcome that is not known counts as if its order was filled (the draft).
Counted_Projected(s) == TRUE
\* "authenticated outcome required"
Counted(s) == ~slots[s].busy

\* An order toward the target; leverage is looked at with every slot's observed position.
Send(s, target, fallback) ==
    LET d == target - slots[s].qty IN
    /\ index < OrderLimit /\ ~slots[s].busy /\ d # 0
    /\ \A t \in Slots: Counted(t)
    /\ IF fallback THEN Reduction(slots[s].qty, d)
       ELSE WithinLeverage([t \in Slots |-> IF t = s THEN target ELSE slots[t].qty + slots[t].delta])
    /\ index' = index + 1
    /\ slots' = [slots EXCEPT ![s] = [qty |-> @.qty, busy |-> TRUE, before |-> @.qty, delta |-> d, required |-> index',
                                      fallback |-> IF fallback THEN MinimumReduction(@.qty) ELSE 0]]
    /\ UNCHANGED <<held, seen, reduced>>

\* IOC: any part of the order, at once, and evidence of the outcome.
Fill(s, f) ==
    /\ slots[s].busy /\ ~\E e \in seen[s]: e.at >= slots[s].required
    /\ f * slots[s].delta >= 0 /\ Abs(f) <= Abs(slots[s].delta)
    /\ held' = [held EXCEPT ![s] = @ + f]
    /\ seen' = [seen EXCEPT ![s] = @ \cup {[qty |-> held'[s], at |-> slots[s].required]}]
    /\ UNCHANGED <<slots, index, reduced>>

\* Evidence of any age is taken.
Fresh_Any(s, e) == TRUE
Fresh(s, e) == e.at >= slots[s].required
Reconcile(s) ==
    /\ slots[s].busy
    /\ \E e \in seen[s]:
        /\ Fresh(s, e)
        /\ reduced' = [reduced EXCEPT ![s] =
            IF /\ slots[s].fallback > 0
               /\ Reduction(slots[s].before, e.qty - slots[s].before)
               /\ Abs(slots[s].before) - Abs(e.qty) >= slots[s].fallback
            THEN [before |-> slots[s].before, after |-> held[s]] ELSE None]
        /\ slots' = [slots EXCEPT ![s] = Idle(e.qty)]
        /\ seen' = [seen EXCEPT ![s] = {e}]
    /\ UNCHANGED <<held, index>>

Next ==
    \E s \in Slots:
        \/ \E target \in Targets, fallback \in BOOLEAN: Send(s, target, fallback)
        \/ \E f \in {a - b: a, b \in Targets}: Fill(s, f)
        \/ Reconcile(s)

--------------------------------------------------------------------------------
\* However the orders were filled, what the venue holds is within the leverage limit
\* (test S1: a projected position accepts a second order over it).
HeldWithinLimit == WithinLeverage(held)

\* A fallback found done gave up its share of the position, rounded up, without turning it
\* (reconcileSlot: fallbackDone).
FallbacksReduce ==
    \A s \in Slots: reduced[s] # None =>
        /\ Reduction(reduced[s].before, reduced[s].after - reduced[s].before)
        /\ (Abs(reduced[s].before) - Abs(reduced[s].after)) * Bps >= Abs(reduced[s].before) * Share
================================================================================
