------------------------------- MODULE PaperFund -------------------------------
(***************************************************************************)
(* One workspace of the paper fund (src/server/service.js).  Providers     *)
(* send signals before a cutoff; the signals are sealed and the book is    *)
(* planned; at the end of the window the book is valued and every provider *)
(* is rated.  Money moves in and out between epochs.  Every request is one *)
(* transaction on the whole state, undone when it throws (store.js).  The  *)
(* forward workspace runs on the clock and is given prices; the demo moves *)
(* its own clock and prices.                                               *)
(***************************************************************************)
EXTENDS Integers, Sequences, FiniteSetsExt

CONSTANTS
    Assets, Bps, ProviderCap, AssetCap, GrossCap, MinProviders, CostBps,   \* the engine's
    Providers, Signals,     \* signals: [Assets -> -Bps .. Bps]
    Prices, FirstPrices,
    Seed,                   \* the paper capital a workspace starts with
    Requests, Amount,       \* transfers of capital, and their size
    Workspaces,             \* among "demo" and "forward"
    Windows,                \* how long an epoch is evaluated
    Pool,                   \* the credits an epoch gives
    LastTime, EpochLimit    \* bounds of the clock and of the epochs

VARIABLES
    state,      \* the workspace's row in the store
    receipts    \* history: [epoch, provider, signal] somebody was given a receipt for

vars == <<state, receipts>>

--------------------------------------------------------------------------------
\* The arithmetic (src/core/engine.js): how the providers' signals become a target, and a
\* book is carried through a change of the prices.  Amounts, weights and returns are
\* integers, the last of Bps parts; what the code rounds to 8 decimals is rounded to them.
\* Orders are not sliced: the slices add up to the order.
Missed == <<>>

Size(n) == IF n < 0 THEN -n ELSE n
Least(a, b) == IF a < b THEN a ELSE b
Most(a, b) == IF a > b THEN a ELSE b
Within(low, n, high) == Most(low, Least(high, n))
Truncated(a, b) == IF a < 0 THEN -((-a) \div b) ELSE a \div b
Nearest(a, b) == (2 * a + b) \div (2 * b)
Total(S, Value(_)) == MapThenSumSet(Value, S)
Gross(weights) == Total(Assets, LAMBDA a : Size(weights[a]))
NoWeights == [a \in Assets |-> 0]

\* One signal per provider of the roster, Missed when there is none.
Given(signals) == {p \in DOMAIN signals : signals[p] # Missed}
WeightedVector(signals, weights) ==
    [a \in Assets |-> Total(Given(signals), LAMBDA p : weights[p] * signals[p][a])]

\* raw is in Bps times Bps.
RiskTarget(raw) ==
    LET clipped == [a \in Assets |-> Truncated(Within(-AssetCap * Bps, raw[a], AssetCap * Bps), Bps)]
        gross == Gross(clipped)
    IN  IF gross <= GrossCap THEN clipped ELSE [a \in Assets |-> Truncated(clipped[a] * GrossCap, gross)]

\* Too few signals: the book keeps what it has.
Ready(signals) == Cardinality(Given(signals)) >= MinProviders
Target(signals, weights, previous) ==
    IF Ready(signals) THEN RiskTarget(WeightedVector(signals, weights)) ELSE previous

\* planExecution(): fees and slippage of moving to the target.
Cost(nav, target, current, rate) ==
    Total(Assets, LAMBDA a : Nearest(Nearest(nav * Size(target[a] - current[a]), Bps) * rate, Bps))

\* simulateBook(): trade to the target at the first prices, mark at the second.
BookOf(book, target, begin, end, next) ==
    LET nav == book.nav
        peak == Most(book.peak, next)
        down == IF peak = 0 THEN 0 ELSE Nearest((next - peak) * Bps, peak)
    IN  [nav |-> next, peak |-> peak, down |-> down, worst |-> Least(book.worst, down),
         weights |-> IF next = 0 THEN NoWeights
                     ELSE [a \in Assets |-> Nearest(nav * target[a] * end[a], begin[a] * next)],
         return |-> IF nav = 0 THEN 0 ELSE Nearest((next - nav) * Bps, nav),
         pnl |-> next - nav]
Simulated(book, target, begin, end, rate) ==
    LET nav == book.nav
        gain == Total(Assets, LAMBDA a : Nearest(nav * target[a] * (end[a] - begin[a]), Bps * begin[a]))
    IN  BookOf(book, target, begin, end, Most(0, nav + gain - Cost(nav, target, book.weights, rate)))
Marked(book, begin, end) == Simulated(book, book.weights, begin, end, 0)

\* evaluateOutcome(): one row per provider, with the book its signal alone would have made
\* and what the fund would have lost without it.
Row(p, signals, weights, book, shadow, begin, end) ==
    LET alone == Simulated(shadow, IF signals[p] = Missed THEN NoWeights
                                   ELSE RiskTarget([a \in Assets |-> signals[p][a] * Bps]), begin, end, CostBps)
        real == Simulated(book, Target(signals, weights, book.weights), begin, end, CostBps)
        without == Simulated(book, RiskTarget(WeightedVector([signals EXCEPT ![p] = Missed], weights)),
                             begin, end, CostBps)
    IN  [missed |-> signals[p] = Missed, return |-> alone.return, down |-> alone.down, shadow |-> alone,
         marginal |-> IF signals[p] # Missed /\ Ready(signals) THEN real.return - without.return ELSE 0]
Credits(rows, pool) ==
    LET positive == Total(DOMAIN rows, LAMBDA p : Most(0, rows[p].marginal))
    IN  [p \in DOMAIN rows |-> IF positive = 0 THEN 0 ELSE (pool * Most(0, rows[p].marginal)) \div positive]

\* chooseWeights(): by the record of every provider in the settled epochs, rows[p] a set of
\* [epoch, missed, evaluated, return, down, marginal].
Mean(rows, Value(_)) == IF rows = {} THEN 0 ELSE Total(rows, Value) \div Cardinality(rows)
Quality(rows) ==
    LET submitted == {r \in rows : ~r.missed}
        numeric == {r \in submitted : r.evaluated}
        net == Within(-(Bps \div 10), Mean(numeric, LAMBDA r : r.return), Bps \div 10)
        marginal == Within(0, Mean(numeric, LAMBDA r : r.marginal), Bps \div 10)
        drawdown == Least(Bps, Max({0} \cup {-r.down : r \in numeric}))
        kept == IF rows = {} THEN Bps ELSE (Bps * Cardinality(submitted)) \div Cardinality(rows)
    IN  Most(Bps \div 20, ((Bps + 20 * net + 40 * marginal) * kept * (Bps - drawdown)) \div (Bps * Bps))
ChosenWeights(rows) ==
    LET quality == [p \in DOMAIN rows |-> Quality(rows[p])]
        budget == Least(Bps, Cardinality(DOMAIN rows) * ProviderCap)
        total == Total(DOMAIN rows, LAMBDA p : quality[p])
    IN  [p \in DOMAIN rows |-> Least(ProviderCap, (budget * quality[p]) \div total)]

--------------------------------------------------------------------------------
NoRoot == <<>>
Book == [nav |-> Seed, peak |-> Seed, worst |-> 0, weights |-> NoWeights, shares |-> Seed,
         deposited |-> Seed, withdrawn |-> 0, marks |-> FirstPrices, history |-> <<>>, flows |-> {}]
Init ==
    /\ \E w \in Workspaces :
          state = [workspace |-> w, now |-> 0, providers |-> {}, epochs |-> <<>>, book |-> Book, shadows |-> <<>>]
    /\ receipts = {}

Demo == state.workspace = "demo"
Epochs == DOMAIN state.epochs

\* Money is locked while an epoch waits for its outcome.
\* Fault variant: only while it takes signals.
Active_Open(s) == {i \in DOMAIN s.epochs : s.epochs[i].status = "open"}
Active(s) == {i \in DOMAIN s.epochs : s.epochs[i].status \in {"open", "awaiting"}}

\* freezeRoot(): the leaves, one per provider of the roster.
Frozen(e) == [e EXCEPT !.root = [p \in DOMAIN e.weights |->
                                     IF p \in DOMAIN e.signals THEN e.signals[p] ELSE Missed]]

\* expireOpen(): an epoch nobody sealed before its end.
Expired(s) ==
    [s EXCEPT !.epochs = [i \in DOMAIN s.epochs |->
        IF s.epochs[i].status = "open" /\ s.now >= s.epochs[i].end
        THEN [Frozen(s.epochs[i]) EXCEPT !.status = "expired"] ELSE s.epochs[i]]]

--------------------------------------------------------------------------------
Register(p) ==
    /\ p \notin state.providers
    /\ state' = [state EXCEPT !.providers = @ \cup {p}]
    /\ UNCHANGED receipts

\* The records of a provider in the epochs that are over.
Record(s, p) ==
    {[epoch |-> i, missed |-> p \notin DOMAIN s.epochs[i].signals, evaluated |-> s.epochs[i].status = "evaluated",
      return |-> s.epochs[i].rows[p].return, down |-> s.epochs[i].rows[p].down,
      marginal |-> s.epochs[i].rows[p].marginal] :
        i \in {k \in DOMAIN s.epochs : s.epochs[k].status \in {"evaluated", "expired"} /\ p \in DOMAIN s.epochs[k].weights}}
NoRow == [missed |-> TRUE, return |-> 0, down |-> 0, marginal |-> 0, credits |-> 0]

CreateEpoch(window) ==
    LET s == Expired(state) IN
    /\ Active(s) = {} /\ s.providers # {} /\ s.book.nav > 0 /\ Len(s.epochs) < EpochLimit
    /\ LET weights == ChosenWeights([p \in s.providers |-> Record(s, p)])
           epoch == [status |-> "open", cutoff |-> s.now + 1, start |-> s.now + 1, end |-> s.now + 1 + window,
                     weights |-> weights, signals |-> <<>>, root |-> NoRoot, begin |-> FirstPrices,
                     previous |-> [nav |-> 0], rows |-> [p \in s.providers |-> NoRow], pnl |-> 0]
       IN  state' = [s EXCEPT !.epochs = Append(@, epoch)]
    /\ UNCHANGED receipts

\* submit(): a receipt for the accepted signal, also when it is sent again.
\* Fault variant: the last signal before the cutoff counts.
Acceptable_Last(e, p, v) == e.status = "open" /\ state.now < e.cutoff
Acceptable(e, p, v) ==
    IF p \in DOMAIN e.signals THEN e.signals[p] = v ELSE e.status = "open" /\ state.now < e.cutoff
Submit(i, p, v) ==
    LET e == state.epochs[i] IN
    /\ p \in DOMAIN e.weights /\ Acceptable(e, p, v)
    /\ state' = [state EXCEPT !.epochs[i].signals = [q \in DOMAIN @ \cup {p} |-> IF q = p THEN v ELSE @[q]]]
    /\ receipts' = receipts \cup {[epoch |-> i, provider |-> p, signal |-> v]}

\* The capital and every provider's own book are carried to the prices of the start.
Carried(book, prices) ==
    LET marked == Marked(book, book.marks, prices) IN
    [book EXCEPT !.nav = marked.nav, !.peak = marked.peak, !.worst = marked.worst, !.weights = marked.weights,
                 !.marks = prices, !.history = IF marked.nav = book.nav THEN @
                                               ELSE Append(@, [type |-> "GAP_MARK", nav |-> marked.nav])]
Seal(i, prices) ==
    LET s == [state EXCEPT !.now = IF Demo THEN Most(@, state.epochs[i].cutoff) ELSE @]
        book == Carried(s.book, prices)
        shadows == [p \in DOMAIN s.shadows |-> Marked(s.shadows[p], s.book.marks, prices)]
    IN  /\ state.epochs[i].status = "open" /\ s.now >= s.epochs[i].cutoff /\ (Demo => prices = s.book.marks)
        /\ IF s.now >= s.epochs[i].end THEN state' = Expired(s)
           ELSE state' = [s EXCEPT !.book = book, !.shadows = shadows,
                    !.epochs[i] = [Frozen(@) EXCEPT !.status = "awaiting", !.start = s.now, !.begin = prices,
                                       !.previous = [nav |-> book.nav, peak |-> book.peak, worst |-> book.worst,
                                                     weights |-> book.weights]]]
        /\ UNCHANGED receipts

\* evaluate(): from the sealed signals and the book as it was when they were sealed.
Fresh == [nav |-> Seed, peak |-> Seed, worst |-> 0, weights |-> NoWeights]
Rated(e, real, rows) ==
    LET credits == Credits(rows, Pool) IN
    [e EXCEPT !.status = "evaluated", !.pnl = real.pnl,
              !.rows = [p \in DOMAIN rows |-> [missed |-> rows[p].missed, return |-> rows[p].return, down |-> rows[p].down,
                                               marginal |-> rows[p].marginal, credits |-> credits[p]]]]
Evaluated(now, i, prices, real, rows) ==
    [state EXCEPT
        !.now = now,
        !.shadows = [p \in DOMAIN rows \cup DOMAIN @ |-> IF p \in DOMAIN rows THEN rows[p].shadow ELSE @[p]],
        !.book = [@ EXCEPT !.nav = real.nav, !.peak = real.peak, !.worst = real.worst,
                           !.weights = real.weights, !.marks = prices,
                           !.history = Append(@, [type |-> "EPOCH", nav |-> real.nav])],
        !.epochs[i] = Rated(@, real, rows)]
Evaluate(i, prices) ==
    LET e == state.epochs[i]
        now == IF Demo THEN Most(state.now, e.end) ELSE state.now
        shadow(p) == IF p \in DOMAIN state.shadows THEN state.shadows[p] ELSE Fresh
    IN  /\ e.status = "awaiting" /\ now >= e.end
        /\ state' = Evaluated(now, i, prices,
                Simulated(e.previous, Target(e.root, e.weights, e.previous.weights), e.begin, prices, CostBps),
                [p \in DOMAIN e.weights |-> Row(p, e.root, e.weights, e.previous, shadow(p), e.begin, prices)])
        /\ UNCHANGED receipts

\* flow(): a request is carried out once; shares are bought and sold at the last value.
Flow(r, sign, amount, shares) ==
    LET s == Expired(state)
        nav == s.book.nav + sign * amount
    IN  /\ r \notin s.book.flows /\ Active(s) = {}
        /\ state' = [s EXCEPT !.book = [@ EXCEPT
               !.nav = nav, !.shares = @ + sign * shares, !.flows = @ \cup {r},
               !.weights = IF nav = 0 THEN NoWeights ELSE @,
               !.peak = IF s.book.nav = 0 THEN nav ELSE Nearest(@ * nav, s.book.nav),
               !.deposited = IF sign = 1 THEN @ + amount ELSE @,
               !.withdrawn = IF sign = 1 THEN @ ELSE @ + amount,
               !.history = Append(@, [type |-> IF sign = 1 THEN "DEPOSIT" ELSE "WITHDRAW", nav |-> nav])]]
        /\ UNCHANGED receipts
Deposit(r) ==
    LET shares == IF state.book.shares = 0 THEN Amount ELSE Nearest(Amount * state.book.shares, state.book.nav) IN
    /\ state.book.shares = 0 \/ state.book.nav > 0
    /\ shares > 0 /\ Flow(r, 1, Amount, shares)
Withdraw(r) ==
    \E shares \in {Amount, state.book.shares} :
        LET amount == Nearest(shares * state.book.nav, state.book.shares) IN
        /\ shares \in 1 .. state.book.shares /\ amount > 0 /\ Flow(r, -1, amount, shares)

\* state(): reading the workspace expires an epoch.
Read == Expired(state) # state /\ state' = Expired(state) /\ UNCHANGED receipts
Tick == ~Demo /\ state.now < LastTime /\ state' = [state EXCEPT !.now = @ + 1] /\ UNCHANGED receipts

Next ==
    \/ \E p \in Providers : Register(p) \/ \E i \in Epochs, v \in Signals : Submit(i, p, v)
    \/ \E w \in Windows : CreateEpoch(w)
    \/ \E i \in Epochs, prices \in Prices : Seal(i, prices) \/ Evaluate(i, prices)
    \/ \E r \in Requests : Deposit(r) \/ Withdraw(r)
    \/ Read \/ Tick

Spec == Init /\ [][Next]_vars

--------------------------------------------------------------------------------
(* Properties. *)

\* The capital is what was paid in and out and what the epochs and the gaps between them
\* made: nothing happens to it between the sealing of an epoch, when its book is copied,
\* and its outcome, which overwrites it.
CapitalIsExplained ==
    LET book == state.book
        before(k) == IF k = 1 THEN Seed ELSE book.history[k - 1].nav
        gaps == {k \in DOMAIN book.history : book.history[k].type = "GAP_MARK"}
    IN  book.nav = book.deposited - book.withdrawn + Total(Epochs, LAMBDA i : state.epochs[i].pnl)
                       + Total(gaps, LAMBDA k : book.history[k].nav - before(k))

\* What somebody has a receipt for is what was sealed and rated for them: a receipt is
\* never for a signal that was replaced, or came too late.
ReceiptsAreSealed ==
    \A r \in receipts : state.epochs[r.epoch].root # NoRoot => state.epochs[r.epoch].root[r.provider] = r.signal
================================================================================
