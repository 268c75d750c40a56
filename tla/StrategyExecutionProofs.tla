------------------------ MODULE StrategyExecutionProofs ------------------------
(***************************************************************************)
(* The inductive invariant of StrategyExecution, of which its type         *)
(* invariant, FinishedIsSettled, NothingForgotten and the vault's part of  *)
(* BooksReconcile are parts. The parts about the sealed file take the      *)
(* file, the records and what was mined as arguments, so that they can be  *)
(* stated of a file that is still being changed.                           *)
(*                                                                         *)
(* Then what the invariant says of the file, of the place in the tick and  *)
(* of the steps of one tick that do not yet belong to one job (how an      *)
(* error, a call and a reading change the file), and that the steps of a   *)
(* strategy's jobs keep the invariant: requests, the risk exit,            *)
(* settlements of redemptions and fee payments.                            *)
(*                                                                         *)
(* Then that the submitter, the effects of confirmed steps, the recovery,  *)
(* the troubles and the chain keep it; so does every step. The claims on   *)
(* the shared account add up as well. The theorems are at the end of the   *)
(* invariant's part and of the claims' part.                               *)
(***************************************************************************)
EXTENDS StrategyExecution, SumTheorems, TLAPS


\* A step whose outcome may still change the books.
Unsettled(s, rec, x) == rec[x] = "signed" \/ (rec[x] = "ok" /\ s.steps[x].st # "applied")

\* One transaction is in flight, records agree with the chain, only a saved step has a
\* record, and only a mined one is applied.
RecordsOK(s, rec, m) ==
    /\ \A x, y \in StepIds : rec[x] = "signed" /\ rec[y] = "signed" => x = y
    /\ \A x \in StepIds :
          /\ rec[x] \in Outcomes => m[x] = rec[x]
          /\ rec[x] = "absent" => m[x] = "no"
          /\ s.steps[x].st = "none" => rec[x] = "absent"
          /\ s.steps[x].st = "applied" => rec[x] = "ok"

\* A strategy has one open request.
BeingServed == {"QUEUED", "EXECUTING"}
RequestsOK(s) ==
    \A r, q \in Requests :
        /\ RequestBook[r] = RequestBook[q]
        /\ s.requests[r].status \in BeingServed /\ s.requests[q].status \in BeingServed
        => r = q

\* A settlement lists redemptions of its strategy that are being settled or, once they are
\* priced, paid.
SettlementOK(s) ==
    \A b \in Books :
        LET x == s.books[b].settlement
        IN  /\ x.attempt <= Tries
            /\ \A w \in x.ids : /\ WithdrawalBook[w] = b
                                /\ s.withdrawals[w].status \in {"SETTLING", "PAID"}
                                /\ ~x.priced => s.withdrawals[w].status = "SETTLING"

\* Open redemptions do not ask for more units than there are.
OpenOf(s, b) == {w \in Withdrawals : WithdrawalBook[w] = b /\ s.withdrawals[w].status \in {"REQUESTED", "SETTLING"}}
UnitsOK(s) == \A b \in Books : SumFunctionOnSet(Units, OpenOf(s, b)) <= s.books[b].units

FinishedOK(s, rec) ==
    \A x \in StepIds : Kind(x) \in RequestKinds /\ s.requests[Job(x)].status \in Finished =>
        ~Unsettled(s, rec, x)
ForgottenOK(s, rec) ==
    \A x \in StepIds : rec[x] \in {"signed", "ok"} /\ s.steps[x].st = "saved" => Current(s, x)
\* A payout that is not settled is for a priced redemption that waits for it.
Payable(s, w) == s.withdrawals[w].status = "SETTLING" /\ s.books[WithdrawalBook[w]].settlement.priced
PayOK(s, rec) == \A x \in StepIds : Kind(x) = "pay" /\ Unsettled(s, rec, x) => Payable(s, Job(x))

\* Fee payments are made one after the other, of an amount that is due.
FeeOK(s) ==
    /\ \A x \in StepIds : Kind(x) = "fee" =>
          LET k == s.books[Job(x)]
          IN  /\ Attempt(x) > k.feeTry => s.steps[x].st = "none"
              /\ s.steps[x].st = "saved" => /\ Attempt(x) = k.feeTry /\ k.feeAmount > 0
                                            /\ s.steps[x].amount = k.feeAmount /\ k.feeAmount <= k.fees
    /\ \A b \in Books : s.books[b].feeAmount > 0 =>
          /\ s.books[b].feeTry \in 1 .. Tries
          /\ s.steps[<<"fee", b, s.books[b].feeTry>>].st # "none"

\* What the divisions divide by, and what keeps the lots of a strategy from going below zero.
NumbersOK(s) ==
    /\ s.pool.checkpoint.free \in Nat /\ s.pool.checkpoint.price \in Nat \ {0}
    /\ \A b \in Books : s.books[b].riskTry <= Tries
    /\ \A x \in StepIds : LET p == s.steps[x] IN
          /\ Kind(x) \notin TradeKinds => p.amount \in Nat
          /\ Kind(x) \in TradeKinds => p.owned <= p.before /\ p.owned + p.amount >= 0

\* The vault holds what the strategies hold, up to the transactions that are mined and
\* not applied.
Held(s) == [b \in Books |-> s.books[b].pending + s.books[b].cash + s.books[b].credited]
Amounts(s) == [x \in StepIds |-> s.steps[x].amount]
OutKinds == {"pay", "fee", "fund"}
InKinds == {"back", "collect"}
UnappliedOf(s, m, kinds) == {x \in StepIds : Kind(x) \in kinds /\ m[x] = "ok" /\ s.steps[x].st # "applied"}
VaultOK(s, m, v) ==
    /\ IsFiniteSet(UnappliedOf(s, m, OutKinds)) /\ IsFiniteSet(UnappliedOf(s, m, InKinds))
    /\ v + SumFunctionOnSet(Amounts(s), UnappliedOf(s, m, OutKinds))
          = SumFunctionOnSet(Held(s), Books) + SumFunctionOnSet(Amounts(s), UnappliedOf(s, m, InKinds))

FileOK(s, rec, m, v) ==
    /\ s \in State
    /\ RecordsOK(s, rec, m) /\ RequestsOK(s) /\ SettlementOK(s) /\ UnitsOK(s)
    /\ FinishedOK(s, rec) /\ ForgottenOK(s, rec) /\ PayOK(s, rec) /\ FeeOK(s)
    /\ NumbersOK(s) /\ VaultOK(s, m, v)

--------------------------------------------------------------------------------
\* The chain, and the readings a step that is not applied waits with.
ChainOK ==
    /\ StepsTypeOK /\ receipt \in [StepIds -> Snapshot] /\ vault \in Nat
    /\ account \in Snapshot /\ account.free >= 0 /\ account.price > 0
    /\ \A x \in StepIds :
          /\ receipt[x].free >= 0
          /\ Kind(x) \in ReadingKinds /\ mined[x] = "ok" /\ saved.steps[x].st # "applied" => receipt[x].price > 0

OthersOK ==
    /\ matured \subseteq Withdrawals /\ cutoffs \in Nat
    /\ late \in [requests : SUBSET Requests, risk : SUBSET Books, settle : SUBSET Books]
    /\ trouble \in [TroubleKinds -> Nat] /\ \A k \in TroubleKinds : trouble[k] <= Limits[k]

--------------------------------------------------------------------------------
\* Where the tick is: p, td, bk and c stand for pc, todo, book and cur.
Outside == {"idle", "sync", "ready"}
Calls == {"submit", "await", "apply"}
Coming(td) == {td[i] : i \in DOMAIN td}
LocationOK(p, td, bk, c) ==
    /\ p \in Locations /\ td \in Seq(Books) /\ IsInjective(td)
    /\ bk \in Books \cup {NoBook} /\ c \in StepIds \cup {NoStep}
    /\ p \in {"idle", "sync"} => td = <<>>
    /\ p = "ready" => td # <<>>
    /\ p \in Outside => bk = NoBook
    /\ p \notin Outside => bk \in Books /\ bk \notin Coming(td)
    /\ p \in Calls => c \in StepIds

\* The code around a request catches what is thrown.
Serves(p, c) == IF p \in Calls THEN Kind(c) \in RequestKinds ELSE p \in RequestLocations

\* No section begins while a transaction of its strategy is in flight, and after its
\* recovery nothing of the strategy is unsettled but the step at hand, or a request's step
\* whose request was given up in this section.
SectionOK(s, rec, p, td, bk, c) ==
    /\ \A x \in StepIds : rec[x] = "signed" => BookOf(x) \notin Coming(td)
    /\ p = "recover" => \A x \in StepIds : BookOf(x) = bk => rec[x] # "signed"
    /\ p \notin Outside \cup {"recover"} =>
          \A x \in StepIds : BookOf(x) = bk /\ Unsettled(s, rec, x) =>
              \/ x = c /\ p \in {"await", "apply"}
              \/ Kind(x) \in RequestKinds /\ ~Serves(p, c)

\* The step at hand is saved and belongs to an open job of the strategy.
Wanted(s, x) ==
    /\ Kind(x) \in RequestKinds => s.requests[Job(x)].status \in BeingServed
    /\ Kind(x) = "pay" => s.withdrawals[Job(x)].status = "SETTLING"
CallOK(s, rec, p, bk, c) ==
    p \in Calls =>
        /\ BookOf(c) = bk /\ s.steps[c].st = "saved" /\ Current(s, c) /\ Wanted(s, c)
        /\ p = "submit" => rec[c] \in {"absent", "reverted"}
        /\ p = "await" => rec[c] = "signed"
        /\ p = "apply" => rec[c] = "ok"

\* A request that is worked on has a plan, and a settlement is there as long as the code
\* works on it.
Reached(s, p, bk) ==
    /\ p \in {"close", "closed", "collect", "price"} =>
          LET x == s.books[bk].settlement IN x.ids # {} /\ ~x.priced /\ x.attempt > 0
    /\ p = "pay" => s.books[bk].settlement.priced
    /\ p \in RequestLocations \ {"orders"} => \A r \in OpenRequests(s, bk) : s.requests[r].plan # NoPlan
FeeBooked(s, p, bk) ==
    p = "feePaid" => LET k == s.books[bk] IN
        k.feeTry \in 1 .. Tries /\ s.steps[<<"fee", bk, k.feeTry>>].st = "applied"
Phase(p, c) == IF p \in Calls THEN After[Kind(c)] ELSE p

ControlOK(s, rec, p, td, bk, c) ==
    /\ LocationOK(p, td, bk, c) /\ SectionOK(s, rec, p, td, bk, c) /\ CallOK(s, rec, p, bk, c)
    /\ Reached(s, Phase(p, c), bk) /\ FeeBooked(s, p, bk)

IInv ==
    /\ FileOK(saved, record, mined, vault) /\ ChainOK /\ OthersOK
    /\ ControlOK(saved, record, pc, todo, book, cur)

--------------------------------------------------------------------------------
\* What a step id consists of.
LEMMA StepParts ==
    ASSUME NEW x \in StepIds
    PROVE  /\ Kind(x) \in RequestKinds => Job(x) \in Requests /\ BookOf(x) = RequestBook[Job(x)]
           /\ Kind(x) = "pay" => Job(x) \in Withdrawals /\ BookOf(x) = WithdrawalBook[Job(x)]
           /\ Kind(x) \in {"risk", "close", "collect", "fee"} =>
                 Job(x) \in Books /\ BookOf(x) = Job(x) /\ Attempt(x) \in 1 .. Tries
           /\ Kind(x) \in RequestKinds \cup {"risk", "close", "collect", "fee", "pay"}
           /\ BookOf(x) \in Books
<1>1. CASE x \in {"flatten", "target"} \X Requests \X (0 .. Tries)
  BY <1>1, RequestsAssumption DEF Kind, Job, Attempt, BookOf, RequestKinds
<1>2. CASE x \in {"back", "fund"} \X Requests \X {0}
  BY <1>2, RequestsAssumption DEF Kind, Job, Attempt, BookOf, RequestKinds
<1>3. CASE x \in {"risk", "close", "collect", "fee"} \X Books \X (1 .. Tries)
  BY <1>3 DEF Kind, Job, Attempt, BookOf, RequestKinds
<1>4. CASE x \in {"pay"} \X Withdrawals \X {0}
  BY <1>4, WithdrawalsAssumption DEF Kind, Job, Attempt, BookOf, RequestKinds
<1> QED BY <1>1, <1>2, <1>3, <1>4 DEF StepIds

\* Steps of one kind, job and attempt are the same.
LEMMA StepSame ==
    ASSUME NEW x \in StepIds, NEW y \in StepIds, Kind(x) = Kind(y), Job(x) = Job(y),
           Kind(x) \in {"flatten", "target", "risk", "close", "collect", "fee"} => Attempt(x) = Attempt(y)
    PROVE  x = y
<1>1. CASE x \in {"flatten", "target"} \X Requests \X (0 .. Tries)
  <2>1. y \in {"flatten", "target"} \X Requests \X (0 .. Tries)
    BY <1>1 DEF StepIds, Kind
  <2> QED BY <1>1, <2>1 DEF Kind, Job, Attempt
<1>2. CASE x \in {"back", "fund"} \X Requests \X {0}
  <2>1. y \in {"back", "fund"} \X Requests \X {0}
    BY <1>2 DEF StepIds, Kind
  <2> QED BY <1>2, <2>1 DEF Kind, Job, Attempt
<1>3. CASE x \in {"risk", "close", "collect", "fee"} \X Books \X (1 .. Tries)
  <2>1. y \in {"risk", "close", "collect", "fee"} \X Books \X (1 .. Tries)
    BY <1>3 DEF StepIds, Kind
  <2> QED BY <1>3, <2>1 DEF Kind, Job, Attempt
<1>4. CASE x \in {"pay"} \X Withdrawals \X {0}
  <2>1. y \in {"pay"} \X Withdrawals \X {0}
    BY <1>4 DEF StepIds, Kind
  <2> QED BY <1>4, <2>1 DEF Kind, Job, Attempt
<1> QED BY <1>1, <1>2, <1>3, <1>4 DEF StepIds

\* The ids the operator makes up.
LEMMA RequestStep ==
    ASSUME NEW r \in Requests, NEW n \in 0 .. Tries, NEW kind \in {"flatten", "target"}
    PROVE  LET x == <<kind, r, n>>
           IN  x \in StepIds /\ Kind(x) = kind /\ Job(x) = r /\ Attempt(x) = n /\ BookOf(x) = RequestBook[r]
BY DEF StepIds, Kind, Job, Attempt, BookOf, RequestKinds

\* The ids of a request's transfers.
LEMMA CashStep ==
    ASSUME NEW r \in Requests, NEW kind \in {"back", "fund"}
    PROVE  LET x == <<kind, r, 0>>
           IN  x \in StepIds /\ Kind(x) = kind /\ Job(x) = r /\ BookOf(x) = RequestBook[r]
BY DEF StepIds, Kind, Job, Attempt, BookOf, RequestKinds

\* The ids of the steps of a strategy's own jobs.
LEMMA BookStep ==
    ASSUME NEW b \in Books, NEW n \in 1 .. Tries, NEW kind \in {"risk", "close", "collect", "fee"}
    PROVE  LET x == <<kind, b, n>>
           IN  x \in StepIds /\ Kind(x) = kind /\ Job(x) = b /\ Attempt(x) = n /\ BookOf(x) = b
BY DEF StepIds, Kind, Job, Attempt, BookOf, RequestKinds

\* The id of a payout.
LEMMA PayStep ==
    ASSUME NEW w \in Withdrawals
    PROVE  LET x == <<"pay", w, 0>>
           IN  x \in StepIds /\ Kind(x) = "pay" /\ Job(x) = w /\ BookOf(x) = WithdrawalBook[w]
BY DEF StepIds, Kind, Job, Attempt, BookOf, RequestKinds

\* Where the code goes on after a step of each kind.
LEMMA AfterKinds ==
    ASSUME NEW x \in StepIds
    PROVE  /\ Kind(x) = "flatten" => After[Kind(x)] = "flattened"
           /\ Kind(x) = "back" => After[Kind(x)] = "check"
           /\ Kind(x) = "fund" => After[Kind(x)] = "trade"
           /\ Kind(x) = "target" => After[Kind(x)] = "check"
           /\ Kind(x) = "risk" => After[Kind(x)] = "flat"
           /\ Kind(x) = "close" => After[Kind(x)] = "closed"
           /\ Kind(x) = "collect" => After[Kind(x)] = "price"
           /\ Kind(x) = "pay" => After[Kind(x)] = "pay"
           /\ Kind(x) = "fee" => After[Kind(x)] = "feePaid"
BY DEF After

\* What the invariant is about is the same, and fees and units have not become fewer.
AlikeBook(n, k) ==
    /\ k.settlement.ids = n.settlement.ids /\ k.settlement.attempt = n.settlement.attempt
    /\ k.settlement.priced = n.settlement.priced
    /\ k.riskTry = n.riskTry /\ k.feeTry = n.feeTry /\ k.feeAmount = n.feeAmount
    /\ n.fees <= k.fees /\ n.units <= k.units
    /\ k.pending + k.cash + k.credited = n.pending + n.cash + n.credited

\* The same, for a whole file.
Alike(s, t) ==
    /\ t.steps = s.steps
    /\ \A r \in Requests : t.requests[r].status = s.requests[r].status
    /\ \A r \in Requests : s.requests[r].plan # NoPlan => t.requests[r].plan # NoPlan
    /\ \A w \in Withdrawals : t.withdrawals[w].status = s.withdrawals[w].status
    /\ \A b \in Books : AlikeBook(s.books[b], t.books[b])
Priced(s) == s.pool.checkpoint.free \in Nat /\ s.pool.checkpoint.price \in Nat \ {0}
Kept(s, t) == t \in State /\ Alike(s, t) /\ Priced(t)

\* Two changes that keep what matters keep it together.
LEMMA KeptTwice ==
    ASSUME NEW s \in State, NEW t, NEW u, Kept(s, t), Kept(t, u)
    PROVE  Kept(s, u)
<1>1. ASSUME NEW b \in Books PROVE AlikeBook(s.books[b], u.books[b])
  <2>1. AlikeBook(s.books[b], t.books[b]) /\ AlikeBook(t.books[b], u.books[b])
    BY DEF Kept, Alike
  <2>2. s.books[b] \in Book /\ t.books[b] \in Book /\ u.books[b] \in Book
    BY DEF Kept, State
  <2> QED BY <2>1, <2>2 DEF AlikeBook, Book
<1>2. Alike(s, u)
  BY <1>1 DEF Kept, Alike
<1> QED BY <1>2 DEF Kept

\* A file is like itself.
LEMMA AlikeItself == ASSUME NEW s \in State PROVE Alike(s, s)
<1>1. ASSUME NEW b \in Books PROVE AlikeBook(s.books[b], s.books[b])
  <2>1. s.books[b] \in Book
    BY DEF State
  <2> QED BY <2>1 DEF AlikeBook, Book
<1> QED BY <1>1 DEF Alike

--------------------------------------------------------------------------------
(* The shared account. *)

\* The lots of all strategies are a natural number, and no strategy owns more.
LEMMA PoolSums ==
    ASSUME NEW pool \in Pool
    PROVE  TotalLots(pool) \in Nat /\ \A b \in Books : pool.lots[b] <= TotalLots(pool)
<1>1. \A b \in Books : pool.lots[b] \in Nat
  BY DEF Pool
<1>2. TotalLots(pool) \in Nat
  BY <1>1, BooksAssumption, SumGrows DEF TotalLots
<1>3. ASSUME NEW b \in Books PROVE pool.lots[b] <= TotalLots(pool)
  <2>1. SumFunctionOnSet(pool.lots, Books \ {b}) \in Nat
    BY <1>1, BooksAssumption, SumGrows
  <2>2. SumFunctionOnSet(pool.lots, Books) = pool.lots[b] + SumFunctionOnSet(pool.lots, Books \ {b})
    BY <1>1, BooksAssumption, SumTake
  <2> QED BY <1>1, <2>1, <2>2 DEF TotalLots
<1> QED BY <1>2, <1>3

\* What checkpointSharedAccount() leaves is a pool with the reading as its
\* checkpoint.
LEMMA CheckpointedTyped ==
    ASSUME NEW pool \in Pool, NEW snap \in Snapshot, NEW actor
    PROVE  LET new == Checkpointed(pool, snap, actor)
           IN  /\ new \in Pool /\ new.checkpoint.free = snap.free /\ new.checkpoint.price = snap.price
               /\ new.lots = pool.lots /\ new.members = pool.members /\ new.checkpoint.qty = snap.qty
<1>1. /\ pool.equity \in [Books -> Int] /\ pool.lots \in [Books -> Nat] /\ pool.members \subseteq Books
      /\ pool.checkpoint.equity \in Int /\ pool.checkpoint.price \in Nat
  BY DEF Pool
<1>2. snap.free \in Int /\ snap.qty \in Nat /\ snap.price \in Nat
  BY DEF Snapshot
<1>3. EquityAt(snap) \in Int
  BY <1>2 DEF EquityAt
<1>4. Remainder(pool, snap) \in Int
  <2>1. TotalLots(pool) * (snap.price - pool.checkpoint.price) \in Int
    BY <1>1, <1>2, PoolSums
  <2> QED BY <1>1, <1>3, <2>1 DEF Remainder
<1>5. Attributed(pool, snap, actor) \in [Books -> Int]
  <2>1. ASSUME NEW b \in Books
        PROVE  pool.equity[b] + pool.lots[b] * (snap.price - pool.checkpoint.price) \in Int
    BY <1>1, <1>2
  <2> QED BY <1>4, <2>1 DEF Attributed
<1> QED BY <1>1, <1>2, <1>3, <1>5 DEF Checkpointed, Pool

\* A transfer leaves a pool.
LEMMA MovedTyped ==
    ASSUME NEW pool \in Pool, NEW b \in Books, NEW delta \in Int
    PROVE  Moved(pool, b, delta) \in Pool
<1> DEFINE Reading == [equity : Int, free : Int, qty : Nat, price : Nat]
           c == [pool.checkpoint EXCEPT !.equity = @ + delta]
           d == [c EXCEPT !.free = @ + delta]
           e == [pool.equity EXCEPT ![b] = @ + delta]
<1>1. /\ pool.equity \in [Books -> Int] /\ pool.checkpoint \in Reading
  BY DEF Pool
<1>2. c \in Reading /\ c.free = pool.checkpoint.free
  BY <1>1
<1>3. d \in Reading
  <2> HIDE DEF c
  <2> QED BY <1>2
<1>4. e \in [Books -> Int]
  BY <1>1
<1>5. Moved(pool, b, delta) = [[pool EXCEPT !.equity = e] EXCEPT !.checkpoint = d]
  BY <1>2 DEF Moved, Pool
<1>6. [pool EXCEPT !.equity = e] \in Pool
  <2> HIDE DEF e
  <2> QED BY <1>4 DEF Pool
<1> HIDE DEF e, d
<1> QED BY <1>3, <1>5, <1>6 DEF Pool

\* What a strategy could take out is a natural number.
LEMMA SpareTyped ==
    ASSUME NEW pool \in Pool, NEW b \in Books
    PROVE  Spare(pool, b) \in Nat
<1>1. Margin(pool.lots[b], pool.checkpoint.price) \in Int
  BY CostAssumption DEF Margin, Pool
<1> QED BY <1>1 DEF Spare, Larger, Pool

\* So is its part of what is there, when the checkpoint has collateral.
LEMMA FreeTyped ==
    ASSUME NEW pool \in Pool, pool.checkpoint.free \in Nat, NEW b \in Books
    PROVE  Free(pool, b) \in Nat
<1> DEFINE f == [c \in Books |-> Spare(pool, c)]
           total == SumFunctionOnSet(f, Books)
<1>1. \A c \in Books : f[c] \in Nat
  BY SpareTyped
<1>2. total \in Nat
  <2> HIDE DEF f
  <2> QED BY <1>1, BooksAssumption, SumGrows
<1>3. Spare(pool, b) * pool.checkpoint.free \in Nat
  BY SpareTyped
<1>4. total > pool.checkpoint.free => (Spare(pool, b) * pool.checkpoint.free) \div total \in Nat
  BY <1>2, <1>3
<1> QED BY <1>4, SpareTyped DEF Free

\* So is what it must add.
LEMMA FundingTyped ==
    ASSUME NEW pool \in Pool, NEW b \in Books, NEW target \in Nat
    PROVE  Funding(pool, b, target) \in Nat
<1>1. Margin(target, pool.checkpoint.price) \in Int
  BY CostAssumption DEF Margin, Pool
<1> QED BY <1>1 DEF Funding, Larger, Pool

--------------------------------------------------------------------------------
(* Reading the account. *)

AccountOK == account \in Snapshot /\ account.free >= 0 /\ account.price > 0

\* A strategy's equity is an integer.
LEMMA EquityTyped ==
    ASSUME NEW s \in State, NEW b \in Books
    PROVE  Equity(s, b) \in Int
BY DEF Equity, State, Book, Pool

\* refresh() changes the claims and the checkpoint, no job and no lots.
LEMMA RefreshedKept ==
    ASSUME NEW s \in State, NEW b \in Books, Priced(s), AccountOK
    PROVE  LET t == Refreshed(s, b)
           IN  /\ Kept(s, t) /\ t.books = s.books /\ t.requests = s.requests /\ t.withdrawals = s.withdrawals
               /\ t.pool.lots = s.pool.lots
<1>1. CASE ~ Member(s, b)
  <2> QED BY <1>1, AlikeItself DEF Refreshed, Kept, Priced
<1>2. CASE Member(s, b)
  <2> DEFINE new == Checkpointed(s.pool, account, NoBook)
             t == [s EXCEPT !.pool = new]
  <2>1. /\ new \in Pool /\ new.checkpoint.free = account.free /\ new.checkpoint.price = account.price
        /\ new.lots = s.pool.lots
    BY CheckpointedTyped DEF State, AccountOK
  <2>2. t \in State /\ t.pool = new
    <3> HIDE DEF new
    <3> QED BY <2>1 DEF State
  <2>3. t.steps = s.steps /\ t.books = s.books /\ t.requests = s.requests /\ t.withdrawals = s.withdrawals
    BY DEF State
  <2>4. Refreshed(s, b) = t
    BY <1>2 DEF Refreshed
  <2> HIDE DEF t, new
  <2>5. Alike(s, t)
    <3>1. Alike(s, s)
      BY AlikeItself
    <3> QED BY <2>3, <3>1 DEF Alike
  <2>6. Priced(t)
    BY <2>1, <2>2 DEF Priced, AccountOK, Snapshot
  <2> QED BY <2>1, <2>2, <2>3, <2>4, <2>5, <2>6 DEF Kept
<1> QED BY <1>1, <1>2

\* A file that differs in one strategy's entry only.
OnlyBook(s, t, b) ==
    /\ t \in State /\ t.steps = s.steps /\ t.requests = s.requests /\ t.withdrawals = s.withdrawals
    /\ t.pool = s.pool /\ \A c \in Books \ {b} : t.books[c] = s.books[c]

\* A change of one strategy's books that leaves its jobs alone keeps what matters.
LEMMA BookKept ==
    ASSUME NEW s \in State, NEW b \in Books, NEW t, Priced(s), OnlyBook(s, t, b),
           AlikeBook(s.books[b], t.books[b])
    PROVE  Kept(s, t)
<1>1. Alike(s, s)
  BY AlikeItself
<1>3. Alike(s, t)
  BY <1>1 DEF Alike, OnlyBook
<1>4. Priced(t)
  BY DEF Priced, OnlyBook
<1> QED BY <1>3, <1>4 DEF Kept, OnlyBook

\* A change of a strategy's status keeps what matters.
LEMMA StatusKept ==
    ASSUME NEW s \in State, NEW b \in Books, NEW status \in {"ACTIVE", "RISK_EXIT", "HALTED"}, Priced(s),
           NEW t, t = [s EXCEPT !.books[b].status = status]
    PROVE  OnlyBook(s, t, b) /\ Kept(s, t) /\ t.books[b].status = status
<1> DEFINE n == s.books[b]
           k == [n EXCEPT !.status = status]
<1>1. t = [s EXCEPT !.books[b] = k]
  OBVIOUS
<1>2. n \in Book
  BY DEF State
<1> HIDE DEF n
<1>3. /\ k \in Book /\ k.status = status /\ k.settlement = n.settlement /\ k.riskTry = n.riskTry
      /\ k.feeTry = n.feeTry /\ k.feeAmount = n.feeAmount /\ k.fees = n.fees /\ k.units = n.units
      /\ k.pending = n.pending /\ k.cash = n.cash /\ k.credited = n.credited
  BY <1>2 DEF Book
<1>4. n.fees \in Nat /\ n.units \in Nat
  BY <1>2 DEF Book
<1> HIDE DEF k
<1>5. OnlyBook(s, t, b) /\ t.books[b] = k
  BY <1>1, <1>3 DEF OnlyBook, State
<1>6. n = s.books[b]
  BY DEF n
<1>7. AlikeBook(n, k)
  BY <1>3, <1>4 DEF AlikeBook
<1>8. Kept(s, t)
  BY <1>5, <1>6, <1>7, BookKept
<1> QED BY <1>3, <1>5, <1>8

\* observeBook() changes the claims, the checkpoint and the status, no job and no
\* lots.
LEMMA ObservedKept ==
    ASSUME NEW s \in State, NEW b \in Books, Priced(s), AccountOK
    PROVE  LET t == Observed(s, b) IN Kept(s, t) /\ t.pool.lots = s.pool.lots /\ t.withdrawals = s.withdrawals
                                       /\ t.requests = s.requests
<1> DEFINE t == Refreshed(s, b)
           u == Observed(s, b)
           new == IF Loss(t, b) THEN "RISK_EXIT" ELSE t.books[b].status
<1>1. Kept(s, t) /\ t.pool.lots = s.pool.lots /\ t.withdrawals = s.withdrawals /\ t.requests = s.requests
  BY RefreshedKept
<1>2. u = [t EXCEPT !.books[b].status = new]
  BY DEF Observed
<1>3. t \in State /\ Priced(t)
  BY <1>1 DEF Kept
<1>4. new \in {"ACTIVE", "RISK_EXIT", "HALTED"}
  BY <1>3 DEF State, Book
<1> HIDE DEF u, t, new
<1>5. Kept(t, u) /\ u.pool = t.pool /\ u.withdrawals = t.withdrawals /\ u.requests = t.requests
  <2>1. OnlyBook(t, u, b) /\ Kept(t, u)
    BY <1>2, <1>3, <1>4, StatusKept
  <2> QED BY <2>1 DEF OnlyBook
<1>6. Kept(s, u)
  BY <1>1, <1>5, KeptTwice
<1>7. u.pool.lots = s.pool.lots /\ u.withdrawals = s.withdrawals /\ u.requests = s.requests
  BY <1>1, <1>5
<1> QED BY <1>6, <1>7 DEF u

\* The units of some redemptions add up to a natural number.
LEMMA UnitsTyped == ASSUME NEW S \in SUBSET Withdrawals PROVE SumFunctionOnSet(Units, S) \in Nat
BY WithdrawalsAssumption, SumGrows

\* Which redemptions are open depends on their status only.
LEMMA OpenSame ==
    ASSUME NEW s, NEW t, NEW b \in Books,
           \A w \in Withdrawals : t.withdrawals[w].status = s.withdrawals[w].status
    PROVE  OpenOf(t, b) = OpenOf(s, b)
BY DEF OpenOf

\* Which steps a section looks through depends on the jobs only.
LEMMA CurrentSame ==
    ASSUME NEW s \in State, NEW t \in State, NEW x \in StepIds, AlikeBook(s.books[BookOf(x)], t.books[BookOf(x)])
    PROVE  Current(t, x) = Current(s, x)
<1>1. Kind(x) \in RequestKinds \cup {"risk", "close", "collect", "fee", "pay"}
  BY StepParts
<1> QED BY <1>1 DEF Current, AlikeBook

\* What the invariant says of a file stays true when only other things change in it.
LEMMA FileKept ==
    ASSUME NEW s, NEW t, NEW rec, NEW m, NEW v, FileOK(s, rec, m, v), Kept(s, t)
    PROVE  FileOK(t, rec, m, v)
<1>1. /\ s \in State /\ t \in State /\ t.steps = s.steps
      /\ \A r \in Requests : t.requests[r].status = s.requests[r].status
      /\ \A w \in Withdrawals : t.withdrawals[w].status = s.withdrawals[w].status
      /\ \A b \in Books : AlikeBook(s.books[b], t.books[b])
  BY DEF FileOK, Kept, Alike
<1>2. RecordsOK(t, rec, m)
  BY <1>1 DEF FileOK, RecordsOK
<1>3. RequestsOK(t)
  BY <1>1 DEF FileOK, RequestsOK
<1>4. SettlementOK(t)
  <2>1. \A b \in Books : /\ t.books[b].settlement.ids = s.books[b].settlement.ids
                         /\ t.books[b].settlement.attempt = s.books[b].settlement.attempt
                         /\ t.books[b].settlement.priced = s.books[b].settlement.priced
                         /\ s.books[b].settlement.ids \subseteq Withdrawals
    BY <1>1 DEF AlikeBook, State, Book, Settlement
  <2>2. SettlementOK(s)
    BY DEF FileOK
  <2> QED BY <1>1, <2>1, <2>2 DEF SettlementOK
<1>5. UnitsOK(t)
  <2>1. ASSUME NEW b \in Books PROVE SumFunctionOnSet(Units, OpenOf(t, b)) <= t.books[b].units
    <3>1. OpenOf(t, b) = OpenOf(s, b)
      BY <1>1, OpenSame
    <3>2. SumFunctionOnSet(Units, OpenOf(s, b)) \in Nat
      BY UnitsTyped DEF OpenOf
    <3>3. SumFunctionOnSet(Units, OpenOf(s, b)) <= s.books[b].units
      BY DEF FileOK, UnitsOK
    <3>4. s.books[b].units <= t.books[b].units /\ s.books[b].units \in Nat /\ t.books[b].units \in Nat
      BY <1>1 DEF AlikeBook, State, Book
    <3> QED BY <3>1, <3>2, <3>3, <3>4
  <2> QED BY <2>1 DEF UnitsOK
<1>6. FinishedOK(t, rec)
  BY <1>1, StepParts DEF FileOK, FinishedOK, Unsettled
<1>7. ForgottenOK(t, rec)
  <2>1. \A x \in StepIds : Current(t, x) = Current(s, x)
    BY <1>1, StepParts, CurrentSame
  <2> QED BY <1>1, <2>1 DEF FileOK, ForgottenOK
<1>8. PayOK(t, rec)
  BY <1>1, StepParts DEF FileOK, PayOK, Payable, AlikeBook, Unsettled
<1>9. FeeOK(t)
  <2>1. \A b \in Books : /\ t.books[b].feeTry = s.books[b].feeTry /\ t.books[b].feeAmount = s.books[b].feeAmount
                         /\ s.books[b].fees <= t.books[b].fees
                         /\ s.books[b].fees \in Nat /\ t.books[b].fees \in Nat /\ t.books[b].feeAmount \in Nat
    BY <1>1 DEF AlikeBook, State, Book
  <2>2. FeeOK(s)
    BY DEF FileOK
  <2>3. \A x \in StepIds : Kind(x) = "fee" => Job(x) \in Books
    BY StepParts
  <2> QED BY <1>1, <2>1, <2>2, <2>3 DEF FeeOK
<1>10. NumbersOK(t)
  <2>1. \A b \in Books : t.books[b].riskTry = s.books[b].riskTry
    BY <1>1 DEF AlikeBook
  <2>2. NumbersOK(s) /\ Priced(t)
    BY DEF FileOK, Kept
  <2> QED BY <1>1, <2>1, <2>2 DEF NumbersOK, Priced
<1>11. VaultOK(t, m, v)
  <2>1. Held(t) = Held(s)
    BY <1>1 DEF Held, AlikeBook
  <2>2. Amounts(t) = Amounts(s)
    BY <1>1 DEF Amounts
  <2>3. \A kinds : UnappliedOf(t, m, kinds) = UnappliedOf(s, m, kinds)
    BY <1>1 DEF UnappliedOf
  <2>4. VaultOK(s, m, v)
    BY DEF FileOK
  <2> QED BY <2>1, <2>2, <2>3, <2>4 DEF VaultOK
<1> QED BY <1>1, <1>2, <1>3, <1>4, <1>5, <1>6, <1>7, <1>8, <1>9, <1>10, <1>11 DEF FileOK

\* A correct file has a price to divide by.
LEMMA FilePriced ==
    ASSUME NEW s, NEW rec, NEW m, NEW v, FileOK(s, rec, m, v)
    PROVE  s \in State /\ Priced(s)
BY DEF FileOK, NumbersOK, Priced

--------------------------------------------------------------------------------
(* Where the tick goes. *)

\* A section is under way, and nothing is in flight for the strategies still to come.
Ground(rec, td, bk) ==
    /\ td \in Seq(Books) /\ IsInjective(td) /\ bk \in Books /\ bk \notin Coming(td)
    /\ \A x \in StepIds : rec[x] = "signed" => BookOf(x) \notin Coming(td)
\* What is unsettled for the strategy belongs to a request that is not served.
Clear(s, rec, bk, served) ==
    \A x \in StepIds : BookOf(x) = bk /\ Unsettled(s, rec, x) => Kind(x) \in RequestKinds /\ ~served

Inside == Locations \ (Outside \cup Calls \cup {"recover"})

\* Inside a section the code may go on at a place that has what it needs.
LEMMA GoesOn ==
    ASSUME NEW s, NEW rec, NEW td, NEW bk, NEW l \in Inside, NEW c \in StepIds \cup {NoStep},
           Ground(rec, td, bk), Clear(s, rec, bk, l \in RequestLocations),
           Reached(s, l, bk), FeeBooked(s, l, bk)
    PROVE  ControlOK(s, rec, l, td, bk, c)
<1>1. l \notin Outside /\ l \notin Calls /\ l # "recover" /\ l \in Locations
  BY DEF Inside
<1>2. l \notin {"idle", "sync", "ready"}
  BY <1>1 DEF Outside
<1>3. LocationOK(l, td, bk, c)
  BY <1>1, <1>2 DEF LocationOK, Ground
<1>4. Serves(l, c) = (l \in RequestLocations)
  BY <1>1 DEF Serves
<1>5. SectionOK(s, rec, l, td, bk, c)
  BY <1>1, <1>4 DEF SectionOK, Ground, Clear
<1>6. CallOK(s, rec, l, bk, c) /\ Phase(l, c) = l
  BY <1>1 DEF CallOK, Phase
<1> QED BY <1>3, <1>5, <1>6 DEF ControlOK

\* Nothing is to come after the last section.
LEMMA ComesEmpty == Coming(<<>>) = {} /\ IsInjective(<<>>) /\ <<>> \in Seq(Books)
BY DEF Coming, IsInjective

\* A section may end anywhere.
LEMMA SectionEnds ==
    ASSUME NEW s, NEW rec, NEW td, NEW bk, Ground(rec, td, bk),
           NEW l, l = IF td = <<>> THEN "idle" ELSE "ready"
    PROVE  ControlOK(s, rec, l, td, NoBook, NoStep)
<1>1. l \in Locations /\ l \in Outside /\ l \notin Calls
  BY DEF Locations, Outside, Calls
<1>2. LocationOK(l, td, NoBook, NoStep)
  BY <1>1 DEF LocationOK, Ground
<1>3. SectionOK(s, rec, l, td, NoBook, NoStep)
  BY <1>1 DEF SectionOK, Ground
<1>4. CallOK(s, rec, l, NoBook, NoStep) /\ Phase(l, NoStep) = l
  BY <1>1 DEF CallOK, Phase
<1>5. Reached(s, l, NoBook) /\ FeeBooked(s, l, NoBook)
  BY DEF Reached, FeeBooked, RequestLocations
<1> QED BY <1>2, <1>3, <1>4, <1>5 DEF ControlOK

\* A tick may end anywhere.
LEMMA TickEnds ==
    ASSUME NEW s, NEW rec
    PROVE  ControlOK(s, rec, "idle", <<>>, NoBook, NoStep)
<1>1. "idle" \in Locations /\ "idle" \in Outside /\ "idle" \notin Calls
  BY DEF Locations, Outside, Calls
<1>2. LocationOK("idle", <<>>, NoBook, NoStep)
  BY <1>1, ComesEmpty DEF LocationOK
<1>3. SectionOK(s, rec, "idle", <<>>, NoBook, NoStep)
  BY <1>1, ComesEmpty DEF SectionOK
<1>4. CallOK(s, rec, "idle", NoBook, NoStep) /\ Phase("idle", NoStep) = "idle"
  BY <1>1 DEF CallOK, Phase
<1>5. Reached(s, "idle", NoBook) /\ FeeBooked(s, "idle", NoBook)
  BY DEF Reached, FeeBooked, RequestLocations
<1> QED BY <1>2, <1>3, <1>4, <1>5 DEF ControlOK

--------------------------------------------------------------------------------
(* Errors. *)

\* A file that differs in the status of one request only (and its number of attempts).
OnlyRequest(s, t, r) ==
    /\ t \in State /\ t.steps = s.steps /\ t.books = s.books /\ t.withdrawals = s.withdrawals /\ t.pool = s.pool
    /\ \A q \in Requests \ {r} : t.requests[q] = s.requests[q]

\* A change of one request keeps the file correct, if the request is the only open
\* one of its strategy and, when it is finished, has nothing outstanding.
LEMMA RequestKept ==
    ASSUME NEW s, NEW t, NEW rec, NEW m, NEW v, FileOK(s, rec, m, v),
           NEW r \in Requests, OnlyRequest(s, t, r),
           t.requests[r].status \in BeingServed =>
              \A q \in Requests : RequestBook[q] = RequestBook[r] /\ s.requests[q].status \in BeingServed => q = r,
           t.requests[r].status \in Finished =>
              \A x \in StepIds : Kind(x) \in RequestKinds /\ Job(x) = r => ~Unsettled(s, rec, x)
    PROVE  FileOK(t, rec, m, v)
<1>1. /\ s \in State /\ t \in State /\ t.steps = s.steps /\ t.books = s.books /\ t.withdrawals = s.withdrawals
      /\ t.pool = s.pool /\ \A q \in Requests \ {r} : t.requests[q] = s.requests[q]
  BY DEF FileOK, OnlyRequest
<1>2. RecordsOK(t, rec, m) /\ SettlementOK(t) /\ PayOK(t, rec) /\ FeeOK(t) /\ NumbersOK(t)
  BY <1>1 DEF FileOK, RecordsOK, SettlementOK, PayOK, Payable, Unsettled, FeeOK, NumbersOK
<1>3. RequestsOK(t)
  BY <1>1 DEF FileOK, RequestsOK
<1>4. UnitsOK(t)
  BY <1>1 DEF FileOK, UnitsOK, OpenOf
<1>5. FinishedOK(t, rec)
  BY <1>1, StepParts DEF FileOK, FinishedOK, Unsettled
<1>6. ForgottenOK(t, rec)
  BY <1>1 DEF FileOK, ForgottenOK, Current
<1>7. VaultOK(t, m, v)
  BY <1>1 DEF FileOK, VaultOK, Held, Amounts, UnappliedOf
<1> QED BY <1>1, <1>2, <1>3, <1>4, <1>5, <1>6, <1>7 DEF FileOK

\* Writing a request changes that request only.
LEMMA RequestSet ==
    ASSUME NEW s \in State, NEW r \in Requests, NEW q \in Request, NEW t, t = [s EXCEPT !.requests[r] = q]
    PROVE  OnlyRequest(s, t, r) /\ t.requests[r] = q
BY DEF OnlyRequest, State

\* The catch block around execute() keeps the file correct: what it ends has nothing
\* outstanding.
LEMMA CaughtKept ==
    ASSUME NEW s, NEW rec, NEW m, NEW v, FileOK(s, rec, m, v),
           NEW b \in Books, NEW r \in OpenRequests(s, b), NEW error
    PROVE  LET t == Caught(s, r, error, rec) IN FileOK(t, rec, m, v) /\ OnlyRequest(s, t, r)
<1> DEFINE t == Caught(s, r, error, rec)
           old == s.requests[r]
<1>1. s \in State /\ r \in Requests /\ old \in Request /\ old.status \in BeingServed
  BY DEF FileOK, State, OpenRequests, BeingServed
<1>2. OnlyRequest(s, t, r) /\ t.requests[r].status \in {"EXECUTING"} \cup Finished
  <2>1. CASE t = [s EXCEPT !.requests[r].status = "EXECUTING"]
    <3> DEFINE q == [old EXCEPT !.status = "EXECUTING"]
    <3>1. q \in Request /\ q.status = "EXECUTING"
      BY <1>1 DEF Request
    <3>2. t = [s EXCEPT !.requests[r] = q]
      BY <2>1
    <3> HIDE DEF q, t
    <3> QED BY <1>1, <3>1, <3>2, RequestSet
  <2>2. CASE t = [s EXCEPT !.requests[r].status = "EXECUTING", !.requests[r].attempt = @ + 1]
    <3> DEFINE p == [old EXCEPT !.status = "EXECUTING"]
               q == [p EXCEPT !.attempt = @ + 1]
    <3>1. p \in Request /\ p.status = "EXECUTING"
      BY <1>1 DEF Request
    <3>2. q \in Request /\ q.status = "EXECUTING"
      <4> HIDE DEF p
      <4> QED BY <3>1 DEF Request
    <3>3. t = [s EXCEPT !.requests[r] = q]
      BY <1>1, <2>2 DEF State, Request
    <3> HIDE DEF q, t
    <3> QED BY <1>1, <3>2, <3>3, RequestSet
  <2>3. ASSUME NEW status \in Finished, t = [s EXCEPT !.requests[r].status = status]
        PROVE  OnlyRequest(s, t, r) /\ t.requests[r].status \in Finished
    <3> DEFINE q == [old EXCEPT !.status = status]
    <3>1. q \in Request /\ q.status = status
      BY <1>1 DEF Request, Finished
    <3>2. t = [s EXCEPT !.requests[r] = q]
      BY <2>3
    <3> HIDE DEF q, t
    <3> QED BY <1>1, <3>1, <3>2, RequestSet
  <2> QED BY <2>1, <2>2, <2>3 DEF Caught, Finished
<1>3. t.requests[r].status \in Finished => ~Unresolved(s, r, rec)
  <2>1. CASE Unresolved(s, r, rec)
    <3>1. t = [s EXCEPT !.requests[r].status = "EXECUTING"]
      BY <2>1 DEF Caught
    <3>2. t.requests[r].status = "EXECUTING"
      BY <1>1, <3>1 DEF State, Request
    <3> QED BY <3>2 DEF Finished
  <2> QED BY <2>1
<1>4. t.requests[r].status \in Finished =>
         \A x \in StepIds : Kind(x) \in RequestKinds /\ Job(x) = r => ~Unsettled(s, rec, x)
  <2>1. ASSUME ~Unresolved(s, r, rec), NEW x \in StepIds, Kind(x) \in RequestKinds, Job(x) = r, Unsettled(s, rec, x)
        PROVE  FALSE
    <3>1. rec[x] = "ok" /\ s.steps[x].st # "applied" /\ s.steps[x].st # "saved"
      BY <2>1 DEF Unresolved, Unsettled
    <3>2. s.steps[x].st = "none"
      BY <1>1, <3>1 DEF State, Step
    <3> QED BY <3>1, <3>2 DEF FileOK, RecordsOK
  <2> QED BY <1>3, <2>1
<1>5. \A q \in Requests : RequestBook[q] = RequestBook[r] /\ s.requests[q].status \in BeingServed => q = r
  BY <1>1 DEF FileOK, RequestsOK
<1>6. FileOK(t, rec, m, v)
  <2> HIDE DEF t
  <2> QED BY <1>1, <1>2, <1>4, <1>5, RequestKept
<1> QED BY <1>2, <1>6

\* An error keeps the file and the place in the tick correct, inside a request and
\* outside.
LEMMA ThrowKeeps ==
    ASSUME NEW s, NEW rec, NEW error, NEW m, NEW v, FileOK(s, rec, m, v),
           Ground(rec, todo, book), InRequest => Clear(s, rec, book, FALSE),
           ThrowKnowing(rec, s, error)
    PROVE  /\ FileOK(saved', rec, m, v) /\ ControlOK(saved', rec, pc', todo', book', cur')
           /\ saved'.steps = s.steps
<1>1. CASE InRequest
  <2>1. PICK r \in OpenRequests(s, book) : saved' = Caught(s, r, error, rec)
    BY <1>1 DEF ThrowKnowing
  <2>2. FileOK(saved', rec, m, v) /\ OnlyRequest(s, saved', r)
    BY <2>1, CaughtKept DEF Ground
  <2>3. saved'.steps = s.steps
    BY <2>2 DEF OnlyRequest
  <2>4. pc' = "mark" /\ cur' = NoStep /\ todo' = todo /\ book' = book
    BY <1>1 DEF ThrowKnowing, Goto
  <2>5. "mark" \in Inside /\ "mark" \notin RequestLocations
    BY DEF Inside, Locations, Outside, Calls, RequestLocations
  <2>6. Clear(saved', rec, book, FALSE)
    BY <1>1, <2>3 DEF Clear, Unsettled
  <2>7. Clear(saved', rec, book, "mark" \in RequestLocations)
    BY <2>5, <2>6 DEF Clear
  <2>8. Reached(saved', "mark", book) /\ FeeBooked(saved', "mark", book)
    BY DEF Reached, FeeBooked, RequestLocations
  <2>9. ControlOK(saved', rec, "mark", todo, book, NoStep)
    BY <2>5, <2>7, <2>8, GoesOn
  <2> QED BY <2>2, <2>3, <2>4, <2>9
<1>2. CASE ~InRequest
  <2>1. saved' = s /\ book' = NoBook /\ cur' = NoStep /\ todo' = todo
        /\ pc' = IF todo = <<>> THEN "idle" ELSE "ready"
    BY <1>2 DEF ThrowKnowing, EndSection
  <2>2. ControlOK(saved', rec, pc', todo, NoBook, NoStep)
    BY <2>1, SectionEnds
  <2> QED BY <2>1, <2>2
<1> QED BY <1>1, <1>2

\* The file with the step a call asks for.
Called(s, x, args) == IF s.steps[x].st = "none" THEN [s EXCEPT !.steps[x] = args] ELSE s

\* So does a call up to its submission, once the saved step keeps the file correct.
LEMMA CallKeeps ==
    ASSUME NEW s, NEW x \in StepIds, NEW args, NEW t, t = Called(s, x, args),
           NEW m, NEW v, FileOK(t, record, m, v),
           Ground(record, todo, book), Clear(t, record, book, InRequest),
           InRequest = (Kind(x) \in RequestKinds),
           BookOf(x) = book, Current(t, x), Wanted(t, x), s.steps[x].st # "applied" => t.steps[x].st = "saved", StepsTypeOK,
           Reached(t, After[Kind(x)], book),
           CallStep(s, x, args)
    PROVE  /\ FileOK(saved', record, m, v) /\ ControlOK(saved', record, pc', todo', book', cur')
           /\ saved'.steps = t.steps
<1>1. t \in State
  BY DEF FileOK
<1>2. s.steps[x].st = "applied" => t = s
  BY DEF Called
<1>3. CASE s.steps[x].st = "applied"
  <2>1. saved' = t /\ pc' = After[Kind(x)] /\ cur' = x /\ todo' = todo /\ book' = book
    BY <1>2, <1>3 DEF CallStep
  <2> DEFINE l == After[Kind(x)]
  <2>2. l \in Inside /\ (l \in RequestLocations <=> Kind(x) \in RequestKinds)
    BY StepParts, AfterKinds DEF Inside, Locations, Outside, Calls, RequestLocations, RequestKinds
  <2>3. FeeBooked(t, l, book)
    <3>1. SUFFICES ASSUME l = "feePaid"
                   PROVE  /\ t.books[book].feeTry \in 1 .. Tries
                          /\ t.steps[<<"fee", book, t.books[book].feeTry>>].st = "applied"
      BY DEF FeeBooked
    <3>2. Kind(x) = "fee"
      BY <3>1, StepParts, AfterKinds DEF RequestKinds
    <3>3. Attempt(x) = t.books[book].feeTry /\ Job(x) = book /\ Attempt(x) \in 1 .. Tries
      BY <3>2, StepParts DEF Current, RequestKinds
    <3>4. x = <<"fee", book, t.books[book].feeTry>>
      <4> DEFINE y == <<"fee", book, t.books[book].feeTry>>
      <4>1. y \in StepIds /\ Kind(y) = "fee" /\ Job(y) = book /\ Attempt(y) = t.books[book].feeTry
        <5>1. book \in Books /\ t.books[book].feeTry \in 1 .. Tries
          BY <3>3 DEF Ground
        <5> QED BY <5>1, BookStep
      <4> HIDE DEF y
      <4>2. x = y
        BY <3>2, <3>3, <4>1, StepSame
      <4> QED BY <4>2 DEF y
    <3> QED BY <1>2, <1>3, <3>3, <3>4
  <2>4. Clear(t, record, book, l \in RequestLocations)
    BY <2>2 DEF Clear
  <2> HIDE DEF l
  <2>5. ControlOK(t, record, l, todo, book, x)
    BY <2>2, <2>3, <2>4, GoesOn DEF l
  <2> QED BY <2>1, <2>5 DEF l
<1>4. CASE s.steps[x].st # "applied" /\ record[x] = "absent" /\ LateStep(x)
  <2>1. ThrowKnowing(record, t, "expired")
    BY <1>4 DEF CallStep, Called, Throw
  <2>2. Clear(t, record, book, FALSE)
    BY DEF Clear
  <2> QED BY <2>1, <2>2, ThrowKeeps
<1>5. CASE s.steps[x].st # "applied" /\ ~(record[x] = "absent" /\ LateStep(x))
  <2>1. /\ saved' = t /\ pc' = IF record[x] = "ok" THEN "apply" ELSE "submit"
        /\ cur' = x /\ todo' = todo /\ book' = book
    BY <1>5 DEF CallStep, Called
  <2>2. t.steps[x].st = "saved" /\ ~Unsettled(t, record, x)
    BY <1>5 DEF Clear
  <2>3. record[x] \in {"absent", "reverted"}
    BY <2>2 DEF Unsettled, StepsTypeOK, Outcomes
  <2>4. pc' = "submit" /\ "submit" \in Locations /\ "submit" \in Calls /\ "submit" \notin Outside
    BY <2>1, <2>3 DEF Locations, Calls, Outside
  <2>5. LocationOK("submit", todo, book, x)
    BY <2>4 DEF LocationOK, Ground, Outside
  <2>6. Serves("submit", x) = (Kind(x) \in RequestKinds)
    BY <2>4 DEF Serves
  <2>7. SectionOK(t, record, "submit", todo, book, x)
    BY <2>4, <2>6 DEF SectionOK, Ground, Clear
  <2>8. CallOK(t, record, "submit", book, x)
    BY <2>2, <2>3 DEF CallOK
  <2>9. Reached(t, Phase("submit", x), book) /\ FeeBooked(t, "submit", book)
    BY <2>4 DEF Phase, FeeBooked
  <2> QED BY <2>1, <2>4, <2>5, <2>7, <2>8, <2>9 DEF ControlOK
<1> QED BY <1>3, <1>4, <1>5

FileButFees(s, rec, m, v) ==
    /\ s \in State
    /\ RecordsOK(s, rec, m) /\ RequestsOK(s) /\ SettlementOK(s) /\ UnitsOK(s)
    /\ FinishedOK(s, rec) /\ ForgottenOK(s, rec) /\ PayOK(s, rec)
    /\ NumbersOK(s) /\ VaultOK(s, m, v)

\* The file is correct when its fee payments and everything else are.
LEMMA FileAndFees ==
    ASSUME NEW s, NEW rec, NEW m, NEW v
    PROVE  FileOK(s, rec, m, v) <=> FileButFees(s, rec, m, v) /\ FeeOK(s)
BY DEF FileOK, FileButFees

\* The numbers of a step that is to be saved.
NewStepOK(x, args) ==
    /\ args \in Step /\ args.st = "saved"
    /\ Kind(x) \notin TradeKinds => args.amount \in Nat
    /\ Kind(x) \in TradeKinds => args.owned <= args.before /\ args.owned + args.amount >= 0

\* Nothing but steps differs.
OnlySteps(s, t) ==
    /\ t \in State /\ t.books = s.books /\ t.requests = s.requests /\ t.withdrawals = s.withdrawals /\ t.pool = s.pool

\* A new step keeps everything but the fee payments correct.
LEMMA CalledKept ==
    ASSUME NEW s, NEW rec, NEW m, NEW v, FileButFees(s, rec, m, v),
           NEW x \in StepIds, NEW args, NewStepOK(x, args), NEW t, t = Called(s, x, args)
    PROVE  /\ FileButFees(t, rec, m, v) /\ OnlySteps(s, t)
           /\ s.steps[x].st # "applied" => t.steps[x].st = "saved"
           /\ \A y \in StepIds : Unsettled(t, rec, y) <=> Unsettled(s, rec, y)
           /\ \A y \in StepIds \ {x} : t.steps[y] = s.steps[y]
           /\ s.steps[x].st = "none" => t.steps[x] = args
           /\ s.steps[x].st # "none" => t.steps[x] = s.steps[x]
<1>1. s \in State /\ args \in Step /\ args.st = "saved"
  BY DEF FileButFees, NewStepOK
<1>2. CASE s.steps[x].st # "none"
  <2>1. t = s
    BY <1>2 DEF Called
  <2>2. s.steps[x].st # "applied" => s.steps[x].st = "saved"
    BY <1>1, <1>2 DEF State, Step
  <2> QED BY <1>1, <1>2, <2>1, <2>2 DEF OnlySteps
<1>3. CASE s.steps[x].st = "none"
  <2>1. t = [s EXCEPT !.steps[x] = args]
    BY <1>3 DEF Called
  <2>2. OnlySteps(s, t) /\ t.steps[x] = args /\ \A y \in StepIds \ {x} : t.steps[y] = s.steps[y]
    BY <1>1, <2>1 DEF OnlySteps, State
  <2>3. rec[x] = "absent" /\ m[x] = "no"
    BY <1>3 DEF FileButFees, RecordsOK
  <2>4. \A y \in StepIds : Unsettled(t, rec, y) <=> Unsettled(s, rec, y)
    BY <2>2, <2>3 DEF Unsettled
  <2>5. /\ t \in State /\ t.books = s.books /\ t.requests = s.requests /\ t.withdrawals = s.withdrawals
        /\ t.pool = s.pool
    BY <2>2 DEF OnlySteps
  <2>6. RecordsOK(t, rec, m)
    BY <1>1, <2>2, <2>3 DEF FileButFees, RecordsOK
  <2>7. RequestsOK(t) /\ SettlementOK(t)
    BY <2>5 DEF FileButFees, RequestsOK, SettlementOK
  <2>8. UnitsOK(t)
    BY <2>5 DEF FileButFees, UnitsOK, OpenOf
  <2>9. FinishedOK(t, rec) /\ PayOK(t, rec)
    BY <2>4, <2>5 DEF FileButFees, FinishedOK, PayOK, Payable
  <2>10. ForgottenOK(t, rec)
    BY <2>2, <2>3, <2>5 DEF FileButFees, ForgottenOK, Current
  <2>11. NumbersOK(t)
    BY <2>2, <2>5 DEF FileButFees, NumbersOK, NewStepOK
  <2>12. VaultOK(t, m, v)
    <3>1. ASSUME NEW kinds PROVE UnappliedOf(t, m, kinds) = UnappliedOf(s, m, kinds)
      BY <1>3, <2>2, <2>3 DEF UnappliedOf
    <3>2. ASSUME NEW kinds, IsFiniteSet(UnappliedOf(s, m, kinds))
          PROVE  SumFunctionOnSet(Amounts(t), UnappliedOf(s, m, kinds))
                   = SumFunctionOnSet(Amounts(s), UnappliedOf(s, m, kinds))
      <4>1. \A y \in UnappliedOf(s, m, kinds) : Amounts(s)[y] = Amounts(t)[y]
        BY <2>2, <2>3 DEF UnappliedOf, Amounts
      <4> QED BY <3>2, <4>1, SumSame
    <3>3. Held(t) = Held(s)
      BY <2>5 DEF Held
    <3>4. VaultOK(s, m, v)
      BY DEF FileButFees
    <3> QED BY <3>1, <3>2, <3>3, <3>4 DEF VaultOK
  <2> QED BY <1>3, <2>2, <2>4, <2>5, <2>6, <2>7, <2>8, <2>9, <2>10, <2>11, <2>12, <1>1 DEF FileButFees
<1> QED BY <1>2, <1>3

\* A new step that is no fee payment keeps the file correct.
LEMMA OtherStepKept ==
    ASSUME NEW s, NEW rec, NEW m, NEW v, FileOK(s, rec, m, v),
           NEW x \in StepIds, Kind(x) # "fee", NEW args, NewStepOK(x, args), NEW t, t = Called(s, x, args)
    PROVE  /\ FileOK(t, rec, m, v) /\ OnlySteps(s, t)
           /\ s.steps[x].st # "applied" => t.steps[x].st = "saved"
           /\ \A y \in StepIds : Unsettled(t, rec, y) <=> Unsettled(s, rec, y)
<1>1. FileButFees(s, rec, m, v) /\ FeeOK(s)
  BY FileAndFees
<1>2. /\ FileButFees(t, rec, m, v) /\ OnlySteps(s, t)
      /\ s.steps[x].st # "applied" => t.steps[x].st = "saved"
      /\ \A y \in StepIds : Unsettled(t, rec, y) <=> Unsettled(s, rec, y)
      /\ \A y \in StepIds \ {x} : t.steps[y] = s.steps[y]
  BY <1>1, CalledKept
<1>3. FeeOK(t)
  <2>1. \A b \in Books : s.books[b].feeAmount > 0 =>
           <<"fee", b, s.books[b].feeTry>> \in StepIds /\ Kind(<<"fee", b, s.books[b].feeTry>>) = "fee"
    BY <1>1, BookStep DEF FeeOK
  <2> QED BY <1>1, <1>2, <2>1 DEF FeeOK, OnlySteps
<1> QED BY <1>2, <1>3, FileAndFees

\* A call of a step from a section in which nothing else of its kind is unsettled.
LEMMA CallGoes ==
    ASSUME NEW s, NEW m, NEW v, FileOK(s, record, m, v), StepsTypeOK,
           NEW x \in StepIds, Kind(x) # "fee", NEW args, NewStepOK(x, args),
           Ground(record, todo, book), Clear(s, record, book, InRequest),
           InRequest = (Kind(x) \in RequestKinds), BookOf(x) = book,
           Current(s, x), Wanted(s, x), Reached(s, After[Kind(x)], book),
           CallStep(s, x, args)
    PROVE  /\ FileOK(saved', record, m, v) /\ ControlOK(saved', record, pc', todo', book', cur')
           /\ \A y \in StepIds : s.steps[y].st = "applied" => saved'.steps[y].st = "applied"
<1> DEFINE t == Called(s, x, args)
<1>1. /\ FileOK(t, record, m, v) /\ OnlySteps(s, t)
      /\ s.steps[x].st # "applied" => t.steps[x].st = "saved"
      /\ \A y \in StepIds : Unsettled(t, record, y) <=> Unsettled(s, record, y)
  BY OtherStepKept
<1>2. \A y \in StepIds : s.steps[y].st = "applied" => t.steps[y].st = "applied"
  <2>1. s \in State
    BY DEF FileOK
  <2> QED BY <2>1 DEF Called, State
<1>3. t = Called(s, x, args)
  OBVIOUS
<1> HIDE DEF t
<1>4. Clear(t, record, book, InRequest)
  BY <1>1 DEF Clear
<1>5. Current(t, x) /\ Wanted(t, x) /\ Reached(t, After[Kind(x)], book)
  BY <1>1 DEF OnlySteps, Current, Wanted, Reached, OpenRequests
<1>6. /\ FileOK(saved', record, m, v) /\ ControlOK(saved', record, pc', todo', book', cur')
      /\ saved'.steps = t.steps
  BY <1>1, <1>3, <1>4, <1>5, CallKeeps
<1> QED BY <1>2, <1>6

--------------------------------------------------------------------------------
(* Steps of the tick that leave the chain alone. *)

\* A step of the operator that leaves the chain and the records alone keeps the
\* invariant, if it keeps the file and the place in the tick correct and takes no
\* mark back.
LEMMA StateStep ==
    ASSUME IInv, UNCHANGED chainVars, OthersOK', FileOK(saved', record, mined, vault),
           ControlOK(saved', record, pc', todo', book', cur'),
           \A y \in StepIds : saved.steps[y].st = "applied" => saved'.steps[y].st = "applied"
    PROVE  IInv'
<1>1. record' = record /\ mined' = mined /\ receipt' = receipt /\ vault' = vault /\ account' = account
  BY DEF chainVars
<1>2. ChainOK'
  BY <1>1 DEF IInv, ChainOK, StepsTypeOK
<1> QED BY <1>1, <1>2 DEF IInv

\* Deadlines and troubles that do not change stay as they should be.
LEMMA SameOthers == ASSUME OthersOK, UNCHANGED <<timeVars, trouble>> PROVE OthersOK'
BY DEF OthersOK, timeVars

\* A trouble below its bound can be counted.
LEMMA CountUp ==
    ASSUME NEW k \in TroubleKinds, trouble \in [TroubleKinds -> Nat], \A j \in TroubleKinds : trouble[j] <= Limits[j],
           trouble[k] < Limits[k], trouble' = [trouble EXCEPT ![k] = @ + 1]
    PROVE  trouble' \in [TroubleKinds -> Nat] /\ \A j \in TroubleKinds : trouble'[j] <= Limits[j]
<1>1. Limits[k] \in Nat
  BY BoundsAssumption
<1>2. trouble[k] + 1 <= Limits[k]
  BY <1>1
<1> QED BY <1>2

\* A trouble keeps the deadlines and the bounds.
LEMMA TroubleOthers ==
    ASSUME OthersOK, UNCHANGED timeVars, NEW k \in TroubleKinds, May(k), Happens(k)
    PROVE  OthersOK'
<1>1. trouble' \in [TroubleKinds -> Nat] /\ \A j \in TroubleKinds : trouble'[j] <= Limits[j]
  BY CountUp DEF OthersOK, May, Happens
<1> QED BY <1>1 DEF OthersOK, timeVars

\* Inside a section no transaction of a coming strategy is in flight.
LEMMA InSection ==
    ASSUME IInv, pc \notin Outside
    PROVE  Ground(record, todo, book)
BY DEF IInv, ControlOK, LocationOK, SectionOK, Ground

\* InRequest is what the invariant calls serving a request.
LEMMA Requesting == InRequest <=> Serves(pc, cur)
BY DEF InRequest, Serves, Calls

\* After the recovery nothing of the strategy is unsettled but steps of a given-up
\* request.
LEMMA IsClear ==
    ASSUME IInv, pc \in Inside \cup {"submit"}
    PROVE  Clear(saved, record, book, InRequest)
<1>1. pc \notin Outside \cup {"recover"} /\ pc \notin {"await", "apply"}
  BY DEF Inside, Outside, Calls
<1> QED BY <1>1, Requesting DEF IInv, ControlOK, SectionOK, Clear

\* When a request throws, only its own steps can be unsettled.
LEMMA ThrowClear ==
    ASSUME IInv, pc \in Inside \cup Calls, InRequest
    PROVE  Clear(saved, record, book, FALSE)
<1>1. pc \notin Outside \cup {"recover"} /\ (pc \in {"await", "apply"} => pc \in Calls)
  BY DEF Inside, Outside, Calls
<1>2. pc \in Calls => Kind(cur) \in RequestKinds
  BY Requesting DEF Serves
<1> QED BY <1>1, <1>2, Requesting DEF IInv, ControlOK, SectionOK, Clear

\* What is unsettled depends on the steps only.
LEMMA SameSteps ==
    ASSUME NEW s, NEW t, NEW rec, NEW bk, NEW served, t.steps = s.steps, Clear(s, rec, bk, served)
    PROVE  Clear(t, rec, bk, served)
BY DEF Clear, Unsettled

\* An error keeps the invariant.
LEMMA ThrowStep ==
    ASSUME IInv, pc \in Inside \cup Calls, NEW s, FileOK(s, record, mined, vault), s.steps = saved.steps,
           NEW error, Throw(s, error), UNCHANGED chainVars, OthersOK'
    PROVE  IInv'
<1>1. Ground(record, todo, book)
  BY InSection DEF Inside, Outside, Calls
<1>2. InRequest => Clear(s, record, book, FALSE)
  BY ThrowClear, SameSteps
<1>3. /\ FileOK(saved', record, mined, vault) /\ ControlOK(saved', record, pc', todo', book', cur')
      /\ saved'.steps = s.steps
  BY <1>1, <1>2, ThrowKeeps DEF Throw
<1> QED BY <1>3, StateStep

\* Going on inside a section keeps the invariant.
LEMMA GotoStep ==
    ASSUME IInv, pc \in Inside, NEW l \in Inside, l \in RequestLocations => pc \in RequestLocations,
           FileOK(saved', record, mined, vault), saved'.steps = saved.steps,
           Reached(saved', l, book), FeeBooked(saved', l, book),
           Goto(l), UNCHANGED chainVars, OthersOK'
    PROVE  IInv'
<1>1. Ground(record, todo, book)
  BY InSection DEF Inside, Outside, Calls
<1>2. InRequest <=> pc \in RequestLocations
  BY Requesting DEF Inside, Serves
<1>3. Clear(saved', record, book, InRequest)
  BY IsClear, SameSteps
<1>4. Clear(saved', record, book, l \in RequestLocations)
  BY <1>2, <1>3 DEF Clear
<1>5. pc' = l /\ cur' = NoStep /\ todo' = todo /\ book' = book
  BY DEF Goto
<1>6. ControlOK(saved', record, l, todo, book, NoStep)
  BY <1>1, <1>4, GoesOn
<1> QED BY <1>5, <1>6, StateStep

\* Ending a section keeps the invariant.
LEMMA EndStep ==
    ASSUME IInv, pc \in Inside, FileOK(saved', record, mined, vault), saved'.steps = saved.steps,
           EndSection, UNCHANGED chainVars, OthersOK'
    PROVE  IInv'
<1>1. Ground(record, todo, book)
  BY InSection DEF Inside, Outside, Calls
<1>2. pc' = (IF todo = <<>> THEN "idle" ELSE "ready") /\ cur' = NoStep /\ todo' = todo /\ book' = NoBook
  BY DEF EndSection
<1>3. ControlOK(saved', record, pc', todo, NoBook, NoStep)
  BY <1>1, <1>2, SectionEnds
<1> QED BY <1>2, <1>3, StateStep

\* Ending a tick keeps the invariant.
LEMMA EndTickStep ==
    ASSUME IInv, EndTick, UNCHANGED <<chainVars, saved>>, OthersOK'
    PROVE  IInv'
<1>1. pc' = "idle" /\ todo' = <<>> /\ book' = NoBook /\ cur' = NoStep /\ saved' = saved
  BY DEF EndTick
<1>2. ControlOK(saved', record, pc', todo', book', cur')
  BY <1>1, TickEnds
<1>3. FileOK(saved', record, mined, vault)
  BY <1>1 DEF IInv
<1> QED BY <1>1, <1>2, <1>3, StateStep

\* A call that is no fee payment keeps the invariant.
LEMMA CallingStep ==
    ASSUME IInv, pc \in Inside, NEW s, FileOK(s, record, mined, vault), s.steps = saved.steps,
           NEW x \in StepIds, Kind(x) # "fee", NEW args, NewStepOK(x, args),
           pc \in RequestLocations <=> Kind(x) \in RequestKinds, BookOf(x) = book,
           Current(s, x), Wanted(s, x), Reached(s, After[Kind(x)], book),
           CallStep(s, x, args), UNCHANGED chainVars, OthersOK'
    PROVE  IInv'
<1>1. Ground(record, todo, book)
  BY InSection DEF Inside, Outside, Calls
<1>2. InRequest <=> pc \in RequestLocations
  BY Requesting DEF Inside, Serves
<1>3. InRequest = (Kind(x) \in RequestKinds)
  BY <1>2 DEF InRequest
<1>4. Clear(s, record, book, InRequest)
  BY IsClear, SameSteps
<1>5. StepsTypeOK
  BY DEF IInv, ChainOK
<1>6. /\ FileOK(saved', record, mined, vault) /\ ControlOK(saved', record, pc', todo', book', cur')
      /\ \A y \in StepIds : s.steps[y].st = "applied" => saved'.steps[y].st = "applied"
  BY <1>1, <1>3, <1>4, <1>5, CallGoes
<1> QED BY <1>6, StateStep

--------------------------------------------------------------------------------
(* What the jobs change in the file before they save it. *)

\* A change of a request that keeps its status and its plan keeps what matters.
LEMMA RequestAlike ==
    ASSUME NEW s \in State, NEW t, NEW r \in Requests, OnlyRequest(s, t, r), Priced(s),
           t.requests[r].status = s.requests[r].status,
           s.requests[r].plan # NoPlan => t.requests[r].plan # NoPlan
    PROVE  Kept(s, t)
<1>1. Alike(s, s)
  BY AlikeItself
<1>2. Alike(s, t) /\ Priced(t) /\ t \in State
  BY <1>1 DEF Alike, OnlyRequest, Priced
<1> QED BY <1>2 DEF Kept

\* Noting a fill keeps what matters.
LEMMA FillKept ==
    ASSUME NEW s \in State, Priced(s), cur \in StepIds \cup {NoStep}
    PROVE  Kept(s, WithFill(s)) /\ WithFill(s).pool = s.pool /\ WithFill(s).books = s.books
<1>1. CASE cur # NoStep /\ Kind(cur) \in TradeKinds \cap RequestKinds /\ s.steps[cur].filled
  <2> DEFINE r == Job(cur)
             old == s.requests[r]
             q == [old EXCEPT !.fill = TRUE]
             t == [s EXCEPT !.requests[r] = q]
  <2>1. r \in Requests
    BY <1>1, StepParts
  <2>2. old \in Request
    BY <2>1 DEF State
  <2>3. q \in Request /\ q.status = old.status /\ q.plan = old.plan
    <3> HIDE DEF old
    <3> QED BY <2>2 DEF Request
  <2>4. WithFill(s) = t
    BY <1>1 DEF WithFill
  <2> HIDE DEF q, r
  <2>5. OnlyRequest(s, t, r) /\ t.requests[r] = q
    BY <2>1, <2>3 DEF OnlyRequest, State
  <2> HIDE DEF t
  <2>6. Kept(s, t)
    BY <2>1, <2>3, <2>5, RequestAlike
  <2> QED BY <2>4, <2>5, <2>6 DEF OnlyRequest
<1>2. CASE ~(cur # NoStep /\ Kind(cur) \in TradeKinds \cap RequestKinds /\ s.steps[cur].filled)
  <2>1. WithFill(s) = s
    BY <1>2 DEF WithFill
  <2> QED BY <2>1, AlikeItself DEF Kept
<1> QED BY <1>1, <1>2

\* So does a plan.
LEMMA PlanKept ==
    ASSUME NEW s \in State, Priced(s), NEW r \in Requests, NEW n \in Nat,
           NEW t, t = [s EXCEPT !.requests[r].plan = n]
    PROVE  Kept(s, t)
<1> DEFINE old == s.requests[r]
           q == [old EXCEPT !.plan = n]
<1>1. old \in Request
  BY DEF State
<1>2. q \in Request /\ q.status = old.status /\ q.plan # NoPlan
  <2> HIDE DEF old
  <2> QED BY <1>1 DEF Request, NoPlan
<1>3. t = [s EXCEPT !.requests[r] = q]
  OBVIOUS
<1> HIDE DEF q
<1>4. OnlyRequest(s, t, r) /\ t.requests[r] = q
  BY <1>2, <1>3 DEF OnlyRequest, State
<1> QED BY <1>2, <1>4, RequestAlike

\* So does joining the account.
LEMMA JoinedKept ==
    ASSUME NEW s \in State, Priced(s), NEW b \in Books, NEW t, t = [s EXCEPT !.pool.members = @ \cup {b}]
    PROVE  Kept(s, t) /\ t.books = s.books /\ t.requests = s.requests
<1> DEFINE pool == [s.pool EXCEPT !.members = @ \cup {b}]
<1>1. pool \in Pool /\ pool.checkpoint = s.pool.checkpoint
  <2>1. s.pool \in Pool
    BY DEF State
  <2> QED BY <2>1 DEF Pool
<1>2. t = [s EXCEPT !.pool = pool]
  OBVIOUS
<1> HIDE DEF pool
<1>3. /\ t \in State /\ t.steps = s.steps /\ t.books = s.books /\ t.requests = s.requests
      /\ t.withdrawals = s.withdrawals /\ t.pool = pool
  BY <1>1, <1>2 DEF State
<1>4. Alike(s, s)
  BY AlikeItself
<1>5. Alike(s, t)
  BY <1>3, <1>4 DEF Alike
<1>6. Priced(t)
  BY <1>1, <1>3 DEF Priced
<1> QED BY <1>3, <1>5, <1>6 DEF Kept

\* The units that are minted for a deposit are a natural number.
LEMMA MintedTyped ==
    ASSUME NEW p \in Nat, NEW u \in Nat, NEW e \in Int, u > 0 => e > 0
    PROVE  (IF u = 0 THEN p ELSE (p * u) \div e) \in Nat
<1>1. p * u \in Nat
  OBVIOUS
<1>2. ASSUME NEW a \in Nat, e > 0 PROVE a \div e \in Nat
  BY <1>2
<1>3. CASE u = 0
  BY <1>3
<1>4. CASE u # 0
  <2>1. e > 0
    BY <1>4
  <2>2. (p * u) \div e \in Nat
    BY <1>1, <1>2, <2>1
  <2> QED BY <1>4, <2>2
<1> QED BY <1>3, <1>4

\* But for the strategy's cash and units.
AlikeBut(n, k) ==
    /\ k.settlement = n.settlement /\ k.riskTry = n.riskTry /\ k.feeTry = n.feeTry /\ k.feeAmount = n.feeAmount
    /\ k.fees = n.fees /\ k.credited = n.credited

\* activatePending() keeps what matters.
LEMMA ActivatedKept ==
    ASSUME NEW s \in State, Priced(s), NEW b \in Books, MayActivate(s, b)
    PROVE  LET t == Activated(s, b) IN Kept(s, t) /\ t.pool = s.pool /\ t.requests = s.requests
<1> DEFINE n == s.books[b]
           e == Equity(s, b)
           minted == IF n.units = 0 THEN n.pending ELSE (n.pending * n.units) \div e
           high == IF n.units = 0 THEN [equity |-> n.pending, units |-> minted] ELSE n.high
           t == Activated(s, b)
           k == t.books[b]
<1>1. /\ n \in Book /\ n.units \in Nat /\ n.pending \in Nat /\ n.cash \in Int /\ n.credited \in Nat /\ n.fees \in Nat
      /\ n.high \in [equity : Nat, units : Nat]
  BY DEF State, Book
<1>2. e \in Int /\ (n.units > 0 => e > 0)
  BY EquityTyped DEF MayActivate
<1>3. minted \in Nat
  <2> HIDE DEF e, n
  <2> QED BY <1>1, <1>2, MintedTyped
<1>4. high \in [equity : Nat, units : Nat]
  <2> HIDE DEF minted
  <2> QED BY <1>1, <1>3
<1> DEFINE k1 == [n EXCEPT !.pending = 0]
           k2 == [k1 EXCEPT !.cash = @ + n.pending]
           k3 == [k2 EXCEPT !.units = @ + minted]
           k4 == [k3 EXCEPT !.high = high]
<1>5. k1 \in Book /\ AlikeBut(n, k1) /\ k1.units = n.units /\ k1.cash = n.cash /\ k1.pending = 0 
  <2> HIDE DEF n
  <2> QED BY <1>1 DEF Book, AlikeBut
<1>6. k2 \in Book /\ AlikeBut(n, k2) /\ k2.units = n.units /\ k2.cash = n.cash + n.pending /\ k2.pending = 0
  <2> HIDE DEF n, k1
  <2> QED BY <1>1, <1>5 DEF Book, AlikeBut
<1>7. /\ k3 \in Book /\ AlikeBut(n, k3) /\ k3.units = n.units + minted /\ k3.cash = n.cash + n.pending
      /\ k3.pending = 0
  <2> HIDE DEF n, k2, minted
  <2> QED BY <1>1, <1>3, <1>6 DEF Book, AlikeBut
<1>8. /\ k4 \in Book /\ AlikeBut(n, k4) /\ k4.units = n.units + minted /\ k4.cash = n.cash + n.pending
      /\ k4.pending = 0
  <2> HIDE DEF n, k3, minted, high
  <2> QED BY <1>1, <1>4, <1>7 DEF Book, AlikeBut
<1>9. t = [s EXCEPT !.books[b] = k4]
  <2>1. Activated(s, b) = [s EXCEPT !.books[b] = [n EXCEPT !.pending = 0, !.cash = @ + n.pending,
                                                          !.units = @ + minted, !.high = high]]
    BY DEF Activated
  <2>2. k4 = [n EXCEPT !.pending = 0, !.cash = @ + n.pending, !.units = @ + minted, !.high = high]
    <3> HIDE DEF n, minted, high
    <3> QED BY <1>1 DEF Book
  <2> QED BY <2>1, <2>2
<1>10. AlikeBook(n, k4)
  <2> HIDE DEF n, k4, minted
  <2> QED BY <1>1, <1>3, <1>8 DEF AlikeBut, AlikeBook
<1> HIDE DEF k4, t
<1>11. OnlyBook(s, t, b) /\ t.books[b] = k4
  BY <1>8, <1>9 DEF OnlyBook, State
<1>12. Kept(s, t)
  BY <1>10, <1>11, BookKept
<1> QED BY <1>11, <1>12 DEF t, OnlyBook

\* A plan is a natural number of lots.
LEMMA PlanForTyped ==
    ASSUME NEW s \in State, NEW r \in Requests, AccountOK
    PROVE  PlanFor(s, r) \in Nat
<1>1. Equity(s, RequestBook[r]) \in Int
  BY RequestsAssumption, EquityTyped
<1>2. Larger(0, Equity(s, RequestBook[r])) \in Nat
  BY <1>1 DEF Larger
<1>3. Weight[r] \in Nat /\ account.price \in Nat /\ account.price > 0
  BY RequestsAssumption DEF AccountOK, Snapshot
<1>4. Larger(0, Equity(s, RequestBook[r])) * Weight[r] \in Nat /\ 100 * account.price \in Nat /\ 100 * account.price > 0
  BY <1>2, <1>3
<1> QED BY <1>4 DEF PlanFor

\* A trade is saved with an amount that leaves the strategy no negative lots.
LEMMA TradeOK ==
    ASSUME NEW s \in State, NEW b \in Books, NEW target \in Nat, NEW x \in StepIds, Kind(x) \in TradeKinds
    PROVE  NewStepOK(x, Trade(s, b, target))
<1>1. s.pool \in Pool /\ s.pool.lots[b] \in Nat
  BY DEF State, Pool
<1>2. TotalLots(s.pool) \in Nat /\ s.pool.lots[b] <= TotalLots(s.pool)
  BY <1>1, PoolSums
<1> QED BY <1>1, <1>2 DEF NewStepOK, Trade, Lots, Step

\* A transfer is saved with a natural amount.
LEMMA CashOK ==
    ASSUME NEW amount \in Nat, NEW x \in StepIds, Kind(x) \notin TradeKinds
    PROVE  NewStepOK(x, Cash(amount))
BY DEF NewStepOK, Cash, Step

\* An open request is the only one of its strategy.
LEMMA OpenOne ==
    ASSUME NEW s, RequestsOK(s), NEW b, NEW r \in OpenRequests(s, b)
    PROVE  /\ r \in Requests /\ RequestBook[r] = b /\ s.requests[r].status \in BeingServed
           /\ \A q \in Requests : RequestBook[q] = RequestBook[r] /\ s.requests[q].status \in BeingServed => q = r
BY DEF OpenRequests, RequestsOK, BeingServed

\* Beginning a request keeps the file correct.
LEMMA BegunOK ==
    ASSUME NEW s, NEW rec, NEW m, NEW v, FileOK(s, rec, m, v),
           NEW b \in Books, NEW r \in OpenRequests(s, b), NEW t, t = [s EXCEPT !.requests[r].status = "EXECUTING"]
    PROVE  FileOK(t, rec, m, v) /\ OnlyRequest(s, t, r) /\ t.requests[r].status = "EXECUTING"
<1> DEFINE old == s.requests[r]
           q == [old EXCEPT !.status = "EXECUTING"]
<1>1. s \in State /\ r \in Requests /\ RequestsOK(s)
  BY DEF FileOK, OpenRequests
<1>2. old \in Request
  BY <1>1 DEF State
<1>3. q \in Request /\ q.status = "EXECUTING"
  <2> HIDE DEF old
  <2> QED BY <1>2 DEF Request
<1>4. t = [s EXCEPT !.requests[r] = q]
  OBVIOUS
<1> HIDE DEF q
<1>5. OnlyRequest(s, t, r) /\ t.requests[r] = q
  BY <1>1, <1>3, <1>4 DEF OnlyRequest, State
<1>6. \A p \in Requests : RequestBook[p] = RequestBook[r] /\ s.requests[p].status \in BeingServed => p = r
  BY <1>1, OpenOne
<1>7. t.requests[r].status \notin Finished
  BY <1>3, <1>5 DEF Finished
<1>8. FileOK(t, rec, m, v)
  BY <1>1, <1>5, <1>6, <1>7, RequestKept
<1> QED BY <1>3, <1>5, <1>8

\* Finishing a request keeps the file correct when nothing of it is unsettled.
LEMMA ExecutedOK ==
    ASSUME NEW s, NEW rec, NEW m, NEW v, FileOK(s, rec, m, v),
           NEW b \in Books, NEW r \in OpenRequests(s, b), Clear(s, rec, b, TRUE)
    PROVE  LET t == [s EXCEPT !.requests[r].status = "EXECUTED"]
           IN  FileOK(t, rec, m, v) /\ t.steps = s.steps
<1> DEFINE old == s.requests[r]
           q == [old EXCEPT !.status = "EXECUTED"]
           t == [s EXCEPT !.requests[r].status = "EXECUTED"]
<1>1. s \in State /\ r \in Requests /\ RequestBook[r] = b
  BY DEF FileOK, OpenRequests
<1>2. old \in Request
  BY <1>1 DEF State
<1>3. q \in Request /\ q.status = "EXECUTED"
  <2> HIDE DEF old
  <2> QED BY <1>2 DEF Request
<1>4. t = [s EXCEPT !.requests[r] = q]
  OBVIOUS
<1> HIDE DEF q, t
<1>5. OnlyRequest(s, t, r) /\ t.requests[r] = q
  BY <1>1, <1>3, <1>4 DEF OnlyRequest, State
<1>6. t.requests[r].status \notin BeingServed
  BY <1>3, <1>5 DEF BeingServed
<1>7. \A x \in StepIds : Kind(x) \in RequestKinds /\ Job(x) = r => ~Unsettled(s, rec, x)
  BY <1>1, StepParts DEF Clear
<1>8. FileOK(t, rec, m, v)
  BY <1>1, <1>5, <1>6, <1>7, RequestKept
<1> QED BY <1>5, <1>8 DEF OnlyRequest, t

\* The parts of the invariant most steps need.
LEMMA Holding ==
    ASSUME IInv
    PROVE  /\ FileOK(saved, record, mined, vault) /\ saved \in State /\ Priced(saved) /\ AccountOK
           /\ RequestsOK(saved) /\ OthersOK
<1>1. saved \in State /\ Priced(saved)
  BY FilePriced DEF IInv
<1> QED BY <1>1 DEF IInv, FileOK, ChainOK, AccountOK

\* Inside a section the tick is with a strategy.
LEMMA InBook ==
    ASSUME IInv, pc \in Inside
    PROVE  book \in Books
BY DEF IInv, ControlOK, LocationOK, Inside

\* Files that are like the one that was read.
LEMMA KeptStep ==
    ASSUME IInv, NEW t, Kept(saved, t)
    PROVE  FileOK(t, record, mined, vault) /\ t.steps = saved.steps /\ t \in State /\ Priced(t)
BY FileKept DEF IInv, Kept, Alike

\* These places need nothing from the file.
LEMMA NothingReached ==
    ASSUME NEW s, NEW bk, NEW l \in {"orders", "mark", "risk", "flat", "settle", "job", "fees"}
    PROVE  Reached(s, l, bk) /\ FeeBooked(s, l, bk)
BY DEF Reached, FeeBooked, RequestLocations

\* The places inside a section, of a request and of the strategy's own jobs.
LEMMA Insides ==
    /\ RequestLocations \cup {"mark", "risk", "flat", "settle", "job", "close", "closed", "collect", "price", "pay",
                              "fees", "feePaid"} = Inside
    /\ RequestLocations \cap {"mark", "risk", "flat", "settle", "job", "close", "closed", "collect", "price", "pay",
                              "fees", "feePaid"} = {}
BY DEF Inside, Outside, Calls, Locations, RequestLocations

\* Outside a section only what is in flight matters.
LEMMA OutsideStays ==
    ASSUME IInv, pc \in {"idle", "ready"}
    PROVE  \A s : ControlOK(s, record, pc, todo, book, cur)
<1>1. pc \in Outside /\ pc \notin Calls
  BY DEF Outside, Calls
<1>2. LocationOK(pc, todo, book, cur) /\ SectionOK(saved, record, pc, todo, book, cur)
  BY DEF IInv, ControlOK
<1>3. ASSUME NEW s PROVE ControlOK(s, record, pc, todo, book, cur)
  <2>1. SectionOK(s, record, pc, todo, book, cur)
    BY <1>1, <1>2 DEF SectionOK, Outside
  <2>2. CallOK(s, record, pc, book, cur) /\ Phase(pc, cur) = pc
    BY <1>1 DEF CallOK, Phase
  <2>3. Reached(s, pc, book) /\ FeeBooked(s, pc, book)
    BY <1>1 DEF Reached, FeeBooked, RequestLocations, Outside
  <2> QED BY <1>2, <2>1, <2>2, <2>3 DEF ControlOK
<1> QED BY <1>3
--------------------------------------------------------------------------------
(* Requests, one lemma for each action. *)

\* accept() keeps the invariant.
LEMMA AcceptKeeps ==
    ASSUME IInv, NEW r \in Requests, Accept(r)
    PROVE  IInv'
<1>1. /\ FileOK(saved, record, mined, vault) /\ saved \in State /\ OthersOK
  BY Holding
<1>2. /\ saved.requests[r].status = "none" /\ OpenRequests(saved, RequestBook[r]) = {}
      /\ saved' = [saved EXCEPT !.requests[r].status = "QUEUED"]
      /\ pc' = pc /\ todo' = todo /\ book' = book /\ cur' = cur
      /\ record' = record /\ mined' = mined /\ vault' = vault /\ UNCHANGED <<chainVars, timeVars, trouble>>
      /\ pc \in {"idle", "ready"}
  BY DEF Accept, orderUnchanged, tickVars, chainVars
<1> DEFINE old == saved.requests[r]
           q == [old EXCEPT !.status = "QUEUED"]
<1>3. q \in Request /\ q.status = "QUEUED"
  <2>1. old \in Request
    BY <1>1 DEF State
  <2> HIDE DEF old
  <2> QED BY <2>1 DEF Request
<1>4. saved' = [saved EXCEPT !.requests[r] = q]
  BY <1>2
<1> HIDE DEF q
<1>5. OnlyRequest(saved, saved', r) /\ saved'.requests[r] = q
  BY <1>1, <1>3, <1>4 DEF OnlyRequest, State
<1>6. \A p \in Requests : RequestBook[p] = RequestBook[r] /\ saved.requests[p].status \in BeingServed => p = r
  BY <1>2 DEF OpenRequests, BeingServed
<1>7. saved'.requests[r].status \notin Finished
  BY <1>3, <1>5 DEF Finished
<1>8. FileOK(saved', record, mined, vault) /\ saved'.steps = saved.steps
  BY <1>1, <1>5, <1>6, <1>7, RequestKept DEF OnlyRequest
<1>9. ControlOK(saved', record, pc', todo', book', cur')
  BY <1>2, OutsideStays
<1> QED BY <1>1, <1>2, <1>8, <1>9, StateStep, SameOthers

\* A section without an open request keeps the invariant.
LEMMA NoOrdersKeeps ==
    ASSUME IInv, NoOrders
    PROVE  IInv'
<1>1. /\ pc = "orders" /\ Goto("mark") /\ saved' = saved /\ UNCHANGED <<chainVars, timeVars, trouble>>
  BY DEF NoOrders, orderUnchanged
<1>2. FileOK(saved', record, mined, vault)
  BY <1>1, Holding
<1> QED BY <1>1, <1>2, GotoStep, Insides, NothingReached, Holding, SameOthers DEF RequestLocations

\* The plan of a request keeps the invariant, also when a check or the valuation
\* fails.
LEMMA PlanRequestKeeps ==
    ASSUME IInv, NEW r \in Requests, PlanRequest(r)
    PROVE  IInv'
<1> DEFINE begun == [saved EXCEPT !.requests[r].status = "EXECUTING"]
           seen == Observed(begun, book)
           active == Activated(seen, book)
           planned == [active EXCEPT !.requests[r].plan = PlanFor(active, r)]
<1>1. /\ pc = "orders" /\ r \in OpenRequests(saved, book) /\ UNCHANGED chainVars /\ UNCHANGED <<timeVars, trouble>>
  BY DEF PlanRequest, orderUnchanged
<1>2. \/ \E s \in {begun, seen} : \E error \in {"expired", "other"} : Throw(s, error)
      \/ MayActivate(seen, book) /\ saved' = planned /\ Goto("release")
  BY DEF PlanRequest
<1>3. pc \in Inside /\ pc \in RequestLocations /\ book \in Books /\ OthersOK' /\ AccountOK
  BY <1>1, Insides, InBook, Holding, SameOthers DEF RequestLocations
<1>4. /\ FileOK(begun, record, mined, vault) /\ begun.steps = saved.steps
      /\ begun.requests[r].status = "EXECUTING"
  <2>1. /\ FileOK(begun, record, mined, vault) /\ OnlyRequest(saved, begun, r)
        /\ begun.requests[r].status = "EXECUTING"
    BY <1>1, <1>3, BegunOK, Holding
  <2> QED BY <2>1 DEF OnlyRequest
<1> HIDE DEF begun
<1>5. begun \in State /\ Priced(begun)
  BY <1>4, FilePriced
<1>6. Kept(begun, seen)
  BY <1>3, <1>5, ObservedKept
<1> HIDE DEF seen
<1>7. FileOK(seen, record, mined, vault) /\ seen.steps = saved.steps /\ seen \in State /\ Priced(seen)
  BY <1>4, <1>6, FileKept DEF Kept, Alike
<1>8. CASE \E s \in {begun, seen} : \E error \in {"expired", "other"} : Throw(s, error)
  BY <1>1, <1>3, <1>4, <1>7, <1>8, ThrowStep
<1>9. CASE MayActivate(seen, book) /\ saved' = planned /\ Goto("release")
  <2>1. Kept(seen, active) /\ active \in State /\ Priced(active)
    BY <1>3, <1>7, <1>9, ActivatedKept DEF Kept
  <2> HIDE DEF active
  <2>2. PlanFor(active, r) \in Nat
    BY <1>3, <2>1, PlanForTyped
  <2>3. Kept(active, planned)
    BY <2>1, <2>2, PlanKept
  <2>6. planned.requests[r].plan # NoPlan
    BY <1>1, <2>1, <2>2 DEF State, Request, NoPlan, OpenRequests
  <2> HIDE DEF planned
  <2>4. FileOK(planned, record, mined, vault) /\ planned.steps = saved.steps
    BY <1>7, <2>1, <2>3, KeptTwice, FileKept DEF Kept, Alike
  <2>7. OpenRequests(planned, book) = {r}
    <3>1. \A q \in Requests : planned.requests[q].status = begun.requests[q].status
      BY <1>6, <2>1, <2>3 DEF Kept, Alike
    <3>2. begun.requests[r].status \in BeingServed /\ RequestBook[r] = book
      BY <1>1, <1>4 DEF OpenRequests, BeingServed
    <3>3. RequestsOK(begun)
      BY <1>4 DEF FileOK
    <3> QED BY <3>1, <3>2, <3>3 DEF OpenRequests, RequestsOK, BeingServed
  <2>5. "release" \in Inside /\ Reached(saved', "release", book) /\ FeeBooked(saved', "release", book)
    BY <1>9, <2>6, <2>7, Insides DEF RequestLocations, Reached, FeeBooked
  <2> QED BY <1>1, <1>3, <1>9, <2>4, <2>5, GotoStep
<1> QED BY <1>2, <1>8, <1>9

-------------------------------------------------------------------------------
(* The jobs of a strategy. *)

\* When a section looks through a step, kind by kind.
LEMMA CurrentKinds ==
    ASSUME NEW s, NEW x \in StepIds
    PROVE  LET k == s.books[BookOf(x)]
           IN  /\ Kind(x) \in RequestKinds => Current(s, x)
               /\ Kind(x) = "pay" => Current(s, x) = (Job(x) \in k.settlement.ids)
               /\ Kind(x) \in {"close", "collect"} =>
                     Current(s, x) = (k.settlement.ids # {} /\ Attempt(x) = k.settlement.attempt)
               /\ Kind(x) = "risk" => Current(s, x) = (Attempt(x) = k.riskTry)
               /\ Kind(x) = "fee" => Current(s, x) = (k.feeAmount > 0 /\ Attempt(x) = k.feeTry)
BY DEF Current, RequestKinds

\* A request that is worked on.
Working == RequestLocations \ {"orders"}
Served(r) == pc \in Working /\ r \in OpenRequests(saved, book)

\* What is known while a request is worked on.
LEMMA ServedFacts ==
    ASSUME IInv, NEW r, Served(r)
    PROVE  /\ r \in Requests /\ RequestBook[r] = book /\ saved.requests[r].plan \in Nat /\ book \in Books
           /\ pc \in Inside /\ pc \in RequestLocations /\ InRequest
           /\ saved.requests[r].status \in BeingServed
<1>1. pc \in Inside /\ pc \in RequestLocations /\ pc \notin Calls
  BY Insides DEF Served, Working, Inside
<1>2. r \in Requests /\ RequestBook[r] = book /\ saved.requests[r].status \in BeingServed
  BY DEF Served, OpenRequests, BeingServed
<1>3. saved.requests[r].plan # NoPlan
  <2>1. Reached(saved, pc, book)
    BY <1>1 DEF IInv, ControlOK, Phase
  <2> QED BY <2>1 DEF Served, Working, Reached
<1>4. saved.requests[r].plan \in Nat
  <2>1. saved \in State
    BY Holding
  <2> QED BY <1>2, <1>3, <2>1 DEF State, Request
<1> QED BY <1>1, <1>2, <1>4, InBook, Requesting DEF Serves

\* A request that is worked on keeps its plan.
LEMMA PlansReached ==
    ASSUME IInv, pc \in Working, NEW t, Kept(saved, t), NEW l \in Working
    PROVE  Reached(t, l, book) /\ FeeBooked(t, l, book)
<1>1. pc \notin Calls /\ l \notin {"close", "closed", "collect", "price", "pay", "feePaid"}
  BY DEF Working, RequestLocations, Calls
<1>2. Reached(saved, pc, book)
  BY <1>1 DEF IInv, ControlOK, Phase
<1>3. \A r \in OpenRequests(t, book) : r \in OpenRequests(saved, book) /\ t.requests[r].plan # NoPlan
  BY <1>2 DEF Kept, Alike, OpenRequests, Reached, Working
<1> QED BY <1>1, <1>3 DEF Reached, FeeBooked

\* An error while a request is worked on keeps the invariant.
LEMMA RequestThrows ==
    ASSUME IInv, NEW r, Served(r), NEW s, Kept(saved, s), NEW error, Throw(s, error), UNCHANGED orderUnchanged
    PROVE  IInv'
<1>1. FileOK(s, record, mined, vault) /\ s.steps = saved.steps
  BY KeptStep
<1>2. OthersOK' /\ UNCHANGED chainVars
  BY Holding, SameOthers DEF orderUnchanged
<1> QED BY <1>1, <1>2, ServedFacts, ThrowStep

\* Going on with a request keeps the invariant.
LEMMA RequestGoes ==
    ASSUME IInv, NEW r, Served(r), NEW s, Kept(saved, s), saved' = s, NEW l \in Working, Goto(l),
           UNCHANGED orderUnchanged
    PROVE  IInv'
<1>1. FileOK(saved', record, mined, vault) /\ saved'.steps = saved.steps
  BY KeptStep
<1>2. OthersOK' /\ UNCHANGED chainVars
  BY Holding, SameOthers DEF orderUnchanged
<1>3. l \in Inside /\ pc \in Inside /\ pc \in RequestLocations
  BY ServedFacts, Insides DEF Working
<1>4. Reached(saved', l, book) /\ FeeBooked(saved', l, book)
  BY PlansReached DEF Served
<1> QED BY <1>1, <1>2, <1>3, <1>4, GotoStep

\* A call for a request keeps the invariant.
LEMMA RequestCalls ==
    ASSUME IInv, NEW r, Served(r), NEW s, Kept(saved, s),
           NEW x \in StepIds, Kind(x) \in RequestKinds, Job(x) = r, NEW args, NewStepOK(x, args),
           CallStep(s, x, args), UNCHANGED orderUnchanged
    PROVE  IInv'
<1>1. FileOK(s, record, mined, vault) /\ s.steps = saved.steps
  BY KeptStep
<1>2. OthersOK' /\ UNCHANGED chainVars
  BY Holding, SameOthers DEF orderUnchanged
<1>3. pc \in Inside /\ pc \in RequestLocations /\ Kind(x) # "fee" /\ BookOf(x) = book
  BY ServedFacts, StepParts DEF RequestKinds
<1>4. Current(s, x)
  BY CurrentKinds
<1>5. Wanted(s, x)
  <2>1. s.requests[r].status = saved.requests[r].status
    BY ServedFacts DEF Kept, Alike
  <2> QED BY <2>1, ServedFacts DEF Wanted, RequestKinds
<1>6. After[Kind(x)] \in Working
  BY AfterKinds DEF RequestKinds, Working, RequestLocations
<1>7. Reached(s, After[Kind(x)], book)
  BY <1>6, PlansReached DEF Served
<1> QED BY <1>1, <1>2, <1>3, <1>4, <1>5, <1>7, CallingStep

\* A reading keeps what matters of the saved file.
LEMMA RefreshedSaved ==
    ASSUME IInv, NEW b \in Books, NEW s, Kept(saved, s)
    PROVE  LET t == Refreshed(s, b)
           IN  /\ Kept(saved, t) /\ t \in State /\ Priced(t) /\ t.books = s.books /\ t.requests = s.requests
               /\ t.withdrawals = s.withdrawals /\ t.pool.lots = s.pool.lots /\ t.pool \in Pool
               /\ t.pool.checkpoint.free \in Nat /\ t.pool.checkpoint.price \in Nat \ {0}
<1>1. s \in State /\ Priced(s) /\ AccountOK /\ saved \in State
  BY Holding DEF Kept
<1> DEFINE t == Refreshed(s, b)
<1>2. /\ Kept(s, t) /\ t.books = s.books /\ t.requests = s.requests /\ t.withdrawals = s.withdrawals
      /\ t.pool.lots = s.pool.lots
  BY <1>1, RefreshedKept
<1> HIDE DEF t
<1>3. Kept(saved, t)
  BY <1>1, <1>2, KeptTwice
<1>4. t.pool \in Pool /\ t.pool.checkpoint.free \in Nat /\ t.pool.checkpoint.price \in Nat \ {0}
  BY <1>2 DEF Kept, State, Priced
<1> QED BY <1>2, <1>3, <1>4 DEF Kept, t

\* The saved file is like itself.
LEMMA SavedKept == ASSUME IInv PROVE Kept(saved, saved)
BY Holding, AlikeItself DEF Kept

\* Noting a fill keeps what matters of the saved file.
LEMMA FilledKept == ASSUME IInv PROVE Kept(saved, WithFill(saved)) /\ WithFill(saved).pool = saved.pool
<1>1. cur \in StepIds \cup {NoStep}
  BY DEF IInv, ControlOK, LocationOK
<1> QED BY <1>1, Holding, FillKept

--------------------------------------------------------------------------------

\* Resuming a request keeps the invariant.
LEMMA ResumeRequestKeeps ==
    ASSUME IInv, NEW r \in Requests, ResumeRequest(r)
    PROVE  IInv'
<1>1. /\ pc = "orders" /\ r \in OpenRequests(saved, book) /\ saved.requests[r].plan # NoPlan
      /\ saved' = [saved EXCEPT !.requests[r].status = "EXECUTING"] /\ Goto("release")
      /\ UNCHANGED chainVars /\ UNCHANGED <<timeVars, trouble>>
  BY DEF ResumeRequest, orderUnchanged
<1>2. pc \in Inside /\ pc \in RequestLocations /\ book \in Books /\ OthersOK'
  BY <1>1, Insides, InBook, Holding, SameOthers DEF RequestLocations
<1>3. FileOK(saved', record, mined, vault) /\ OnlyRequest(saved, saved', r)
  BY <1>1, <1>2, BegunOK, Holding
<1>4. saved'.requests[r].plan = saved.requests[r].plan
  BY <1>1, Holding DEF State, Request
<1>5. OpenRequests(saved', book) \subseteq {r}
  <2>1. \A q \in Requests : RequestBook[q] = book /\ saved.requests[q].status \in BeingServed => q = r
    BY <1>1, Holding, OpenOne
  <2> QED BY <1>3, <2>1 DEF OnlyRequest, OpenRequests, BeingServed
<1>6. "release" \in Inside /\ Reached(saved', "release", book) /\ FeeBooked(saved', "release", book)
  BY <1>1, <1>4, <1>5, Insides DEF RequestLocations, Reached, FeeBooked
<1> QED BY <1>1, <1>2, <1>3, <1>6, GotoStep DEF OnlyRequest

\* Closing an unwanted position keeps the invariant.
LEMMA ReleaseKeeps ==
    ASSUME IInv, NEW r \in Requests, Release(r)
    PROVE  IInv'
<1> DEFINE s == Refreshed(saved, book)
           x == <<"flatten", r, s.requests[r].attempt>>
<1>1. Served(r) /\ UNCHANGED orderUnchanged
  BY DEF Release, Served, Working, RequestLocations
<1>2. book \in Books /\ Kept(saved, saved)
  BY <1>1, ServedFacts, SavedKept
<1>3. Kept(saved, s) /\ s \in State
  BY <1>2, RefreshedSaved
<1>4. \/ Throw(saved, "other") \/ Throw(s, "expired")
      \/ s.requests[r].attempt <= Tries /\ CallStep(s, x, Trade(s, book, 0))
      \/ saved' = s /\ \E l \in {"back", "fund"} : Goto(l)
  BY DEF Release
<1>5. CASE s.requests[r].attempt <= Tries /\ CallStep(s, x, Trade(s, book, 0))
  <2>1. s.requests[r].attempt \in 0 .. Tries
    BY <1>3, <1>5, BoundsAssumption DEF State, Request
  <2>2. x \in StepIds /\ Kind(x) = "flatten" /\ Job(x) = r
    BY <2>1, RequestStep
  <2> HIDE DEF s, x
  <2>3. NewStepOK(x, Trade(s, book, 0))
    BY <1>2, <1>3, <2>2, TradeOK DEF TradeKinds
  <2> QED BY <1>1, <1>3, <1>5, <2>2, <2>3, RequestCalls DEF RequestKinds
<1>6. "back" \in Working /\ "fund" \in Working
  BY DEF Working, RequestLocations
<1> HIDE DEF s, x
<1> QED BY <1>1, <1>2, <1>3, <1>4, <1>5, <1>6, RequestThrows, RequestGoes

\* What follows it keeps the invariant.
LEMMA FlattenedKeeps ==
    ASSUME IInv, NEW r \in Requests, Flattened(r)
    PROVE  IInv'
<1> DEFINE filled == WithFill(saved)
           s == Refreshed(filled, book)
<1>1. Served(r) /\ UNCHANGED orderUnchanged
  BY DEF Flattened, Served, Working, RequestLocations
<1>2. Throw(filled, "other") \/ Throw(s, "partial") \/ (saved' = s /\ Goto("back"))
  BY DEF Flattened
<1>3. Kept(saved, filled) /\ book \in Books
  BY <1>1, ServedFacts, FilledKept
<1>4. Kept(saved, s)
  BY <1>3, RefreshedSaved
<1>5. "back" \in Working
  BY DEF Working, RequestLocations
<1> HIDE DEF filled, s
<1> QED BY <1>1, <1>2, <1>3, <1>4, <1>5, RequestThrows, RequestGoes

\* Taking free collateral back keeps the invariant.
LEMMA BackKeeps ==
    ASSUME IInv, NEW r \in Requests, Back(r)
    PROVE  IInv'
<1> DEFINE s == Refreshed(saved, book)
           x == <<"back", r, 0>>
           amount == Free(s.pool, book)
<1>1. Served(r) /\ UNCHANGED orderUnchanged
  BY DEF Back, Served, Working, RequestLocations
<1>2. Throw(saved, "other") \/ CallStep(s, x, Cash(amount)) \/ (saved' = s /\ Goto("check"))
  BY DEF Back
<1>3. Kept(saved, saved) /\ book \in Books
  BY <1>1, ServedFacts, SavedKept
<1>4. Kept(saved, s) /\ s.pool \in Pool /\ s.pool.checkpoint.free \in Nat
  BY <1>3, RefreshedSaved
<1> HIDE DEF s
<1>5. CASE CallStep(s, x, Cash(amount))
  <2>1. amount \in Nat
    BY <1>3, <1>4, FreeTyped
  <2>2. x \in StepIds /\ Kind(x) = "back" /\ Job(x) = r
    BY CashStep
  <2> HIDE DEF x, amount
  <2>3. NewStepOK(x, Cash(amount))
    BY <2>1, <2>2, CashOK DEF TradeKinds
  <2> QED BY <1>1, <1>4, <1>5, <2>2, <2>3, RequestCalls DEF RequestKinds
<1>6. "check" \in Working
  BY DEF Working, RequestLocations
<1> HIDE DEF x, amount
<1> QED BY <1>1, <1>2, <1>3, <1>4, <1>5, <1>6, RequestThrows, RequestGoes

\* Joining and funding the account keeps the invariant.
LEMMA FundKeeps ==
    ASSUME IInv, NEW r \in Requests, Fund(r)
    PROVE  IInv'
<1> DEFINE joined == [saved EXCEPT !.pool.members = @ \cup {book}]
           s == Refreshed(joined, book)
           x == <<"fund", r, 0>>
           amount == Funding(s.pool, book, Plan(s, r))
<1>1. Served(r) /\ UNCHANGED orderUnchanged
  BY DEF Fund, Served, Working, RequestLocations
<1>2. \/ Throw(joined, "other") \/ Throw(s, "other") \/ CallStep(s, x, Cash(amount))
      \/ (saved' = s /\ Goto("trade"))
  BY DEF Fund
<1>3. book \in Books /\ saved.requests[r].plan \in Nat
  BY <1>1, ServedFacts
<1>4. Kept(saved, joined) /\ joined.requests = saved.requests
  BY <1>3, Holding, JoinedKept
<1> HIDE DEF joined
<1>5. Kept(saved, s) /\ s.pool \in Pool /\ s.requests = joined.requests
  BY <1>3, <1>4, RefreshedSaved
<1> HIDE DEF s
<1>6. CASE CallStep(s, x, Cash(amount))
  <2>1. amount \in Nat
    BY <1>3, <1>4, <1>5, FundingTyped DEF Plan
  <2>2. x \in StepIds /\ Kind(x) = "fund" /\ Job(x) = r
    BY CashStep
  <2> HIDE DEF x, amount
  <2>3. NewStepOK(x, Cash(amount))
    BY <2>1, <2>2, CashOK DEF TradeKinds
  <2> QED BY <1>1, <1>5, <1>6, <2>2, <2>3, RequestCalls DEF RequestKinds
<1>7. "trade" \in Working
  BY DEF Working, RequestLocations
<1> HIDE DEF x, amount
<1> QED BY <1>1, <1>2, <1>4, <1>5, <1>6, <1>7, RequestThrows, RequestGoes

\* Trading to the plan keeps the invariant.
LEMMA TradeToPlanKeeps ==
    ASSUME IInv, NEW r \in Requests, TradeToPlan(r)
    PROVE  IInv'
<1> DEFINE s == Refreshed(saved, book)
           x == <<"target", r, s.requests[r].attempt>>
<1>1. Served(r) /\ UNCHANGED orderUnchanged
  BY DEF TradeToPlan, Served, Working, RequestLocations
<1>2. book \in Books /\ Kept(saved, saved) /\ saved.requests[r].plan \in Nat
  BY <1>1, ServedFacts, SavedKept
<1>3. Kept(saved, s) /\ s \in State /\ s.requests = saved.requests
  BY <1>2, RefreshedSaved
<1>4. \/ Throw(saved, "other") \/ Throw(s, "expired")
      \/ s.requests[r].attempt <= Tries /\ CallStep(s, x, Trade(s, book, Plan(s, r)))
      \/ saved' = s /\ Goto("check")
  BY DEF TradeToPlan
<1>5. CASE s.requests[r].attempt <= Tries /\ CallStep(s, x, Trade(s, book, Plan(s, r)))
  <2>1. s.requests[r].attempt \in 0 .. Tries /\ Plan(s, r) \in Nat
    BY <1>2, <1>3, <1>5, BoundsAssumption DEF State, Request, Plan
  <2>2. x \in StepIds /\ Kind(x) = "target" /\ Job(x) = r
    BY <2>1, RequestStep
  <2> HIDE DEF s, x
  <2>3. NewStepOK(x, Trade(s, book, Plan(s, r)))
    BY <1>2, <1>3, <2>1, <2>2, TradeOK DEF TradeKinds
  <2> QED BY <1>1, <1>3, <1>5, <2>2, <2>3, RequestCalls DEF RequestKinds
<1>6. "check" \in Working
  BY DEF Working, RequestLocations
<1> HIDE DEF s, x
<1> QED BY <1>1, <1>2, <1>3, <1>4, <1>5, <1>6, RequestThrows, RequestGoes

\* The last check of a request keeps the invariant, and the finished request is
\* settled.
LEMMA CheckKeeps ==
    ASSUME IInv, NEW r \in Requests, Check(r)
    PROVE  IInv'
<1> DEFINE filled == WithFill(saved)
           s == Observed(filled, book)
           done == [s EXCEPT !.requests[r].status = "EXECUTED"]
<1>1. Served(r) /\ UNCHANGED orderUnchanged /\ pc = "check"
  BY DEF Check, Served, Working, RequestLocations
<1>2. Throw(filled, "other") \/ Throw(s, "partial") \/ (saved' = done /\ Goto("mark"))
  BY DEF Check
<1>3. Kept(saved, filled) /\ book \in Books
  BY <1>1, ServedFacts, FilledKept
<1> HIDE DEF filled
<1>4. Kept(saved, s)
  <2>1. filled \in State /\ Priced(filled) /\ AccountOK /\ saved \in State
    BY <1>3, Holding DEF Kept
  <2>2. Kept(filled, s)
    BY <1>3, <2>1, ObservedKept
  <2> HIDE DEF s
  <2> QED BY <1>3, <2>1, <2>2, KeptTwice
<1> HIDE DEF s
<1>5. CASE saved' = done /\ Goto("mark")
  <2>1. FileOK(s, record, mined, vault) /\ s.steps = saved.steps
    BY <1>4, KeptStep
  <2>2. pc \in Inside /\ InRequest /\ OthersOK' /\ UNCHANGED chainVars
    BY <1>1, ServedFacts, Holding, SameOthers DEF orderUnchanged
  <2>3. Clear(saved, record, book, TRUE)
    <3>1. Clear(saved, record, book, InRequest)
      BY <2>2, IsClear
    <3> QED BY <2>2, <3>1 DEF Clear
  <2>4. Clear(s, record, book, TRUE)
    BY <2>1, <2>3, SameSteps
  <2>5. r \in OpenRequests(s, book)
    BY <1>1, <1>4 DEF Served, OpenRequests, Kept, Alike
  <2>6. FileOK(done, record, mined, vault) /\ done.steps = s.steps
    BY <1>3, <2>1, <2>4, <2>5, ExecutedOK
  <2> HIDE DEF done
  <2>7. "mark" \in Inside /\ "mark" \notin RequestLocations
    BY Insides DEF RequestLocations
  <2>8. Reached(saved', "mark", book) /\ FeeBooked(saved', "mark", book)
    BY NothingReached
  <2> QED BY <1>5, <2>1, <2>2, <2>6, <2>7, <2>8, GotoStep
<1> QED BY <1>1, <1>2, <1>3, <1>4, <1>5, RequestThrows

--------------------------------------------------------------------------------
(* Marking and the risk exit. *)

\* A file that differs in the job of one strategy: its entry and its redemptions.
OnlyJob(s, t, b) ==
    /\ t \in State /\ t.steps = s.steps /\ t.requests = s.requests /\ t.pool = s.pool
    /\ \A c \in Books \ {b} : t.books[c] = s.books[c]
    /\ \A w \in Withdrawals : WithdrawalBook[w] # b => t.withdrawals[w] = s.withdrawals[w]

\* What the invariant says of one strategy's entry.
BookOK(s, b) ==
    LET k == s.books[b]
        x == k.settlement
    IN  /\ x.attempt <= Tries
        /\ \A w \in x.ids : /\ WithdrawalBook[w] = b
                            /\ s.withdrawals[w].status \in {"SETTLING", "PAID"}
                            /\ ~x.priced => s.withdrawals[w].status = "SETTLING"
        /\ SumFunctionOnSet(Units, OpenOf(s, b)) <= k.units
        /\ k.riskTry <= Tries
        /\ \A y \in StepIds : Kind(y) = "fee" /\ Job(y) = b =>
              /\ Attempt(y) > k.feeTry => s.steps[y].st = "none"
              /\ s.steps[y].st = "saved" => /\ Attempt(y) = k.feeTry /\ k.feeAmount > 0
                                            /\ s.steps[y].amount = k.feeAmount /\ k.feeAmount <= k.fees
        /\ k.feeAmount > 0 => /\ k.feeTry \in 1 .. Tries
                              /\ s.steps[<<"fee", b, k.feeTry>>].st # "none"

\* What is unsettled for the strategy is still wanted.
StillWanted(s, t, rec, b) ==
    \A x \in StepIds : BookOf(x) = b /\ Unsettled(s, rec, x) =>
        Current(t, x) /\ (Kind(x) = "pay" => Payable(t, Job(x)))

\* When nothing of the strategy is unsettled, nothing is still wanted from its jobs.
LEMMA ClearWanted ==
    ASSUME NEW s, NEW t, NEW rec, NEW b, NEW served, Clear(s, rec, b, served)
    PROVE  StillWanted(s, t, rec, b)
BY CurrentKinds DEF Clear, StillWanted, RequestKinds

\* A correct file has correct books.
LEMMA BookIsOK ==
    ASSUME NEW s, NEW rec, NEW m, NEW v, FileOK(s, rec, m, v), NEW b \in Books
    PROVE  BookOK(s, b)
<1>1. SettlementOK(s) /\ UnitsOK(s) /\ FeeOK(s) /\ NumbersOK(s)
  BY DEF FileOK
<1>2. \A y \in StepIds : Kind(y) = "fee" /\ Job(y) = b =>
         LET k == s.books[b] IN
              /\ Attempt(y) > k.feeTry => s.steps[y].st = "none"
              /\ s.steps[y].st = "saved" => /\ Attempt(y) = k.feeTry /\ k.feeAmount > 0
                                            /\ s.steps[y].amount = k.feeAmount /\ k.feeAmount <= k.fees
  BY <1>1 DEF FeeOK
<1>3. s.books[b].feeAmount > 0 => /\ s.books[b].feeTry \in 1 .. Tries
                                  /\ s.steps[<<"fee", b, s.books[b].feeTry>>].st # "none"
  BY <1>1 DEF FeeOK
<1> QED BY <1>1, <1>2, <1>3 DEF BookOK, SettlementOK, UnitsOK, NumbersOK

\* A change of one strategy's job keeps the file correct, if its books are, what is
\* unsettled keeps its job, and its cash does not change.
LEMMA JobKept ==
    ASSUME NEW s, NEW rec, NEW m, NEW v, FileOK(s, rec, m, v), NEW b \in Books, NEW t,
           OnlyJob(s, t, b), BookOK(t, b), StillWanted(s, t, rec, b), Held(t)[b] = Held(s)[b]
    PROVE  FileOK(t, rec, m, v)
<1>1. /\ s \in State /\ t \in State /\ t.steps = s.steps /\ t.requests = s.requests /\ t.pool = s.pool
      /\ \A c \in Books \ {b} : t.books[c] = s.books[c]
      /\ \A w \in Withdrawals : WithdrawalBook[w] # b => t.withdrawals[w] = s.withdrawals[w]
  BY DEF FileOK, OnlyJob
<1>2. RecordsOK(t, rec, m) /\ RequestsOK(t) /\ FinishedOK(t, rec)
  BY <1>1 DEF FileOK, RecordsOK, RequestsOK, FinishedOK, Unsettled
<1>3. SettlementOK(t)
  <2>1. \A c \in Books : s.books[c].settlement.ids \subseteq Withdrawals
    BY <1>1 DEF State, Book, Settlement
  <2>2. SettlementOK(s)
    BY DEF FileOK
  <2> QED BY <1>1, <2>1, <2>2 DEF SettlementOK, BookOK
<1>4. UnitsOK(t)
  <2>1. ASSUME NEW c \in Books \ {b} PROVE OpenOf(t, c) = OpenOf(s, c) /\ t.books[c] = s.books[c]
    BY <1>1 DEF OpenOf
  <2>2. UnitsOK(s)
    BY DEF FileOK
  <2>3. SumFunctionOnSet(Units, OpenOf(t, b)) <= t.books[b].units
    BY DEF BookOK
  <2>4. ASSUME NEW c \in Books PROVE SumFunctionOnSet(Units, OpenOf(t, c)) <= t.books[c].units
    <3>1. CASE c = b
      BY <2>3, <3>1
    <3>2. CASE c # b
      BY <2>1, <2>2, <3>2 DEF UnitsOK
    <3> QED BY <3>1, <3>2
  <2> QED BY <2>4 DEF UnitsOK
<1>5. ForgottenOK(t, rec)
  <2>1. ASSUME NEW x \in StepIds, rec[x] \in {"signed", "ok"}, t.steps[x].st = "saved" PROVE Current(t, x)
    <3>1. CASE BookOf(x) = b
      BY <1>1, <2>1, <3>1 DEF StillWanted, Unsettled
    <3>2. CASE BookOf(x) # b
      <4>1. BookOf(x) \in Books /\ t.books[BookOf(x)] = s.books[BookOf(x)]
        BY <1>1, <3>2, StepParts
      <4>2. Current(s, x)
        BY <1>1, <2>1 DEF FileOK, ForgottenOK
      <4> QED BY <4>1, <4>2 DEF Current
    <3> QED BY <3>1, <3>2
  <2> QED BY <2>1 DEF ForgottenOK
<1>6. PayOK(t, rec)
  <2>1. ASSUME NEW x \in StepIds, Kind(x) = "pay", Unsettled(t, rec, x)
        PROVE  Payable(t, Job(x))
    <3>1. Unsettled(s, rec, x) /\ Job(x) \in Withdrawals /\ BookOf(x) = WithdrawalBook[Job(x)]
      BY <1>1, <2>1, StepParts DEF Unsettled
    <3>2. CASE BookOf(x) = b
      BY <2>1, <3>1, <3>2 DEF StillWanted
    <3>3. CASE BookOf(x) # b
      BY <1>1, <2>1, <3>1, <3>3, WithdrawalsAssumption DEF FileOK, PayOK, Payable
    <3> QED BY <3>2, <3>3
  <2> QED BY <2>1 DEF PayOK
<1>7. FeeOK(t)
  <2>1. FeeOK(s) /\ BookOK(t, b)
    BY DEF FileOK
  <2>2. ASSUME NEW x \in StepIds, Kind(x) = "fee"
        PROVE  LET k == t.books[Job(x)]
               IN  /\ Attempt(x) > k.feeTry => t.steps[x].st = "none"
                   /\ t.steps[x].st = "saved" => /\ Attempt(x) = k.feeTry /\ k.feeAmount > 0
                                                 /\ t.steps[x].amount = k.feeAmount /\ k.feeAmount <= k.fees
    <3>1. CASE Job(x) = b
      BY <2>1, <2>2, <3>1 DEF BookOK
    <3>2. CASE Job(x) # b
      <4>1. t.books[Job(x)] = s.books[Job(x)]
        BY <1>1, <2>2, <3>2, StepParts
      <4> QED BY <1>1, <2>1, <2>2, <4>1 DEF FeeOK
    <3> QED BY <3>1, <3>2
  <2>3. ASSUME NEW c \in Books, t.books[c].feeAmount > 0
        PROVE  t.books[c].feeTry \in 1 .. Tries /\ t.steps[<<"fee", c, t.books[c].feeTry>>].st # "none"
    <3>1. CASE c = b
      BY <2>1, <2>3, <3>1 DEF BookOK
    <3>2. CASE c # b
      BY <1>1, <2>1, <2>3, <3>2 DEF FeeOK
    <3> QED BY <3>1, <3>2
  <2> QED BY <2>2, <2>3 DEF FeeOK
<1>8. NumbersOK(t)
  <2>1. NumbersOK(s) /\ t.books[b].riskTry <= Tries
    BY DEF FileOK, BookOK
  <2> QED BY <1>1, <2>1 DEF NumbersOK
<1>9. VaultOK(t, m, v)
  <2>1. Held(t) = Held(s)
    <3>1. \A c \in Books : Held(t)[c] = Held(s)[c]
      BY <1>1 DEF Held
    <3> QED BY <3>1 DEF Held
  <2>2. Amounts(t) = Amounts(s) /\ \A kinds : UnappliedOf(t, m, kinds) = UnappliedOf(s, m, kinds)
    BY <1>1 DEF Amounts, UnappliedOf
  <2> QED BY <2>1, <2>2 DEF FileOK, VaultOK
<1> QED BY <1>1, <1>2, <1>3, <1>4, <1>5, <1>6, <1>7, <1>8, <1>9 DEF FileOK

\* An error outside a request keeps the invariant.
LEMMA OutThrows ==
    ASSUME IInv, pc \in Inside, NEW s, Kept(saved, s), NEW error, Throw(s, error), UNCHANGED orderUnchanged
    PROVE  IInv'
<1>1. FileOK(s, record, mined, vault) /\ s.steps = saved.steps
  BY KeptStep
<1>2. OthersOK' /\ UNCHANGED chainVars
  BY Holding, SameOthers DEF orderUnchanged
<1> QED BY <1>1, <1>2, ThrowStep

\* Going on outside a request keeps the invariant.
LEMMA OutGoes ==
    ASSUME IInv, pc \in Inside, Kept(saved, saved'), NEW l \in Inside \ RequestLocations, Goto(l),
           Reached(saved', l, book), FeeBooked(saved', l, book), UNCHANGED orderUnchanged
    PROVE  IInv'
<1>1. FileOK(saved', record, mined, vault) /\ saved'.steps = saved.steps
  BY KeptStep
<1>2. OthersOK' /\ UNCHANGED chainVars
  BY Holding, SameOthers DEF orderUnchanged
<1> QED BY <1>1, <1>2, GotoStep

\* The valuation of the strategy keeps the invariant.
LEMMA MarkBookKeeps ==
    ASSUME IInv, MarkBook
    PROVE  IInv'
<1>1. pc = "mark" /\ UNCHANGED orderUnchanged
  BY DEF MarkBook
<1>2. pc \in Inside /\ book \in Books /\ Kept(saved, saved)
  BY <1>1, Insides, InBook, SavedKept
<1>3. Throw(saved, "other") \/ (saved' = Observed(saved, book) /\ \E l \in {"risk", "settle"} : Goto(l))
  BY DEF MarkBook
<1>4. Kept(saved, Observed(saved, book))
  BY <1>2, Holding, ObservedKept
<1>5. \A l \in {"risk", "settle"} : l \in Inside \ RequestLocations
  BY Insides DEF RequestLocations
<1>6. \A l \in {"risk", "settle"} : Reached(saved', l, book) /\ FeeBooked(saved', l, book)
  BY NothingReached
<1> QED BY <1>1, <1>2, <1>3, <1>4, <1>5, <1>6, OutThrows, OutGoes

\* The end of a risk exit keeps the invariant.
LEMMA FlatKeeps ==
    ASSUME IInv, Flat
    PROVE  IInv'
<1> DEFINE s == Refreshed(saved, book)
           t == [s EXCEPT !.books[book].status = "HALTED"]
<1>1. pc = "flat" /\ UNCHANGED orderUnchanged
  BY DEF Flat
<1>2. pc \in Inside /\ book \in Books /\ Kept(saved, saved)
  BY <1>1, Insides, InBook, SavedKept
<1>3. Throw(saved, "other") \/ (saved' \in {s, t} /\ Goto("settle"))
  BY DEF Flat
<1>4. Kept(saved, s) /\ s \in State /\ Priced(s)
  BY <1>2, RefreshedSaved
<1> HIDE DEF s
<1>5. Kept(s, t)
  BY <1>2, <1>4, StatusKept
<1> HIDE DEF t
<1>6. Kept(saved, t)
  BY <1>4, <1>5, Holding, KeptTwice
<1>7. "settle" \in Inside \ RequestLocations
  BY Insides DEF RequestLocations
<1>8. Reached(saved', "settle", book) /\ FeeBooked(saved', "settle", book)
  BY NothingReached
<1> QED BY <1>1, <1>2, <1>3, <1>4, <1>6, <1>7, <1>8, OutThrows, OutGoes

\* Writing a strategy's books changes those books only.
LEMMA BookSet ==
    ASSUME NEW s \in State, NEW b \in Books, NEW k \in Book
    PROVE  LET t == [s EXCEPT !.books[b] = k] IN OnlyBook(s, t, b) /\ t.books[b] = k
BY DEF OnlyBook, State

\* Such a change touches one strategy's jobs at most.
LEMMA OnlyBookJob ==
    ASSUME NEW s, NEW t, NEW b, OnlyBook(s, t, b)
    PROVE  OnlyJob(s, t, b)
BY DEF OnlyBook, OnlyJob

\* Between two steps of a section its own strategy's entry may change.
LEMMA JobFile ==
    ASSUME NEW s, NEW rec, NEW m, NEW v, FileOK(s, rec, m, v), NEW b \in Books, NEW t,
           OnlyJob(s, t, b), BookOK(t, b), NEW served, Clear(s, rec, b, served), Held(t)[b] = Held(s)[b]
    PROVE  FileOK(t, rec, m, v) /\ t.steps = s.steps
BY ClearWanted, JobKept DEF OnlyJob

\* Entries that agree in what the invariant says of them.
SameJob(n, k) ==
    /\ k.settlement = n.settlement /\ k.feeTry = n.feeTry /\ k.feeAmount = n.feeAmount /\ k.fees = n.fees
    /\ k.units = n.units /\ k.pending = n.pending /\ k.cash = n.cash /\ k.credited = n.credited

\* Books with the same job, units and cash stay correct.
LEMMA SameJobOK ==
    ASSUME NEW s, NEW b \in Books, NEW t, OnlyBook(s, t, b), BookOK(s, b),
           SameJob(s.books[b], t.books[b]), t.books[b].riskTry <= Tries
    PROVE  BookOK(t, b) /\ Held(t)[b] = Held(s)[b]
<1>1. OpenOf(t, b) = OpenOf(s, b) /\ t.steps = s.steps /\ t.withdrawals = s.withdrawals
  BY DEF OpenOf, OnlyBook
<1>2. BookOK(t, b)
  BY <1>1 DEF BookOK, SameJob
<1>3. Held(t)[b] = Held(s)[b]
  BY DEF Held, SameJob
<1> QED BY <1>2, <1>3

\* A new risk job keeps the file correct when nothing of the strategy is unsettled.
LEMMA RiskBegun ==
    ASSUME NEW s, NEW rec, NEW m, NEW v, FileOK(s, rec, m, v), NEW b \in Books, NEW served, Clear(s, rec, b, served),
           s.books[b].riskTry < Tries
    PROVE  LET t == [s EXCEPT !.books[b].riskTry = @ + 1]
           IN  /\ FileOK(t, rec, m, v) /\ t.steps = s.steps /\ t.books[b].riskTry = s.books[b].riskTry + 1
               /\ t.books[b].riskTry \in 1 .. Tries
<1> DEFINE n == s.books[b]
           k == [n EXCEPT !.riskTry = @ + 1]
           t == [s EXCEPT !.books[b].riskTry = @ + 1]
<1>1. s \in State /\ n \in Book
  BY DEF FileOK, State
<1>2. t = [s EXCEPT !.books[b] = k]
  OBVIOUS
<1> HIDE DEF t
<1>3. k \in Book /\ SameJob(n, k) /\ k.riskTry = n.riskTry + 1 /\ n.riskTry \in Nat
  <2> HIDE DEF n
  <2> QED BY <1>1 DEF Book, SameJob
<1>4. k.riskTry \in 1 .. Tries
  <2> HIDE DEF k
  <2> QED BY <1>3, BoundsAssumption
<1> HIDE DEF k
<1>5. OnlyBook(s, t, b) /\ t.books[b] = k
  BY <1>1, <1>2, <1>3, BookSet
<1>6. BookOK(s, b)
  BY BookIsOK
<1>7. k.riskTry <= Tries
  BY <1>4
<1>8. BookOK(t, b) /\ Held(t)[b] = Held(s)[b]
  BY <1>3, <1>5, <1>6, <1>7, SameJobOK
<1>9. FileOK(t, rec, m, v) /\ t.steps = s.steps
  BY <1>5, <1>8, OnlyBookJob, JobFile
<1> QED BY <1>3, <1>4, <1>5, <1>9 DEF t

\* A call for a strategy's own job keeps the invariant.
LEMMA BookCalls ==
    ASSUME IInv, pc \in Inside \ RequestLocations, NEW s, FileOK(s, record, mined, vault), s.steps = saved.steps,
           NEW x \in StepIds, Kind(x) \in {"risk", "close", "collect", "pay"}, BookOf(x) = book,
           NEW args, NewStepOK(x, args), Current(s, x), Wanted(s, x),
           Reached(s, After[Kind(x)], book), CallStep(s, x, args), UNCHANGED chainVars, OthersOK'
    PROVE  IInv'
<1>1. Kind(x) # "fee" /\ (pc \in RequestLocations <=> Kind(x) \in RequestKinds) /\ pc \in Inside
  BY DEF RequestKinds
<1> QED BY <1>1, CallingStep

\* riskExit() keeps the invariant.
LEMMA RiskExitKeeps ==
    ASSUME IInv, RiskExit
    PROVE  IInv'
<1> DEFINE renew == saved.books[book].riskTry = 0 \/ book \in late.risk
           begun == IF renew THEN [saved EXCEPT !.books[book].riskTry = @ + 1] ELSE saved
           s == Refreshed(begun, book)
           n == s.books[book].riskTry
           x == <<"risk", book, n>>
<1>1. /\ pc = "risk" /\ (renew => saved.books[book].riskTry < Tries)
      /\ late' = IF renew THEN [late EXCEPT !.risk = @ \ {book}] ELSE late
      /\ UNCHANGED <<chainVars, matured, cutoffs, trouble>>
  BY DEF RiskExit
<1>2. pc \in Inside \ RequestLocations /\ book \in Books
  BY <1>1, Insides, InBook DEF RequestLocations
<1>3. OthersOK' /\ UNCHANGED chainVars
  BY <1>1, Holding DEF OthersOK
<1>4. Throw(begun, "other") \/ CallStep(s, x, Trade(s, book, 0)) \/ (saved' = s /\ Goto("flat"))
  BY DEF RiskExit
<1>5. FileOK(begun, record, mined, vault) /\ begun.steps = saved.steps /\ begun.books[book].riskTry \in 1 .. Tries
  <2>1. CASE renew
    <3>1. Clear(saved, record, book, InRequest)
      BY <1>2, IsClear
    <3> QED BY <1>1, <1>2, <2>1, <3>1, Holding, RiskBegun
  <2>2. CASE ~renew
    <3>1. begun = saved /\ saved.books[book].riskTry # 0
      BY <2>2
    <3>2. saved.books[book].riskTry \in Nat /\ saved.books[book].riskTry <= Tries
      BY <1>2, Holding DEF FileOK, NumbersOK, State, Book
    <3>3. saved.books[book].riskTry \in 1 .. Tries
      BY <3>1, <3>2, BoundsAssumption
    <3> QED BY <3>1, <3>3, Holding
  <2> QED BY <2>1, <2>2
<1> HIDE DEF begun, renew
<1>6. begun \in State /\ Priced(begun)
  BY <1>5, FilePriced
<1>7. Kept(begun, s) /\ s.books = begun.books
  BY <1>2, <1>6, Holding, RefreshedKept
<1>8. n \in 1 .. Tries
  BY <1>5, <1>7
<1> HIDE DEF s
<1>9. FileOK(s, record, mined, vault) /\ s.steps = saved.steps /\ s \in State
  BY <1>5, <1>7, FileKept DEF Kept, Alike
<1>10. CASE CallStep(s, x, Trade(s, book, 0))
  <2>1. x \in StepIds /\ Kind(x) = "risk" /\ Attempt(x) = n /\ BookOf(x) = book
    BY <1>2, <1>8, BookStep
  <2>2. Current(s, x)
    BY <2>1, CurrentKinds
  <2>3. NewStepOK(x, Trade(s, book, 0))
    BY <1>2, <1>9, <2>1, TradeOK DEF TradeKinds
  <2>4. Reached(s, After[Kind(x)], book) /\ Wanted(s, x)
    BY <2>1, NothingReached DEF After, Wanted, RequestKinds
  <2> HIDE DEF n, x
  <2> QED BY <1>2, <1>3, <1>9, <1>10, <2>1, <2>2, <2>3, <2>4, BookCalls
<1>11. "flat" \in Inside /\ "flat" \notin RequestLocations /\ Reached(s, "flat", book) /\ FeeBooked(s, "flat", book)
  BY Insides, NothingReached DEF RequestLocations
<1> QED BY <1>2, <1>3, <1>4, <1>5, <1>9, <1>10, <1>11, ThrowStep, GotoStep

--------------------------------------------------------------------------------
(* Customers' redemptions. *)

OnlyWithdrawal(s, t, w) ==
    /\ t \in State /\ t.steps = s.steps /\ t.requests = s.requests /\ t.pool = s.pool /\ t.books = s.books
    /\ \A u \in Withdrawals \ {w} : t.withdrawals[u] = s.withdrawals[u]

\* A change of a redemption that is not being settled keeps the file correct, if
\* there are units for the open ones.
LEMMA WithdrawalFile ==
    ASSUME NEW s, NEW rec, NEW m, NEW v, FileOK(s, rec, m, v), NEW w \in Withdrawals, NEW t, OnlyWithdrawal(s, t, w),
           s.withdrawals[w].status \notin {"SETTLING", "PAID"},
           SumFunctionOnSet(Units, OpenOf(t, WithdrawalBook[w])) <= s.books[WithdrawalBook[w]].units
    PROVE  FileOK(t, rec, m, v) /\ t.steps = s.steps
<1> DEFINE b == WithdrawalBook[w]
<1>1. b \in Books
  BY WithdrawalsAssumption
<1>2. OnlyJob(s, t, b) /\ Held(t)[b] = Held(s)[b] /\ t.steps = s.steps /\ t.books = s.books
  BY DEF OnlyWithdrawal, OnlyJob, Held
<1>3. BookOK(s, b)
  BY <1>1, BookIsOK
<1>4. s.books[b].settlement.ids \subseteq Withdrawals
  BY <1>1 DEF FileOK, State, Book, Settlement
<1>5. BookOK(t, b)
  <2>1. \A u \in s.books[b].settlement.ids : t.withdrawals[u] = s.withdrawals[u]
    BY <1>3, <1>4 DEF BookOK, OnlyWithdrawal
  <2> QED BY <1>2, <1>3, <2>1 DEF BookOK
<1>6. StillWanted(s, t, rec, b)
  <2>1. ASSUME NEW x \in StepIds, BookOf(x) = b, Unsettled(s, rec, x)
        PROVE  Current(t, x) /\ (Kind(x) = "pay" => Payable(t, Job(x)))
    <3>1. rec[x] \in {"signed", "ok"} /\ s.steps[x].st = "saved"
      <4>1. s.steps[x].st \in {"none", "saved", "applied"} /\ RecordsOK(s, rec, m)
        BY DEF FileOK, State, Step
      <4> QED BY <2>1, <4>1 DEF Unsettled, RecordsOK
    <3>2. Current(s, x)
      BY <3>1 DEF FileOK, ForgottenOK
    <3>3. Current(t, x)
      BY <1>2, <3>2 DEF Current
    <3>4. ASSUME Kind(x) = "pay" PROVE Payable(t, Job(x))
      <4>1. Payable(s, Job(x)) /\ Job(x) \in Withdrawals
        BY <2>1, <3>4, StepParts DEF FileOK, PayOK
      <4> QED BY <1>2, <4>1 DEF OnlyWithdrawal, Payable
    <3> QED BY <3>3, <3>4
  <2> QED BY <2>1 DEF StillWanted
<1> QED BY <1>1, <1>2, <1>5, <1>6, JobKept

\* Writing a redemption's status changes that redemption only.
LEMMA WithdrawalSet ==
    ASSUME NEW s \in State, NEW w \in Withdrawals,
           NEW status \in {"none", "REQUESTED", "SETTLING", "PAID", "CANCELLED"}
    PROVE  LET t == [s EXCEPT !.withdrawals[w].status = status]
           IN  OnlyWithdrawal(s, t, w) /\ t.withdrawals[w].status = status
<1> DEFINE old == s.withdrawals[w]
           k == [old EXCEPT !.status = status]
           t == [s EXCEPT !.withdrawals[w].status = status]
<1>1. old \in Withdrawal
  BY DEF State
<1>2. k \in Withdrawal /\ k.status = status
  <2> HIDE DEF old
  <2> QED BY <1>1 DEF Withdrawal
<1>3. t = [s EXCEPT !.withdrawals[w] = k]
  OBVIOUS
<1> HIDE DEF k, t
<1>4. OnlyWithdrawal(s, t, w) /\ t.withdrawals[w] = k
  BY <1>2, <1>3 DEF OnlyWithdrawal, State
<1> QED BY <1>2, <1>4 DEF t

\* The model's sum of units is the library's.
LEMMA SumOfUnits == ASSUME NEW S \in SUBSET Withdrawals PROVE SumOf(S, units) = SumFunctionOnSet(Units, S)
<1>1. IsFiniteSet(S)
  BY WithdrawalsAssumption, FS_Subset
<1>2. \A w \in S : [x \in S |-> units(x)][w] = Units[w]
  BY DEF units
<1> QED BY <1>1, <1>2, SumSame DEF SumOf

\* A customer's call between sections keeps the invariant, if it keeps the file
\* correct.
LEMMA OutsideStep ==
    ASSUME IInv, pc \in {"idle", "ready"}, UNCHANGED <<orderUnchanged, tickVars>>,
           FileOK(saved', record, mined, vault), saved'.steps = saved.steps
    PROVE  IInv'
<1>1. UNCHANGED chainVars /\ pc' = pc /\ todo' = todo /\ book' = book /\ cur' = cur /\ OthersOK'
  BY Holding, SameOthers DEF orderUnchanged, tickVars
<1>2. ControlOK(saved', record, pc', todo', book', cur')
  BY <1>1, OutsideStays
<1> QED BY <1>1, <1>2, StateStep

\* requestWithdrawal() keeps the invariant.
LEMMA RequestWithdrawalKeeps ==
    ASSUME IInv, NEW w \in Withdrawals, RequestWithdrawal(w)
    PROVE  IInv'
<1> DEFINE b == WithdrawalBook[w]
<1>1. /\ pc \in {"idle", "ready"} /\ saved.withdrawals[w].status = "none"
      /\ Units[w] + SumOf(OpenWithdrawals(b), units) <= saved.books[b].units
      /\ saved' = [saved EXCEPT !.withdrawals[w].status = "REQUESTED"]
      /\ UNCHANGED <<orderUnchanged, tickVars>>
  BY DEF RequestWithdrawal, settleUnchanged, orderUnchanged
<1>2. OnlyWithdrawal(saved, saved', w) /\ saved'.withdrawals[w].status = "REQUESTED"
  BY <1>1, Holding, WithdrawalSet
<1>3. OpenWithdrawals(b) = OpenOf(saved, b) /\ OpenOf(saved, b) \in SUBSET Withdrawals
  BY DEF OpenWithdrawals, OpenOf
<1>4. SumFunctionOnSet(Units, OpenOf(saved', b)) = Units[w] + SumFunctionOnSet(Units, OpenOf(saved, b))
  <2>1. OpenOf(saved', b) = OpenOf(saved, b) \cup {w} /\ w \notin OpenOf(saved, b)
    BY <1>1, <1>2 DEF OpenOf, OnlyWithdrawal
  <2>2. IsFiniteSet(OpenOf(saved, b)) /\ \A x \in OpenOf(saved, b) \cup {w} : Units[x] \in Int
    BY <1>3, WithdrawalsAssumption, FS_Subset
  <2> QED BY <2>1, <2>2, SumAdd
<1>5. SumFunctionOnSet(Units, OpenOf(saved', b)) <= saved.books[b].units
  BY <1>1, <1>3, <1>4, SumOfUnits
<1>6. FileOK(saved', record, mined, vault) /\ saved'.steps = saved.steps
  BY <1>1, <1>2, <1>5, Holding, WithdrawalFile
<1> QED BY <1>1, <1>6, OutsideStep

\* cancelWithdrawal() keeps the invariant.
LEMMA CancelWithdrawalKeeps ==
    ASSUME IInv, NEW w \in Withdrawals, CancelWithdrawal(w)
    PROVE  IInv'
<1> DEFINE b == WithdrawalBook[w]
<1>1. /\ pc \in {"idle", "ready"} /\ saved.withdrawals[w].status = "REQUESTED"
      /\ saved' = [saved EXCEPT !.withdrawals[w].status = "CANCELLED"]
      /\ UNCHANGED <<orderUnchanged, tickVars>>
  BY DEF CancelWithdrawal, MayCancel, settleUnchanged, orderUnchanged
<1>2. OnlyWithdrawal(saved, saved', w) /\ saved'.withdrawals[w].status = "CANCELLED"
  BY <1>1, Holding, WithdrawalSet
<1>3. SumFunctionOnSet(Units, OpenOf(saved', b)) <= saved.books[b].units
  <2>1. OpenOf(saved', b) \in SUBSET OpenOf(saved, b)
    BY <1>2 DEF OpenOf, OnlyWithdrawal
  <2>2. IsFiniteSet(OpenOf(saved, b)) /\ \A x \in OpenOf(saved, b) : Units[x] \in Nat
    BY WithdrawalsAssumption, FS_Subset DEF OpenOf
  <2>3. /\ SumFunctionOnSet(Units, OpenOf(saved', b)) <= SumFunctionOnSet(Units, OpenOf(saved, b))
        /\ SumFunctionOnSet(Units, OpenOf(saved', b)) \in Nat /\ SumFunctionOnSet(Units, OpenOf(saved, b)) \in Nat
    BY <2>1, <2>2, SumGrows
  <2>4. SumFunctionOnSet(Units, OpenOf(saved, b)) <= saved.books[b].units /\ saved.books[b].units \in Nat
    BY Holding, WithdrawalsAssumption DEF FileOK, UnitsOK, State, Book
  <2> QED BY <2>3, <2>4
<1>4. FileOK(saved', record, mined, vault) /\ saved'.steps = saved.steps
  BY <1>1, <1>2, <1>3, Holding, WithdrawalFile
<1> QED BY <1>1, <1>4, OutsideStep

\* A step that touches neither chain nor file nor tick keeps the invariant.
LEMMA TickStays ==
    ASSUME IInv, UNCHANGED <<chainVars, saved, tickVars>>, OthersOK'
    PROVE  IInv'
BY StateStep, Holding DEF IInv, tickVars

\* Time passing keeps the invariant.
LEMMA MatureKeeps ==
    ASSUME IInv, Mature
    PROVE  IInv'
<1>1. OthersOK'
  BY Holding DEF Mature, OthersOK
<1> QED BY <1>1, TickStays DEF Mature

--------------------------------------------------------------------------------
(* The settlement of a strategy's redemptions. *)

\* A settlement with nothing due keeps the invariant.
LEMMA NothingDueKeeps ==
    ASSUME IInv, NothingDue
    PROVE  IInv'
<1>1. pc = "settle" /\ saved' = saved /\ Goto("job") /\ UNCHANGED orderUnchanged
  BY DEF NothingDue, settleUnchanged, orderUnchanged
<1>2. pc \in Inside /\ "job" \in Inside \ RequestLocations /\ Kept(saved, saved')
  BY <1>1, Insides, SavedKept DEF RequestLocations
<1>3. Reached(saved', "job", book) /\ FeeBooked(saved', "job", book)
  BY NothingReached
<1> QED BY <1>1, <1>2, <1>3, OutGoes

\* An entry with another settlement.
OtherSettlement(n, k) ==
    /\ k.riskTry = n.riskTry /\ k.feeTry = n.feeTry /\ k.feeAmount = n.feeAmount /\ k.fees = n.fees
    /\ k.units = n.units /\ k.pending = n.pending /\ k.cash = n.cash /\ k.credited = n.credited

\* Writing a settlement changes that settlement only.
LEMMA SettlementSet ==
    ASSUME NEW s \in State, NEW b \in Books, NEW x \in Settlement
    PROVE  LET t == [s EXCEPT !.books[b].settlement = x]
           IN  OnlyBook(s, t, b) /\ OtherSettlement(s.books[b], t.books[b]) /\ t.books[b].settlement = x
<1> DEFINE n == s.books[b]
           k == [n EXCEPT !.settlement = x]
           t == [s EXCEPT !.books[b].settlement = x]
<1>1. n \in Book
  BY DEF State
<1>2. t = [s EXCEPT !.books[b] = k]
  OBVIOUS
<1> HIDE DEF t
<1>3. k \in Book /\ OtherSettlement(n, k) /\ k.settlement = x
  <2> HIDE DEF n
  <2> QED BY <1>1 DEF Book, OtherSettlement
<1> HIDE DEF k
<1>4. OnlyBook(s, t, b) /\ t.books[b] = k
  BY <1>2, <1>3, BookSet
<1> QED BY <1>3, <1>4 DEF t

\* Books stay correct with a settlement that lists its own redemptions.
LEMMA SettlementBookOK ==
    ASSUME NEW s, NEW b \in Books, NEW t, OnlyBook(s, t, b), BookOK(s, b), OtherSettlement(s.books[b], t.books[b]),
           t.books[b].settlement.attempt <= Tries,
           \A w \in t.books[b].settlement.ids :
               /\ WithdrawalBook[w] = b
               /\ t.withdrawals[w].status \in {"SETTLING", "PAID"}
               /\ ~t.books[b].settlement.priced => t.withdrawals[w].status = "SETTLING"
    PROVE  BookOK(t, b) /\ Held(t)[b] = Held(s)[b]
<1>1. OpenOf(t, b) = OpenOf(s, b) /\ t.steps = s.steps /\ t.withdrawals = s.withdrawals
  BY DEF OpenOf, OnlyBook
<1>2. BookOK(t, b)
  BY <1>1 DEF BookOK, OtherSettlement
<1>3. Held(t)[b] = Held(s)[b]
  BY DEF Held, OtherSettlement
<1> QED BY <1>2, <1>3

\* So does the file, when nothing of the strategy is unsettled.
LEMMA SettlementFile ==
    ASSUME NEW s, NEW rec, NEW m, NEW v, FileOK(s, rec, m, v), NEW b \in Books, NEW x \in Settlement,
           NEW served, Clear(s, rec, b, served), x.attempt <= Tries,
           \A w \in x.ids :
               /\ WithdrawalBook[w] = b
               /\ s.withdrawals[w].status \in {"SETTLING", "PAID"}
               /\ ~x.priced => s.withdrawals[w].status = "SETTLING"
    PROVE  LET t == [s EXCEPT !.books[b].settlement = x]
           IN  FileOK(t, rec, m, v) /\ t.steps = s.steps /\ t.books[b].settlement = x
<1> DEFINE t == [s EXCEPT !.books[b].settlement = x]
<1>1. s \in State /\ BookOK(s, b)
  BY BookIsOK DEF FileOK
<1>2. OnlyBook(s, t, b) /\ OtherSettlement(s.books[b], t.books[b]) /\ t.books[b].settlement = x
  BY <1>1, SettlementSet
<1> HIDE DEF t
<1>3. t.withdrawals = s.withdrawals
  BY <1>2 DEF OnlyBook
<1>4. BookOK(t, b) /\ Held(t)[b] = Held(s)[b]
  BY <1>1, <1>2, <1>3, SettlementBookOK
<1>5. FileOK(t, rec, m, v) /\ t.steps = s.steps
  BY <1>2, <1>4, OnlyBookJob, JobFile
<1> QED BY <1>2, <1>5 DEF t

\* What is known of a settlement.
LEMMA SettlementFacts ==
    ASSUME IInv, pc \in Inside
    PROVE  LET x == saved.books[book].settlement
           IN  /\ x \in Settlement /\ x.attempt <= Tries /\ x.attempt \in Nat
               /\ \A w \in x.ids : /\ w \in Withdrawals /\ WithdrawalBook[w] = book
                                   /\ saved.withdrawals[w].status \in {"SETTLING", "PAID"}
                                   /\ ~x.priced => saved.withdrawals[w].status = "SETTLING"
<1>1. book \in Books /\ saved \in State /\ FileOK(saved, record, mined, vault)
  BY InBook, Holding
<1>2. BookOK(saved, book)
  BY <1>1, BookIsOK
<1>3. saved.books[book].settlement \in Settlement
  BY <1>1 DEF State, Book
<1> QED BY <1>2, <1>3 DEF BookOK, Settlement

\* A settlement's new job keeps the invariant: the old one has nothing outstanding.
LEMMA SettlementJobKeeps ==
    ASSUME IInv, SettlementJob
    PROVE  IInv'
<1> DEFINE x == SettlementOf(saved, book)
           y == [x EXCEPT !.attempt = @ + 1, !.costBase = NoBase, !.costApplied = FALSE]
           renew == x.ids # {} /\ JobIsOver(book)
           l == IF x.ids = {} THEN "fees" ELSE IF x.priced THEN "pay" ELSE "close"
<1>1. /\ pc = "job" /\ (renew => x.attempt < Tries) /\ Goto(l)
      /\ late' = (IF renew THEN [late EXCEPT !.settle = @ \ {book}] ELSE late)
      /\ UNCHANGED <<chainVars, matured, cutoffs, trouble>>
  BY DEF SettlementJob
<1>2. pc \in Inside /\ book \in Books /\ l \in Inside \ RequestLocations /\ OthersOK' /\ UNCHANGED chainVars
  BY <1>1, Insides, InBook, Holding DEF RequestLocations, OthersOK
<1>3. x \in Settlement /\ x.attempt \in Nat /\ x = saved.books[book].settlement
  BY <1>2, SettlementFacts DEF SettlementOf
<1>4. ASSUME renew
      PROVE  /\ FileOK(saved', record, mined, vault) /\ saved'.steps = saved.steps
             /\ saved'.books[book].settlement.ids = x.ids /\ saved'.books[book].settlement.priced = x.priced
             /\ saved'.books[book].settlement.attempt > 0
  <2>1. /\ y \in Settlement /\ y.ids = x.ids /\ y.priced = x.priced /\ y.attempt = x.attempt + 1
    <3> DEFINE y1 == [x EXCEPT !.attempt = @ + 1]
               y2 == [y1 EXCEPT !.costBase = NoBase]
    <3>1. y1 \in Settlement /\ y1.ids = x.ids /\ y1.priced = x.priced /\ y1.attempt = x.attempt + 1
      <4> HIDE DEF x
      <4> QED BY <1>3 DEF Settlement
    <3>2. y2 \in Settlement /\ y2.ids = x.ids /\ y2.priced = x.priced /\ y2.attempt = x.attempt + 1
      <4> HIDE DEF x, y1
      <4> QED BY <3>1 DEF Settlement, NoBase
    <3>3. y = [y2 EXCEPT !.costApplied = FALSE]
      <4> HIDE DEF x
      <4> QED BY <1>3 DEF Settlement
    <3> HIDE DEF x, y2, y
    <3> QED BY <3>2, <3>3 DEF Settlement
  <2>2. saved' = [saved EXCEPT !.books[book].settlement = y]
    BY <1>4 DEF SettlementJob
  <2>3. Clear(saved, record, book, InRequest)
    BY <1>2, IsClear
  <2>4. y.attempt <= Tries
    BY <1>1, <1>3, <1>4, <2>1, BoundsAssumption
  <2>5. \A w \in y.ids : /\ WithdrawalBook[w] = book
                         /\ saved.withdrawals[w].status \in {"SETTLING", "PAID"}
                         /\ ~y.priced => saved.withdrawals[w].status = "SETTLING"
    BY <1>2, <1>3, <2>1, SettlementFacts
  <2> HIDE DEF x, y
  <2>6. FileOK(saved', record, mined, vault) /\ saved'.steps = saved.steps /\ saved'.books[book].settlement = y
    BY <1>2, <2>1, <2>2, <2>3, <2>4, <2>5, Holding, SettlementFile
  <2>7. y.attempt > 0
    BY <1>3, <2>1
  <2> QED BY <2>1, <2>6, <2>7
<1>5. ASSUME ~renew
      PROVE  /\ FileOK(saved', record, mined, vault) /\ saved'.steps = saved.steps
             /\ saved'.books[book].settlement.ids = x.ids /\ saved'.books[book].settlement.priced = x.priced
             /\ x.ids # {} => saved'.books[book].settlement.attempt > 0
  <2>1. saved' = saved
    BY <1>5 DEF SettlementJob
  <2>2. x.ids # {} => x.attempt # 0
    BY <1>5 DEF JobIsOver
  <2> QED BY <1>3, <2>1, <2>2, Holding
<1>6. Reached(saved', l, book) /\ FeeBooked(saved', l, book)
  BY <1>4, <1>5 DEF Reached, FeeBooked, RequestLocations
<1> HIDE DEF x, l, renew
<1> QED BY <1>1, <1>2, <1>4, <1>5, <1>6, GotoStep

\* Closing a settlement whose redemptions are paid keeps the invariant.
LEMMA CloseSettlementKeeps ==
    ASSUME IInv, CloseSettlement
    PROVE  IInv'
<1>1. /\ pc = "pay" /\ saved' = [saved EXCEPT !.books[book].settlement = NoSettlement] /\ Goto("fees")
      /\ UNCHANGED orderUnchanged
  BY DEF CloseSettlement, settleUnchanged, orderUnchanged
<1>2. pc \in Inside /\ book \in Books /\ "fees" \in Inside \ RequestLocations
  BY <1>1, Insides, InBook DEF RequestLocations
<1>3. Clear(saved, record, book, InRequest)
  BY <1>2, IsClear
<1>4. NoSettlement \in Settlement /\ NoSettlement.ids = {} /\ NoSettlement.attempt <= Tries
  BY BoundsAssumption DEF NoSettlement, Settlement, NoBase
<1>5. FileOK(saved', record, mined, vault) /\ saved'.steps = saved.steps
  BY <1>1, <1>2, <1>3, <1>4, Holding, SettlementFile
<1>6. OthersOK' /\ UNCHANGED chainVars
  BY <1>1, Holding, SameOthers DEF orderUnchanged
<1>7. Reached(saved', "fees", book) /\ FeeBooked(saved', "fees", book)
  BY NothingReached
<1> QED BY <1>1, <1>2, <1>5, <1>6, <1>7, GotoStep

\* What the divisions of the settlement return.
LEMMA TimesGrows ==
    ASSUME NEW a \in Nat, NEW c \in Nat, NEW n \in Nat, a <= c
    PROVE  a * n <= c * n
OBVIOUS

\* A quotient of natural numbers is one.
LEMMA QuotientTyped ==
    ASSUME NEW a \in Nat, NEW n \in Nat, n > 0
    PROVE  a \div n \in Nat
OBVIOUS

\* A quotient times its divisor is not above the dividend.
LEMMA QuotientBelow ==
    ASSUME NEW a \in Nat, NEW n \in Nat, n > 0
    PROVE  (a \div n) * n <= a
OBVIOUS

\* A share of an amount is a natural number not above the amount.
LEMMA ShareBelow ==
    ASSUME NEW e \in Nat, NEW part \in Nat, NEW whole \in Nat, whole > 0, part <= whole
    PROVE  (e * part) \div whole \in Nat /\ (e * part) \div whole <= e
<1>1. e * part \in Nat /\ e * part <= e * whole
  BY TimesGrows
<1> DEFINE q == (e * part) \div whole
<1>2. q \in Nat /\ q * whole <= e * part
  BY <1>1, QuotientTyped, QuotientBelow
<1> HIDE DEF q
<1>3. ASSUME q > e PROVE FALSE
  <2>1. (e + 1) * whole <= q * whole
    BY <1>2, <1>3, TimesGrows
  <2>2. (e + 1) * whole = e * whole + whole
    OBVIOUS
  <2>3. e * whole \in Nat /\ q * whole \in Nat
    BY <1>2
  <2> HIDE DEF q
  <2> QED BY <1>1, <1>2, <2>1, <2>2, <2>3
<1> QED BY <1>2, <1>3 DEF q

\* A fee within its bound is not above the value.
LEMMA HighTyped ==
    ASSUME NEW value \in Nat, NEW fee \in Nat, NEW hu \in Nat, NEW he \in Nat, NEW ku \in Nat,
           fee = 0 \/ fee * hu + he * ku <= value * hu, value * hu > he * ku
    PROVE  value - fee \in Nat
<1>1. he * ku \in Nat /\ value * hu \in Nat /\ fee * hu \in Nat
  OBVIOUS
<1>2. hu > 0
  <2>1. ASSUME hu = 0 PROVE value * hu = 0
    BY <2>1
  <2> QED BY <1>1, <2>1
<1>3. CASE fee > value
  <2>1. (value + 1) * hu <= fee * hu
    BY <1>3, TimesGrows
  <2>2. (value + 1) * hu = value * hu + hu
    OBVIOUS
  <2>3. fee * hu + he * ku <= value * hu
    BY <1>3
  <2> QED BY <1>1, <1>2, <2>1, <2>2, <2>3
<1> QED BY <1>3

\* What is cut off at zero is a natural number.
LEMMA LargerTyped == ASSUME NEW n \in Int PROVE Larger(0, n) \in Nat
BY DEF Larger

--------------------------------------------------------------------------------

\* A change of a settlement's figures keeps what matters.
LEMMA SettlementKept ==
    ASSUME NEW s \in State, Priced(s), NEW b \in Books, NEW x \in Settlement,
           x.ids = s.books[b].settlement.ids, x.attempt = s.books[b].settlement.attempt,
           x.priced = s.books[b].settlement.priced
    PROVE  LET t == [s EXCEPT !.books[b].settlement = x]
           IN  Kept(s, t) /\ t.pool = s.pool /\ t.books[b].settlement = x
<1> DEFINE t == [s EXCEPT !.books[b].settlement = x]
<1>1. OnlyBook(s, t, b) /\ OtherSettlement(s.books[b], t.books[b]) /\ t.books[b].settlement = x
  BY SettlementSet
<1> HIDE DEF t
<1>2. s.books[b] \in Book
  BY DEF State
<1>3. AlikeBook(s.books[b], t.books[b])
  BY <1>1, <1>2 DEF AlikeBook, OtherSettlement, Book
<1>4. Kept(s, t)
  BY <1>1, <1>3, BookKept
<1> QED BY <1>1, <1>4 DEF t, OnlyBook

Settling == {"close", "closed", "collect", "price"}

\* A settlement that is worked on stays there.
LEMMA SettlingReached ==
    ASSUME IInv, pc \in Settling, NEW t, Kept(saved, t), NEW l \in Settling
    PROVE  /\ Reached(t, l, book) /\ FeeBooked(t, l, book) /\ t.books[book].settlement.ids # {}
           /\ t.books[book].settlement.attempt \in 1 .. Tries /\ book \in Books
           /\ t.books[book].settlement.ids = saved.books[book].settlement.ids
           /\ t.books[book].settlement.attempt = saved.books[book].settlement.attempt
<1>1. pc \in Inside /\ pc \notin Calls /\ pc \notin RequestLocations
  BY Insides DEF Settling, Inside, RequestLocations
<1>2. Reached(saved, pc, book)
  BY <1>1 DEF IInv, ControlOK, Phase
<1>3. book \in Books
  BY <1>1, InBook
<1>4. /\ t.books[book].settlement.ids = saved.books[book].settlement.ids
      /\ t.books[book].settlement.attempt = saved.books[book].settlement.attempt
      /\ t.books[book].settlement.priced = saved.books[book].settlement.priced
  BY <1>3 DEF Kept, Alike, AlikeBook
<1>5. /\ t.books[book].settlement.ids # {} /\ ~t.books[book].settlement.priced
      /\ t.books[book].settlement.attempt > 0
  BY <1>2, <1>4 DEF Reached, Settling
<1>6. Reached(t, l, book) /\ FeeBooked(t, l, book)
  BY <1>5 DEF Reached, FeeBooked, Settling, RequestLocations
<1>7. t.books[book].settlement.attempt \in 1 .. Tries
  BY <1>1, <1>4, <1>5, SettlementFacts, BoundsAssumption
<1> QED BY <1>3, <1>4, <1>5, <1>6, <1>7

\* The places of a settlement are inside a section and outside requests.
LEMMA SettlingFacts ==
    pc \in Settling => pc \in Inside /\ pc \in Inside \ RequestLocations
BY Insides DEF Settling, RequestLocations

\* An error while a settlement is worked on keeps the invariant.
LEMMA SettlingThrows ==
    ASSUME IInv, pc \in Settling, NEW s, Kept(saved, s), NEW error, Throw(s, error), UNCHANGED orderUnchanged
    PROVE  IInv'
BY SettlingFacts, OutThrows

\* Going on with a settlement keeps the invariant.
LEMMA SettlingGoes ==
    ASSUME IInv, pc \in Settling, Kept(saved, saved'), NEW l \in Settling, Goto(l), UNCHANGED orderUnchanged
    PROVE  IInv'
<1>1. l \in Inside \ RequestLocations
  BY Insides DEF Settling, RequestLocations
<1>2. Reached(saved', l, book) /\ FeeBooked(saved', l, book)
  BY SettlingReached
<1> QED BY <1>1, <1>2, SettlingFacts, OutGoes

\* A call for a settlement keeps the invariant.
LEMMA SettlingCalls ==
    ASSUME IInv, pc \in Settling, NEW s, Kept(saved, s), NEW x \in StepIds, Kind(x) \in {"close", "collect"},
           BookOf(x) = book, Attempt(x) = s.books[book].settlement.attempt,
           NEW args, NewStepOK(x, args), CallStep(s, x, args), UNCHANGED orderUnchanged
    PROVE  IInv'
<1>1. s.books[book].settlement.ids # {}
  BY SettlingReached
<1>2. Current(s, x)
  BY <1>1, CurrentKinds
<1>3. Wanted(s, x) /\ Kind(x) \in {"risk", "close", "collect", "pay"}
  BY DEF Wanted, RequestKinds
<1>4. After[Kind(x)] \in Settling
  BY DEF After, Settling
<1>5. Reached(s, After[Kind(x)], book)
  BY <1>4, SettlingReached
<1>6. FileOK(s, record, mined, vault) /\ s.steps = saved.steps
  BY KeptStep
<1>7. OthersOK' /\ UNCHANGED chainVars /\ pc \in Inside \ RequestLocations
  BY Holding, SameOthers, SettlingFacts DEF orderUnchanged
<1> QED BY <1>2, <1>3, <1>5, <1>6, <1>7, BookCalls

\* The closing trade keeps the invariant.
LEMMA CloseLotsKeeps ==
    ASSUME IInv, CloseLots
    PROVE  IInv'
<1> DEFINE x == SettlementOf(saved, book)
           step == <<"close", book, x.attempt>>
           seen == Observed(saved, book)
           base == [equity |-> Larger(0, Equity(seen, book)), price |-> account.price]
           based == IF x.costBase # NoBase THEN Refreshed(saved, book)
                    ELSE [seen EXCEPT !.books[book].settlement.costBase = base]
<1>1. pc \in Settling /\ UNCHANGED orderUnchanged
  BY DEF CloseLots, Settling, settleUnchanged, orderUnchanged
<1>2. book \in Books /\ Kept(saved, saved) /\ Kept(saved, Refreshed(saved, book)) /\ AccountOK
  BY <1>1, SavedKept, SettlingReached, RefreshedSaved, Holding
<1>3. \/ \E s \in {saved, Refreshed(saved, book)} : saved' = s /\ Goto("collect")
      \/ saved' = based /\ Goto("closed")
      \/ \E s \in {saved, based} : \E error \in {"other", "expired"} : Throw(s, error)
      \/ CallStep(based, step, Trade(based, book, x.target))
  BY DEF CloseLots
<1>4. Kept(saved, seen) /\ seen \in State /\ Priced(seen)
  BY <1>2, Holding, ObservedKept DEF Kept
<1> HIDE DEF seen
<1>5. Kept(saved, based)
  <2> DEFINE old == seen.books[book].settlement
             y == [old EXCEPT !.costBase = base]
             t == [seen EXCEPT !.books[book].settlement = y]
  <2>1. base \in [equity : Int, price : Nat]
    BY <1>2, <1>4, EquityTyped, LargerTyped DEF AccountOK, Snapshot
  <2>2. old \in Settlement
    BY <1>2, <1>4 DEF State, Book
  <2>3. y \in Settlement /\ y.ids = old.ids /\ y.attempt = old.attempt /\ y.priced = old.priced
    <3> HIDE DEF old, base
    <3> QED BY <2>1, <2>2 DEF Settlement
  <2>4. [seen EXCEPT !.books[book].settlement.costBase = base] = t
    OBVIOUS
  <2> HIDE DEF y, base
  <2>5. Kept(seen, t)
    BY <1>2, <1>4, <2>3, SettlementKept
  <2> HIDE DEF t
  <2>6. Kept(saved, t)
    BY <1>4, <2>5, Holding, KeptTwice
  <2> QED BY <1>2, <2>4, <2>6
<1> HIDE DEF based
<1>6. CASE CallStep(based, step, Trade(based, book, x.target))
  <2>1. x.attempt = based.books[book].settlement.attempt /\ x.attempt \in 1 .. Tries
    BY <1>1, <1>5, SettlingReached DEF SettlementOf
  <2>2. step \in StepIds /\ Kind(step) = "close" /\ BookOf(step) = book /\ Attempt(step) = x.attempt
    BY <1>2, <2>1, BookStep
  <2>3. x.target \in Nat
    BY <1>1, SettlingFacts, SettlementFacts DEF SettlementOf, Settlement
  <2>4. NewStepOK(step, Trade(based, book, x.target))
    <3>1. based \in State
      BY <1>5 DEF Kept
    <3> HIDE DEF step, x
    <3> QED BY <1>2, <2>2, <2>3, <3>1, TradeOK DEF TradeKinds
  <2> HIDE DEF x, step
  <2> QED BY <1>1, <1>5, <1>6, <2>1, <2>2, <2>4, SettlingCalls
<1>7. "collect" \in Settling /\ "closed" \in Settling
  BY DEF Settling
<1> HIDE DEF x, step
<1> QED BY <1>1, <1>2, <1>3, <1>5, <1>6, <1>7, SettlingThrows, SettlingGoes

\* Booking its cost keeps the invariant.
LEMMA ClosedKeeps ==
    ASSUME IInv, Closed
    PROVE  IInv'
<1> DEFINE s == Refreshed(saved, book)
           x == SettlementOf(s, book)
           cost == x.costBase.equity
                     - (Larger(0, Equity(s, book)) + Lots(s, book) * (x.costBase.price - account.price))
           y == [x EXCEPT !.cost = @ + cost, !.costApplied = TRUE]
           t == IF x.costApplied THEN s ELSE [s EXCEPT !.books[book].settlement = y]
<1>1. pc \in Settling /\ UNCHANGED orderUnchanged
  BY DEF Closed, Settling, settleUnchanged, orderUnchanged
<1>2. book \in Books /\ Kept(saved, saved) /\ Kept(saved, s) /\ s \in State /\ Priced(s) /\ AccountOK
  BY <1>1, SavedKept, SettlingReached, RefreshedSaved, Holding
<1>3. \/ \E u \in {saved, t} : Throw(u, "other")
      \/ saved' = t /\ Goto("collect")
  BY DEF Closed
<1> HIDE DEF s
<1>4. Kept(saved, t)
  <2>1. x \in Settlement /\ x = s.books[book].settlement
    BY <1>2 DEF State, Book, SettlementOf
  <2>2. cost \in Int
    <3>1. x.costBase.equity \in Int /\ x.costBase.price \in Nat /\ account.price \in Nat
      BY <1>2, <2>1 DEF Settlement, AccountOK, Snapshot
    <3>2. Larger(0, Equity(s, book)) \in Nat
      BY <1>2, EquityTyped, LargerTyped
    <3>3. Lots(s, book) \in Nat
      BY <1>2 DEF Lots, State, Pool
    <3> HIDE DEF x
    <3> QED BY <3>1, <3>2, <3>3
  <2>3. y \in Settlement /\ y.ids = x.ids /\ y.attempt = x.attempt /\ y.priced = x.priced
    <3> DEFINE z == [x EXCEPT !.cost = @ + cost]
    <3>1. z \in Settlement /\ z.ids = x.ids /\ z.attempt = x.attempt /\ z.priced = x.priced
      <4> HIDE DEF x, cost
      <4> QED BY <2>1, <2>2 DEF Settlement
    <3>2. y = [z EXCEPT !.costApplied = TRUE]
      <4> HIDE DEF x, cost
      <4> QED BY <2>1 DEF Settlement
    <3> HIDE DEF x, y, z
    <3> QED BY <3>1, <3>2 DEF Settlement
  <2> HIDE DEF x, y
  <2>4. Kept(s, [s EXCEPT !.books[book].settlement = y])
    BY <1>2, <2>1, <2>3, SettlementKept
  <2>5. Kept(s, t)
    BY <1>2, <2>4, AlikeItself DEF Kept
  <2> HIDE DEF t
  <2> QED BY <1>2, <2>5, Holding, KeptTwice
<1>5. "collect" \in Settling
  BY DEF Settling
<1> HIDE DEF t
<1> QED BY <1>1, <1>2, <1>3, <1>4, <1>5, SettlingThrows, SettlingGoes

\* Collecting free collateral keeps the invariant.
LEMMA CollectKeeps ==
    ASSUME IInv, Collect
    PROVE  IInv'
<1> DEFINE s == Refreshed(saved, book)
           amount == Free(s.pool, book)
           n == s.books[book].settlement.attempt
           x == <<"collect", book, n>>
<1>1. pc \in Settling /\ UNCHANGED orderUnchanged
  BY DEF Collect, Settling, settleUnchanged, orderUnchanged
<1>2. /\ book \in Books /\ Kept(saved, saved) /\ Kept(saved, s) /\ s.pool \in Pool
      /\ s.pool.checkpoint.free \in Nat
  BY <1>1, SavedKept, SettlingReached, RefreshedSaved
<1>3. \/ Throw(saved, "other") \/ CallStep(s, x, Cash(amount)) \/ (saved' = s /\ Goto("price"))
  BY DEF Collect, SettlementOf
<1> HIDE DEF s
<1>4. CASE CallStep(s, x, Cash(amount))
  <2>1. amount \in Nat
    BY <1>2, FreeTyped
  <2>2. n \in 1 .. Tries
    BY <1>1, <1>2, SettlingReached
  <2>3. x \in StepIds /\ Kind(x) = "collect" /\ BookOf(x) = book /\ Attempt(x) = n
    BY <1>2, <2>2, BookStep
  <2>4. NewStepOK(x, Cash(amount))
    <3> HIDE DEF x, amount
    <3> QED BY <2>1, <2>3, CashOK DEF TradeKinds
  <2> HIDE DEF amount, x
  <2> QED BY <1>1, <1>2, <1>4, <2>3, <2>4, SettlingCalls
<1>5. "price" \in Settling
  BY DEF Settling
<1> HIDE DEF x, amount
<1> QED BY <1>1, <1>2, <1>3, <1>4, <1>5, SettlingThrows, SettlingGoes

\* crystallizeFees() keeps what matters.
LEMMA CrystallizedKept ==
    ASSUME NEW s \in State, Priced(s), NEW b \in Books, NEW value \in Nat, NEW fee \in Fees(s, b, value)
    PROVE  LET t == Crystallized(s, b, value, fee)
           IN  /\ Kept(s, t) /\ t.pool = s.pool /\ t.withdrawals = s.withdrawals
               /\ t.books[b].settlement = s.books[b].settlement /\ t.books[b].units = s.books[b].units
               /\ fee \in Nat
<1> DEFINE n == s.books[b]
           high == IF value * n.high.units > n.high.equity * n.units
                   THEN [equity |-> value - fee, units |-> n.units] ELSE n.high
           k1 == [n EXCEPT !.fees = @ + fee]
           k == [n EXCEPT !.fees = @ + fee, !.high = high]
           t == Crystallized(s, b, value, fee)
<1>1. /\ n \in Book /\ n.high.units \in Nat /\ n.high.equity \in Nat /\ n.units \in Nat
      /\ n.high \in [equity : Nat, units : Nat]
  BY DEF State, Book
<1>2. fee \in Nat /\ (fee = 0 \/ fee * n.high.units + n.high.equity * n.units <= value * n.high.units)
  BY BoundsAssumption DEF Fees
<1>3. high \in [equity : Nat, units : Nat]
  <2>1. CASE value * n.high.units > n.high.equity * n.units
    <3>1. value - fee \in Nat
      <4> HIDE DEF n
      <4> QED BY <1>1, <1>2, <2>1, HighTyped
    <3> QED BY <1>1, <2>1, <3>1
  <2> QED BY <1>1, <2>1
<1>4. /\ k1 \in Book /\ k1.fees = n.fees + fee /\ k1.settlement = n.settlement /\ k1.riskTry = n.riskTry
      /\ k1.feeTry = n.feeTry /\ k1.feeAmount = n.feeAmount /\ k1.units = n.units
      /\ k1.pending = n.pending /\ k1.cash = n.cash /\ k1.credited = n.credited
  <2> HIDE DEF n
  <2> QED BY <1>1, <1>2 DEF Book
<1>5. k = [k1 EXCEPT !.high = high]
  <2> HIDE DEF n, high
  <2> QED BY <1>1 DEF Book
<1> HIDE DEF k, k1, high
<1>6. /\ k \in Book /\ k.fees = n.fees + fee /\ k.settlement = n.settlement /\ k.riskTry = n.riskTry
      /\ k.feeTry = n.feeTry /\ k.feeAmount = n.feeAmount /\ k.units = n.units
      /\ k.pending = n.pending /\ k.cash = n.cash /\ k.credited = n.credited
  <2> HIDE DEF n
  <2> QED BY <1>3, <1>4, <1>5 DEF Book
<1>7. t = [s EXCEPT !.books[b] = k]
  BY DEF Crystallized, k, high
<1> HIDE DEF t
<1>8. OnlyBook(s, t, b) /\ t.books[b] = k
  BY <1>6, <1>7, BookSet
<1>9. AlikeBook(n, k)
  <2>1. n.fees \in Nat
    BY <1>1 DEF Book
  <2> HIDE DEF n
  <2> QED BY <1>1, <1>2, <1>6, <2>1 DEF AlikeBook
<1>10. Kept(s, t)
  BY <1>8, <1>9, BookKept
<1> QED BY <1>2, <1>6, <1>8, <1>10 DEF OnlyBook, t

\* Redemptions ask for a positive number of units.
LEMMA SumPositive ==
    ASSUME NEW S \in SUBSET Withdrawals, S # {}
    PROVE  SumFunctionOnSet(Units, S) \in Nat /\ SumFunctionOnSet(Units, S) > 0
<1>1. PICK w \in S : TRUE
  OBVIOUS
<1>2. IsFiniteSet(S) /\ \A x \in S : Units[x] \in Nat \ {0}
  BY WithdrawalsAssumption, FS_Subset
<1>3. SumFunctionOnSet(Units, S) = Units[w] + SumFunctionOnSet(Units, S \ {w})
  BY <1>1, <1>2, SumTake
<1>4. SumFunctionOnSet(Units, S \ {w}) \in Nat
  BY UnitsTyped
<1> QED BY <1>1, <1>2, <1>3, <1>4

\* The units of some open redemptions are there.
LEMMA UnitsThere ==
    ASSUME NEW s, NEW rec, NEW m, NEW v, FileOK(s, rec, m, v), NEW b \in Books,
           NEW ids \in SUBSET OpenOf(s, b), ids # {}
    PROVE  LET sum == SumFunctionOnSet(Units, ids)
           IN  sum \in Nat /\ sum > 0 /\ sum <= s.books[b].units /\ s.books[b].units \in Nat /\ s.books[b].units > 0
<1>1. OpenOf(s, b) \in SUBSET Withdrawals
  BY DEF OpenOf
<1>2. SumFunctionOnSet(Units, ids) \in Nat /\ SumFunctionOnSet(Units, ids) > 0
  BY <1>1, SumPositive
<1>3. SumFunctionOnSet(Units, ids) <= SumFunctionOnSet(Units, OpenOf(s, b))
  <2>1. IsFiniteSet(OpenOf(s, b)) /\ \A x \in OpenOf(s, b) : Units[x] \in Nat
    BY <1>1, WithdrawalsAssumption, FS_Subset
  <2> QED BY <2>1, SumGrows
<1>4. SumFunctionOnSet(Units, OpenOf(s, b)) \in Nat /\ SumFunctionOnSet(Units, OpenOf(s, b)) <= s.books[b].units
  BY <1>1, UnitsTyped DEF FileOK, UnitsOK
<1>5. s.books[b].units \in Nat
  BY DEF FileOK, State, Book
<1> QED BY <1>2, <1>3, <1>4, <1>5

\* The lots that may stay are a natural number.
LEMMA TargetTyped ==
    ASSUME NEW s, NEW rec, NEW m, NEW v, FileOK(s, rec, m, v), NEW b \in Books,
           NEW ids \in SUBSET OpenOf(s, b), ids # {}
    PROVE  TargetLots(s, b, ids) \in Nat
<1> DEFINE equity == Larger(0, Equity(s, b))
           sum == SumOf(ids, units)
           value == (equity * sum) \div s.books[b].units
           free == s.books[b].cash - s.books[b].fees + Free(s.pool, b)
           position == s.pool.equity[b] - Free(s.pool, b)
           needed == Larger(0, value - free)
           lots == Lots(s, b)
           gross == lots * s.pool.checkpoint.price
           stays == (lots * Larger(0, position - needed)) \div position
           capped == (lots * (equity - value)) \div gross
<1>1. s \in State /\ NumbersOK(s) /\ s.pool \in Pool /\ s.books[b] \in Book
  BY DEF FileOK, State
<1>2. equity \in Nat
  BY <1>1, EquityTyped, LargerTyped
<1>3. sum \in Nat /\ sum <= s.books[b].units /\ s.books[b].units \in Nat /\ s.books[b].units > 0
  <2>1. ids \in SUBSET Withdrawals
    BY DEF OpenOf
  <2> QED BY <2>1, SumOfUnits, UnitsThere
<1>4. value \in Nat /\ value <= equity
  <2> HIDE DEF equity, sum
  <2> QED BY <1>2, <1>3, ShareBelow
<1>5. Free(s.pool, b) \in Nat
  BY <1>1, FreeTyped DEF NumbersOK
<1>6. free \in Int /\ position \in Int
  BY <1>1, <1>5 DEF Book, Pool
<1>7. needed \in Nat
  <2> HIDE DEF value, free
  <2> QED BY <1>4, <1>6, LargerTyped
<1>8. lots \in Nat /\ s.pool.checkpoint.price \in Nat \ {0}
  BY <1>1 DEF NumbersOK, Lots, Pool
<1>9. lots > 0 => gross \in Nat /\ gross > 0
  <2> HIDE DEF lots
  <2> QED BY <1>8
<1>10. position > 0 => stays \in Nat
  <2>1. Larger(0, position - needed) \in Nat
    <3> HIDE DEF position, needed
    <3> QED BY <1>6, <1>7, LargerTyped
  <2>2. lots * Larger(0, position - needed) \in Nat
    <3> HIDE DEF lots, position, needed
    <3> QED BY <1>8, <2>1
  <2>3. position > 0 => position \in Nat
    <3> HIDE DEF position
    <3> QED BY <1>6
  <2> HIDE DEF lots, position, needed
  <2> QED BY <2>2, <2>3, QuotientTyped
<1>11. lots > 0 => capped \in Nat
  <2>1. equity - value \in Nat
    <3> HIDE DEF equity, value
    <3> QED BY <1>2, <1>4
  <2>2. lots * (equity - value) \in Nat
    <3> HIDE DEF lots, equity, value
    <3> QED BY <1>8, <2>1
  <2> HIDE DEF lots, equity, value, gross
  <2> QED BY <1>9, <2>2, QuotientTyped
<1>12. TargetLots(s, b, ids) = IF lots = 0 THEN 0 ELSE IF position <= 0 THEN (IF capped < lots THEN capped ELSE lots)
                               ELSE IF capped < stays THEN capped ELSE stays
  BY DEF TargetLots
<1> HIDE DEF lots, position, capped, stays
<1> QED BY <1>6, <1>8, <1>10, <1>11, <1>12

\* What is left over for the last redemption is not less than nothing.
LEMMA SharesTyped ==
    ASSUME NEW s, NEW b, NEW payout \in Nat, s.books[b].settlement.ids \in SUBSET Withdrawals,
           s.books[b].settlement.ids # {}
    PROVE  /\ DOMAIN Shares(s, b, payout) = s.books[b].settlement.ids
           /\ \A w \in s.books[b].settlement.ids : Shares(s, b, payout)[w] \in Nat
<1> DEFINE ids == SettlementOf(s, b).ids
           total == SumOf(ids, units)
           last == CHOOSE w \in ids : TRUE
           share(w) == (payout * Units[w]) \div total
           f == [w \in ids |-> share(w)]
           rest == ids \ {last}
           h == [x \in rest |-> share(x)]
<1>0. Shares(s, b, payout)
        = [w \in ids |-> IF w = last THEN payout - SumFunctionOnSet(h, rest) ELSE share(w)]
  BY DEF Shares, SumOf
<1>c. DOMAIN Shares(s, b, payout) = ids
  BY DEF Shares
<1>a. ids = s.books[b].settlement.ids
  BY DEF SettlementOf
<1> HIDE DEF ids
<1>b. total = SumFunctionOnSet(Units, ids)
  BY <1>a, SumOfUnits
<1>1. IsFiniteSet(ids) /\ \A w \in ids : Units[w] \in Nat
  BY <1>a, WithdrawalsAssumption, FS_Subset
<1>2. total \in Nat /\ total > 0
  BY <1>a, <1>b, SumPositive
<1>3. last \in ids
  BY <1>a
<1> HIDE DEF total, last
<1>4. \A w \in ids : f[w] \in Nat /\ f[w] * total <= payout * Units[w]
  <2>1. ASSUME NEW w \in ids PROVE f[w] \in Nat /\ f[w] * total <= payout * Units[w]
    <3>1. payout * Units[w] \in Nat
      BY <1>1
    <3>2. f[w] = (payout * Units[w]) \div total
      OBVIOUS
    <3> QED BY <1>2, <3>1, <3>2, QuotientTyped, QuotientBelow
  <2> QED BY <2>1
<1> HIDE DEF f
<1> DEFINE T == {S \in SUBSET ids : SumFunctionOnSet(f, S) * total <= payout * SumFunctionOnSet(Units, S)}
<1>5. \A S \in SUBSET ids : SumFunctionOnSet(f, S) \in Nat /\ SumFunctionOnSet(Units, S) \in Nat
  BY <1>1, <1>4, SumGrows
<1>6. T = SUBSET ids
  <2>1. {} \in T
    <3>1. SumFunctionOnSet(f, {}) = 0 /\ SumFunctionOnSet(Units, {}) = 0
      BY SumEmpty
    <3>2. 0 * total <= payout * 0
      BY <1>2
    <3> QED BY <3>1, <3>2
  <2>2. ASSUME NEW S \in T, NEW w \in ids \ S PROVE S \cup {w} \in T
    <3> DEFINE F == SumFunctionOnSet(f, S)
               N == SumFunctionOnSet(Units, S)
    <3>1. IsFiniteSet(S) /\ S \subseteq ids
      BY <1>1, FS_Subset
    <3>2. SumFunctionOnSet(f, S \cup {w}) = f[w] + F
      <4>1. \A x \in S \cup {w} : f[x] \in Int
        BY <1>4, <3>1
      <4> QED BY <3>1, <4>1, SumAdd
    <3>3. SumFunctionOnSet(Units, S \cup {w}) = Units[w] + N
      <4>1. \A x \in S \cup {w} : Units[x] \in Int
        BY <1>1, <3>1
      <4> QED BY <3>1, <4>1, SumAdd
    <3>4. F \in Nat /\ N \in Nat /\ F * total <= payout * N
      BY <1>5, <3>1
    <3> HIDE DEF F, N
    <3>5. (f[w] + F) * total <= payout * (Units[w] + N)
      <4>1. f[w] \in Nat /\ Units[w] \in Nat /\ f[w] * total <= payout * Units[w]
        BY <1>1, <1>4
      <4>2. /\ (f[w] + F) * total = f[w] * total + F * total
            /\ payout * (Units[w] + N) = payout * Units[w] + payout * N
        BY <1>2, <3>4, <4>1
      <4>3. /\ f[w] * total \in Nat /\ F * total \in Nat /\ payout * Units[w] \in Nat /\ payout * N \in Nat
        BY <1>2, <3>4, <4>1
      <4> QED BY <3>4, <4>1, <4>2, <4>3
    <3> QED BY <3>1, <3>2, <3>3, <3>5
  <2> HIDE DEF T
  <2>3. T \in SUBSET (SUBSET ids)
    BY DEF T
  <2> QED BY <1>1, <2>1, <2>2, <2>3, InductionOnSubsets
<1>7. SumFunctionOnSet(f, rest) \in Nat /\ SumFunctionOnSet(f, rest) <= payout
  <2> DEFINE F == SumFunctionOnSet(f, rest)
             N == SumFunctionOnSet(Units, rest)
  <2>1. F \in Nat /\ N \in Nat /\ F * total <= payout * N
    BY <1>5, <1>6
  <2>2. N <= total
    BY <1>1, <1>b, SumGrows
  <2> HIDE DEF F, N
  <2>3. payout * N <= payout * total
    <3>1. N * payout <= total * payout
      BY <1>2, <2>1, <2>2, TimesGrows
    <3> QED BY <1>2, <2>1, <3>1
  <2>4. ASSUME F > payout PROVE FALSE
    <3>1. (payout + 1) * total <= F * total
      BY <1>2, <2>1, <2>4, TimesGrows
    <3>2. (payout + 1) * total = payout * total + total
      BY <1>2
    <3>3. F * total \in Nat /\ payout * N \in Nat /\ payout * total \in Nat
      BY <1>2, <2>1
    <3> QED BY <1>2, <2>1, <2>3, <3>1, <3>2, <3>3
  <2> QED BY <2>1, <2>4 DEF F
<1>8. SumFunctionOnSet(h, rest) = SumFunctionOnSet(f, rest)
  <2>1. IsFiniteSet(rest)
    BY <1>1, FS_Subset
  <2>2. \A w \in rest : h[w] = f[w]
    BY DEF f
  <2> HIDE DEF h, rest
  <2> QED BY <2>1, <2>2, SumSame
<1>9. \A w \in ids : Shares(s, b, payout)[w] = IF w = last THEN payout - SumFunctionOnSet(f, rest) ELSE f[w]
  <2> DEFINE H == SumFunctionOnSet(h, rest)
  <2> HIDE DEF H
  <2>1. \A w \in ids : Shares(s, b, payout)[w] = IF w = last THEN payout - H ELSE share(w)
    BY <1>0 DEF H
  <2> QED BY <1>8, <2>1 DEF f, H
<1>10. \A w \in ids : Shares(s, b, payout)[w] \in Nat
  <2>1. payout - SumFunctionOnSet(f, rest) \in Nat
    BY <1>7
  <2> HIDE DEF rest
  <2> QED BY <1>4, <1>9, <2>1
<1> DEFINE shares == Shares(s, b, payout)
<1>11. DOMAIN shares = ids /\ \A w \in ids : shares[w] \in Nat
  BY <1>10, <1>c
<1> HIDE DEF shares
<1>12. DOMAIN shares = s.books[b].settlement.ids /\ \A w \in s.books[b].settlement.ids : shares[w] \in Nat
  BY <1>11, <1>a
<1> QED BY <1>12 DEF shares

\* Another settlement, with its redemptions.
SettledWith(s, b, x, W) == [s EXCEPT !.books[b].settlement = x, !.withdrawals = W]
Settles(s, W, b) ==
    /\ W \in [Withdrawals -> Withdrawal]
    /\ \A w \in Withdrawals : /\ WithdrawalBook[w] # b => W[w] = s.withdrawals[w]
                              /\ W[w].status \in {"REQUESTED", "SETTLING"}
                                    => s.withdrawals[w].status \in {"REQUESTED", "SETTLING"}
Lists(x, W, b) ==
    \A w \in x.ids : /\ WithdrawalBook[w] = b
                     /\ W[w].status \in {"SETTLING", "PAID"}
                     /\ ~x.priced => W[w].status = "SETTLING"

\* A settlement and the redemptions it lists can be written together.
LEMMA SettledFile ==
    ASSUME NEW s, NEW rec, NEW m, NEW v, FileOK(s, rec, m, v), NEW b \in Books, NEW x \in Settlement,
           NEW served, Clear(s, rec, b, served), x.attempt <= Tries, NEW W, Settles(s, W, b), Lists(x, W, b)
    PROVE  LET t == SettledWith(s, b, x, W)
           IN  FileOK(t, rec, m, v) /\ t.steps = s.steps /\ t.books[b].settlement = x
<1> USE DEF Settles, Lists
<1> DEFINE u == [s EXCEPT !.books[b].settlement = x]
           t == SettledWith(s, b, x, W)
<1>1. s \in State /\ BookOK(s, b)
  BY BookIsOK DEF FileOK
<1>2. OnlyBook(s, u, b) /\ OtherSettlement(s.books[b], u.books[b]) /\ u.books[b].settlement = x
  BY <1>1, SettlementSet
<1>3. t = [u EXCEPT !.withdrawals = W]
  BY <1>1 DEF State, SettledWith
<1> HIDE DEF u, t
<1>4. /\ t \in State /\ t.books = u.books /\ t.steps = u.steps /\ t.requests = u.requests /\ t.pool = u.pool
      /\ t.withdrawals = W
  BY <1>2, <1>3 DEF OnlyBook, State
<1>5. OnlyJob(s, t, b)
  BY <1>2, <1>4 DEF OnlyBook, OnlyJob
<1>6. OtherSettlement(s.books[b], t.books[b]) /\ t.books[b].settlement = x /\ t.steps = s.steps
  BY <1>2, <1>4 DEF OnlyBook
<1>7. SumFunctionOnSet(Units, OpenOf(t, b)) <= t.books[b].units
  <2>1. OpenOf(t, b) \in SUBSET OpenOf(s, b)
    BY <1>4 DEF OpenOf
  <2>2. IsFiniteSet(OpenOf(s, b)) /\ \A w \in OpenOf(s, b) : Units[w] \in Nat
    BY WithdrawalsAssumption, FS_Subset DEF OpenOf
  <2>3. /\ SumFunctionOnSet(Units, OpenOf(t, b)) <= SumFunctionOnSet(Units, OpenOf(s, b))
        /\ SumFunctionOnSet(Units, OpenOf(t, b)) \in Nat /\ SumFunctionOnSet(Units, OpenOf(s, b)) \in Nat
    BY <2>1, <2>2, SumGrows
  <2>4. SumFunctionOnSet(Units, OpenOf(s, b)) <= s.books[b].units /\ s.books[b].units \in Nat
    BY DEF FileOK, UnitsOK, State, Book
  <2>5. t.books[b].units = s.books[b].units
    BY <1>6 DEF OtherSettlement
  <2> QED BY <2>3, <2>4, <2>5
<1>8. BookOK(t, b)
  BY <1>1, <1>4, <1>6, <1>7 DEF BookOK, OtherSettlement
<1>9. Held(t)[b] = Held(s)[b]
  BY <1>6 DEF Held, OtherSettlement
<1>10. FileOK(t, rec, m, v)
  BY <1>5, <1>8, <1>9, JobFile
<1> QED BY <1>6, <1>10 DEF t

\* Noting the cutoff keeps what matters.
LEMMA CutoffKept ==
    ASSUME NEW s \in State, Priced(s), NEW b \in Books, NEW n \in Nat
    PROVE  LET t == [s EXCEPT !.books[b].lastCutoff = n]
           IN  Kept(s, t) /\ t.withdrawals = s.withdrawals
<1> DEFINE old == s.books[b]
           k == [old EXCEPT !.lastCutoff = n]
           t == [s EXCEPT !.books[b].lastCutoff = n]
<1>1. old \in Book
  BY DEF State
<1>2. t = [s EXCEPT !.books[b] = k]
  OBVIOUS
<1> HIDE DEF t
<1>3. k \in Book /\ AlikeBook(old, k)
  <2> HIDE DEF old
  <2> QED BY <1>1 DEF Book, AlikeBook
<1> HIDE DEF k
<1>4. OnlyBook(s, t, b) /\ t.books[b] = k
  BY <1>2, <1>3, BookSet
<1>5. Kept(s, t)
  BY <1>3, <1>4, BookKept
<1> QED BY <1>4, <1>5 DEF t, OnlyBook

\* Opening a settlement or charging a fee keeps the invariant.
LEMMA OpenSettlementKeeps ==
    ASSUME IInv, OpenSettlement
    PROVE  IInv'
<1> DEFINE due == Due(book)
           seen == Observed(saved, book)
           s == [seen EXCEPT !.books[book].lastCutoff = cutoffs]
           value == Larger(0, Equity(s, book))
           x == [NoSettlement EXCEPT !.ids = due, !.target = TargetLots(s, book, due)]
           W == [w \in Withdrawals |->
                    IF w \in due THEN [s.withdrawals[w] EXCEPT !.status = "SETTLING"] ELSE s.withdrawals[w]]
           t == [s EXCEPT !.books[book].settlement = x, !.withdrawals = W]
<1>1. pc = "settle" /\ UNCHANGED orderUnchanged
  BY DEF OpenSettlement, settleUnchanged, orderUnchanged
<1>2. pc \in Inside /\ book \in Books /\ "job" \in Inside \ RequestLocations /\ OthersOK' /\ UNCHANGED chainVars
  BY <1>1, Insides, InBook, Holding, SameOthers DEF RequestLocations, orderUnchanged
<1>3. \/ Throw(saved, "other")
      \/ (\E fee \in Fees(s, book, value) : saved' = Crystallized(s, book, value, fee)) /\ Goto("job")
      \/ due # {} /\ saved' = t /\ Goto("job")
  BY DEF OpenSettlement
<1>4. Kept(saved, seen) /\ seen \in State /\ Priced(seen) /\ seen.withdrawals = saved.withdrawals
  BY <1>2, Holding, ObservedKept DEF Kept
<1> HIDE DEF seen
<1>5. Kept(seen, s) /\ s.withdrawals = saved.withdrawals
  BY <1>2, <1>4, Holding, CutoffKept DEF OthersOK
<1> HIDE DEF s
<1>6. Kept(saved, s) /\ s \in State /\ Priced(s)
  BY <1>4, <1>5, Holding, KeptTwice DEF Kept
<1>7. FileOK(s, record, mined, vault) /\ s.steps = saved.steps
  BY <1>6, KeptStep
<1>8. Reached(saved', "job", book) /\ FeeBooked(saved', "job", book)
  BY NothingReached
<1>9. CASE (\E fee \in Fees(s, book, value) : saved' = Crystallized(s, book, value, fee)) /\ Goto("job")
  <2>1. value \in Nat
    BY <1>2, <1>6, EquityTyped, LargerTyped
  <2> HIDE DEF value
  <2>2. Kept(s, saved')
    BY <1>2, <1>6, <1>9, <2>1, CrystallizedKept
  <2>3. Kept(saved, saved')
    BY <1>6, <2>2, Holding, KeptTwice
  <2> QED BY <1>1, <1>2, <1>8, <1>9, <2>3, OutGoes
<1>10. CASE due # {} /\ saved' = t /\ Goto("job")
  <2>1. /\ due \in SUBSET Withdrawals /\ due \in SUBSET OpenOf(s, book)
        /\ \A w \in due : WithdrawalBook[w] = book /\ s.withdrawals[w].status = "REQUESTED"
    BY <1>5 DEF Due, OpenWithdrawals, OpenOf
  <2>2. TargetLots(s, book, due) \in Nat
    BY <1>2, <1>7, <1>10, <2>1, TargetTyped
  <2>3. /\ x \in Settlement /\ x.ids = due /\ x.attempt <= Tries
    <3> DEFINE y == [NoSettlement EXCEPT !.ids = due]
               target == TargetLots(s, book, due)
    <3>1. NoSettlement \in Settlement /\ NoSettlement.attempt <= Tries
      BY BoundsAssumption DEF NoSettlement, Settlement, NoBase
    <3> HIDE DEF due, target
    <3>2. y \in Settlement /\ y.ids = due /\ y.attempt <= Tries
      BY <2>1, <3>1 DEF Settlement
    <3>3. x = [y EXCEPT !.target = target]
      BY <3>1 DEF Settlement, target
    <3> HIDE DEF x, y
    <3> QED BY <2>2, <3>2, <3>3 DEF Settlement, target
  <2>4. \A w \in Withdrawals : W[w] \in Withdrawal /\ (w \in due => W[w].status = "SETTLING")
                               /\ (w \notin due => W[w] = s.withdrawals[w])
    <3>1. \A w \in Withdrawals : s.withdrawals[w] \in Withdrawal
      BY <1>6 DEF State
    <3> HIDE DEF due
    <3>2. ASSUME NEW old \in Withdrawal
          PROVE  [old EXCEPT !.status = "SETTLING"] \in Withdrawal /\ [old EXCEPT !.status = "SETTLING"].status = "SETTLING"
      BY DEF Withdrawal
    <3> QED BY <3>1, <3>2
  <2>5. W \in [Withdrawals -> Withdrawal]
    BY <2>4
  <2> HIDE DEF x, W
  <2>6. Clear(s, record, book, InRequest)
    BY <1>2, <1>7, IsClear, SameSteps
  <2>7. Settles(s, W, book)
    BY <2>1, <2>4, <2>5 DEF Settles
  <2>8. Lists(x, W, book)
    BY <2>1, <2>3, <2>4 DEF Lists
  <2>9. FileOK(t, record, mined, vault) /\ t.steps = s.steps
    <3>1. t = SettledWith(s, book, x, W)
      BY DEF SettledWith
    <3> HIDE DEF t
    <3> QED BY <1>2, <1>7, <2>3, <2>6, <2>7, <2>8, <3>1, SettledFile
  <2> HIDE DEF t
  <2> QED BY <1>1, <1>2, <1>7, <1>8, <1>10, <2>9, GotoStep
<1> HIDE DEF t, x, W, value
<1> QED BY <1>1, <1>2, <1>3, <1>9, <1>10, SavedKept, OutThrows

\* A payout is an integer and the settlement lists redemptions.
LEMMA PayoutTyped ==
    ASSUME NEW s, NEW rec, NEW m, NEW v, FileOK(s, rec, m, v), NEW b \in Books,
           s.books[b].settlement.ids # {}, ~s.books[b].settlement.priced, NEW e \in Int, NEW cost \in Int
    PROVE  Payout(s, b, e, cost) \in Int /\ s.books[b].settlement.ids \in SUBSET Withdrawals
<1> DEFINE ids == s.books[b].settlement.ids
           sum == SumOf(ids, units)
           whole == s.books[b].units
<1>1. ids \in SUBSET Withdrawals
  BY DEF FileOK, State, Book, Settlement
<1>2. ids \in SUBSET OpenOf(s, b)
  <2>1. BookOK(s, b)
    BY BookIsOK
  <2> QED BY <1>1, <2>1 DEF BookOK, OpenOf
<1>3. sum \in Nat /\ whole \in Nat /\ whole > 0
  BY <1>1, <1>2, SumOfUnits, UnitsThere
<1>4. Payout(s, b, e, cost) = (e * sum) \div whole - cost
  BY DEF Payout, SettlementOf
<1> HIDE DEF sum, whole
<1>5. e * sum \in Int
  BY <1>3
<1>6. (e * sum) \div whole \in Int
  BY <1>3, <1>5
<1> QED BY <1>1, <1>4, <1>6

\* Writing the shares of the payout keeps the invariant.
LEMMA PricedKeeps ==
    ASSUME IInv, pc = "price", UNCHANGED orderUnchanged, NEW s, Kept(saved, s), NEW shares,
           DOMAIN shares = s.books[book].settlement.ids, \A w \in DOMAIN shares : shares[w] \in Nat, Goto("pay"),
           saved' = [s EXCEPT !.books[book].settlement.priced = TRUE,
                              !.withdrawals = [w \in Withdrawals |->
                                  IF w \in DOMAIN shares
                                  THEN [@[w] EXCEPT !.payout = shares[w]] ELSE @[w]]]
    PROVE  IInv'
<1> DEFINE old == s.books[book].settlement
           x == [old EXCEPT !.priced = TRUE]
           W == [w \in Withdrawals |->
                    IF w \in DOMAIN shares THEN [s.withdrawals[w] EXCEPT !.payout = shares[w]] ELSE s.withdrawals[w]]
<1>1. pc \in Settling /\ pc \in Inside /\ OthersOK' /\ UNCHANGED chainVars
  BY SettlingFacts, Holding, SameOthers DEF orderUnchanged, Settling
<1>2. book \in Books /\ FileOK(s, record, mined, vault) /\ s.steps = saved.steps /\ s \in State
  BY <1>1, SettlingReached, KeptStep
<1>3. BookOK(s, book)
  BY <1>2, BookIsOK
<1>4. saved' = [s EXCEPT !.books[book].settlement = x, !.withdrawals = W]
  OBVIOUS
<1>5. old \in Settlement
  BY <1>2 DEF State, Book
<1>6. x \in Settlement /\ x.ids = old.ids /\ x.attempt = old.attempt /\ x.priced = TRUE
  <2> HIDE DEF old
  <2> QED BY <1>5 DEF Settlement
<1>7. \A w \in Withdrawals : W[w] \in Withdrawal /\ W[w].status = s.withdrawals[w].status
                             /\ (w \notin old.ids => W[w] = s.withdrawals[w])
  <2>1. \A w \in Withdrawals : s.withdrawals[w] \in Withdrawal
    BY <1>2 DEF State
  <2>2. ASSUME NEW k \in Withdrawal, NEW n \in Nat
        PROVE  [k EXCEPT !.payout = n] \in Withdrawal /\ [k EXCEPT !.payout = n].status = k.status
    BY DEF Withdrawal
  <2> QED BY <2>1, <2>2
<1>8. W \in [Withdrawals -> Withdrawal]
  BY <1>7
<1>9. old.ids \in SUBSET Withdrawals
  BY <1>5 DEF Settlement
<1>10. /\ old.attempt <= Tries
       /\ \A w \in old.ids : WithdrawalBook[w] = book /\ s.withdrawals[w].status \in {"SETTLING", "PAID"}
  BY <1>3 DEF BookOK
<1> HIDE DEF x, W, old
<1>11. Clear(s, record, book, InRequest)
  BY <1>1, <1>2, IsClear, SameSteps
<1>12. Settles(s, W, book)
  BY <1>7, <1>8, <1>10 DEF Settles
<1>13. Lists(x, W, book)
  BY <1>6, <1>7, <1>9, <1>10 DEF Lists
<1>14. FileOK(saved', record, mined, vault) /\ saved'.steps = s.steps /\ saved'.books[book].settlement = x
  <2>1. x.attempt <= Tries
    BY <1>6, <1>10
  <2>2. saved' = SettledWith(s, book, x, W)
    BY <1>4 DEF SettledWith
  <2> DEFINE u == SettledWith(s, book, x, W)
  <2>3. x \in Settlement /\ book \in Books /\ FileOK(s, record, mined, vault)
    BY <1>2, <1>6
  <2>4. FileOK(u, record, mined, vault) /\ u.steps = s.steps /\ u.books[book].settlement = x
    BY <2>1, <2>3, <1>11, <1>12, <1>13, SettledFile
  <2> HIDE DEF u
  <2>5. saved' = u
    BY <2>2 DEF u
  <2> QED BY <2>4, <2>5
<1>15. "pay" \in Inside /\ "pay" \notin RequestLocations
  BY Insides DEF RequestLocations
<1>16. Reached(saved', "pay", book) /\ FeeBooked(saved', "pay", book)
  BY <1>6, <1>14 DEF Reached, FeeBooked, RequestLocations
<1> QED BY <1>1, <1>2, <1>14, <1>15, <1>16, GotoStep

\* Pricing a settlement keeps the invariant.
LEMMA PriceRedemptionKeeps ==
    ASSUME IInv, PriceRedemption
    PROVE  IInv'
<1> DEFINE seen == Refreshed(saved, book)
           cost == SettlementOf(seen, book).cost
           value == Larger(0, Equity(seen, book)) + cost
           Charged(fee) == Crystallized(seen, book, value, fee)
           Due_(fee) == Payout(Charged(fee), book, value - fee, cost)
           shares(fee) == Shares(Charged(fee), book, Due_(fee))
           priced(fee) == [Charged(fee) EXCEPT !.books[book].settlement.priced = TRUE,
                               !.withdrawals = [w \in Withdrawals |->
                                   IF w \in DOMAIN shares(fee)
                                   THEN [@[w] EXCEPT !.payout = shares(fee)[w]] ELSE @[w]]]
<1>1. pc \in Settling /\ pc = "price" /\ UNCHANGED orderUnchanged
  BY DEF PriceRedemption, Settling, settleUnchanged, orderUnchanged
<1>2. /\ book \in Books /\ Kept(saved, saved) /\ Kept(saved, seen) /\ seen \in State /\ Priced(seen)
  BY <1>1, SavedKept, SettlingReached, RefreshedSaved
<1>3. \/ \E u \in {saved, seen} : Throw(u, "other")
      \/ /\ ~(value < 0)
         /\ \E fee \in Fees(seen, book, value) :
               \/ Throw(Charged(fee), "other")
               \/ ~(Due_(fee) < 0) /\ saved' = priced(fee) /\ Goto("pay")
  BY DEF PriceRedemption
<1>4. cost \in Int /\ value \in Int
  <2>1. cost \in Int
    BY <1>2 DEF SettlementOf, State, Book, Settlement
  <2>2. Larger(0, Equity(seen, book)) \in Nat
    BY <1>2, EquityTyped, LargerTyped
  <2> HIDE DEF seen, cost
  <2> QED BY <2>1, <2>2
<1> HIDE DEF seen, cost, value
<1>5. CASE \E u \in {saved, seen} : Throw(u, "other")
  BY <1>1, <1>2, <1>5, SettlingThrows
<1>6. ASSUME ~(value < 0), NEW fee \in Fees(seen, book, value),
             \/ Throw(Charged(fee), "other")
             \/ ~(Due_(fee) < 0) /\ saved' = priced(fee) /\ Goto("pay")
      PROVE  IInv'
  <2> DEFINE s == Charged(fee)
             payout == Due_(fee)
  <2>1. value \in Nat
    BY <1>4, <1>6
  <2>2. /\ Kept(seen, s) /\ fee \in Nat /\ s.books[book].settlement = seen.books[book].settlement
    BY <1>2, <1>6, <2>1, CrystallizedKept
  <2> HIDE DEF Charged
  <2>3. Kept(saved, s)
    BY <1>2, <2>2, Holding, KeptTwice
  <2>4. CASE Throw(s, "other")
    BY <1>1, <2>3, <2>4, SettlingThrows
  <2>5. CASE ~(payout < 0) /\ saved' = priced(fee) /\ Goto("pay")
    <3>1. FileOK(s, record, mined, vault)
      BY <2>3, KeptStep
    <3>2. "price" \in Settling /\ Reached(s, "price", book)
      BY <1>1, <2>3, SettlingReached
    <3>3. s.books[book].settlement.ids # {} /\ ~s.books[book].settlement.priced
      BY <3>2 DEF Reached
    <3>4. value - fee \in Int
      BY <2>1, <2>2
    <3>5. payout \in Int /\ s.books[book].settlement.ids \in SUBSET Withdrawals
      BY <1>2, <1>4, <3>1, <3>3, <3>4, PayoutTyped
    <3>6. payout \in Nat
      <4> HIDE DEF payout
      <4> QED BY <2>5, <3>5
    <3>7. /\ DOMAIN shares(fee) = s.books[book].settlement.ids
          /\ \A w \in s.books[book].settlement.ids : shares(fee)[w] \in Nat
      <4> HIDE DEF payout, Due_
      <4>1. /\ DOMAIN Shares(s, book, payout) = s.books[book].settlement.ids
            /\ \A w \in s.books[book].settlement.ids : Shares(s, book, payout)[w] \in Nat
        BY <3>3, <3>5, <3>6, SharesTyped
      <4> QED BY <4>1 DEF payout
    <3> DEFINE parts == shares(fee)
    <3>8. saved' = [s EXCEPT !.books[book].settlement.priced = TRUE,
                             !.withdrawals = [w \in Withdrawals |->
                                  IF w \in DOMAIN parts
                                  THEN [@[w] EXCEPT !.payout = parts[w]] ELSE @[w]]]
      BY <2>5
    <3>9. DOMAIN parts = s.books[book].settlement.ids /\ \A w \in DOMAIN parts : parts[w] \in Nat
      BY <3>7
    <3> HIDE DEF parts, s
    <3> QED BY <1>1, <2>3, <2>5, <3>8, <3>9, PricedKeeps
  <2> QED BY <1>6, <2>4, <2>5
<1> QED BY <1>3, <1>5, <1>6

\* A redemption of the strategy is burned, and possibly credited to a balance.
Paid(s, t, w, amount, credit) ==
    LET b == WithdrawalBook[w]
        n == s.books[b]
        k == t.books[b]
    IN  /\ OnlyJob(s, t, b)
        /\ \A u \in Withdrawals \ {w} : t.withdrawals[u] = s.withdrawals[u]
        /\ t.withdrawals[w].status = "PAID"
        /\ k.units = n.units - Units[w] /\ k.cash = n.cash - amount /\ k.credited = n.credited + credit
        /\ k.settlement = n.settlement /\ k.riskTry = n.riskTry /\ k.feeTry = n.feeTry
        /\ k.feeAmount = n.feeAmount /\ k.fees = n.fees /\ k.pending = n.pending

\* burnWithdrawal() takes the units and the cash and marks the redemption.
LEMMA BurnedPays ==
    ASSUME NEW s \in State, NEW w \in Withdrawals, NEW amount \in Nat,
           Units[w] <= s.books[WithdrawalBook[w]].units
    PROVE  Paid(s, Burned(s, w, amount), w, amount, 0)
<1> DEFINE b == WithdrawalBook[w]
           n == s.books[b]
           k == [n EXCEPT !.units = @ - Units[w], !.cash = @ - amount]
           old == s.withdrawals[w]
           paid == [old EXCEPT !.status = "PAID"]
           u == [s EXCEPT !.books[b] = k]
           t == [u EXCEPT !.withdrawals[w] = paid]
<1>1. b \in Books /\ n \in Book /\ old \in Withdrawal /\ Units[w] \in Nat /\ n.units \in Nat /\ n.cash \in Int /\ n.credited \in Nat
  BY WithdrawalsAssumption DEF State, Book
<1>2. Burned(s, w, amount) = t
  BY DEF Burned, State
<1>3. /\ k \in Book /\ k.units = n.units - Units[w] /\ k.cash = n.cash - amount /\ k.credited = n.credited
      /\ k.settlement = n.settlement /\ k.riskTry = n.riskTry /\ k.feeTry = n.feeTry
      /\ k.feeAmount = n.feeAmount /\ k.fees = n.fees /\ k.pending = n.pending
  <2>1. n.units - Units[w] \in Nat /\ n.cash - amount \in Int
    BY <1>1
  <2> HIDE DEF n
  <2> QED BY <1>1, <2>1 DEF Book
<1>4. paid \in Withdrawal /\ paid.status = "PAID"
  <2> HIDE DEF old
  <2> QED BY <1>1 DEF Withdrawal
<1> HIDE DEF k, paid
<1>5. OnlyBook(s, u, b) /\ u.books[b] = k
  BY <1>1, <1>3, BookSet
<1> HIDE DEF u
<1>6. /\ t \in State /\ t.steps = u.steps /\ t.requests = u.requests /\ t.pool = u.pool /\ t.books = u.books
      /\ t.withdrawals[w] = paid /\ \A x \in Withdrawals \ {w} : t.withdrawals[x] = u.withdrawals[x]
  BY <1>4, <1>5 DEF OnlyBook, State
<1> HIDE DEF t
<1>7. OnlyJob(s, t, b)
  BY <1>5, <1>6 DEF OnlyBook, OnlyJob
<1>8. t.books[b] = k
  BY <1>5, <1>6
<1>9. n.credited = n.credited + 0
  BY <1>1
<1>10. \A x \in Withdrawals \ {w} : t.withdrawals[x] = s.withdrawals[x]
  BY <1>5, <1>6 DEF OnlyBook
<1> HIDE DEF b
<1>11. Paid(s, t, w, amount, 0)
  BY <1>3, <1>4, <1>6, <1>7, <1>8, <1>9, <1>10 DEF Paid, b
<1> QED BY <1>2, <1>11

\* redeemToCash() credits what was taken.
LEMMA CreditedPays ==
    ASSUME NEW s \in State, NEW t, NEW w \in Withdrawals, NEW amount \in Nat, Paid(s, t, w, amount, 0)
    PROVE  Paid(s, [t EXCEPT !.books[WithdrawalBook[w]].credited = @ + amount], w, amount, amount)
<1> DEFINE b == WithdrawalBook[w]
           n == t.books[b]
           k == [n EXCEPT !.credited = @ + amount]
           u == [t EXCEPT !.books[b] = k]
<1>1. b \in Books /\ t \in State /\ s.books[b].credited \in Nat
  BY WithdrawalsAssumption DEF Paid, OnlyJob, State, Book
<1>2. n \in Book /\ n.credited = s.books[b].credited + 0
  BY <1>1 DEF Paid, State
<1>3. /\ k \in Book /\ k.credited = n.credited + amount /\ k.units = n.units /\ k.cash = n.cash
      /\ k.settlement = n.settlement /\ k.riskTry = n.riskTry /\ k.feeTry = n.feeTry
      /\ k.feeAmount = n.feeAmount /\ k.fees = n.fees /\ k.pending = n.pending
  <2> HIDE DEF n
  <2> QED BY <1>2 DEF Book
<1>4. [t EXCEPT !.books[WithdrawalBook[w]].credited = @ + amount] = u
  OBVIOUS
<1> HIDE DEF k
<1>5. OnlyBook(t, u, b) /\ u.books[b] = k
  BY <1>1, <1>3, BookSet
<1> HIDE DEF u
<1>6. OnlyJob(s, u, b)
  BY <1>5 DEF Paid, OnlyJob, OnlyBook
<1>7. k.credited = s.books[b].credited + amount
  BY <1>1, <1>2, <1>3
<1>8. Paid(s, u, w, amount, amount)
  BY <1>3, <1>5, <1>6, <1>7 DEF Paid, OnlyBook
<1> QED BY <1>4, <1>8

\* What is left of the strategy's entry once the redemption is paid.
LEMMA PaidBook ==
    ASSUME NEW s, NEW rec, NEW m, NEW v, FileOK(s, rec, m, v), NEW w \in Withdrawals, Payable(s, w),
           NEW t, NEW amount, NEW credit, Paid(s, t, w, amount, credit)
    PROVE  BookOK(t, WithdrawalBook[w])
<1> DEFINE b == WithdrawalBook[w]
<1>1. b \in Books /\ s \in State /\ t \in State /\ Units[w] \in Nat
  BY WithdrawalsAssumption DEF FileOK, Paid, OnlyJob
<1>2. BookOK(s, b)
  BY <1>1, BookIsOK
<1>3. s.books[b].settlement.ids \subseteq Withdrawals
  BY <1>1 DEF State, Book, Settlement
<1>4. SumFunctionOnSet(Units, OpenOf(t, b)) <= t.books[b].units
  <2>1. OpenOf(s, b) = OpenOf(t, b) \cup {w} /\ w \notin OpenOf(t, b)
    BY DEF OpenOf, Paid, Payable
  <2>2. IsFiniteSet(OpenOf(s, b)) /\ \A u \in OpenOf(s, b) : Units[u] \in Int
    BY WithdrawalsAssumption, FS_Subset DEF OpenOf
  <2>3. SumFunctionOnSet(Units, OpenOf(s, b)) = Units[w] + SumFunctionOnSet(Units, OpenOf(s, b) \ {w})
    BY <2>1, <2>2, SumTake
  <2>4. OpenOf(s, b) \ {w} = OpenOf(t, b)
    BY <2>1
  <2>5. SumFunctionOnSet(Units, OpenOf(t, b)) \in Int /\ s.books[b].units \in Nat
    <3>1. OpenOf(t, b) \in SUBSET Withdrawals
      BY DEF OpenOf
    <3> QED BY <1>1, <3>1, UnitsTyped DEF State, Book
  <2>6. t.books[b].units = s.books[b].units - Units[w]
    BY DEF Paid
  <2>7. SumFunctionOnSet(Units, OpenOf(s, b)) <= s.books[b].units
    BY <1>2 DEF BookOK
  <2> DEFINE all == SumFunctionOnSet(Units, OpenOf(s, b))
             left == SumFunctionOnSet(Units, OpenOf(t, b))
             whole == s.books[b].units
             rest == t.books[b].units
             out == Units[w]
  <2>8. all = out + left
    BY <2>3, <2>4
  <2>9. left \in Int /\ whole \in Nat /\ out \in Nat /\ rest = whole - out /\ all <= whole
    BY <1>1, <2>5, <2>6, <2>7
  <2> HIDE DEF all, left, whole, rest, out
  <2>10. left <= rest
    BY ONLY <2>8, <2>9
  <2> QED BY <2>10 DEF left, rest
<1>5. \A u \in s.books[b].settlement.ids : /\ WithdrawalBook[u] = b
                                           /\ t.withdrawals[u].status \in {"SETTLING", "PAID"}
  BY <1>2, <1>3 DEF BookOK, Paid
<1>6. t.books[b].settlement = s.books[b].settlement /\ s.books[b].settlement.priced
  BY DEF Paid, Payable
<1>7. t.steps = s.steps
  BY DEF Paid, OnlyJob
<1>8. /\ t.books[b].riskTry = s.books[b].riskTry /\ t.books[b].feeTry = s.books[b].feeTry
      /\ t.books[b].feeAmount = s.books[b].feeAmount /\ t.books[b].fees = s.books[b].fees
  BY DEF Paid
<1> DEFINE n == s.books[b]
           k == t.books[b]
<1>9. k.settlement.attempt <= Tries /\ k.riskTry <= Tries
  BY <1>2, <1>6, <1>8 DEF BookOK
<1>10. \A y \in StepIds : Kind(y) = "fee" /\ Job(y) = b =>
         /\ Attempt(y) > k.feeTry => t.steps[y].st = "none"
         /\ t.steps[y].st = "saved" => /\ Attempt(y) = k.feeTry /\ k.feeAmount > 0
                                       /\ t.steps[y].amount = k.feeAmount /\ k.feeAmount <= k.fees
  BY <1>2, <1>7, <1>8 DEF BookOK
<1>11. k.feeAmount > 0 => k.feeTry \in 1 .. Tries /\ t.steps[<<"fee", b, k.feeTry>>].st # "none"
  BY <1>2, <1>7, <1>8 DEF BookOK
<1>12. \A u \in k.settlement.ids : /\ WithdrawalBook[u] = b
                                   /\ t.withdrawals[u].status \in {"SETTLING", "PAID"}
                                   /\ ~k.settlement.priced => t.withdrawals[u].status = "SETTLING"
  BY <1>5, <1>6
<1>13. SumFunctionOnSet(Units, OpenOf(t, b)) <= k.units
  BY <1>4
<1> HIDE DEF b
<1>14. BookOK(t, b)
  BY ONLY <1>9, <1>10, <1>11, <1>12, <1>13 DEF BookOK
<1> QED BY <1>14 DEF b

\* Cash that moves to the platform balance stays in the vault.
LEMMA CashMoves ==
    ASSUME NEW p \in Nat, NEW c \in Int, NEW d \in Nat, NEW amount \in Nat
    PROVE  p + (c - amount) + (d + amount) = p + c + d
OBVIOUS

\* A redemption to the platform balance keeps the file correct.
LEMMA RedeemedFile ==
    ASSUME NEW s, NEW rec, NEW m, NEW v, FileOK(s, rec, m, v), NEW w \in Withdrawals, Payable(s, w),
           NEW t, NEW amount \in Nat, Paid(s, t, w, amount, amount), NEW served, Clear(s, rec, WithdrawalBook[w], served)
    PROVE  FileOK(t, rec, m, v) /\ t.steps = s.steps
<1> DEFINE b == WithdrawalBook[w]
<1>1. b \in Books /\ s \in State
  BY WithdrawalsAssumption DEF FileOK
<1>2. BookOK(t, b) /\ OnlyJob(s, t, b)
  BY PaidBook DEF Paid
<1>3. Held(t)[b] = Held(s)[b]
  <2> DEFINE n == s.books[b]
             k == t.books[b]
  <2>1. n.pending \in Nat /\ n.cash \in Int /\ n.credited \in Nat
    BY <1>1 DEF State, Book
  <2>2. k.pending = n.pending /\ k.cash = n.cash - amount /\ k.credited = n.credited + amount
    BY DEF Paid
  <2>3. Held(t)[b] = k.pending + k.cash + k.credited /\ Held(s)[b] = n.pending + n.cash + n.credited
    BY <1>1 DEF Held
  <2> HIDE DEF n, k, b
  <2> QED BY <2>1, <2>2, <2>3, CashMoves
<1> HIDE DEF b
<1>4. Clear(s, rec, b, served)
  BY DEF b
<1> QED BY <1>1, <1>2, <1>3, <1>4, JobFile

\* Paying the next redemption keeps the invariant.
LEMMA PayOneKeeps ==
    ASSUME IInv, PayOne
    PROVE  IInv'
<1> DEFINE w == CHOOSE x \in Unpaid(book) : TRUE
           amount == saved.withdrawals[w].payout
           x == <<"pay", w, 0>>
<1>1. pc = "pay" /\ w \in Unpaid(book) /\ UNCHANGED orderUnchanged
  BY DEF PayOne, settleUnchanged, orderUnchanged
<1>2. \/ Throw(saved, "other")
      \/ Units[w] <= saved.books[book].units /\ saved' = Redeemed(w) /\ Goto("pay")
      \/ CallStep(saved, x, Cash(amount))
  <2>1. ~(Units[w] > saved.books[book].units) => Units[w] <= saved.books[book].units \/ ~(book \in Books /\ w \in Withdrawals)
    BY Holding, WithdrawalsAssumption DEF State, Book
  <2>2. book \in Books /\ w \in Withdrawals
    BY <1>1, Insides, InBook, SettlementFacts DEF Unpaid, SettlementOf
  <2> QED BY <2>1, <2>2 DEF PayOne
<1> HIDE DEF w
<1>3. /\ pc \in Inside \ RequestLocations /\ pc \in Inside /\ "pay" \in Inside /\ "pay" \notin RequestLocations
      /\ book \in Books
  BY <1>1, Insides, InBook DEF RequestLocations
<1>4. OthersOK' /\ UNCHANGED chainVars /\ FileOK(saved, record, mined, vault) /\ saved \in State
  BY <1>1, Holding, SameOthers DEF orderUnchanged
<1>5. Reached(saved, "pay", book) /\ saved.books[book].settlement.priced
  BY <1>1 DEF IInv, ControlOK, Phase, Calls, Reached
<1>6. /\ w \in Withdrawals /\ WithdrawalBook[w] = book /\ w \in saved.books[book].settlement.ids
      /\ saved.withdrawals[w].status = "SETTLING"
  BY <1>1, <1>3, SettlementFacts DEF Unpaid, SettlementOf
<1>7. Payable(saved, w) /\ amount \in Nat
  BY <1>4, <1>5, <1>6 DEF Payable, State, Withdrawal
<1> HIDE DEF amount
<1>8. CASE Throw(saved, "other")
  BY <1>1, <1>3, <1>8, SavedKept, OutThrows
<1>9. CASE Units[w] <= saved.books[book].units /\ saved' = Redeemed(w) /\ Goto("pay")
  <2> DEFINE t == Burned(saved, w, amount)
  <2>1. Paid(saved, t, w, amount, 0)
    BY <1>4, <1>6, <1>7, <1>9, BurnedPays
  <2>2. saved' = [t EXCEPT !.books[WithdrawalBook[w]].credited = @ + amount]
    BY <1>9 DEF Redeemed, amount
  <2> HIDE DEF t
  <2>3. Paid(saved, saved', w, amount, amount)
    BY <1>4, <1>6, <1>7, <2>1, <2>2, CreditedPays
  <2>4. Clear(saved, record, book, InRequest)
    BY <1>3, IsClear
  <2>5. FileOK(saved', record, mined, vault) /\ saved'.steps = saved.steps
    BY <1>4, <1>6, <1>7, <2>3, <2>4, RedeemedFile
  <2>6. Reached(saved', "pay", book) /\ FeeBooked(saved', "pay", book)
    BY <1>5, <1>6, <2>3 DEF Paid, Reached, FeeBooked, RequestLocations
  <2> QED BY <1>3, <1>4, <1>9, <2>5, <2>6, GotoStep
<1>10. CASE CallStep(saved, x, Cash(amount))
  <2>1. x \in StepIds /\ Kind(x) = "pay" /\ Job(x) = w /\ BookOf(x) = book
    BY <1>6, PayStep
  <2> HIDE DEF x
  <2>2. NewStepOK(x, Cash(amount))
    BY <1>7, <2>1, CashOK DEF TradeKinds
  <2>3. Current(saved, x)
    BY <1>6, <2>1, CurrentKinds
  <2>4. Wanted(saved, x)
    BY <1>6, <2>1 DEF Wanted, RequestKinds
  <2>5. Reached(saved, After[Kind(x)], book)
    BY <1>5, <2>1, AfterKinds
  <2> QED BY <1>3, <1>4, <1>10, <2>1, <2>2, <2>3, <2>4, <2>5, BookCalls
<1> QED BY <1>2, <1>8, <1>9, <1>10

\* The open fee payment is closed.
FeeClosed(n, k) ==
    /\ k.feeAmount = 0 /\ k.feeTry = n.feeTry /\ k.settlement = n.settlement /\ k.riskTry = n.riskTry
    /\ k.fees = n.fees /\ k.units = n.units /\ k.pending = n.pending /\ k.cash = n.cash /\ k.credited = n.credited

\* Closing an applied fee payment keeps the file correct.
LEMMA FeeClosedFile ==
    ASSUME NEW s, NEW rec, NEW m, NEW v, FileOK(s, rec, m, v), NEW b \in Books, NEW t,
           OnlyBook(s, t, b), FeeClosed(s.books[b], t.books[b]),
           s.steps[<<"fee", b, s.books[b].feeTry>>].st = "applied", NEW served, Clear(s, rec, b, served)
    PROVE  FileOK(t, rec, m, v) /\ t.steps = s.steps
<1> DEFINE n == s.books[b]
           k == t.books[b]
<1>1. BookOK(s, b) /\ s \in State
  BY BookIsOK DEF FileOK
<1>2. t.steps = s.steps /\ t.withdrawals = s.withdrawals /\ OnlyJob(s, t, b)
  BY OnlyBookJob DEF OnlyBook
<1>3. /\ k.feeAmount = 0 /\ k.feeTry = n.feeTry /\ k.settlement = n.settlement /\ k.riskTry = n.riskTry
      /\ k.fees = n.fees /\ k.units = n.units /\ k.pending = n.pending /\ k.cash = n.cash /\ k.credited = n.credited
  BY DEF FeeClosed
<1>4. OpenOf(t, b) = OpenOf(s, b)
  BY <1>2 DEF OpenOf
<1>5. \A y \in StepIds : Kind(y) = "fee" /\ Job(y) = b =>
         /\ Attempt(y) > k.feeTry => t.steps[y].st = "none"
         /\ t.steps[y].st # "saved"
  <2>1. ASSUME NEW y \in StepIds, Kind(y) = "fee", Job(y) = b, Attempt(y) = n.feeTry
        PROVE  s.steps[y].st = "applied"
    <3>1. y = <<"fee", b, n.feeTry>>
      BY <2>1 DEF StepIds, Kind, Job, Attempt
    <3> QED BY <3>1
  <2> QED BY <1>1, <1>2, <1>3, <2>1 DEF BookOK
<1>6. k.settlement.attempt <= Tries /\ k.riskTry <= Tries /\ SumFunctionOnSet(Units, OpenOf(t, b)) <= k.units
  <2>1. n.settlement.attempt <= Tries /\ n.riskTry <= Tries /\ SumFunctionOnSet(Units, OpenOf(s, b)) <= n.units
    BY <1>1 DEF BookOK
  <2> HIDE DEF n, k
  <2> QED BY <1>3, <1>4, <2>1
<1>7. \A w \in k.settlement.ids : /\ WithdrawalBook[w] = b
                                  /\ t.withdrawals[w].status \in {"SETTLING", "PAID"}
                                  /\ ~k.settlement.priced => t.withdrawals[w].status = "SETTLING"
  BY <1>1, <1>2, <1>3 DEF BookOK
<1>8. k.feeAmount > 0 => k.feeTry \in 1 .. Tries /\ t.steps[<<"fee", b, k.feeTry>>].st # "none"
  BY <1>3
<1>11. \A y \in StepIds : Kind(y) = "fee" /\ Job(y) = b =>
         /\ Attempt(y) > k.feeTry => t.steps[y].st = "none"
         /\ t.steps[y].st = "saved" => /\ Attempt(y) = k.feeTry /\ k.feeAmount > 0
                                       /\ t.steps[y].amount = k.feeAmount /\ k.feeAmount <= k.fees
  BY <1>5
<1>9. BookOK(t, b)
  <2>1. k.settlement.attempt <= Tries /\ k.riskTry <= Tries
    BY <1>6
  <2>2. SumFunctionOnSet(Units, OpenOf(t, b)) <= k.units
    BY <1>6
  <2> HIDE DEF n
  <2> QED BY ONLY <2>1, <2>2, <1>7, <1>8, <1>11 DEF BookOK
<1>10. Held(t)[b] = Held(s)[b]
  BY <1>3 DEF Held
<1> QED BY <1>2, <1>9, <1>10, JobFile

\* The end of a fee payment keeps the invariant.
LEMMA FeePaidKeeps ==
    ASSUME IInv, FeePaid
    PROVE  IInv'
<1> DEFINE n == saved.books[book]
           k == [n EXCEPT !.feeAmount = 0]
<1>1. /\ pc = "feePaid" /\ UNCHANGED orderUnchanged /\ EndSection
      /\ saved' = [saved EXCEPT !.books[book] = k]
  BY DEF FeePaid, settleUnchanged, orderUnchanged
<1>2. pc \in Inside /\ book \in Books /\ FileOK(saved, record, mined, vault) /\ saved \in State
  BY <1>1, Insides, InBook, Holding
<1>3. OthersOK' /\ UNCHANGED chainVars
  BY <1>1, Holding, SameOthers DEF orderUnchanged
<1>4. n \in Book
  BY <1>2 DEF State
<1>5. k \in Book /\ FeeClosed(n, k)
  <2> HIDE DEF n
  <2> QED BY <1>4 DEF Book, FeeClosed
<1> HIDE DEF k
<1>6. OnlyBook(saved, saved', book) /\ saved'.books[book] = k
  BY <1>1, <1>2, <1>5, BookSet
<1>7. saved.steps[<<"fee", book, saved.books[book].feeTry>>].st = "applied"
  BY <1>1 DEF IInv, ControlOK, FeeBooked
<1>8. Clear(saved, record, book, InRequest)
  BY <1>2, IsClear
<1>9. FileOK(saved', record, mined, vault) /\ saved'.steps = saved.steps
  BY <1>2, <1>5, <1>6, <1>7, <1>8, FeeClosedFile
<1> QED BY <1>1, <1>2, <1>3, <1>9, EndStep

\* A fee payment begins: only its number and its amount change.
FeeBegun(s, t, b) ==
    LET n == s.books[b]
        k == t.books[b]
    IN  /\ OnlyBook(s, t, b)
        /\ k.settlement = n.settlement /\ k.riskTry = n.riskTry
        /\ k.fees = n.fees /\ k.units = n.units /\ k.pending = n.pending /\ k.cash = n.cash /\ k.credited = n.credited

\* A new fee payment keeps everything but the fee payments correct until its step is
\* saved.
LEMMA FeeBegunKept ==
    ASSUME NEW s, NEW rec, NEW m, NEW v, FileOK(s, rec, m, v), NEW b \in Books, NEW t, FeeBegun(s, t, b),
           NEW served, Clear(s, rec, b, served)
    PROVE  FileButFees(t, rec, m, v) /\ t.steps = s.steps
<1>1. /\ t \in State /\ s \in State /\ t.steps = s.steps /\ t.requests = s.requests /\ t.withdrawals = s.withdrawals
      /\ t.pool = s.pool /\ \A c \in Books \ {b} : t.books[c] = s.books[c]
  BY DEF FileOK, FeeBegun, OnlyBook
<1>2. \A c \in Books : /\ t.books[c].settlement = s.books[c].settlement /\ t.books[c].riskTry = s.books[c].riskTry
                       /\ t.books[c].units = s.books[c].units /\ t.books[c].pending = s.books[c].pending
                       /\ t.books[c].cash = s.books[c].cash /\ t.books[c].credited = s.books[c].credited
  BY <1>1 DEF FeeBegun
<1>3. RecordsOK(t, rec, m) /\ RequestsOK(t) /\ FinishedOK(t, rec)
  BY <1>1 DEF FileOK, RecordsOK, RequestsOK, FinishedOK, Unsettled
<1>4. SettlementOK(t)
  BY <1>1, <1>2 DEF FileOK, SettlementOK
<1>5. UnitsOK(t)
  <2>1. \A c \in Books : OpenOf(t, c) = OpenOf(s, c)
    BY <1>1 DEF OpenOf
  <2> QED BY <1>2, <2>1 DEF FileOK, UnitsOK
<1>6. PayOK(t, rec)
  BY <1>1, <1>2, StepParts, WithdrawalsAssumption DEF FileOK, PayOK, Payable, Unsettled
<1>7. NumbersOK(t)
  BY <1>1, <1>2 DEF FileOK, NumbersOK
<1>8. ForgottenOK(t, rec)
  <2>1. ASSUME NEW x \in StepIds, rec[x] \in {"signed", "ok"}, t.steps[x].st = "saved"
        PROVE  Current(t, x)
    <3>1. Current(s, x) /\ Unsettled(s, rec, x)
      BY <1>1, <2>1 DEF FileOK, ForgottenOK, Unsettled
    <3>2. CASE BookOf(x) = b
      <4>1. Kind(x) \in RequestKinds
        BY <3>1, <3>2 DEF Clear
      <4> QED BY <4>1, CurrentKinds
    <3>3. CASE BookOf(x) # b
      <4>1. t.books[BookOf(x)] = s.books[BookOf(x)]
        BY <1>1, <3>3, StepParts
      <4> QED BY <3>1, <4>1 DEF Current
    <3> QED BY <3>2, <3>3
  <2> QED BY <2>1 DEF ForgottenOK
<1>9. VaultOK(t, m, v)
  <2>1. Held(t) = Held(s)
    BY <1>2 DEF Held
  <2> QED BY <1>1, <2>1 DEF FileOK, VaultOK, UnappliedOf, Amounts
<1> QED BY <1>1, <1>3, <1>4, <1>5, <1>6, <1>7, <1>8, <1>9 DEF FileButFees

\* What FeeOK says of one strategy.
LEMMA FeesOf ==
    ASSUME NEW s, FeeOK(s), NEW b \in Books
    PROVE  /\ \A y \in StepIds : Kind(y) = "fee" /\ Job(y) = b =>
                /\ Attempt(y) > s.books[b].feeTry => s.steps[y].st = "none"
                /\ s.steps[y].st = "saved" => s.books[b].feeAmount > 0
           /\ s.books[b].feeAmount > 0 => /\ s.books[b].feeTry \in 1 .. Tries
                                          /\ s.steps[<<"fee", b, s.books[b].feeTry>>].st # "none"
BY DEF FeeOK

\* The step of the payment that begins is saved with it.
LEMMA FeeBegunFile ==
    ASSUME NEW s, NEW rec, NEW m, NEW v, FileOK(s, rec, m, v), NEW b \in Books, s.books[b].feeAmount = 0,
           s.books[b].fees # 0, NEW u, FeeBegun(s, u, b), u.books[b].feeAmount = s.books[b].fees,
           u.books[b].feeTry = s.books[b].feeTry + 1, u.books[b].feeTry <= Tries,
           NEW served, Clear(s, rec, b, served), NEW x \in StepIds, Kind(x) = "fee", Job(x) = b,
           Attempt(x) = u.books[b].feeTry, NEW t, t = Called(u, x, Cash(s.books[b].fees))
    PROVE  /\ FileOK(t, rec, m, v) /\ t.books = u.books /\ t.steps[x].st = "saved" /\ s.steps[x].st = "none"
           /\ \A y \in StepIds \ {x} : t.steps[y] = s.steps[y]
           /\ \A y \in StepIds : Unsettled(t, rec, y) <=> Unsettled(s, rec, y)
<1> DEFINE n == s.books[b]
           k == u.books[b]
           args == Cash(n.fees)
<1>1. /\ s \in State /\ FeeOK(s) /\ n.fees \in Nat /\ n.fees > 0 /\ n.feeTry \in Nat
  BY DEF FileOK, State, Book
<1>2. FileButFees(u, rec, m, v) /\ u.steps = s.steps
  BY FeeBegunKept
<1>3. NewStepOK(x, args)
  BY <1>1, CashOK DEF TradeKinds
<1>14. \A y \in StepIds : Kind(y) = "fee" /\ Job(y) = b =>
          /\ Attempt(y) > n.feeTry => s.steps[y].st = "none"
          /\ s.steps[y].st = "saved" => n.feeAmount > 0
  BY <1>1, FeesOf
<1>4. s.steps[x].st = "none"
  <2>1. Attempt(x) = n.feeTry + 1 /\ n.feeTry + 1 > n.feeTry
    BY <1>1
  <2> HIDE DEF n
  <2> QED BY <1>14, <2>1
<1>5. t = Called(u, x, args)
  OBVIOUS
<1>6. args.amount = n.fees
  BY DEF Cash
<1> HIDE DEF args
<1>7. /\ FileButFees(t, rec, m, v) /\ OnlySteps(u, t) /\ t.steps[x] = args /\ t.steps[x].st = "saved"
      /\ \A y \in StepIds : Unsettled(t, rec, y) <=> Unsettled(u, rec, y)
      /\ \A y \in StepIds \ {x} : t.steps[y] = s.steps[y]
  BY <1>2, <1>3, <1>4, <1>5, CalledKept
<1>8. t.books = u.books /\ \A c \in Books \ {b} : t.books[c] = s.books[c]
  BY <1>7 DEF OnlySteps, FeeBegun, OnlyBook
<1>9. ASSUME NEW y \in StepIds, Kind(y) = "fee"
      PROVE  LET q == t.books[Job(y)]
             IN  /\ Attempt(y) > q.feeTry => t.steps[y].st = "none"
                 /\ t.steps[y].st = "saved" => /\ Attempt(y) = q.feeTry /\ q.feeAmount > 0
                                               /\ t.steps[y].amount = q.feeAmount /\ q.feeAmount <= q.fees
  <2>1. CASE y = x
    <3>1. t.books[b].fees = n.fees /\ t.books[b].feeAmount = n.fees /\ t.books[b].feeTry = Attempt(x)
      BY <1>8 DEF FeeBegun
    <3>2. Attempt(x) \in Nat
      BY <1>9, <2>1, StepParts
    <3> QED BY <1>1, <1>6, <1>7, <2>1, <3>1, <3>2
  <2>2. CASE y # x /\ Job(y) = b
    <3>1. Attempt(y) \in Nat /\ n.feeTry \in Nat /\ t.books[b].feeTry = n.feeTry + 1
      BY <1>1, <1>8, <1>9, StepParts
    <3>2. s.steps[y].st # "saved" /\ (Attempt(y) > n.feeTry => s.steps[y].st = "none")
      BY <1>9, <1>14, <2>2
    <3> QED BY <1>7, <2>2, <3>1, <3>2
  <2>3. CASE Job(y) # b
    <3>1. Job(y) \in Books /\ y # x
      BY <1>9, <2>3, StepParts
    <3> QED BY <1>1, <1>7, <1>8, <1>9, <2>3, <3>1 DEF FeeOK
  <2> QED BY <2>1, <2>2, <2>3
<1>10. ASSUME NEW c \in Books, t.books[c].feeAmount > 0
       PROVE  /\ t.books[c].feeTry \in 1 .. Tries
              /\ t.steps[<<"fee", c, t.books[c].feeTry>>].st # "none"
  <2>1. CASE c = b
    <3>1. x = <<"fee", b, Attempt(x)>> /\ Attempt(x) \in 1 .. Tries
      BY StepParts DEF StepIds, Kind, Job, Attempt
    <3> QED BY <1>7, <1>8, <2>1, <3>1
  <2>2. CASE c # b
    <3>1. /\ t.books[c] = s.books[c] /\ s.books[c].feeTry \in 1 .. Tries
          /\ s.steps[<<"fee", c, s.books[c].feeTry>>].st # "none"
      BY <1>1, <1>8, <1>10, <2>2 DEF FeeOK
    <3> DEFINE z == <<"fee", c, s.books[c].feeTry>>
    <3>2. z \in StepIds /\ Job(z) = c
      BY <3>1, BookStep
    <3> HIDE DEF z
    <3>4. z \in StepIds \ {x}
      BY <2>2, <3>2
    <3>5. t.steps[z].st # "none"
      BY <1>7, <3>1, <3>4 DEF z
    <3> QED BY <3>1, <3>5 DEF z
  <2> QED BY <2>1, <2>2
<1>11. FeeOK(t)
  BY <1>9, <1>10 DEF FeeOK
<1>12. \A y \in StepIds : Unsettled(u, rec, y) <=> Unsettled(s, rec, y)
  BY <1>2 DEF Unsettled
<1>13. FileOK(t, rec, m, v)
  BY <1>7, <1>11, FileAndFees
<1> QED BY <1>4, <1>7, <1>8, <1>12, <1>13

FeesClosed == IF FeeApplied(saved, book) THEN [saved EXCEPT !.books[book].feeAmount = 0] ELSE saved

\* Closing a payment that was applied before a crash keeps the file correct.
LEMMA FeesClosedFile ==
    ASSUME IInv, pc = "fees"
    PROVE  /\ FileOK(FeesClosed, record, mined, vault) /\ FeesClosed.steps = saved.steps
           /\ FeesClosed.books[book].feeAmount > 0 => FeesClosed = saved /\ ~FeeApplied(saved, book)
<1>1. /\ pc \in Inside /\ book \in Books /\ FileOK(saved, record, mined, vault) /\ saved \in State
      /\ Clear(saved, record, book, InRequest)
  BY Insides, InBook, Holding, IsClear
<1>2. CASE ~FeeApplied(saved, book)
  BY <1>1, <1>2 DEF FeesClosed
<1>3. CASE FeeApplied(saved, book)
  <2> DEFINE n == saved.books[book]
             k == [n EXCEPT !.feeAmount = 0]
             t == [saved EXCEPT !.books[book] = k]
  <2>1. FeesClosed = t
    BY <1>3 DEF FeesClosed
  <2>2. n \in Book
    BY <1>1 DEF State
  <2>3. k \in Book /\ FeeClosed(n, k)
    <3> HIDE DEF n
    <3> QED BY <2>2 DEF Book, FeeClosed
  <2> HIDE DEF k
  <2>4. OnlyBook(saved, t, book) /\ t.books[book] = k
    BY <1>1, <2>3, BookSet
  <2>5. saved.steps[<<"fee", book, saved.books[book].feeTry>>].st = "applied"
    BY <1>3 DEF FeeApplied
  <2> HIDE DEF t
  <2>6. FileOK(t, record, mined, vault) /\ t.steps = saved.steps
    BY <1>1, <2>3, <2>4, <2>5, FeeClosedFile
  <2>7. ~(t.books[book].feeAmount > 0)
    BY <2>3, <2>4 DEF FeeClosed
  <2> QED BY <2>1, <2>6, <2>7
<1> QED BY <1>2, <1>3

\* payFees() keeps the invariant.
LEMMA PayFeesKeeps ==
    ASSUME IInv, PayFees
    PROVE  IInv'
<1> DEFINE closed == FeesClosed
           k == closed.books[book]
           kk == [k EXCEPT !.feeTry = @ + 1, !.feeAmount = k.fees]
           begun == [closed EXCEPT !.books[book] = kk]
           Fee(s) == <<"fee", book, s.books[book].feeTry>>
           Calling(s) == /\ s.books[book].feeTry <= Tries
                         /\ CallStep(s, Fee(s), Cash(s.books[book].feeAmount))
<1>1. pc = "fees" /\ UNCHANGED orderUnchanged
  BY DEF PayFees, settleUnchanged, orderUnchanged
<1>2. \/ saved' = closed /\ EndSection
      \/ k.feeAmount > 0 /\ Calling(closed)
      \/ ~(k.feeAmount > 0) /\ k.fees # 0 /\ Calling(begun)
  BY DEF PayFees, FeesClosed
<1> HIDE DEF closed
<1>3. /\ FileOK(closed, record, mined, vault) /\ closed.steps = saved.steps
      /\ k.feeAmount > 0 => closed = saved /\ ~FeeApplied(saved, book)
  BY <1>1, FeesClosedFile DEF closed
<1>4. pc \in Inside /\ pc \notin RequestLocations /\ book \in Books /\ OthersOK' /\ UNCHANGED chainVars
  BY <1>1, Insides, InBook, Holding, SameOthers DEF RequestLocations, orderUnchanged
<1>5. Ground(record, todo, book) /\ StepsTypeOK /\ InRequest = FALSE
  <2>1. pc \notin Outside /\ pc \notin Calls
    BY <1>4 DEF Inside
  <2> QED BY <1>4, <2>1, InSection DEF IInv, ChainOK, InRequest, Calls
<1>6. Clear(closed, record, book, InRequest)
  BY <1>3, <1>4, IsClear, SameSteps
<1>7. closed \in State /\ k \in Book /\ FeeOK(closed) /\ k.feeAmount \in Nat /\ k.fees \in Nat /\ k.feeTry \in Nat
  BY <1>3, <1>4 DEF FileOK, State, Book
<1>8. ASSUME NEW t, NEW x \in StepIds, Kind(x) = "fee", Job(x) = book, NEW u, NEW args,
             Attempt(x) = t.books[book].feeTry, t.books[book].feeAmount > 0, t = Called(u, x, args),
             FileOK(t, record, mined, vault), Clear(t, record, book, InRequest), t.steps[x].st = "saved",
             CallStep(u, x, args),
             \A y \in StepIds : saved.steps[y].st = "applied" => t.steps[y].st = "applied"
      PROVE  IInv'
  <2>1. BookOf(x) = book /\ InRequest = (Kind(x) \in RequestKinds)
    <3>1. BookOf(x) = book
      BY <1>8, StepParts
    <3>2. (Kind(x) \in RequestKinds) = FALSE
      BY <1>8 DEF RequestKinds
    <3> QED BY <1>5, <3>1, <3>2
  <2>2. Current(t, x)
    BY <1>8, <2>1, CurrentKinds
  <2>3. Wanted(t, x)
    BY <1>8 DEF Wanted, RequestKinds
  <2>4. Reached(t, After[Kind(x)], book)
    BY <1>8, AfterKinds DEF Reached, RequestLocations
  <2>5. /\ FileOK(saved', record, mined, vault) /\ ControlOK(saved', record, pc', todo', book', cur')
        /\ saved'.steps = t.steps
    BY <1>5, <1>8, <2>1, <2>2, <2>3, <2>4, CallKeeps
  <2>6. \A y \in StepIds : saved.steps[y].st = "applied" => saved'.steps[y].st = "applied"
    BY <1>8, <2>5
  <2>7. record' = record /\ mined' = mined /\ vault' = vault
    BY <1>4 DEF chainVars
  <2> QED BY <1>4, <2>5, <2>6, <2>7, StateStep
<1>9. CASE saved' = closed /\ EndSection
  BY <1>3, <1>4, <1>9, EndStep
<1>10. CASE k.feeAmount > 0 /\ Calling(closed)
  <2> DEFINE x == Fee(closed)
             args == Cash(k.feeAmount)
  <2>1. closed = saved /\ ~FeeApplied(saved, book)
    BY <1>3, <1>10
  <2>2. k.feeTry \in 1 .. Tries /\ closed.steps[x].st # "none"
    BY <1>4, <1>7, <1>10, FeesOf
  <2>3. x \in StepIds /\ Kind(x) = "fee" /\ Job(x) = book /\ Attempt(x) = k.feeTry
    BY <1>4, <2>2, BookStep
  <2>4. closed.steps[x].st # "applied"
    BY <1>10, <2>1 DEF FeeApplied
  <2> HIDE DEF x
  <2>5. closed.steps[x].st = "saved"
    BY <1>7, <2>2, <2>3, <2>4 DEF State, Step
  <2>6. closed = Called(closed, x, args)
    BY <2>2 DEF Called
  <2>7. CallStep(closed, x, args)
    BY <1>10 DEF x
  <2> HIDE DEF args
  <2> QED BY <1>3, <1>6, <1>8, <1>10, <2>3, <2>5, <2>6, <2>7
<1>11. CASE ~(k.feeAmount > 0) /\ k.fees # 0 /\ Calling(begun)
  <2> DEFINE x == Fee(begun)
             args == Cash(k.fees)
             t == Called(begun, x, args)
  <2>1. kk \in Book /\ kk.feeTry = k.feeTry + 1 /\ kk.feeAmount = k.fees
    <3> DEFINE k1 == [k EXCEPT !.feeTry = @ + 1]
    <3>1. kk = [k1 EXCEPT !.feeAmount = k.fees]
      BY <1>7 DEF Book
    <3> HIDE DEF k
    <3>2. k1 \in Book /\ k1.feeTry = k.feeTry + 1
      BY <1>7 DEF Book
    <3> HIDE DEF k1, kk
    <3> QED BY <1>7, <3>1, <3>2 DEF Book
  <2>2. /\ kk.settlement = k.settlement /\ kk.riskTry = k.riskTry
        /\ kk.fees = k.fees /\ kk.units = k.units /\ kk.pending = k.pending /\ kk.cash = k.cash
        /\ kk.credited = k.credited
    <3> HIDE DEF k
    <3> QED BY <1>7 DEF Book
  <2> HIDE DEF kk
  <2>3. OnlyBook(closed, begun, book) /\ begun.books[book] = kk
    BY <1>4, <1>7, <2>1, BookSet
  <2>4. begun.books[book].feeTry <= Tries /\ CallStep(begun, x, Cash(begun.books[book].feeAmount))
    BY <1>11
  <2> HIDE DEF begun
  <2>5. FeeBegun(closed, begun, book)
    BY <2>2, <2>3 DEF FeeBegun
  <2>6. kk.feeTry \in 1 .. Tries
    <3> HIDE DEF k
    <3> QED BY <1>7, <2>1, <2>3, <2>4, BoundsAssumption
  <2>7. x \in StepIds /\ Kind(x) = "fee" /\ Job(x) = book /\ Attempt(x) = begun.books[book].feeTry
    BY <1>4, <2>3, <2>6, BookStep
  <2> HIDE DEF x
  <2>8. k.feeAmount = 0
    <3> HIDE DEF k
    <3> QED BY <1>7, <1>11
  <2>9. begun.books[book].feeAmount = k.fees /\ begun.books[book].feeTry = k.feeTry + 1
    BY <2>1, <2>3
  <2>10. /\ FileOK(t, record, mined, vault) /\ t.books = begun.books /\ t.steps[x].st = "saved"
         /\ closed.steps[x].st = "none"
         /\ \A y \in StepIds \ {x} : t.steps[y] = closed.steps[y]
         /\ \A y \in StepIds : Unsettled(t, record, y) <=> Unsettled(closed, record, y)
    BY <1>3, <1>4, <1>6, <1>11, <2>4, <2>5, <2>7, <2>8, <2>9, FeeBegunFile
  <2>11. t = Called(begun, x, args) /\ CallStep(begun, x, args)
    BY <2>4, <2>9
  <2> HIDE DEF t, args
  <2>12. Clear(t, record, book, InRequest)
    BY <1>6, <2>10 DEF Clear
  <2>13. \A y \in StepIds : saved.steps[y].st = "applied" => t.steps[y].st = "applied"
    BY <1>3, <2>10
  <2>14. t.books[book].feeAmount > 0
    <3>1. t.books[book].feeAmount = k.fees
      BY <2>9, <2>10
    <3> HIDE DEF k
    <3> QED BY <1>7, <1>11, <3>1
  <2> QED BY <1>8, <2>7, <2>10, <2>11, <2>12, <2>13, <2>14
<1> QED BY <1>2, <1>9, <1>10, <1>11

-------------------------------------------------------------------------------
(* The submitter, the effects of steps, the recovery, the troubles and the chain. *)


\* What the submitter learns of a step in flight.
Learnt(rec, m, x) == [rec EXCEPT ![x] = m[x]]
Recorded(rec) == rec \in [StepIds -> {"absent", "signed"} \cup Outcomes]

\* Learning an outcome changes one record.
LEMMA LearntKnown ==
    ASSUME NEW rec, Recorded(rec), NEW m, NEW x \in StepIds, m[x] \in Outcomes
    PROVE  LET new == Learnt(rec, m, x)
           IN  Recorded(new) /\ new[x] = m[x] /\ \A y \in StepIds \ {x} : new[y] = rec[y]
BY DEF Learnt, Recorded, Outcomes

\* The file stays correct when an outcome is learnt.
LEMMA LearntFile ==
    ASSUME NEW s, NEW rec, NEW m, NEW v, FileOK(s, rec, m, v), NEW x \in StepIds, rec[x] = "signed",
           m[x] \in Outcomes, NEW new, new[x] = m[x], \A y \in StepIds \ {x} : new[y] = rec[y]
    PROVE  /\ FileOK(s, new, m, v)
           /\ \A y \in StepIds : Unsettled(s, new, y) => Unsettled(s, rec, y)
           /\ \A y \in StepIds : new[y] = "signed" => rec[y] = "signed"
<1>1. \A y \in StepIds : new[y] = "signed" => rec[y] = "signed" /\ y # x
  BY DEF Outcomes
<1>2. \A y \in StepIds : Unsettled(s, new, y) => Unsettled(s, rec, y)
  BY <1>1 DEF Unsettled
<1>3. RecordsOK(s, new, m)
  <2>1. s.steps[x].st \in {"none", "saved", "applied"}
    BY DEF FileOK, State, Step
  <2>2. RecordsOK(s, rec, m)
    BY DEF FileOK
  <2>3. s.steps[x].st = "saved"
    BY <2>1, <2>2 DEF RecordsOK
  <2>4. \A y \in StepIds : /\ new[y] \in Outcomes => m[y] = new[y]
                           /\ new[y] = "absent" => m[y] = "no"
                           /\ s.steps[y].st = "none" => new[y] = "absent"
                           /\ s.steps[y].st = "applied" => new[y] = "ok"
    BY <2>2, <2>3 DEF RecordsOK, Outcomes
  <2> QED BY <1>1, <2>2, <2>4 DEF RecordsOK
<1>4. FinishedOK(s, new) /\ PayOK(s, new)
  BY <1>2 DEF FileOK, FinishedOK, PayOK
<1>5. ForgottenOK(s, new)
  BY <1>1 DEF FileOK, ForgottenOK
<1> QED BY <1>1, <1>2, <1>3, <1>4, <1>5 DEF FileOK

\* A step is signed for an open job that wants it.
LEMMA SignedFile ==
    ASSUME NEW s, NEW rec, NEW m, NEW v, FileOK(s, rec, m, v), NEW x \in StepIds, rec[x] = "absent",
           \A y \in StepIds : rec[y] # "signed", s.steps[x].st = "saved", Current(s, x), Wanted(s, x),
           Kind(x) = "pay" => Payable(s, Job(x)),
           NEW new, new[x] = "signed", \A y \in StepIds \ {x} : new[y] = rec[y]
    PROVE  /\ FileOK(s, new, m, v)
           /\ \A y \in StepIds : Unsettled(s, new, y) => y = x \/ Unsettled(s, rec, y)
           /\ \A y \in StepIds : new[y] = "signed" => y = x
<1>1. \A y \in StepIds : new[y] = "signed" => y = x
  OBVIOUS
<1>2. \A y \in StepIds : Unsettled(s, new, y) => y = x \/ Unsettled(s, rec, y)
  BY DEF Unsettled
<1>3. RecordsOK(s, new, m)
  <2>1. RecordsOK(s, rec, m)
    BY DEF FileOK
  <2>2. \A y \in StepIds : /\ new[y] \in Outcomes => m[y] = new[y]
                           /\ new[y] = "absent" => m[y] = "no"
                           /\ s.steps[y].st = "none" => new[y] = "absent"
                           /\ s.steps[y].st = "applied" => new[y] = "ok"
    BY <2>1 DEF RecordsOK, Outcomes
  <2> QED BY <1>1, <2>2 DEF RecordsOK
<1>4. FinishedOK(s, new)
  BY <1>2 DEF FileOK, FinishedOK, Wanted, Finished, BeingServed
<1>5. PayOK(s, new)
  BY <1>2 DEF FileOK, PayOK
<1>6. ForgottenOK(s, new)
  BY DEF FileOK, ForgottenOK
<1> QED BY <1>1, <1>2, <1>3, <1>4, <1>5, <1>6 DEF FileOK

\* A step of the submitter keeps the invariant, if it keeps the file and the place in
\* the tick correct.
LEMMA RecordStep ==
    ASSUME IInv, UNCHANGED <<mined, receipt, vault, account>>, OthersOK', Recorded(record'),
           FileOK(saved', record', mined, vault), ControlOK(saved', record', pc', todo', book', cur'),
           saved'.steps = saved.steps
    PROVE  IInv'
<1>1. ChainOK'
  BY DEF IInv, ChainOK, StepsTypeOK, Recorded
<1> QED BY <1>1 DEF IInv

\* What learning an outcome does.
LEMMA LearnFacts ==
    ASSUME IInv, NEW x \in StepIds, Learn(x)
    PROVE  /\ record[x] = "signed" /\ mined[x] \in Outcomes /\ record' = Learnt(record, mined, x) /\ mined' = mined
           /\ Recorded(record') /\ record'[x] = mined[x] /\ \A y \in StepIds \ {x} : record'[y] = record[y]
           /\ FileOK(saved, record', mined, vault)
           /\ \A y \in StepIds : Unsettled(saved, record', y) => Unsettled(saved, record, y)
           /\ \A y \in StepIds : record'[y] = "signed" => record[y] = "signed"
<1>1. record[x] = "signed" /\ mined[x] \in Outcomes /\ record' = Learnt(record, mined, x) /\ mined' = mined
  BY DEF Learn, Learnt
<1>2. Recorded(record)
  BY DEF IInv, ChainOK, StepsTypeOK, Recorded
<1>3. Recorded(record') /\ record'[x] = mined[x] /\ \A y \in StepIds \ {x} : record'[y] = record[y]
  BY <1>1, <1>2, LearntKnown
<1>4. FileOK(saved, record, mined, vault)
  BY Holding
<1> QED BY <1>1, <1>3, <1>4, LearntFile

\* An error after an outcome was learnt keeps the invariant.
LEMMA LearnThrows ==
    ASSUME IInv, pc \in Calls, NEW x \in StepIds, Learn(x), UNCHANGED <<receipt, vault, account>>, OthersOK',
           ThrowKnowing(Learnt(record, mined, x), saved, "other")
    PROVE  IInv'
<1>1. /\ Recorded(record') /\ FileOK(saved, record', mined, vault) /\ mined' = mined
      /\ \A y \in StepIds : Unsettled(saved, record', y) => Unsettled(saved, record, y)
      /\ \A y \in StepIds : record'[y] = "signed" => record[y] = "signed"
      /\ record' = Learnt(record, mined, x)
  BY LearnFacts
<1>2. Ground(record, todo, book)
  BY InSection DEF Outside, Calls
<1>3. Ground(record', todo, book)
  BY <1>1, <1>2 DEF Ground
<1>4. InRequest => Clear(saved, record', book, FALSE)
  BY <1>1, ThrowClear DEF Clear
<1>5. /\ FileOK(saved', record', mined, vault) /\ ControlOK(saved', record', pc', todo', book', cur')
      /\ saved'.steps = saved.steps
  BY <1>1, <1>3, <1>4, ThrowKeeps
<1> QED BY <1>1, <1>5, RecordStep

\* Resolving an earlier transaction before a submission keeps the invariant.
LEMMA SubmitSyncKeeps ==
    ASSUME IInv, NEW x \in StepIds, SubmitSync(x)
    PROVE  IInv'
<1>1. pc = "submit" /\ pc \in Calls /\ Learn(x) /\ UNCHANGED <<receipt, vault, account>> /\ OthersOK'
  BY Holding, SameOthers DEF SubmitSync, Calls
<1>2. \/ UNCHANGED <<saved, tickVars>>
      \/ ThrowKnowing(Learnt(record, mined, x), saved, "other")
  BY DEF SubmitSync, Learnt
<1>3. CASE UNCHANGED <<saved, tickVars>>
  <2>1. /\ Recorded(record') /\ FileOK(saved, record', mined, vault) /\ mined' = mined /\ record[x] = "signed"
        /\ \A y \in StepIds : Unsettled(saved, record', y) => Unsettled(saved, record, y)
        /\ \A y \in StepIds : record'[y] = "signed" => record[y] = "signed"
        /\ \A y \in StepIds \ {x} : record'[y] = record[y]
    BY <1>1, LearnFacts
  <2>2. LocationOK(pc, todo, book, cur) /\ SectionOK(saved, record, pc, todo, book, cur)
        /\ CallOK(saved, record, pc, book, cur) /\ Reached(saved, Phase(pc, cur), book) /\ FeeBooked(saved, pc, book)
    BY DEF IInv, ControlOK
  <2>3. SectionOK(saved, record', pc, todo, book, cur)
    BY <1>1, <2>1, <2>2 DEF SectionOK
  <2>4. cur \in StepIds /\ cur # x
    BY <1>1, <2>1, <2>2 DEF LocationOK, CallOK
  <2>5. CallOK(saved, record', pc, book, cur)
    BY <1>1, <2>1, <2>2, <2>4 DEF CallOK
  <2>6. ControlOK(saved', record', pc', todo', book', cur') /\ saved' = saved
    BY <1>3, <2>2, <2>3, <2>5 DEF ControlOK, tickVars
  <2> QED BY <1>1, <2>1, <2>6, RecordStep
<1>4. CASE ThrowKnowing(Learnt(record, mined, x), saved, "other")
  BY <1>1, <1>4, LearnThrows
<1> QED BY <1>2, <1>3, <1>4

\* A submission whose outcome is known keeps the invariant.
LEMMA SubmitKnownKeeps ==
    ASSUME IInv, SubmitKnown
    PROVE  IInv'
<1>1. pc = "submit" /\ pc \in Calls /\ UNCHANGED chainVars /\ OthersOK' /\ FileOK(saved, record, mined, vault)
  BY Holding, SameOthers DEF SubmitKnown, Calls
<1>2. record[cur] # "ok"
  BY <1>1 DEF IInv, ControlOK, CallOK
<1>3. Throw(saved, "other")
  BY <1>2 DEF SubmitKnown
<1> QED BY <1>1, <1>3, ThrowStep

\* What is known during a call.
LEMMA CallFacts ==
    ASSUME IInv, pc \in Calls
    PROVE  /\ cur \in StepIds /\ book \in Books /\ BookOf(cur) = book /\ saved.steps[cur].st = "saved"
           /\ Current(saved, cur) /\ Wanted(saved, cur) /\ Ground(record, todo, book)
           /\ pc = "submit" => record[cur] \in {"absent", "reverted"}
           /\ pc = "await" => record[cur] = "signed"
           /\ pc = "apply" => record[cur] = "ok"
           /\ Reached(saved, After[Kind(cur)], book)
           /\ LocationOK(pc, todo, book, cur)
<1>1. pc \notin Outside
  BY DEF Calls, Outside
<1> QED BY <1>1, InSection DEF IInv, ControlOK, LocationOK, CallOK, Phase

\* A call goes on to its next part.
LEMMA CallGoesOn ==
    ASSUME IInv, pc \in Calls, NEW l \in Calls, NEW new,
           \A y \in StepIds : new[y] = "signed" => BookOf(y) \notin Coming(todo),
           \A y \in StepIds : BookOf(y) = book /\ Unsettled(saved, new, y) =>
               (y = cur /\ l \in {"await", "apply"}) \/ (Kind(y) \in RequestKinds /\ ~Serves(l, cur)),
           l = "submit" => new[cur] \in {"absent", "reverted"}, l = "await" => new[cur] = "signed",
           l = "apply" => new[cur] = "ok"
    PROVE  ControlOK(saved, new, l, todo, book, cur)
<1>1. l \in Locations /\ l \notin Outside /\ l \notin {"idle", "sync", "ready"} /\ l # "recover" /\ l # "feePaid"
  BY DEF Calls, Locations, Outside
<1>2. LocationOK(l, todo, book, cur)
  BY <1>1, CallFacts DEF LocationOK, Ground
<1>3. SectionOK(saved, new, l, todo, book, cur)
  BY <1>1 DEF SectionOK
<1>4. CallOK(saved, new, l, book, cur)
  BY CallFacts DEF CallOK
<1>5. Reached(saved, Phase(l, cur), book) /\ FeeBooked(saved, l, book)
  BY <1>1, CallFacts DEF Phase, FeeBooked
<1> QED BY <1>2, <1>3, <1>4, <1>5 DEF ControlOK

\* Who a call serves does not depend on how far it is.
LEMMA ServesCalls ==
    ASSUME NEW l \in Calls, NEW k \in Calls, NEW c
    PROVE  Serves(l, c) <=> Serves(k, c)
BY DEF Serves

\* Signing keeps the invariant.
LEMMA SubmitSignKeeps ==
    ASSUME IInv, SubmitSign
    PROVE  IInv'
<1>1. /\ pc = "submit" /\ pc \in Calls /\ "await" \in Calls /\ OthersOK' /\ UNCHANGED <<mined, receipt, vault, account>>
      /\ saved' = saved /\ pc' = "await" /\ todo' = todo /\ book' = book /\ cur' = cur
      /\ InFlight = {} /\ record[cur] = "absent" /\ record' = [record EXCEPT ![cur] = "signed"]
  BY Holding, SameOthers DEF SubmitSign, Sign, Calls
<1>2. Recorded(record) /\ cur \in StepIds
  BY <1>1, CallFacts DEF IInv, ChainOK, StepsTypeOK, Recorded
<1>3. /\ Recorded(record') /\ record'[cur] = "signed" /\ \A y \in StepIds \ {cur} : record'[y] = record[y]
      /\ \A y \in StepIds : record[y] # "signed"
  BY <1>1, <1>2 DEF Recorded, InFlight
<1>4. Kind(cur) = "pay" => Payable(saved, Job(cur))
  <2>1. ASSUME Kind(cur) = "pay" PROVE Payable(saved, Job(cur))
    <3>1. saved.withdrawals[Job(cur)].status = "SETTLING" /\ BookOf(cur) = book /\ BookOf(cur) = WithdrawalBook[Job(cur)]
      BY <1>1, <2>1, CallFacts, StepParts DEF Wanted
    <3>2. saved.books[book].settlement.priced
      BY <1>1, <2>1, CallFacts, AfterKinds DEF Reached
    <3> QED BY <3>1, <3>2 DEF Payable
  <2> QED BY <2>1
<1>5. FileOK(saved, record, mined, vault) /\ saved.steps[cur].st = "saved" /\ Current(saved, cur) /\ Wanted(saved, cur)
  BY <1>1, Holding, CallFacts
<1>6. /\ FileOK(saved, record', mined, vault)
      /\ \A y \in StepIds : Unsettled(saved, record', y) => y = cur \/ Unsettled(saved, record, y)
      /\ \A y \in StepIds : record'[y] = "signed" => y = cur
  <2> DEFINE new == record'
             x == cur
  <2>1. FileOK(saved, record, mined, vault) /\ x \in StepIds /\ record[x] = "absent"
    BY <1>1, <1>2, <1>5
  <2>2. (\A y \in StepIds : record[y] # "signed") /\ (\A y \in StepIds \ {x} : new[y] = record[y]) /\ new[x] = "signed"
    BY <1>3
  <2>3. saved.steps[x].st = "saved" /\ Current(saved, x) /\ Wanted(saved, x) /\ (Kind(x) = "pay" => Payable(saved, Job(x)))
    BY <1>4, <1>5
  <2> HIDE DEF new, x
  <2>4. /\ FileOK(saved, new, mined, vault)
        /\ \A y \in StepIds : Unsettled(saved, new, y) => y = x \/ Unsettled(saved, record, y)
        /\ \A y \in StepIds : new[y] = "signed" => y = x
    BY <2>1, <2>2, <2>3, SignedFile
  <2> QED BY <2>4 DEF new, x
<1>7. Clear(saved, record, book, InRequest)
  BY <1>1, IsClear
<1>8. \A y \in StepIds : BookOf(y) = book /\ Unsettled(saved, record', y) =>
          y = cur \/ (Kind(y) \in RequestKinds /\ ~Serves("await", cur))
  <2>1. InRequest <=> Serves("await", cur)
    BY <1>1, Requesting, ServesCalls
  <2>2. \A y \in StepIds : BookOf(y) = book /\ Unsettled(saved, record, y) => Kind(y) \in RequestKinds /\ ~InRequest
    BY <1>7 DEF Clear
  <2> QED BY ONLY <1>6, <2>1, <2>2
<1>9. \A y \in StepIds : record'[y] = "signed" => BookOf(y) \notin Coming(todo)
  BY <1>1, <1>6, CallFacts DEF Ground
<1>10. ControlOK(saved, record', "await", todo, book, cur)
  BY <1>1, <1>3, <1>8, <1>9, CallGoesOn
<1> QED BY <1>1, <1>3, <1>6, <1>10, RecordStep

\* An answer keeps the invariant.
LEMMA SubmitAnsweredKeeps ==
    ASSUME IInv, SubmitAnswered
    PROVE  IInv'
<1>1. /\ pc = "await" /\ pc \in Calls /\ "apply" \in Calls /\ OthersOK' /\ UNCHANGED <<receipt, vault, account>>
      /\ Learn(cur)
  BY Holding, SameOthers DEF SubmitAnswered, Calls
<1>2. cur \in StepIds
  BY <1>1, CallFacts
<1>3. /\ Recorded(record') /\ FileOK(saved, record', mined, vault) /\ mined' = mined /\ record'[cur] = mined[cur]
      /\ \A y \in StepIds : Unsettled(saved, record', y) => Unsettled(saved, record, y)
      /\ \A y \in StepIds : record'[y] = "signed" => record[y] = "signed"
  BY <1>1, <1>2, LearnFacts
<1>4. CASE mined[cur] = "ok"
  <2>1. saved' = saved /\ pc' = "apply" /\ todo' = todo /\ book' = book /\ cur' = cur
    BY <1>4 DEF SubmitAnswered
  <2>2. SectionOK(saved, record, pc, todo, book, cur)
    BY DEF IInv, ControlOK
  <2>3. \A y \in StepIds : BookOf(y) = book /\ Unsettled(saved, record', y) =>
            y = cur \/ (Kind(y) \in RequestKinds /\ ~Serves("apply", cur))
    BY <1>1, <1>3, <2>2, ServesCalls DEF SectionOK, Outside
  <2>4. \A y \in StepIds : record'[y] = "signed" => BookOf(y) \notin Coming(todo)
    BY <1>1, <1>3, CallFacts DEF Ground
  <2>5. ControlOK(saved, record', "apply", todo, book, cur)
    BY <1>1, <1>3, <1>4, <2>3, <2>4, CallGoesOn
  <2> QED BY <1>1, <1>3, <2>1, <2>5, RecordStep
<1>5. CASE mined[cur] # "ok"
  <2>1. ThrowKnowing(Learnt(record, mined, cur), saved, "other")
    BY <1>5 DEF SubmitAnswered, Learnt
  <2> QED BY <1>1, <1>2, <2>1, LearnThrows
<1> QED BY <1>4, <1>5

\* A trouble leaves the file correct.
LEMMA Troubled ==
    ASSUME IInv, UNCHANGED timeVars, NEW k \in TroubleKinds, May(k), Happens(k)
    PROVE  OthersOK' /\ FileOK(saved, record, mined, vault)
BY Holding, TroubleOthers

\* An RPC error before signing keeps the invariant.
LEMMA SubmitFailsKeeps ==
    ASSUME IInv, SubmitFails
    PROVE  IInv'
<1>1. pc \in Calls /\ May("rpc") /\ Happens("rpc") /\ UNCHANGED <<chainVars, timeVars>>
  BY DEF SubmitFails, Calls
<1>2. PICK error \in {"other", "gas"} : Throw(saved, error)
  BY DEF SubmitFails
<1>3. "rpc" \in TroubleKinds
  BY DEF TroubleKinds
<1> QED BY <1>1, <1>2, <1>3, Troubled, ThrowStep

\* Giving up the wait keeps the invariant: the transaction stays in flight.
LEMMA SubmitGivesUpKeeps ==
    ASSUME IInv, SubmitGivesUp
    PROVE  IInv'
<1>1. /\ pc \in Calls /\ May("giveUp") /\ Happens("giveUp") /\ UNCHANGED <<chainVars, timeVars>>
      /\ Throw(saved, "other")
  BY DEF SubmitGivesUp, Calls
<1>2. "giveUp" \in TroubleKinds
  BY DEF TroubleKinds
<1> QED BY <1>1, <1>2, Troubled, ThrowStep

\* An effect whose receipt cannot be read keeps the invariant.
LEMMA ApplyFailsKeeps ==
    ASSUME IInv, ApplyFails
    PROVE  IInv'
<1>1. /\ pc \in Calls /\ May("rpc") /\ Happens("rpc") /\ UNCHANGED <<chainVars, timeVars>>
      /\ Throw(saved, "other")
  BY DEF ApplyFails, Calls
<1>2. "rpc" \in TroubleKinds
  BY DEF TroubleKinds
<1> QED BY <1>1, <1>2, Troubled, ThrowStep

\* What applying a step changes, whatever its kind.
Delta(s, x) ==
    IF Kind(x) \in InKinds THEN s.steps[x].amount
    ELSE IF Kind(x) \in OutKinds THEN -s.steps[x].amount ELSE 0
SameNumbers(p, q) == q.amount = p.amount /\ q.before = p.before /\ q.owned = p.owned
SameJobs(n, k) ==
    k.settlement = n.settlement /\ k.riskTry = n.riskTry /\ k.feeTry = n.feeTry /\ k.feeAmount = n.feeAmount
AppliedTo(s, t, x) ==
    LET b == BookOf(x)
    IN  /\ t \in State /\ t.requests = s.requests /\ Priced(t)
        /\ \A y \in StepIds \ {x} : t.steps[y] = s.steps[y]
        /\ t.steps[x].st = "applied" /\ SameNumbers(s.steps[x], t.steps[x])
        /\ \A c \in Books \ {b} : t.books[c] = s.books[c]
        /\ SameJobs(s.books[b], t.books[b]) /\ Held(t)[b] = Held(s)[b] + Delta(s, x)

\* What a strategy holds is an integer.
LEMMA HeldTyped == ASSUME NEW s \in State, NEW b \in Books PROVE Held(s)[b] \in Int
<1>1. s.books[b].pending \in Nat /\ s.books[b].cash \in Int /\ s.books[b].credited \in Nat
  BY DEF State, Book
<1> QED BY <1>1 DEF Held

\* A step that is applied leaves the unapplied ones.
LEMMA UnappliedLoses ==
    ASSUME NEW s \in State, NEW t \in State, NEW m, NEW x \in StepIds, m[x] = "ok", s.steps[x].st = "saved",
           \A y \in StepIds \ {x} : t.steps[y] = s.steps[y], t.steps[x].st = "applied",
           t.steps[x].amount = s.steps[x].amount, NEW kinds, IsFiniteSet(UnappliedOf(s, m, kinds))
    PROVE  /\ IsFiniteSet(UnappliedOf(t, m, kinds))
           /\ SumFunctionOnSet(Amounts(t), UnappliedOf(t, m, kinds)) \in Int
           /\ SumFunctionOnSet(Amounts(s), UnappliedOf(s, m, kinds))
                = SumFunctionOnSet(Amounts(t), UnappliedOf(t, m, kinds))
                    + IF Kind(x) \in kinds THEN s.steps[x].amount ELSE 0
<1> DEFINE old == UnappliedOf(s, m, kinds)
           new == UnappliedOf(t, m, kinds)
<1>1. new = old \ {x}
  BY DEF UnappliedOf
<1>2. x \in old <=> Kind(x) \in kinds
  BY DEF UnappliedOf
<1>3. old \in SUBSET StepIds /\ IsFiniteSet(old)
  BY DEF UnappliedOf
<1>4. \A y \in StepIds : Amounts(s)[y] \in Int /\ Amounts(t)[y] = Amounts(s)[y] /\ Amounts(s)[y] = s.steps[y].amount
  BY DEF Amounts, State, Step
<1> HIDE DEF old, new
<1>5. IsFiniteSet(new) /\ new \in SUBSET StepIds
  BY <1>1, <1>3, FS_RemoveElement
<1>6. SumFunctionOnSet(Amounts(t), new) = SumFunctionOnSet(Amounts(s), new)
  BY <1>4, <1>5, SumSame
<1>7. SumFunctionOnSet(Amounts(t), new) \in Int
  <2>1. \A y \in new : Amounts(t)[y] \in Int
    BY <1>4, <1>5
  <2> QED BY <1>5, <2>1, SumInt
<1>8. CASE Kind(x) \in kinds
  <2>1. \A y \in old : Amounts(s)[y] \in Int
    BY <1>3, <1>4
  <2>2. SumFunctionOnSet(Amounts(s), old) = Amounts(s)[x] + SumFunctionOnSet(Amounts(s), old \ {x})
    BY <1>2, <1>3, <1>8, <2>1, SumTake
  <2>3. Amounts(s)[x] = s.steps[x].amount /\ Amounts(s)[x] \in Int
    BY <1>4
  <2>4. SumFunctionOnSet(Amounts(s), old) = SumFunctionOnSet(Amounts(t), new) + s.steps[x].amount
    BY <1>1, <1>6, <1>7, <2>2, <2>3
  <2> QED BY <1>5, <1>7, <1>8, <2>4 DEF old, new
<1>9. CASE Kind(x) \notin kinds
  <2>1. new = old
    BY <1>1, <1>2, <1>9
  <2>2. SumFunctionOnSet(Amounts(s), old) = SumFunctionOnSet(Amounts(t), new) + 0
    BY <1>6, <1>7, <2>1
  <2> QED BY <1>5, <1>7, <1>9, <2>2 DEF old, new
<1> QED BY <1>8, <1>9

\* The books still account for the vault after an effect.
LEMMA AppliedVault ==
    ASSUME NEW s \in State, NEW m, NEW v \in Int, VaultOK(s, m, v), NEW x \in StepIds, m[x] = "ok",
           s.steps[x].st = "saved", NEW t, AppliedTo(s, t, x)
    PROVE  VaultOK(t, m, v)
<1> DEFINE b == BookOf(x)
           amount == s.steps[x].amount
           d == IF Kind(x) \in OutKinds THEN amount ELSE 0
           e == IF Kind(x) \in InKinds THEN amount ELSE 0
           out == SumFunctionOnSet(Amounts(t), UnappliedOf(t, m, OutKinds))
           in == SumFunctionOnSet(Amounts(t), UnappliedOf(t, m, InKinds))
           outs == SumFunctionOnSet(Amounts(s), UnappliedOf(s, m, OutKinds))
           ins == SumFunctionOnSet(Amounts(s), UnappliedOf(s, m, InKinds))
           held == SumFunctionOnSet(Held(t), Books)
           helds == SumFunctionOnSet(Held(s), Books)
<1>1. /\ t \in State /\ \A y \in StepIds \ {x} : t.steps[y] = s.steps[y]
      /\ t.steps[x].st = "applied" /\ t.steps[x].amount = amount
      /\ \A c \in Books \ {b} : t.books[c] = s.books[c]
      /\ Held(t)[b] = Held(s)[b] + Delta(s, x)
  BY DEF AppliedTo, SameNumbers
<1>2. b \in Books /\ amount \in Int
  BY StepParts DEF State, Step
<1>3. /\ IsFiniteSet(UnappliedOf(s, m, OutKinds)) /\ IsFiniteSet(UnappliedOf(s, m, InKinds))
      /\ v + outs = helds + ins
  BY DEF VaultOK
<1>4. IsFiniteSet(UnappliedOf(t, m, OutKinds)) /\ out \in Int /\ outs = out + d
  BY <1>1, <1>3, UnappliedLoses
<1>5. IsFiniteSet(UnappliedOf(t, m, InKinds)) /\ in \in Int /\ ins = in + e
  BY <1>1, <1>3, UnappliedLoses
<1>6. Delta(s, x) = e - d /\ d \in Int /\ e \in Int
  <2>1. ~(Kind(x) \in InKinds /\ Kind(x) \in OutKinds)
    BY DEF InKinds, OutKinds
  <2> HIDE DEF amount
  <2>2. Delta(s, x) = IF Kind(x) \in InKinds THEN amount ELSE IF Kind(x) \in OutKinds THEN -amount ELSE 0
    BY DEF Delta, amount
  <2> QED BY <1>2, <2>1, <2>2
<1>7. held \in Int /\ helds \in Int /\ held = helds + (e - d)
  <2>1. \A c \in Books : Held(s)[c] \in Int /\ Held(t)[c] \in Int
    BY <1>1, HeldTyped
  <2>2. \A c \in Books \ {b} : Held(s)[c] = Held(t)[c]
    BY <1>1 DEF Held
  <2>3. held = helds - Held(s)[b] + Held(t)[b]
    BY <1>2, <2>1, <2>2, BooksAssumption, SumChange
  <2>4. held \in Int /\ helds \in Int
    BY <2>1, BooksAssumption, SumInt
  <2> HIDE DEF held, helds, b, d, e
  <2> QED BY <1>1, <1>2, <1>6, <2>1, <2>3, <2>4
<1>8. outs \in Int /\ ins \in Int
  <2> HIDE DEF out, in, outs, ins, d, e
  <2> QED BY <1>4, <1>5, <1>6
<1> HIDE DEF out, in, outs, ins, held, helds, d, e
<1>9. v + out = held + in
  <2>1. /\ v \in Int /\ out \in Int /\ in \in Int /\ outs \in Int /\ ins \in Int /\ held \in Int /\ helds \in Int
        /\ d \in Int /\ e \in Int
    BY <1>4, <1>5, <1>6, <1>7, <1>8
  <2>2. v + outs = helds + ins /\ outs = out + d /\ ins = in + e /\ held = helds + (e - d)
    BY <1>3, <1>4, <1>5, <1>7
  <2> QED BY ONLY <2>1, <2>2
<1> QED BY <1>4, <1>5, <1>9 DEF VaultOK, out, in, held

\* An effect settles its own step and keeps the parts of the file no kind disturbs.
LEMMA AppliedCore ==
    ASSUME NEW s, NEW rec, NEW m, NEW v \in Int, FileOK(s, rec, m, v), NEW x \in StepIds, rec[x] = "ok",
           s.steps[x].st = "saved", NEW t, AppliedTo(s, t, x)
    PROVE  /\ \A y \in StepIds : Unsettled(t, rec, y) <=> y # x /\ Unsettled(s, rec, y)
           /\ RecordsOK(t, rec, m) /\ RequestsOK(t) /\ FinishedOK(t, rec) /\ ForgottenOK(t, rec)
           /\ NumbersOK(t) /\ VaultOK(t, m, v)
<1> DEFINE b == BookOf(x)
<1>1. /\ s \in State /\ t \in State /\ t.requests = s.requests /\ \A y \in StepIds \ {x} : t.steps[y] = s.steps[y]
      /\ t.steps[x].st = "applied" /\ SameNumbers(s.steps[x], t.steps[x])
      /\ \A c \in Books \ {b} : t.books[c] = s.books[c]
      /\ SameJobs(s.books[b], t.books[b]) /\ Priced(t)
  BY DEF FileOK, AppliedTo
<1>2. b \in Books /\ RecordsOK(s, rec, m)
  BY StepParts DEF FileOK
<1>3. \A y \in StepIds : Unsettled(t, rec, y) <=> y # x /\ Unsettled(s, rec, y)
  BY <1>1 DEF Unsettled
<1>4. m[x] = "ok"
  BY <1>2 DEF RecordsOK, Outcomes
<1>5. RecordsOK(t, rec, m)
  <2>1. \A y \in StepIds : /\ rec[y] \in Outcomes => m[y] = rec[y]
                           /\ rec[y] = "absent" => m[y] = "no"
                           /\ t.steps[y].st = "none" => rec[y] = "absent"
                           /\ t.steps[y].st = "applied" => rec[y] = "ok"
    BY <1>1, <1>2 DEF RecordsOK
  <2> QED BY <1>2, <2>1 DEF RecordsOK
<1>6. RequestsOK(t) /\ FinishedOK(t, rec)
  BY <1>1, <1>3 DEF FileOK, RequestsOK, FinishedOK
<1>7. ForgottenOK(t, rec)
  <2>1. ASSUME NEW y \in StepIds, rec[y] \in {"signed", "ok"}, t.steps[y].st = "saved"
        PROVE  Current(t, y)
    <3>1. Current(s, y)
      BY <1>1, <2>1 DEF FileOK, ForgottenOK
    <3>2. SameJobs(s.books[BookOf(y)], t.books[BookOf(y)])
      BY <1>1, StepParts DEF SameJobs
    <3> QED BY <3>1, <3>2 DEF Current, SameJobs
  <2> QED BY <2>1 DEF ForgottenOK
<1>8. NumbersOK(t)
  <2>1. NumbersOK(s)
    BY DEF FileOK
  <2>2. \A c \in Books : t.books[c].riskTry <= Tries
    <3>1. \A c \in Books : t.books[c].riskTry = s.books[c].riskTry
      BY <1>1 DEF SameJobs
    <3> QED BY <2>1, <3>1 DEF NumbersOK
  <2>3. \A y \in StepIds : SameNumbers(s.steps[y], t.steps[y])
    BY <1>1 DEF SameNumbers
  <2>4. \A y \in StepIds : /\ Kind(y) \notin TradeKinds => t.steps[y].amount \in Nat
                           /\ Kind(y) \in TradeKinds => /\ t.steps[y].owned <= t.steps[y].before
                                                        /\ t.steps[y].owned + t.steps[y].amount >= 0
    BY <2>1, <2>3 DEF NumbersOK, SameNumbers
  <2> QED BY <1>1, <2>2, <2>4 DEF NumbersOK, Priced
<1>9. VaultOK(t, m, v)
  <2>1. VaultOK(s, m, v)
    BY DEF FileOK
  <2> QED BY <1>1, <1>4, <2>1, AppliedVault
<1> QED BY <1>3, <1>5, <1>6, <1>7, <1>8, <1>9

\* What is not the same in every kind of effect.
AppliedRest(s, t, x) ==
    LET n == s.books[BookOf(x)]
        k == t.books[BookOf(x)]
    IN  /\ Kind(x) # "fee" => k.fees = n.fees
        /\ Kind(x) # "pay" => t.withdrawals = s.withdrawals /\ k.units = n.units
        /\ Kind(x) = "pay" => /\ t.withdrawals[Job(x)].status = "PAID"
                              /\ \A w \in Withdrawals \ {Job(x)} : t.withdrawals[w] = s.withdrawals[w]
                              /\ SumFunctionOnSet(Units, OpenOf(t, BookOf(x))) <= k.units

\* An effect keeps the fee payments correct.
LEMMA AppliedFees ==
    ASSUME NEW s, NEW rec, NEW m, NEW v \in Int, FileOK(s, rec, m, v), NEW x \in StepIds, rec[x] = "ok",
           s.steps[x].st = "saved", NEW t, AppliedTo(s, t, x), AppliedRest(s, t, x)
    PROVE  FeeOK(t)
<1> DEFINE b == BookOf(x)
<1>1. /\ \A y \in StepIds \ {x} : t.steps[y] = s.steps[y]
      /\ t.steps[x].st = "applied" /\ SameNumbers(s.steps[x], t.steps[x])
      /\ \A c \in Books \ {b} : t.books[c] = s.books[c]
      /\ SameJobs(s.books[b], t.books[b]) /\ (Kind(x) # "fee" => t.books[b].fees = s.books[b].fees)
  BY DEF AppliedTo, AppliedRest
<1>2. FeeOK(s) /\ b \in Books
  BY StepParts DEF FileOK
<1>3. \A c \in Books : t.books[c].feeTry = s.books[c].feeTry /\ t.books[c].feeAmount = s.books[c].feeAmount
  BY <1>1 DEF SameJobs
<1>4. ASSUME NEW y \in StepIds, Kind(y) = "fee"
      PROVE  LET k == t.books[Job(y)]
             IN  /\ Attempt(y) > k.feeTry => t.steps[y].st = "none"
                 /\ t.steps[y].st = "saved" => /\ Attempt(y) = k.feeTry /\ k.feeAmount > 0
                                               /\ t.steps[y].amount = k.feeAmount /\ k.feeAmount <= k.fees
  <2> DEFINE n == s.books[Job(y)]
             k == t.books[Job(y)]
  <2>1. Job(y) \in Books /\ BookOf(y) = Job(y)
    BY <1>4, StepParts
  <2>2. /\ Attempt(y) > n.feeTry => s.steps[y].st = "none"
        /\ s.steps[y].st = "saved" => /\ Attempt(y) = n.feeTry /\ n.feeAmount > 0
                                      /\ s.steps[y].amount = n.feeAmount /\ n.feeAmount <= n.fees
    BY <1>2, <1>4 DEF FeeOK
  <2>3. k.feeTry = n.feeTry /\ k.feeAmount = n.feeAmount
    BY <1>3, <2>1
  <2>4. CASE y = x
    BY <1>1, <2>2, <2>3, <2>4
  <2>5. CASE y # x /\ s.steps[y].st # "saved"
    BY <1>1, <2>2, <2>3, <2>5
  <2>6. CASE y # x /\ s.steps[y].st = "saved"
    <3>1. k.fees = n.fees
      <4>1. CASE Job(y) # b
        BY <1>1, <2>1, <4>1
      <4>2. CASE Kind(x) # "fee"
        BY <1>1, <2>1, <4>2
      <4>3. ~(Job(y) = b /\ Kind(x) = "fee")
        <5>1. ASSUME Job(y) = b, Kind(x) = "fee" PROVE FALSE
          <6>1. Job(x) = b
            BY <5>1, StepParts
          <6>2. Attempt(x) = s.books[b].feeTry /\ Attempt(y) = s.books[b].feeTry
            BY <1>2, <1>4, <2>6, <5>1, <6>1 DEF FeeOK
          <6> QED BY <1>4, <2>6, <5>1, <6>1, <6>2, StepSame
        <5> QED BY <5>1
      <4> QED BY <4>1, <4>2, <4>3
    <3>2. t.steps[y] = s.steps[y]
      BY <1>1, <2>6
    <3> HIDE DEF n, k
    <3> QED BY <2>2, <2>3, <3>1, <3>2 DEF k
  <2> QED BY <2>4, <2>5, <2>6
<1>5. ASSUME NEW c \in Books, t.books[c].feeAmount > 0
      PROVE  /\ t.books[c].feeTry \in 1 .. Tries
             /\ t.steps[<<"fee", c, t.books[c].feeTry>>].st # "none"
  <2> DEFINE z == <<"fee", c, t.books[c].feeTry>>
  <2>1. t.books[c].feeTry \in 1 .. Tries /\ s.steps[z].st # "none"
    BY <1>2, <1>3, <1>5 DEF FeeOK
  <2>2. z \in StepIds
    BY <2>1, BookStep
  <2> HIDE DEF z
  <2>3. t.steps[z].st # "none"
    BY <1>1, <2>1, <2>2
  <2> QED BY <2>1, <2>3 DEF z
<1> QED BY <1>4, <1>5 DEF FeeOK

\* An effect keeps the file correct.
LEMMA AppliedFile ==
    ASSUME NEW s, NEW rec, NEW m, NEW v \in Int, FileOK(s, rec, m, v), NEW x \in StepIds, rec[x] = "ok",
           s.steps[x].st = "saved", NEW t, AppliedTo(s, t, x), AppliedRest(s, t, x)
    PROVE  FileOK(t, rec, m, v)
<1> DEFINE b == BookOf(x)
           w == Job(x)
<1>1. /\ s \in State /\ t \in State /\ SettlementOK(s) /\ UnitsOK(s) /\ PayOK(s, rec)
      /\ \A c \in Books \ {b} : t.books[c] = s.books[c]
      /\ SameJobs(s.books[b], t.books[b])
  BY DEF FileOK, AppliedTo
<1>2. /\ Kind(x) # "pay" => t.withdrawals = s.withdrawals /\ t.books[b].units = s.books[b].units
      /\ Kind(x) = "pay" => /\ t.withdrawals[w].status = "PAID"
                            /\ \A u \in Withdrawals \ {w} : t.withdrawals[u] = s.withdrawals[u]
                            /\ SumFunctionOnSet(Units, OpenOf(t, b)) <= t.books[b].units
  BY DEF AppliedRest
<1>3. /\ \A y \in StepIds : Unsettled(t, rec, y) <=> y # x /\ Unsettled(s, rec, y)
      /\ RecordsOK(t, rec, m) /\ RequestsOK(t) /\ FinishedOK(t, rec) /\ ForgottenOK(t, rec)
      /\ NumbersOK(t) /\ VaultOK(t, m, v)
  BY AppliedCore
<1>4. FeeOK(t)
  BY AppliedFees
<1>5. \A c \in Books : t.books[c].settlement = s.books[c].settlement
  BY <1>1 DEF SameJobs
<1>6. Kind(x) = "pay" => w \in Withdrawals /\ b = WithdrawalBook[w] /\ Payable(s, w)
  BY <1>1, StepParts DEF PayOK, Unsettled
<1>7. b \in Books /\ \A c \in Books : \A u \in s.books[c].settlement.ids : u \in Withdrawals
  BY <1>1, StepParts DEF State, Book, Settlement
<1>8. CASE Kind(x) # "pay"
  <2>1. t.withdrawals = s.withdrawals
    BY <1>2, <1>8
  <2>2. SettlementOK(t)
    BY <1>1, <1>5, <2>1 DEF SettlementOK
  <2>3. UnitsOK(t)
    <3>1. \A c \in Books : t.books[c].units = s.books[c].units /\ OpenOf(t, c) = OpenOf(s, c)
      BY <1>1, <1>2, <1>8, <2>1 DEF OpenOf
    <3> QED BY <1>1, <3>1 DEF UnitsOK
  <2>4. PayOK(t, rec)
    BY <1>1, <1>3, <1>5, <2>1, StepParts, WithdrawalsAssumption DEF PayOK, Payable
  <2> QED BY <1>1, <1>3, <1>4, <2>2, <2>3, <2>4 DEF FileOK
<1>9. CASE Kind(x) = "pay"
  <2>1. w \in Withdrawals /\ b = WithdrawalBook[w] /\ s.withdrawals[w].status = "SETTLING" /\ s.books[b].settlement.priced
    BY <1>6, <1>9 DEF Payable
  <2>2. t.withdrawals[w].status = "PAID" /\ \A u \in Withdrawals \ {w} : t.withdrawals[u] = s.withdrawals[u]
    BY <1>2, <1>9
  <2> HIDE DEF w, b
  <2>3. SettlementOK(t)
    <3>1. ASSUME NEW c \in Books, NEW u \in t.books[c].settlement.ids
          PROVE  /\ WithdrawalBook[u] = c /\ t.withdrawals[u].status \in {"SETTLING", "PAID"}
                 /\ ~t.books[c].settlement.priced => t.withdrawals[u].status = "SETTLING"
      <4>1. u \in Withdrawals /\ WithdrawalBook[u] = c /\ s.withdrawals[u].status \in {"SETTLING", "PAID"}
            /\ (~s.books[c].settlement.priced => s.withdrawals[u].status = "SETTLING")
        BY <1>1, <1>5, <1>7, <3>1 DEF SettlementOK
      <4> QED BY <1>5, <2>1, <2>2, <4>1
    <3>2. \A c \in Books : t.books[c].settlement.attempt <= Tries
      BY <1>1, <1>5 DEF SettlementOK
    <3> QED BY <3>1, <3>2 DEF SettlementOK
  <2>4. UnitsOK(t)
    <3>1. ASSUME NEW c \in Books PROVE SumFunctionOnSet(Units, OpenOf(t, c)) <= t.books[c].units
      <4>1. CASE c = b
        BY <1>2, <1>9, <4>1
      <4>2. CASE c # b
        <5>1. OpenOf(t, c) = OpenOf(s, c)
          BY <2>1, <2>2, <4>2 DEF OpenOf
        <5> QED BY <1>1, <4>2, <5>1 DEF UnitsOK
      <4> QED BY <4>1, <4>2
    <3> QED BY <3>1 DEF UnitsOK
  <2>5. PayOK(t, rec)
    <3>1. ASSUME NEW y \in StepIds, Kind(y) = "pay", Unsettled(t, rec, y) PROVE Payable(t, Job(y))
      <4>1. y # x /\ Payable(s, Job(y)) /\ Job(y) \in Withdrawals
        BY <1>1, <1>3, <3>1, StepParts DEF PayOK
      <4>2. Job(y) # w
        BY <1>9, <3>1, <4>1, StepSame DEF w
      <4>3. WithdrawalBook[Job(y)] \in Books
        BY <4>1, WithdrawalsAssumption
      <4> QED BY <1>5, <2>2, <4>1, <4>2, <4>3 DEF Payable
    <3> QED BY <3>1 DEF PayOK
  <2> QED BY <1>1, <1>3, <1>4, <2>3, <2>4, <2>5 DEF FileOK
<1> QED BY <1>8, <1>9

\* The receipt a step is applied with.
ReceiptOK(x) ==
    /\ receipt[x] \in Snapshot /\ receipt[x].free >= 0
    /\ Kind(x) \in ReadingKinds => receipt[x].price > 0

\* Writing a step changes that step only.
LEMMA StepSet ==
    ASSUME NEW s \in State, NEW x \in StepIds, NEW q \in Step
    PROVE  LET t == [s EXCEPT !.steps[x] = q]
           IN  /\ OnlySteps(s, t) /\ t.steps[x] = q /\ \A y \in StepIds \ {x} : t.steps[y] = s.steps[y]
<1> DEFINE t == [s EXCEPT !.steps[x] = q]
<1>1. t \in State /\ t.steps[x] = q /\ \A y \in StepIds \ {x} : t.steps[y] = s.steps[y]
  BY DEF State
<1>2. t.books = s.books /\ t.requests = s.requests /\ t.withdrawals = s.withdrawals /\ t.pool = s.pool
  BY DEF State
<1> QED BY <1>1, <1>2 DEF OnlySteps

\* The mark.
LEMMA MarkedStep ==
    ASSUME NEW s \in State, NEW x \in StepIds
    PROVE  LET t == Marked(s, x)
           IN  /\ OnlySteps(s, t) /\ t.steps[x].st = "applied" /\ SameNumbers(s.steps[x], t.steps[x])
               /\ t.steps[x] \in Step /\ \A y \in StepIds \ {x} : t.steps[y] = s.steps[y]
<1> DEFINE p == s.steps[x]
           q == [p EXCEPT !.st = "applied"]
           t == [s EXCEPT !.steps[x] = q]
<1>1. p \in Step
  BY DEF State
<1>2. Marked(s, x) = t
  BY DEF Marked, State
<1>3. q \in Step /\ q.st = "applied" /\ SameNumbers(p, q)
  <2> HIDE DEF p
  <2> QED BY <1>1 DEF Step, SameNumbers
<1> HIDE DEF q
<1>4. OnlySteps(s, t) /\ t.steps[x] = q /\ \A y \in StepIds \ {x} : t.steps[y] = s.steps[y]
  BY <1>3, StepSet
<1> QED BY <1>2, <1>3, <1>4

\* Writing the pool changes the pool only.
LEMMA PoolSet ==
    ASSUME NEW s \in State, NEW p \in Pool
    PROVE  LET t == [s EXCEPT !.pool = p]
           IN  /\ t \in State /\ t.pool = p /\ t.books = s.books /\ t.requests = s.requests
               /\ t.withdrawals = s.withdrawals /\ t.steps = s.steps
BY DEF State

\* How each kind of effect is applied.
LEMMA ApplyKinds ==
    ASSUME NEW s, NEW x \in StepIds
    PROVE  LET b == BookOf(x)
               p == s.steps[x]
               snap == receipt[x]
               done == Marked(s, x)
           IN  /\ Kind(x) \in {"fund", "back", "collect"} =>
                     Applied(s, x) = [done EXCEPT !.pool = Checkpointed(Moved(@, b, ToAccount(s, x)), snap, b),
                                                  !.books[b].cash = @ - ToAccount(s, x)]
               /\ Kind(x) \in TradeKinds =>
                     /\ MayApply(s, x) => FillInRange(p.before, p.amount, snap.qty)
                     /\ Applied(s, x) = [done EXCEPT !.pool = [Checkpointed(@, snap, b) EXCEPT
                                                                  !.lots[b] = OwnedAfter(p, snap)],
                                                     !.steps[x].filled = (snap.qty # p.before)]
               /\ Kind(x) = "pay" => /\ MayApply(s, x) => Units[Job(x)] <= s.books[b].units
                                     /\ Applied(s, x) = Burned(done, Job(x), p.amount)
               /\ Kind(x) = "fee" => Applied(s, x) = [done EXCEPT !.books[b] = [s.books[b] EXCEPT !.cash = @ - p.amount,
                                                                                         !.fees = @ - p.amount]]
BY DEF Applied, MayApply, TradeKinds

MoveKinds == {"fund", "back", "collect"}

\* What it does to the claims on the account.
AppliedPool(s, t, x) ==
    LET b == BookOf(x)
    IN  /\ Kind(x) \in MoveKinds =>
              t.pool = Checkpointed(Moved(s.pool, b, ToAccount(s, x)), receipt[x], b)
        /\ Kind(x) \in TradeKinds =>
              LET seen == Checkpointed(s.pool, receipt[x], b)
              IN  t.pool.equity = seen.equity /\ t.pool.checkpoint = seen.checkpoint
        /\ Kind(x) \in {"pay", "fee"} => t.pool = s.pool

\* A transfer between the strategy and the account.
LEMMA AppliedMove ==
    ASSUME NEW s \in State, NEW x \in StepIds, Kind(x) \in MoveKinds, NumbersOK(s), ReceiptOK(x)
    PROVE  AppliedTo(s, Applied(s, x), x) /\ AppliedRest(s, Applied(s, x), x) /\ AppliedPool(s, Applied(s, x), x)
<1> DEFINE b == BookOf(x)
           n == s.books[b]
           snap == receipt[x]
           d == ToAccount(s, x)
           done == Marked(s, x)
           moved == Moved(done.pool, b, d)
           pool == Checkpointed(moved, snap, b)
           u == [done EXCEPT !.pool = pool]
           k == [n EXCEPT !.cash = @ - d]
           t == [u EXCEPT !.books[b] = k]
<1>1. /\ done \in State /\ done.books = s.books /\ done.requests = s.requests /\ done.withdrawals = s.withdrawals
      /\ done.pool = s.pool /\ done.steps[x].st = "applied" /\ SameNumbers(s.steps[x], done.steps[x])
      /\ \A y \in StepIds \ {x} : done.steps[y] = s.steps[y]
  BY MarkedStep DEF OnlySteps
<1>2. b \in Books /\ s.pool \in Pool /\ n \in Book /\ snap \in Snapshot
  BY StepParts DEF State, ReceiptOK
<1>3. Kind(x) \notin TradeKinds /\ Kind(x) # "pay" /\ Kind(x) \in ReadingKinds /\ Kind(x) # "fee"
  BY DEF MoveKinds, TradeKinds, ReadingKinds
<1>4. d \in Int /\ Delta(s, x) = -d
  <2>1. s.steps[x].amount \in Nat
    BY <1>3 DEF NumbersOK
  <2> QED BY <2>1 DEF ToAccount, Delta, MoveKinds, InKinds, OutKinds
<1>5. Applied(s, x) = t
  <2>1. done.pool = s.pool
    BY <1>1
  <2>2. Applied(s, x) = [done EXCEPT !.pool = pool, !.books[b].cash = @ - d]
    BY ApplyKinds DEF MoveKinds
  <2> HIDE DEF pool, d
  <2>3. [done EXCEPT !.pool = pool, !.books[b].cash = @ - d] = t
    BY <1>1 DEF State
  <2> QED BY <2>2, <2>3
<1>6. pool \in Pool /\ pool.checkpoint.free = snap.free /\ pool.checkpoint.price = snap.price
  <2>1. moved \in Pool
    BY <1>1, <1>2, <1>4, MovedTyped
  <2> QED BY <1>2, <2>1, CheckpointedTyped
<1> HIDE DEF pool
<1>7. u \in State /\ u.pool = pool /\ u.books = done.books /\ u.requests = done.requests /\ u.withdrawals = done.withdrawals
      /\ u.steps = done.steps
  BY <1>1, <1>6, PoolSet
<1>8. /\ k \in Book /\ k.cash = n.cash - d /\ k.pending = n.pending /\ k.credited = n.credited /\ SameJobs(n, k)
      /\ k.fees = n.fees /\ k.units = n.units
  <2>1. n.cash - d \in Int
    BY <1>2, <1>4 DEF Book
  <2> HIDE DEF n, d
  <2> QED BY <1>2, <2>1 DEF Book, SameJobs
<1> HIDE DEF k, u
<1>9. OnlyBook(u, t, b) /\ t.books[b] = k
  BY <1>2, <1>7, <1>8, BookSet
<1> HIDE DEF t
<1>10. /\ t \in State /\ t.steps = done.steps /\ t.requests = s.requests /\ t.withdrawals = s.withdrawals
       /\ t.pool = pool /\ t.books[b] = k /\ \A c \in Books \ {b} : t.books[c] = s.books[c]
  BY <1>1, <1>7, <1>9 DEF OnlyBook
<1>11. Held(t)[b] = Held(s)[b] + Delta(s, x)
  <2>1. Held(t)[b] = k.pending + k.cash + k.credited /\ Held(s)[b] = n.pending + n.cash + n.credited
    BY <1>2, <1>10 DEF Held
  <2>2. n.pending \in Int /\ n.cash \in Int /\ n.credited \in Int
    BY <1>2 DEF Book
  <2> HIDE DEF n, d
  <2> QED BY <1>4, <1>8, <2>1, <2>2
<1>12. Priced(t)
  BY <1>2, <1>3, <1>6, <1>10 DEF Priced, ReceiptOK, Snapshot
<1>13. AppliedTo(s, t, x)
  BY <1>1, <1>8, <1>10, <1>11, <1>12 DEF AppliedTo
<1>14. AppliedRest(s, t, x)
  BY <1>3, <1>8, <1>10 DEF AppliedRest
<1>15. AppliedPool(s, t, x)
  <2>1. t.pool = Checkpointed(Moved(s.pool, b, d), snap, b)
    BY <1>1, <1>10 DEF pool
  <2> QED BY <1>3, <2>1 DEF AppliedPool, MoveKinds
<1> QED BY <1>5, <1>13, <1>14, <1>15

\* A trade.
LEMMA AppliedTrade ==
    ASSUME NEW s \in State, NEW x \in StepIds, Kind(x) \in TradeKinds, NumbersOK(s), ReceiptOK(x), MayApply(s, x)
    PROVE  AppliedTo(s, Applied(s, x), x) /\ AppliedRest(s, Applied(s, x), x) /\ AppliedPool(s, Applied(s, x), x)
<1> DEFINE b == BookOf(x)
           p == s.steps[x]
           snap == receipt[x]
           done == Marked(s, x)
           seen == Checkpointed(done.pool, snap, b)
           own == OwnedAfter(p, snap)
           pool == [seen EXCEPT !.lots[b] = own]
           u == [done EXCEPT !.pool = pool]
           full == (snap.qty # p.before)
           q == [u.steps[x] EXCEPT !.filled = full]
           t == [u EXCEPT !.steps[x] = q]
<1>1. /\ done \in State /\ done.books = s.books /\ done.requests = s.requests /\ done.withdrawals = s.withdrawals
      /\ done.pool = s.pool /\ done.steps[x].st = "applied" /\ SameNumbers(s.steps[x], done.steps[x])
      /\ \A y \in StepIds \ {x} : done.steps[y] = s.steps[y]
  BY MarkedStep DEF OnlySteps
<1>2. b \in Books /\ s.pool \in Pool /\ s.books[b] \in Book /\ snap \in Snapshot /\ p \in Step
  BY StepParts DEF State, ReceiptOK
<1>3. Kind(x) \notin InKinds /\ Kind(x) \notin OutKinds /\ Kind(x) # "pay" /\ Kind(x) \in ReadingKinds /\ Kind(x) # "fee"
  BY DEF TradeKinds, ReadingKinds, InKinds, OutKinds
<1>4. own \in Nat
  <2>1. FillInRange(p.before, p.amount, snap.qty)
    BY ApplyKinds
  <2>2. p.owned <= p.before /\ p.owned + p.amount >= 0
    BY DEF NumbersOK
  <2>3. p.owned \in Nat /\ p.before \in Nat /\ p.amount \in Int /\ snap.qty \in Nat
    BY <1>2 DEF Step, Snapshot
  <2> HIDE DEF p, snap
  <2> QED BY <2>1, <2>2, <2>3 DEF FillInRange, OwnedAfter
<1>5. Applied(s, x) = t
  <2>1. Applied(s, x) = [done EXCEPT !.pool = pool, !.steps[x].filled = full]
    <3>1. Applied(s, x) = [Marked(s, x) EXCEPT
                              !.pool = [Checkpointed(@, receipt[x], BookOf(x)) EXCEPT
                                           !.lots[BookOf(x)] = OwnedAfter(s.steps[x], receipt[x])],
                              !.steps[x].filled = (receipt[x].qty # s.steps[x].before)]
      BY DEF Applied, TradeKinds
    <3> QED BY <3>1
  <2> HIDE DEF pool, full
  <2>2. [done EXCEPT !.pool = pool, !.steps[x].filled = full] = t
    BY <1>1 DEF State
  <2> QED BY <2>1, <2>2
<1>6. seen \in Pool /\ seen.checkpoint.free = snap.free /\ seen.checkpoint.price = snap.price
  BY <1>1, <1>2, CheckpointedTyped
<1>7. pool \in Pool /\ pool.checkpoint = seen.checkpoint
  <2> HIDE DEF seen, own
  <2> QED BY <1>2, <1>4, <1>6 DEF Pool
<1> HIDE DEF pool
<1>8. u \in State /\ u.pool = pool /\ u.books = done.books /\ u.requests = done.requests /\ u.withdrawals = done.withdrawals
      /\ u.steps = done.steps
  BY <1>1, <1>7, PoolSet
<1>9. q \in Step /\ q.st = "applied" /\ SameNumbers(p, q)
  <2> DEFINE old == done.steps[x]
  <2>1. q = [old EXCEPT !.filled = full] /\ old \in Step
    BY <1>1, <1>8 DEF State
  <2>2. full \in BOOLEAN
    OBVIOUS
  <2> HIDE DEF full, u, q
  <2>3. old.st = "applied" /\ SameNumbers(p, old)
    BY <1>1
  <2> HIDE DEF old, p
  <2> QED BY <2>1, <2>2, <2>3 DEF Step, SameNumbers
<1> HIDE DEF q, u
<1>10. OnlySteps(u, t) /\ t.steps[x] = q /\ \A y \in StepIds \ {x} : t.steps[y] = u.steps[y]
  BY <1>8, <1>9, StepSet
<1> HIDE DEF t
<1>11. /\ t \in State /\ t.requests = s.requests /\ t.withdrawals = s.withdrawals
       /\ t.pool = pool /\ t.books = s.books /\ t.steps[x] = q /\ \A y \in StepIds \ {x} : t.steps[y] = s.steps[y]
  BY <1>1, <1>8, <1>10 DEF OnlySteps
<1>12. Held(t)[b] = Held(s)[b] + Delta(s, x)
  <2>1. Held(t)[b] = Held(s)[b] /\ Delta(s, x) = 0
    BY <1>3, <1>11 DEF Held, Delta
  <2>2. Held(s)[b] \in Int
    BY <1>2, HeldTyped
  <2> QED BY <2>1, <2>2
<1>13. Priced(t)
  BY <1>2, <1>3, <1>6, <1>7, <1>11 DEF Priced, ReceiptOK, Snapshot
<1>14. SameJobs(s.books[b], t.books[b])
  BY <1>11 DEF SameJobs
<1>15. AppliedTo(s, t, x)
  BY <1>9, <1>11, <1>12, <1>13, <1>14 DEF AppliedTo
<1>16. AppliedRest(s, t, x)
  BY <1>3, <1>11 DEF AppliedRest
<1>17. AppliedPool(s, t, x)
  <2>1. seen = Checkpointed(s.pool, snap, b)
    BY <1>1
  <2>2. pool.equity = seen.equity /\ pool.checkpoint = seen.checkpoint
    <3> HIDE DEF seen, own
    <3> QED BY <1>6 DEF pool, Pool
  <2>3. t.pool = pool
    BY <1>11
  <2>4. Kind(x) \notin MoveKinds
    BY DEF MoveKinds, TradeKinds
  <2> HIDE DEF seen
  <2> QED BY <1>3, <2>1, <2>2, <2>3, <2>4 DEF AppliedPool
<1> QED BY <1>5, <1>15, <1>16, <1>17

\* A confirmed payout.
LEMMA AppliedPay ==
    ASSUME NEW s, NEW rec, NEW m, NEW v, FileOK(s, rec, m, v), NEW x \in StepIds, Kind(x) = "pay",
           rec[x] = "ok", s.steps[x].st = "saved", MayApply(s, x)
    PROVE  AppliedTo(s, Applied(s, x), x) /\ AppliedRest(s, Applied(s, x), x) /\ AppliedPool(s, Applied(s, x), x)
<1> DEFINE w == Job(x)
           amount == s.steps[x].amount
           b == BookOf(x)
           done == Marked(s, x)
           t == Burned(done, w, amount)
           u == Burned(s, w, amount)
<1>1. s \in State /\ PayOK(s, rec) /\ NumbersOK(s) /\ Priced(s)
  BY FilePriced DEF FileOK
<1>2. w \in Withdrawals /\ b = WithdrawalBook[w] /\ b \in Books
  BY StepParts
<1>3. Kind(x) \notin TradeKinds /\ Kind(x) \notin InKinds /\ Kind(x) \in OutKinds /\ Kind(x) # "fee"
  BY DEF TradeKinds, InKinds, OutKinds
<1>4. amount \in Nat
  BY <1>1, <1>3 DEF NumbersOK
<1>5. Payable(s, w)
  BY <1>1 DEF PayOK, Unsettled
<1>6. Applied(s, x) = t /\ Units[w] <= s.books[b].units
  BY ApplyKinds
<1>7. /\ done \in State /\ done.books = s.books /\ done.requests = s.requests /\ done.withdrawals = s.withdrawals
      /\ done.pool = s.pool /\ done.steps[x].st = "applied" /\ SameNumbers(s.steps[x], done.steps[x])
      /\ \A y \in StepIds \ {x} : done.steps[y] = s.steps[y]
  BY <1>1, MarkedStep DEF OnlySteps
<1>8. Paid(done, t, w, amount, 0)
  <2>1. Units[w] <= done.books[WithdrawalBook[w]].units
    BY <1>2, <1>6, <1>7
  <2> HIDE DEF done, w, amount
  <2> QED BY <1>2, <1>4, <1>7, <2>1, BurnedPays
<1>9. Paid(s, u, w, amount, 0)
  <2>1. Units[w] <= s.books[WithdrawalBook[w]].units
    BY <1>2, <1>6
  <2> HIDE DEF w, amount
  <2> QED BY <1>1, <1>2, <1>4, <2>1, BurnedPays
<1> HIDE DEF t, u
<1>10. SumFunctionOnSet(Units, OpenOf(u, b)) <= u.books[b].units
  <2>1. BookOK(u, WithdrawalBook[w])
    BY <1>2, <1>5, <1>9, PaidBook
  <2>2. BookOK(u, b)
    BY <1>2, <2>1
  <2> QED BY <2>2 DEF BookOK
<1>11. /\ t \in State /\ t.steps = done.steps /\ t.requests = s.requests /\ t.pool = s.pool
       /\ \A c \in Books \ {b} : t.books[c] = s.books[c]
       /\ \A y \in Withdrawals \ {w} : t.withdrawals[y] = s.withdrawals[y]
       /\ t.withdrawals[w].status = "PAID"
  BY <1>2, <1>7, <1>8 DEF Paid, OnlyJob
<1>12. LET n == s.books[b]
           k == t.books[b]
       IN  /\ k.units = n.units - Units[w] /\ k.cash = n.cash - amount /\ k.credited = n.credited + 0
           /\ k.settlement = n.settlement /\ k.riskTry = n.riskTry /\ k.feeTry = n.feeTry
           /\ k.feeAmount = n.feeAmount /\ k.fees = n.fees /\ k.pending = n.pending
  BY <1>2, <1>7, <1>8 DEF Paid
<1>13. SumFunctionOnSet(Units, OpenOf(t, b)) <= t.books[b].units
  <2>1. OpenOf(t, b) = OpenOf(u, b)
    <3>1. \A y \in Withdrawals : t.withdrawals[y].status = u.withdrawals[y].status
      BY <1>9, <1>11 DEF Paid
    <3> QED BY <3>1 DEF OpenOf
  <2>2. t.books[b].units = u.books[b].units
    BY <1>2, <1>9, <1>12 DEF Paid
  <2> QED BY <1>10, <2>1, <2>2
<1>14. Held(t)[b] = Held(s)[b] + Delta(s, x)
  <2> DEFINE n == s.books[b]
             k == t.books[b]
  <2>1. Held(t)[b] = k.pending + k.cash + k.credited /\ Held(s)[b] = n.pending + n.cash + n.credited
    BY <1>2 DEF Held
  <2>2. n.pending \in Int /\ n.cash \in Int /\ n.credited \in Int
    BY <1>1, <1>2 DEF State, Book
  <2>3. Delta(s, x) = -amount
    BY <1>3 DEF Delta
  <2>4. k.cash = n.cash - amount /\ k.credited = n.credited + 0 /\ k.pending = n.pending
    BY <1>12
  <2> HIDE DEF n, k, amount
  <2> QED BY <1>4, <2>1, <2>2, <2>3, <2>4
<1>15. SameJobs(s.books[b], t.books[b])
  BY <1>12 DEF SameJobs
<1>16. Priced(t)
  BY <1>1, <1>11 DEF Priced
<1>17. /\ t.steps[x].st = "applied" /\ SameNumbers(s.steps[x], t.steps[x])
       /\ \A y \in StepIds \ {x} : t.steps[y] = s.steps[y]
  BY <1>7, <1>11
<1>18. AppliedTo(s, t, x)
  BY <1>11, <1>14, <1>15, <1>16, <1>17 DEF AppliedTo
<1>19. AppliedRest(s, t, x)
  BY <1>3, <1>11, <1>12, <1>13 DEF AppliedRest
<1>20. AppliedPool(s, t, x)
  <2>1. t.pool = s.pool /\ Kind(x) \notin MoveKinds
    BY <1>11 DEF MoveKinds
  <2> QED BY <1>3, <2>1 DEF AppliedPool
<1> QED BY <1>6, <1>18, <1>19, <1>20

\* A confirmed fee payment.
LEMMA AppliedFee ==
    ASSUME NEW s, NEW rec, NEW m, NEW v, FileOK(s, rec, m, v), NEW x \in StepIds, Kind(x) = "fee",
           s.steps[x].st = "saved"
    PROVE  AppliedTo(s, Applied(s, x), x) /\ AppliedRest(s, Applied(s, x), x) /\ AppliedPool(s, Applied(s, x), x)
<1> DEFINE b == BookOf(x)
           n == s.books[b]
           amount == s.steps[x].amount
           done == Marked(s, x)
           k == [n EXCEPT !.cash = @ - amount, !.fees = @ - amount]
           t == [done EXCEPT !.books[b] = k]
<1>1. s \in State /\ FeeOK(s) /\ NumbersOK(s) /\ Priced(s)
  BY FilePriced DEF FileOK
<1>2. b = Job(x) /\ b \in Books /\ n \in Book
  BY <1>1, StepParts DEF State
<1>3. Kind(x) \notin TradeKinds /\ Kind(x) \notin InKinds /\ Kind(x) \in OutKinds /\ Kind(x) # "pay"
  BY DEF TradeKinds, InKinds, OutKinds
<1>4. amount \in Nat /\ amount <= n.fees
  BY <1>1, <1>2, <1>3 DEF NumbersOK, FeeOK
<1>5. /\ done \in State /\ done.books = s.books /\ done.requests = s.requests /\ done.withdrawals = s.withdrawals
      /\ done.pool = s.pool /\ done.steps[x].st = "applied" /\ SameNumbers(s.steps[x], done.steps[x])
      /\ \A y \in StepIds \ {x} : done.steps[y] = s.steps[y]
  BY <1>1, MarkedStep DEF OnlySteps
<1>6. Applied(s, x) = t
  BY ApplyKinds
<1>7. /\ k \in Book /\ k.cash = n.cash - amount /\ k.pending = n.pending /\ k.credited = n.credited /\ SameJobs(n, k)
      /\ k.units = n.units
  <2>1. n.cash - amount \in Int /\ n.fees - amount \in Nat
    BY <1>2, <1>4 DEF Book
  <2> HIDE DEF n, amount
  <2> QED BY <1>2, <2>1 DEF Book, SameJobs
<1> HIDE DEF k
<1>8. OnlyBook(done, t, b) /\ t.books[b] = k
  BY <1>2, <1>5, <1>7, BookSet
<1> HIDE DEF t
<1>9. /\ t \in State /\ t.steps = done.steps /\ t.requests = s.requests /\ t.withdrawals = s.withdrawals
      /\ t.pool = s.pool /\ t.books[b] = k /\ \A c \in Books \ {b} : t.books[c] = s.books[c]
  BY <1>5, <1>8 DEF OnlyBook
<1>10. Held(t)[b] = Held(s)[b] + Delta(s, x)
  <2>1. Held(t)[b] = k.pending + k.cash + k.credited /\ Held(s)[b] = n.pending + n.cash + n.credited
    BY <1>2, <1>9 DEF Held
  <2>2. n.pending \in Int /\ n.cash \in Int /\ n.credited \in Int
    BY <1>2 DEF Book
  <2>3. Delta(s, x) = -amount
    BY <1>3 DEF Delta
  <2> HIDE DEF n, amount
  <2> QED BY <1>4, <1>7, <2>1, <2>2, <2>3
<1>11. Priced(t)
  BY <1>1, <1>9 DEF Priced
<1>12. AppliedTo(s, t, x)
  BY <1>5, <1>7, <1>9, <1>10, <1>11 DEF AppliedTo
<1>13. AppliedRest(s, t, x)
  BY <1>3, <1>7, <1>9 DEF AppliedRest
<1>14. AppliedPool(s, t, x)
  <2>1. t.pool = s.pool /\ Kind(x) \notin MoveKinds
    BY <1>9 DEF MoveKinds
  <2> QED BY <1>3, <2>1 DEF AppliedPool
<1> QED BY <1>6, <1>12, <1>13, <1>14

\* A confirmed step can be applied to the file that is kept.
LEMMA ApplyFile ==
    ASSUME IInv, NEW x \in StepIds, record[x] = "ok", saved.steps[x].st = "saved", MayApply(saved, x)
    PROVE  /\ AppliedTo(saved, Applied(saved, x), x) /\ AppliedPool(saved, Applied(saved, x), x)
           /\ FileOK(Applied(saved, x), record, mined, vault)
           /\ \A y \in StepIds : Unsettled(Applied(saved, x), record, y) <=> y # x /\ Unsettled(saved, record, y)
<1>1. /\ FileOK(saved, record, mined, vault) /\ saved \in State /\ NumbersOK(saved) /\ vault \in Int
      /\ mined[x] = "ok"
  BY DEF IInv, FileOK, ChainOK, RecordsOK, Outcomes
<1>2. ReceiptOK(x)
  BY <1>1 DEF IInv, ChainOK, ReceiptOK
<1> DEFINE t == Applied(saved, x)
<1>3. AppliedTo(saved, t, x) /\ AppliedRest(saved, t, x) /\ AppliedPool(saved, t, x)
  <2>1. CASE Kind(x) \in MoveKinds
    BY <1>1, <1>2, <2>1, AppliedMove
  <2>2. CASE Kind(x) \in TradeKinds
    BY <1>1, <1>2, <2>2, AppliedTrade
  <2>3. CASE Kind(x) = "pay"
    BY <1>1, <2>3, AppliedPay
  <2>4. CASE Kind(x) = "fee"
    BY <1>1, <2>4, AppliedFee
  <2>5. Kind(x) \in MoveKinds \cup TradeKinds \cup {"pay", "fee"}
    <3>1. Kind(x) \in RequestKinds \cup {"risk", "close", "collect", "fee", "pay"}
      BY StepParts
    <3> QED BY <3>1 DEF RequestKinds, MoveKinds, TradeKinds
  <2> QED BY <2>1, <2>2, <2>3, <2>4, <2>5
<1> HIDE DEF t
<1>4. FileOK(t, record, mined, vault)
  BY <1>1, <1>3, AppliedFile
<1>5. \A y \in StepIds : Unsettled(t, record, y) <=> y # x /\ Unsettled(saved, record, y)
  BY <1>1, <1>3, AppliedCore
<1> QED BY <1>3, <1>4, <1>5 DEF t

\* An applied step no longer needs its receipt.
LEMMA AppliedChain ==
    ASSUME IInv, NEW x \in StepIds, receipt' = [receipt EXCEPT ![x] = NoSnapshot],
           UNCHANGED <<record, mined, vault, account>>, saved'.steps[x].st = "applied",
           \A y \in StepIds \ {x} : saved'.steps[y] = saved.steps[y]
    PROVE  ChainOK'
<1>1. ChainOK /\ NoSnapshot \in Snapshot /\ NoSnapshot.free >= 0
  BY DEF IInv, NoSnapshot, Snapshot
<1>2. /\ receipt' \in [StepIds -> Snapshot] /\ receipt'[x] = NoSnapshot
      /\ \A y \in StepIds \ {x} : receipt'[y] = receipt[y]
  BY <1>1 DEF ChainOK
<1>3. ASSUME NEW y \in StepIds
      PROVE  /\ receipt'[y].free >= 0
             /\ Kind(y) \in ReadingKinds /\ mined'[y] = "ok" /\ saved'.steps[y].st # "applied" => receipt'[y].price > 0
  BY <1>1, <1>2 DEF ChainOK
<1>4. StepsTypeOK' /\ vault' \in Nat /\ account' \in Snapshot /\ account'.free >= 0 /\ account'.price > 0
  BY <1>1 DEF ChainOK, StepsTypeOK
<1> QED BY <1>2, <1>3, <1>4 DEF ChainOK

\* What the control needs of the new file.
LEMMA AppliedReached ==
    ASSUME NEW s, NEW t, NEW x, NEW bk, bk = BookOf(x), AppliedTo(s, t, x), NEW l, Reached(s, l, bk)
    PROVE  Reached(t, l, bk)
<1>1. t.requests = s.requests /\ t.books[bk].settlement = s.books[bk].settlement
  BY DEF AppliedTo, SameJobs
<1>2. OpenRequests(t, bk) = OpenRequests(s, bk)
  BY <1>1 DEF OpenRequests
<1> QED BY <1>1, <1>2 DEF Reached

\* applyEffect() and its mark keep the invariant.
LEMMA ApplyStepKeeps ==
    ASSUME IInv, ApplyStep
    PROVE  IInv'
<1>1. /\ pc = "apply" /\ pc \in Calls /\ pc \in Inside \cup Calls /\ OthersOK'
      /\ UNCHANGED <<record, mined, vault, account, timeVars, trouble>>
  BY Holding, SameOthers DEF ApplyStep, Calls
<1>2. /\ cur \in StepIds /\ book \in Books /\ BookOf(cur) = book /\ saved.steps[cur].st = "saved"
      /\ Current(saved, cur) /\ Ground(record, todo, book) /\ record[cur] = "ok"
      /\ Reached(saved, After[Kind(cur)], book)
  BY <1>1, CallFacts
<1>3. CASE ~MayApply(saved, cur)
  <2>1. Throw(saved, "other") /\ receipt' = receipt
    BY <1>3 DEF ApplyStep
  <2>2. UNCHANGED chainVars
    BY <1>1, <2>1 DEF chainVars
  <2>3. FileOK(saved, record, mined, vault)
    BY DEF IInv
  <2> QED BY <1>1, <2>1, <2>2, <2>3, ThrowStep
<1>4. CASE MayApply(saved, cur)
  <2> DEFINE t == Applied(saved, cur)
             l == After[Kind(cur)]
             x == cur
  <2>1. saved' = t /\ pc' = l /\ todo' = todo /\ book' = book /\ cur' = cur /\ receipt' = [receipt EXCEPT ![x] = NoSnapshot]
    BY <1>4 DEF ApplyStep
  <2>2. /\ AppliedTo(saved, t, x) /\ FileOK(t, record, mined, vault)
        /\ \A y \in StepIds : Unsettled(t, record, y) <=> y # x /\ Unsettled(saved, record, y)
    BY <1>2, <1>4, ApplyFile
  <2> HIDE DEF t
  <2>3. ChainOK'
    <3>1. t.steps[x].st = "applied" /\ \A y \in StepIds \ {x} : t.steps[y] = saved.steps[y]
      BY <2>2 DEF AppliedTo
    <3> QED BY <1>1, <1>2, <2>1, <3>1, AppliedChain
  <2>4. l \in Inside /\ (l \in RequestLocations <=> Kind(x) \in RequestKinds) /\ (l = "feePaid" => Kind(x) = "fee")
    <3>1. Kind(x) \in RequestKinds \cup {"risk", "close", "collect", "fee", "pay"}
      BY <1>2, StepParts
    <3> QED BY <1>2, <3>1, AfterKinds, Insides DEF RequestKinds, RequestLocations
  <2>5. Clear(t, record, book, l \in RequestLocations)
    <3>1. SectionOK(saved, record, pc, todo, book, cur)
      BY DEF IInv, ControlOK
    <3>2. \A y \in StepIds : BookOf(y) = book /\ Unsettled(saved, record, y) =>
              y = cur \/ (Kind(y) \in RequestKinds /\ ~Serves(pc, cur))
      BY <1>1, <3>1 DEF SectionOK, Outside
    <3>3. Serves(pc, cur) <=> Kind(cur) \in RequestKinds
      BY <1>1 DEF Serves
    <3> HIDE DEF l
    <3> QED BY <2>2, <2>4, <3>2, <3>3 DEF Clear
  <2>6. Reached(t, l, book)
    BY <1>2, <2>2, AppliedReached
  <2>7. FeeBooked(t, l, book)
    <3>1. ASSUME l = "feePaid"
          PROVE  t.books[book].feeTry \in 1 .. Tries /\ t.steps[<<"fee", book, t.books[book].feeTry>>].st = "applied"
      <4>1. Kind(x) = "fee"
        BY <2>4, <3>1
      <4>2. Attempt(x) = saved.books[book].feeTry /\ Job(x) = book /\ Attempt(x) \in 1 .. Tries
        BY <1>2, <4>1, CurrentKinds, StepParts
      <4>3. t.books[book].feeTry = Attempt(x) /\ t.steps[x].st = "applied"
        BY <1>2, <2>2, <4>2 DEF AppliedTo, SameJobs
      <4> DEFINE z == <<"fee", book, Attempt(x)>>
      <4>4. z \in StepIds /\ Kind(z) = "fee" /\ Job(z) = book /\ Attempt(z) = Attempt(x)
        BY <1>2, <4>2, BookStep
      <4> HIDE DEF z
      <4>5. z = x
        BY <1>2, <4>1, <4>2, <4>4, StepSame
      <4> QED BY <4>2, <4>3, <4>5 DEF z
    <3> QED BY <3>1 DEF FeeBooked
  <2>8. ControlOK(t, record, l, todo, book, x)
    <3> HIDE DEF l, x
    <3>1. x \in StepIds \cup {NoStep}
      BY <1>2 DEF x
    <3> QED BY <1>2, <2>4, <2>5, <2>6, <2>7, <3>1, GoesOn
  <2> HIDE DEF l
  <2> QED BY <1>1, <2>1, <2>2, <2>3, <2>8 DEF IInv
<1> QED BY <1>3, <1>4

\* Noting a request's fill keeps what matters.
LEMMA FilledRequest ==
    ASSUME NEW s \in State, Priced(s), NEW r \in Requests
    PROVE  LET t == [s EXCEPT !.requests[r].fill = TRUE] IN Kept(s, t)
<1> DEFINE old == s.requests[r]
           q == [old EXCEPT !.fill = TRUE]
           t == [s EXCEPT !.requests[r] = q]
<1>1. old \in Request
  BY DEF State
<1>2. q \in Request /\ q.status = old.status /\ q.plan = old.plan
  <2> HIDE DEF old
  <2> QED BY <1>1 DEF Request
<1> HIDE DEF q
<1>3. OnlyRequest(s, t, r) /\ t.requests[r] = q
  BY <1>2 DEF OnlyRequest, State
<1>4. Kept(s, t)
  <2> HIDE DEF t
  <2> QED BY <1>2, <1>3, RequestAlike
<1>5. [s EXCEPT !.requests[r].fill = TRUE] = t
  BY DEF q, State
<1> QED BY <1>4, <1>5

\* The recovery of a confirmed step keeps the invariant.
LEMMA RecoverKeeps ==
    ASSUME IInv, NEW x \in StepIds, Recover(x)
    PROVE  IInv'
<1>1. /\ pc = "recover" /\ OthersOK' /\ UNCHANGED <<record, mined, vault, account, timeVars, trouble>>
      /\ record[x] = "ok" /\ saved.steps[x].st = "saved" /\ BookOf(x) = book
  BY Holding, SameOthers DEF Recover, NextToRecover, Recoverable, submitterVars
<1>2. CASE ~MayApply(saved, x)
  <2>1. EndTick /\ UNCHANGED <<chainVars, saved>>
    BY <1>1, <1>2 DEF Recover, chainVars
  <2> QED BY <1>1, <2>1, EndTickStep
<1>3. CASE MayApply(saved, x)
  <2> DEFINE t == Applied(saved, x)
  <2>1. /\ AppliedTo(saved, t, x) /\ FileOK(t, record, mined, vault)
    BY <1>1, <1>3, ApplyFile
  <2>2. /\ saved' = IF Kind(x) \in TradeKinds \cap RequestKinds /\ t.steps[x].filled
                    THEN [t EXCEPT !.requests[Job(x)].fill = TRUE] ELSE t
        /\ receipt' = [receipt EXCEPT ![x] = NoSnapshot] /\ UNCHANGED tickVars
    BY <1>3 DEF Recover
  <2> HIDE DEF t
  <2>3. t \in State /\ Priced(t)
    BY <2>1, FilePriced
  <2>4. Kept(t, saved')
    <3>1. CASE Kind(x) \in TradeKinds \cap RequestKinds /\ t.steps[x].filled
      <4>1. Job(x) \in Requests
        BY <3>1, StepParts
      <4> QED BY <2>2, <2>3, <3>1, <4>1, FilledRequest
    <3>2. CASE ~(Kind(x) \in TradeKinds \cap RequestKinds /\ t.steps[x].filled)
      BY <2>2, <2>3, <3>2, AlikeItself DEF Kept
    <3> QED BY <3>1, <3>2
  <2>5. FileOK(saved', record, mined, vault) /\ saved'.steps = t.steps
    <3> DEFINE u == saved'
    <3>1. Kept(t, u)
      BY <2>4
    <3> HIDE DEF u
    <3>2. FileOK(u, record, mined, vault) /\ u.steps = t.steps
      BY <2>1, <3>1, FileKept DEF Kept, Alike
    <3> QED BY <3>2 DEF u
  <2>6. ChainOK'
    <3>1. t.steps[x].st = "applied" /\ \A y \in StepIds \ {x} : t.steps[y] = saved.steps[y]
      BY <2>1 DEF AppliedTo
    <3> QED BY <1>1, <2>2, <2>5, <3>1, AppliedChain
  <2>7. ControlOK(saved', record, pc, todo, book, cur)
    <3>1. LocationOK(pc, todo, book, cur) /\ SectionOK(saved, record, pc, todo, book, cur)
      BY DEF IInv, ControlOK
    <3>2. SectionOK(saved', record, pc, todo, book, cur)
      BY <1>1, <3>1 DEF SectionOK
    <3>3. /\ CallOK(saved', record, pc, book, cur) /\ Reached(saved', Phase(pc, cur), book)
          /\ FeeBooked(saved', pc, book)
      BY <1>1 DEF CallOK, Calls, Reached, Phase, FeeBooked, RequestLocations
    <3> QED BY <3>1, <3>2, <3>3 DEF ControlOK
  <2> QED BY <1>1, <2>2, <2>5, <2>6, <2>7 DEF IInv, tickVars
<1> QED BY <1>2, <1>3

\* A recovery that cannot read keeps the invariant: the tick ends.
LEMMA RecoverFailsKeeps ==
    ASSUME IInv, RecoverFails
    PROVE  IInv'
<1>1. May("rpc") /\ Happens("rpc") /\ UNCHANGED timeVars /\ UNCHANGED <<chainVars, saved>> /\ EndTick
  BY DEF RecoverFails
<1>2. "rpc" \in TroubleKinds
  BY DEF TroubleKinds
<1> QED BY <1>1, <1>2, Troubled, EndTickStep

\* After the recovery nothing confirmed of the strategy is left unapplied.
LEMMA RecoveredKeeps ==
    ASSUME IInv, Recovered
    PROVE  IInv'
<1>1. /\ pc = "recover" /\ pc \notin Outside /\ OthersOK' /\ UNCHANGED chainVars /\ saved' = saved /\ Recoverable = {}
      /\ pc' = "orders" /\ cur' = NoStep /\ todo' = todo /\ book' = book
  BY Holding, SameOthers DEF Recovered, Goto, tickUnchanged, submitterVars, chainVars, Outside
<1>2. Ground(record, todo, book)
  BY <1>1, InSection
<1>3. /\ FileOK(saved, record, mined, vault) /\ RecordsOK(saved, record, mined) /\ ForgottenOK(saved, record)
      /\ saved \in State
  BY DEF IInv, FileOK
<1>4. Clear(saved, record, book, TRUE)
  <2>1. ASSUME NEW x \in StepIds, BookOf(x) = book, Unsettled(saved, record, x) PROVE FALSE
    <3>1. record[x] # "signed"
      BY <1>1, <2>1 DEF IInv, ControlOK, SectionOK
    <3>2. record[x] = "ok" /\ saved.steps[x].st # "applied"
      BY <2>1, <3>1 DEF Unsettled
    <3>3. saved.steps[x].st = "saved"
      <4>1. saved.steps[x].st # "none"
        BY <1>3, <3>2 DEF RecordsOK
      <4>2. saved.steps[x].st \in {"none", "saved", "applied"}
        BY <1>3 DEF State, Step
      <4> QED BY <3>2, <4>1, <4>2
    <3>4. Current(saved, x)
      BY <1>3, <3>2, <3>3 DEF ForgottenOK
    <3> QED BY <1>1, <2>1, <3>2, <3>3, <3>4 DEF Recoverable
  <2> QED BY <2>1 DEF Clear
<1>5. "orders" \in Inside /\ "orders" \in RequestLocations
  BY Insides DEF RequestLocations
<1>6. Reached(saved, "orders", book) /\ FeeBooked(saved, "orders", book)
  BY NothingReached
<1>7. ControlOK(saved, record, "orders", todo, book, NoStep)
  <2>1. Clear(saved, record, book, "orders" \in RequestLocations)
    BY <1>4, <1>5 DEF Clear
  <2> QED BY <1>2, <1>5, <1>6, <2>1, GoesOn
<1> QED BY <1>1, <1>3, <1>7, StateStep

\* Between sections no transaction of a coming strategy is in flight.
LEMMA OutsideControl ==
    ASSUME NEW s, NEW rec, NEW l \in {"sync", "ready"}, NEW td \in Seq(Books), NEW c \in StepIds \cup {NoStep},
           l = "sync" => td = <<>>, l = "ready" => td # <<>>, IsInjective(td),
           \A x \in StepIds : rec[x] = "signed" => BookOf(x) \notin Coming(td)
    PROVE  ControlOK(s, rec, l, td, NoBook, c)
<1>1. LocationOK(l, td, NoBook, c)
  BY DEF LocationOK, Locations, Outside, Calls
<1>2. SectionOK(s, rec, l, td, NoBook, c)
  BY DEF SectionOK, Outside
<1>3. CallOK(s, rec, l, NoBook, c) /\ Reached(s, Phase(l, c), NoBook) /\ FeeBooked(s, l, NoBook)
  BY DEF CallOK, Calls, Reached, Phase, FeeBooked, RequestLocations
<1> QED BY <1>1, <1>2, <1>3 DEF ControlOK

\* The invariant says where the tick is.
LEMMA Located == ASSUME IInv PROVE LocationOK(pc, todo, book, cur) /\ SectionOK(saved, record, pc, todo, book, cur)
BY DEF IInv, ControlOK

\* A tick that begins keeps the invariant.
LEMMA TickBeginKeeps ==
    ASSUME IInv, TickBegin
    PROVE  IInv'
<1>1. /\ pc = "idle" /\ pc' = "sync" /\ cur' = NoStep /\ todo' = todo /\ book' = book /\ saved' = saved
      /\ UNCHANGED chainVars /\ OthersOK'
  BY Holding, SameOthers DEF TickBegin, Goto, tickUnchanged, submitterVars, chainVars
<1>2. todo = <<>> /\ book = NoBook
  BY <1>1, Located DEF LocationOK, Outside
<1>3. ControlOK(saved, record, "sync", <<>>, NoBook, NoStep)
  BY ComesEmpty, OutsideControl
<1>4. FileOK(saved, record, mined, vault)
  BY DEF IInv
<1> QED BY <1>1, <1>2, <1>3, <1>4, StateStep

\* Resolving transactions before the sections keeps the invariant.
LEMMA TickSyncKeeps ==
    ASSUME IInv, NEW x \in StepIds, TickSync(x)
    PROVE  IInv'
<1>1. /\ pc = "sync" /\ Learn(x) /\ saved' = saved /\ UNCHANGED <<receipt, vault, account>> /\ OthersOK'
  BY Holding, SameOthers DEF TickSync, tickUnchanged
<1>2. /\ Recorded(record') /\ FileOK(saved, record', mined, vault) /\ mined' = mined
  BY <1>1, LearnFacts
<1>3. CASE mined[x] = "ok"
  <2>1. pc' = pc /\ todo' = todo /\ book' = book /\ cur' = cur
    BY <1>3 DEF TickSync, tickVars
  <2>2. todo = <<>> /\ book = NoBook /\ cur \in StepIds \cup {NoStep}
    BY <1>1, Located DEF LocationOK, Outside
  <2> DEFINE new == record'
  <2>3. ControlOK(saved, new, "sync", <<>>, NoBook, cur)
    <3> HIDE DEF new
    <3> QED BY <2>2, ComesEmpty, OutsideControl
  <2> QED BY <1>1, <1>2, <2>1, <2>2, <2>3, RecordStep
<1>4. CASE mined[x] # "ok"
  <2>1. pc' = "idle" /\ todo' = <<>> /\ book' = NoBook /\ cur' = NoStep
    BY <1>4 DEF TickSync, EndTick
  <2> DEFINE new == record'
  <2>2. ControlOK(saved, new, "idle", <<>>, NoBook, NoStep)
    BY TickEnds
  <2> QED BY <1>1, <1>2, <2>1, <2>2, RecordStep
<1> QED BY <1>3, <1>4

\* A tick that cannot resolve them keeps the invariant: it ends.
LEMMA TickSyncThrowsKeeps ==
    ASSUME IInv, TickSyncThrows
    PROVE  IInv'
<1>1. EndTick /\ UNCHANGED <<chainVars, saved>> /\ UNCHANGED timeVars
  BY DEF TickSyncThrows
<1>2. OthersOK'
  <2>1. CASE UNCHANGED trouble
    BY <1>1, <2>1, Holding, SameOthers
  <2>2. CASE May("rpc") /\ Happens("rpc")
    BY <1>1, <2>2, Troubled DEF TroubleKinds
  <2> QED BY <2>1, <2>2 DEF TickSyncThrows
<1> QED BY <1>1, <1>2, EndTickStep

\* The sections begin only when nothing is in flight.
LEMMA TickSyncedKeeps ==
    ASSUME IInv, TickSynced
    PROVE  IInv'
<1>1. /\ pc = "sync" /\ InFlight = {} /\ pc' = (IF BookOrder = <<>> THEN "idle" ELSE "ready") /\ todo' = BookOrder
      /\ book' = book /\ cur' = cur /\ saved' = saved /\ UNCHANGED chainVars /\ OthersOK'
  BY Holding, SameOthers DEF TickSynced, tickUnchanged, submitterVars, chainVars
<1>2. book = NoBook /\ cur \in StepIds \cup {NoStep}
  BY <1>1, Located DEF LocationOK, Outside
<1>3. \A x \in StepIds : record[x] # "signed"
  BY <1>1 DEF InFlight
<1>4. FileOK(saved, record, mined, vault)
  BY DEF IInv
<1>5. CASE BookOrder # <<>>
  <2>1. ControlOK(saved, record, "ready", BookOrder, NoBook, cur)
    BY <1>2, <1>3, <1>5, BoundsAssumption, OutsideControl
  <2> QED BY <1>1, <1>2, <1>4, <1>5, <2>1, StateStep
<1>6. CASE BookOrder = <<>>
  <2>1. LocationOK("idle", <<>>, NoBook, cur)
    BY <1>2, ComesEmpty DEF LocationOK, Locations, Outside, Calls
  <2>2. SectionOK(saved, record, "idle", <<>>, NoBook, cur)
    BY <1>3, ComesEmpty DEF SectionOK, Outside
  <2>3. /\ CallOK(saved, record, "idle", NoBook, cur) /\ Reached(saved, Phase("idle", cur), NoBook)
        /\ FeeBooked(saved, "idle", NoBook)
    BY DEF CallOK, Calls, Reached, Phase, FeeBooked, RequestLocations
  <2>4. ControlOK(saved, record, "idle", <<>>, NoBook, cur)
    BY <2>1, <2>2, <2>3 DEF ControlOK
  <2> QED BY <1>1, <1>2, <1>4, <1>6, <2>4, StateStep
<1> QED BY <1>5, <1>6

\* The next strategy is not among those that follow.
LEMMA HeadAndTail ==
    ASSUME NEW td \in Seq(Books), td # <<>>, IsInjective(td)
    PROVE  /\ Tail(td) \in Seq(Books) /\ IsInjective(Tail(td)) /\ Head(td) \in Books
           /\ Head(td) \notin Coming(Tail(td)) /\ Head(td) \in Coming(td) /\ Coming(Tail(td)) \subseteq Coming(td)
<1> DEFINE rest == Tail(td)
<1>1. rest \in Seq(Books) /\ Len(rest) = Len(td) - 1 /\ Len(td) \in Nat /\ Len(td) > 0
      /\ \A i \in 1 .. Len(rest) : rest[i] = td[i + 1]
  OBVIOUS
<1>2. DOMAIN td = 1 .. Len(td) /\ DOMAIN rest = 1 .. Len(rest) /\ Head(td) = td[1] /\ td[1] \in Books
  OBVIOUS
<1>3. \A i, j \in 1 .. Len(td) : td[i] = td[j] => i = j
  BY <1>2 DEF IsInjective
<1> HIDE DEF rest
<1>4. IsInjective(rest)
  <2>1. ASSUME NEW i \in 1 .. Len(rest), NEW j \in 1 .. Len(rest), rest[i] = rest[j] PROVE i = j
    <3>1. i + 1 \in 1 .. Len(td) /\ j + 1 \in 1 .. Len(td) /\ td[i + 1] = td[j + 1]
      BY <1>1, <2>1
    <3>2. i + 1 = j + 1
      BY <1>3, <3>1
    <3> QED BY <2>1, <3>2
  <2> QED BY <1>2, <2>1 DEF IsInjective
<1>5. td[1] \notin Coming(rest)
  <2>1. ASSUME NEW i \in 1 .. Len(rest), rest[i] = td[1] PROVE FALSE
    <3>1. i + 1 \in 1 .. Len(td) /\ 1 \in 1 .. Len(td) /\ td[i + 1] = td[1]
      BY <1>1, <2>1
    <3>2. i + 1 = 1
      BY <1>3, <3>1
    <3> QED BY <2>1, <3>2
  <2> QED BY <1>2, <2>1 DEF Coming
<1>6. td[1] \in Coming(td)
  BY <1>1, <1>2 DEF Coming
<1>7. Coming(rest) \subseteq Coming(td)
  <2>1. ASSUME NEW i \in 1 .. Len(rest) PROVE rest[i] \in Coming(td)
    <3>1. i + 1 \in 1 .. Len(td) /\ rest[i] = td[i + 1]
      BY <1>1, <2>1
    <3> QED BY <1>2, <3>1 DEF Coming
  <2> QED BY <1>2, <2>1 DEF Coming
<1> QED BY <1>1, <1>2, <1>4, <1>5, <1>6, <1>7 DEF rest

\* The next section keeps the invariant.
LEMMA OpenSectionKeeps ==
    ASSUME IInv, OpenSection
    PROVE  IInv'
<1>1. /\ pc = "ready" /\ pc' = "recover" /\ todo' = Tail(todo) /\ book' = Head(todo) /\ cur' = NoStep /\ saved' = saved
      /\ UNCHANGED chainVars /\ OthersOK'
  BY Holding, SameOthers DEF OpenSection, tickUnchanged, submitterVars, chainVars
<1>2. /\ todo \in Seq(Books) /\ todo # <<>> /\ IsInjective(todo)
      /\ \A x \in StepIds : record[x] = "signed" => BookOf(x) \notin Coming(todo)
  BY <1>1, Located DEF LocationOK, SectionOK
<1> DEFINE td == Tail(todo)
           b == Head(todo)
<1>3. /\ td \in Seq(Books) /\ IsInjective(td) /\ b \in Books /\ b \notin Coming(td) /\ b \in Coming(todo)
      /\ Coming(td) \subseteq Coming(todo)
  BY <1>2, HeadAndTail
<1> HIDE DEF td, b
<1>4. LocationOK("recover", td, b, NoStep)
  BY <1>3 DEF LocationOK, Locations, Outside, Calls
<1>5. SectionOK(saved, record, "recover", td, b, NoStep)
  BY <1>2, <1>3 DEF SectionOK, Outside
<1>6. /\ CallOK(saved, record, "recover", b, NoStep) /\ Reached(saved, Phase("recover", NoStep), b)
      /\ FeeBooked(saved, "recover", b)
  BY DEF CallOK, Calls, Reached, Phase, FeeBooked, RequestLocations
<1>7. ControlOK(saved, record, "recover", td, b, NoStep)
  BY <1>4, <1>5, <1>6 DEF ControlOK
<1>8. FileOK(saved, record, mined, vault)
  BY DEF IInv
<1> QED BY <1>1, <1>7, <1>8, StateStep DEF td, b

\* A failed read keeps the invariant.
LEMMA ReadFailsKeeps ==
    ASSUME IInv, ReadFails
    PROVE  IInv'
<1>1. /\ May("rpc") /\ Happens("rpc") /\ UNCHANGED timeVars /\ UNCHANGED chainVars /\ Throw(WithFill(saved), "other")
      /\ pc \in Inside
  BY Insides DEF ReadFails
<1>2. OthersOK'
  BY <1>1, Troubled DEF TroubleKinds
<1>3. FileOK(WithFill(saved), record, mined, vault) /\ WithFill(saved).steps = saved.steps
  BY FilledKept, KeptStep
<1> QED BY <1>1, <1>2, <1>3, ThrowStep

\* A crash keeps the invariant: what is saved needs nothing from memory.
LEMMA CrashKeeps ==
    ASSUME IInv, Crash
    PROVE  IInv'
<1>1. May("crash") /\ Happens("crash") /\ UNCHANGED timeVars /\ UNCHANGED <<chainVars, saved>> /\ EndTick
  BY DEF Crash
<1>2. "crash" \in TroubleKinds
  BY DEF TroubleKinds
<1> QED BY <1>1, <1>2, Troubled, EndTickStep

\* What is late is a request, a risk exit or a settlement.
Lates == [requests : SUBSET Requests, risk : SUBSET Books, settle : SUBSET Books]
LEMMA DeadlineTyped ==
    ASSUME late \in Lates,
           \/ \E r \in Requests : RequestDeadline(r)
           \/ \E b \in Books : RiskDeadline(b) \/ SettlementDeadline(b)
    PROVE  late' \in Lates
<1>1. CASE \E r \in Requests : late' = [late EXCEPT !.requests = @ \cup {r}]
  BY <1>1 DEF Lates
<1>2. CASE \E b \in Books : late' = [late EXCEPT !.risk = @ \cup {b}]
  BY <1>2 DEF Lates
<1>3. CASE \E b \in Books : late' = [late EXCEPT !.settle = @ \cup {b}]
  BY <1>3 DEF Lates
<1> QED BY <1>1, <1>2, <1>3 DEF RequestDeadline, RiskDeadline, SettlementDeadline

\* A deadline that passes keeps the invariant.
LEMMA ExpireKeeps ==
    ASSUME IInv, Expire
    PROVE  IInv'
<1>1. /\ May("late") /\ Happens("late") /\ UNCHANGED <<chainVars, saved, tickVars>> /\ matured' = matured
      /\ cutoffs' = cutoffs /\ OthersOK
  BY Holding DEF Expire
<1>2. "late" \in TroubleKinds
  BY DEF TroubleKinds
<1>3. trouble' \in [TroubleKinds -> Nat] /\ \A j \in TroubleKinds : trouble'[j] <= Limits[j]
  BY <1>1, <1>2, CountUp DEF OthersOK, May, Happens
<1>4. late' \in Lates
  BY <1>1, DeadlineTyped DEF OthersOK, Lates, Expire
<1>5. OthersOK'
  BY <1>1, <1>3, <1>4 DEF OthersOK, Lates
<1> QED BY <1>1, <1>5, TickStays

\* So does the deadline of a job that can do nothing else.
LEMMA OverdueKeeps ==
    ASSUME IInv, Overdue
    PROVE  IInv'
<1>1. /\ UNCHANGED <<chainVars, saved, tickVars>> /\ matured' = matured /\ cutoffs' = cutoffs
      /\ trouble' = trouble /\ OthersOK
  BY Holding DEF Overdue
<1>2. late' \in Lates
  BY <1>1, DeadlineTyped DEF OthersOK, Lates, Overdue
<1>3. OthersOK'
  BY <1>1, <1>2 DEF OthersOK, Lates
<1> QED BY <1>1, <1>3, TickStays

--------------------------------------------------------------------------------
(* The chain. *)

\* A step that is mined joins the unapplied ones.
LEMMA UnappliedGains ==
    ASSUME NEW s \in State, NEW m, NEW n, NEW x \in StepIds, m[x] # "ok", n[x] = "ok", s.steps[x].st # "applied",
           \A y \in StepIds \ {x} : n[y] = m[y], NEW kinds, IsFiniteSet(UnappliedOf(s, m, kinds))
    PROVE  /\ IsFiniteSet(UnappliedOf(s, n, kinds))
           /\ SumFunctionOnSet(Amounts(s), UnappliedOf(s, m, kinds)) \in Int
           /\ SumFunctionOnSet(Amounts(s), UnappliedOf(s, n, kinds))
                = SumFunctionOnSet(Amounts(s), UnappliedOf(s, m, kinds))
                    + IF Kind(x) \in kinds THEN s.steps[x].amount ELSE 0
<1> DEFINE old == UnappliedOf(s, m, kinds)
           new == UnappliedOf(s, n, kinds)
<1>1. new = IF Kind(x) \in kinds THEN old \cup {x} ELSE old
  BY DEF UnappliedOf
<1>2. x \notin old /\ old \in SUBSET StepIds /\ IsFiniteSet(old)
  BY DEF UnappliedOf
<1>3. \A y \in StepIds : Amounts(s)[y] \in Int /\ Amounts(s)[y] = s.steps[y].amount
  BY DEF Amounts, State, Step
<1> HIDE DEF old, new
<1>4. SumFunctionOnSet(Amounts(s), old) \in Int
  <2>1. \A y \in old : Amounts(s)[y] \in Int
    BY <1>2, <1>3
  <2> QED BY <1>2, <2>1, SumInt
<1>5. CASE Kind(x) \in kinds
  <2>1. new = old \cup {x} /\ IsFiniteSet(new)
    BY <1>1, <1>2, <1>5, FS_AddElement
  <2>2. \A y \in new : Amounts(s)[y] \in Int
    BY <1>2, <1>3, <2>1
  <2>3. x \in new /\ new \ {x} = old
    BY <1>2, <2>1
  <2>4. SumFunctionOnSet(Amounts(s), new) = Amounts(s)[x] + SumFunctionOnSet(Amounts(s), old)
    BY <2>1, <2>2, <2>3, SumTake
  <2>5. Amounts(s)[x] = s.steps[x].amount /\ Amounts(s)[x] \in Int
    BY <1>3
  <2>6. SumFunctionOnSet(Amounts(s), new) = SumFunctionOnSet(Amounts(s), old) + s.steps[x].amount
    BY <1>4, <2>4, <2>5
  <2> QED BY <1>4, <1>5, <2>1, <2>6 DEF old, new
<1>6. CASE Kind(x) \notin kinds
  <2>1. new = old
    BY <1>1, <1>6
  <2>2. SumFunctionOnSet(Amounts(s), new) = SumFunctionOnSet(Amounts(s), old) + 0
    BY <1>4, <2>1
  <2> QED BY <1>2, <1>4, <1>6, <2>1, <2>2 DEF old, new
<1> QED BY <1>5, <1>6

\* The vault and the books still agree after a transaction is mined.
LEMMA MinedVault ==
    ASSUME NEW s \in State, NEW m, NEW v \in Int, VaultOK(s, m, v), NEW n, NEW x \in StepIds, m[x] # "ok",
           n[x] = "ok", s.steps[x].st # "applied", \A y \in StepIds \ {x} : n[y] = m[y]
    PROVE  VaultOK(s, n, v + Delta(s, x))
<1> DEFINE amount == s.steps[x].amount
           d == IF Kind(x) \in OutKinds THEN amount ELSE 0
           e == IF Kind(x) \in InKinds THEN amount ELSE 0
           out == SumFunctionOnSet(Amounts(s), UnappliedOf(s, n, OutKinds))
           in == SumFunctionOnSet(Amounts(s), UnappliedOf(s, n, InKinds))
           outs == SumFunctionOnSet(Amounts(s), UnappliedOf(s, m, OutKinds))
           ins == SumFunctionOnSet(Amounts(s), UnappliedOf(s, m, InKinds))
           held == SumFunctionOnSet(Held(s), Books)
           change == Delta(s, x)
<1>1. amount \in Int
  BY DEF State, Step
<1>2. /\ IsFiniteSet(UnappliedOf(s, m, OutKinds)) /\ IsFiniteSet(UnappliedOf(s, m, InKinds))
      /\ v + outs = held + ins
  BY DEF VaultOK
<1>3. IsFiniteSet(UnappliedOf(s, n, OutKinds)) /\ outs \in Int /\ out = outs + d
  BY <1>2, UnappliedGains
<1>4. IsFiniteSet(UnappliedOf(s, n, InKinds)) /\ ins \in Int /\ in = ins + e
  BY <1>2, UnappliedGains
<1>5. change = e - d /\ d \in Int /\ e \in Int
  <2>1. ~(Kind(x) \in InKinds /\ Kind(x) \in OutKinds)
    BY DEF InKinds, OutKinds
  <2> HIDE DEF amount
  <2>2. change = IF Kind(x) \in InKinds THEN amount ELSE IF Kind(x) \in OutKinds THEN -amount ELSE 0
    BY DEF Delta, amount
  <2> HIDE DEF change
  <2> QED BY <1>1, <2>1, <2>2
<1>6. held \in Int
  <2>1. \A c \in Books : Held(s)[c] \in Int
    BY HeldTyped
  <2> QED BY <2>1, BooksAssumption, SumInt
<1> HIDE DEF out, in, outs, ins, held, d, e, change
<1>7. (v + change) + out = held + in
  BY ONLY <1>2, <1>3, <1>4, <1>5, <1>6, v \in Int
<1> QED BY <1>3, <1>4, <1>7 DEF VaultOK, out, in, held, change

\* What mining a transaction does.
LEMMA MineFacts ==
    ASSUME IInv, NEW x \in StepIds, Mine(x)
    PROVE  /\ record[x] = "signed" /\ mined[x] = "no" /\ record' = record /\ mined'[x] \in Outcomes
           /\ mined' \in [StepIds -> {"no"} \cup Outcomes] /\ \A y \in StepIds \ {x} : mined'[y] = mined[y]
           /\ saved.steps[x].st # "applied" /\ saved.steps[x].st # "none" /\ RecordsOK(saved, record, mined')
<1>1. mined \in [StepIds -> {"no"} \cup Outcomes]
  BY DEF IInv, ChainOK, StepsTypeOK
<1>2. record[x] = "signed" /\ mined[x] = "no" /\ record' = record
  BY DEF Mine
<1>3. PICK outcome \in Outcomes : mined' = [mined EXCEPT ![x] = outcome]
  BY DEF Mine
<1>4. /\ mined'[x] \in Outcomes /\ mined' \in [StepIds -> {"no"} \cup Outcomes]
      /\ \A y \in StepIds \ {x} : mined'[y] = mined[y]
  BY <1>1, <1>3
<1>5. RecordsOK(saved, record, mined)
  BY DEF IInv, FileOK
<1>6. saved.steps[x].st # "applied" /\ saved.steps[x].st # "none"
  BY <1>2, <1>5 DEF RecordsOK
<1>7. RecordsOK(saved, record, mined')
  BY <1>2, <1>4, <1>5 DEF RecordsOK, Outcomes
<1> QED BY <1>2, <1>4, <1>6, <1>7

\* What was mined matters to the file only through the records and the vault.
LEMMA MinedFile ==
    ASSUME NEW s, NEW rec, NEW m, NEW v, FileOK(s, rec, m, v), NEW n, NEW u, RecordsOK(s, rec, n), VaultOK(s, n, u)
    PROVE  FileOK(s, rec, n, u)
BY DEF FileOK

\* A mined transaction keeps the invariant, if the chain, the records and the vault
\* stay correct.
LEMMA MineStep ==
    ASSUME IInv, OthersOK', saved' = saved, record' = record, UNCHANGED tickVars, ChainOK',
           RecordsOK(saved, record, mined'), VaultOK(saved, mined', vault')
    PROVE  IInv'
<1> DEFINE n == mined'
           u == vault'
<1>1. FileOK(saved, record, mined, vault) /\ RecordsOK(saved, record, n) /\ VaultOK(saved, n, u)
  BY DEF IInv
<1>2. FileOK(saved, record, n, u)
  <2> HIDE DEF n, u
  <2> QED BY <1>1, MinedFile
<1>3. ControlOK(saved, record, pc, todo, book, cur)
  BY DEF IInv
<1> QED BY <1>2, <1>3 DEF IInv, tickVars

\* A reverted transaction keeps the invariant.
LEMMA MineRevertKeeps ==
    ASSUME IInv, NEW x \in StepIds, MineRevert(x)
    PROVE  IInv'
<1>1. /\ Mine(x) /\ mined'[x] = "reverted" /\ UNCHANGED <<receipt, vault, account, saved, timeVars, tickVars>>
  BY DEF MineRevert
<1>2. /\ record[x] = "signed" /\ mined[x] = "no" /\ record' = record /\ RecordsOK(saved, record, mined')
      /\ mined' \in [StepIds -> {"no"} \cup Outcomes] /\ \A y \in StepIds \ {x} : mined'[y] = mined[y]
  BY <1>1, MineFacts
<1>3. OthersOK'
  <2>1. CASE UNCHANGED trouble
    BY <1>1, <2>1, Holding, SameOthers
  <2>2. CASE May("revert") /\ Happens("revert")
    BY <1>1, <2>2, Troubled DEF TroubleKinds
  <2> QED BY <2>1, <2>2 DEF MineRevert
<1>4. ChainOK'
  BY <1>1, <1>2 DEF IInv, ChainOK, StepsTypeOK
<1>5. VaultOK(saved, mined', vault')
  <2>1. VaultOK(saved, mined, vault)
    BY DEF IInv, FileOK
  <2>2. \A kinds : UnappliedOf(saved, mined', kinds) = UnappliedOf(saved, mined, kinds)
    BY <1>1, <1>2 DEF UnappliedOf
  <2> QED BY <1>1, <2>1, <2>2 DEF VaultOK
<1> QED BY <1>1, <1>2, <1>3, <1>4, <1>5, MineStep

\* A price move keeps the invariant.
LEMMA PriceMovesKeeps ==
    ASSUME IInv, PriceMoves
    PROVE  IInv'
<1>1. /\ May("price") /\ Happens("price") /\ UNCHANGED <<record, mined, receipt, vault, saved, timeVars, tickVars>>
  BY DEF PriceMoves
<1>2. PICK p \in Prices : account' = [account EXCEPT !.price = p]
  BY DEF PriceMoves
<1>3. OthersOK'
  BY <1>1, Troubled DEF TroubleKinds
<1>4. account \in Snapshot /\ account.free >= 0 /\ p \in Nat /\ p > 0
  BY PricesAssumption DEF IInv, ChainOK
<1>5. account' \in Snapshot /\ account'.free >= 0 /\ account'.price > 0
  BY <1>2, <1>4 DEF Snapshot
<1>6. ChainOK'
  BY <1>1, <1>5 DEF IInv, ChainOK, StepsTypeOK
<1>7. RecordsOK(saved, record, mined) /\ VaultOK(saved, mined, vault)
  BY DEF IInv, FileOK
<1> QED BY <1>1, <1>3, <1>6, <1>7, MineStep

\* What is owned after half of an order is filled.
LEMMA HalfFilled ==
    ASSUME NEW before \in Nat, NEW amount \in Int, before + amount >= 0, NEW filled \in {amount, amount \div 2, 0}
    PROVE  filled \in Int /\ before + filled \in Nat
<1>1. amount \div 2 \in Int /\ before + (amount \div 2) >= 0
  OBVIOUS

<1> QED BY <1>1

\* What a transaction that was mined changed.
LEMMA ChainKinds ==
    ASSUME NEW x \in StepIds, CanSucceed(x), ChainEffect(x)
    PROVE  LET p == saved.steps[x]
           IN  /\ Kind(x) = "fund" => /\ p.amount <= vault /\ vault' = vault - p.amount
                                      /\ account' = [account EXCEPT !.free = @ + p.amount]
               /\ Kind(x) \in InKinds => /\ p.amount <= account.free /\ vault' = vault + p.amount
                                         /\ account' = [account EXCEPT !.free = @ - p.amount]
               /\ Kind(x) \in {"pay", "fee"} => p.amount <= vault /\ vault' = vault - p.amount /\ account' = account
               /\ Kind(x) \in TradeKinds =>
                     /\ vault' = vault /\ account.qty = p.before
                     /\ \E filled \in {p.amount, p.amount \div 2, 0} :
                           LET cost == IF filled = 0 THEN 0 ELSE TradeCost
                               free == account.free - filled * account.price - cost
                               kind == IF filled = 0 THEN "unfilled" ELSE "partial"
                           IN  /\ (UNCHANGED trouble \/ (May(kind) /\ Happens(kind)))
                               /\ free >= 0
                               /\ account' = [account EXCEPT !.free = free, !.qty = @ + filled]
<1> DEFINE p == saved.steps[x]
<1>1. CASE Kind(x) = "fund"
  BY <1>1 DEF CanSucceed, ChainEffect, InKinds, TradeKinds
<1>2. CASE Kind(x) \in InKinds
  BY <1>2 DEF CanSucceed, ChainEffect, InKinds, TradeKinds
<1>3. CASE Kind(x) \in {"pay", "fee"}
  BY <1>3 DEF CanSucceed, ChainEffect, InKinds, TradeKinds
<1>4. CASE Kind(x) \in TradeKinds
  <2>1. Kind(x) \notin {"fund", "back", "collect", "pay", "fee"} /\ Kind(x) \notin InKinds
    BY <1>4 DEF TradeKinds, InKinds
  <2>2. account.qty = p.before
    BY <1>4, <2>1 DEF CanSucceed
  <2>3. /\ vault' = vault
        /\ \E filled \in {p.amount, p.amount \div 2, 0} :
              LET cost == IF filled = 0 THEN 0 ELSE TradeCost
                  free == account.free - filled * account.price - cost
                  kind == IF filled = 0 THEN "unfilled" ELSE "partial"
              IN  /\ IF filled = p.amount THEN UNCHANGED trouble ELSE May(kind) /\ Happens(kind)
                  /\ free >= 0
                  /\ account' = [account EXCEPT !.free = free, !.qty = @ + filled]
    BY <1>4, <2>1 DEF ChainEffect
  <2> HIDE DEF p
  <2> QED BY <2>1, <2>2, <2>3 DEF p
<1> QED BY <1>1, <1>2, <1>3, <1>4

\* A successful transaction keeps the invariant.
LEMMA MineOkKeeps ==
    ASSUME IInv, NEW x \in StepIds, MineOk(x)
    PROVE  IInv'
<1> DEFINE p == saved.steps[x]
           amount == p.amount
<1>1. /\ Mine(x) /\ mined'[x] = "ok" /\ CanSucceed(x) /\ ChainEffect(x) /\ UNCHANGED <<saved, timeVars, tickVars>>
      /\ (Kind(x) \notin TradeKinds => UNCHANGED trouble)
      /\ receipt' = [receipt EXCEPT ![x] = IF Kind(x) \in {"pay", "fee"} THEN NoSnapshot ELSE account']
  BY DEF MineOk
<1>2. /\ record[x] = "signed" /\ mined[x] = "no" /\ record' = record /\ RecordsOK(saved, record, mined')
      /\ mined' \in [StepIds -> {"no"} \cup Outcomes] /\ \A y \in StepIds \ {x} : mined'[y] = mined[y]
      /\ p.st # "applied"
  BY <1>1, MineFacts
<1>3. /\ saved \in State /\ NumbersOK(saved) /\ VaultOK(saved, mined, vault) /\ vault \in Nat
      /\ account \in Snapshot /\ account.free >= 0 /\ account.price > 0
  BY DEF IInv, FileOK, ChainOK
<1>4. Kind(x) \in {"fund", "pay", "fee"} \cup InKinds \cup TradeKinds
  <2>1. Kind(x) \in RequestKinds \cup {"risk", "close", "collect", "fee", "pay"}
    BY StepParts
  <2> QED BY <2>1 DEF RequestKinds, TradeKinds, InKinds
<1>5. p \in Step /\ amount \in Int
  BY <1>3 DEF State, Step
<1>6. Kind(x) \notin TradeKinds => amount \in Nat
  BY <1>3 DEF NumbersOK
<1>7. account.free \in Int /\ account.qty \in Nat /\ account.price \in Nat
  BY <1>3 DEF Snapshot
<1>8. /\ vault' = vault + Delta(saved, x) /\ vault' \in Nat
      /\ account' \in Snapshot /\ account'.free >= 0 /\ account'.price > 0 /\ OthersOK'
  <2>1. CASE Kind(x) = "fund"
    <3>1. /\ amount <= vault /\ vault' = vault - amount /\ account' = [account EXCEPT !.free = @ + amount]
          /\ Kind(x) \notin TradeKinds /\ Kind(x) \in OutKinds /\ Kind(x) \notin InKinds
      BY <1>1, <2>1, ChainKinds DEF OutKinds, InKinds, TradeKinds
    <3>2. OthersOK'
      BY <1>1, <3>1, Holding, SameOthers
    <3>3. Delta(saved, x) = -amount
      BY <3>1 DEF Delta
    <3> HIDE DEF amount
    <3> QED BY <1>3, <1>6, <1>7, <3>1, <3>2, <3>3 DEF Snapshot
  <2>2. CASE Kind(x) \in InKinds
    <3>1. /\ amount <= account.free /\ vault' = vault + amount /\ account' = [account EXCEPT !.free = @ - amount]
          /\ Kind(x) \notin TradeKinds
      BY <1>1, <2>2, ChainKinds DEF OutKinds, InKinds, TradeKinds
    <3>2. OthersOK'
      BY <1>1, <3>1, Holding, SameOthers
    <3>3. Delta(saved, x) = amount
      BY <2>2 DEF Delta
    <3> HIDE DEF amount
    <3> QED BY <1>3, <1>6, <1>7, <3>1, <3>2, <3>3 DEF Snapshot
  <2>3. CASE Kind(x) \in {"pay", "fee"}
    <3>1. /\ amount <= vault /\ vault' = vault - amount /\ account' = account
          /\ Kind(x) \notin TradeKinds /\ Kind(x) \in OutKinds /\ Kind(x) \notin InKinds
      BY <1>1, <2>3, ChainKinds DEF OutKinds, InKinds, TradeKinds
    <3>2. OthersOK'
      BY <1>1, <3>1, Holding, SameOthers
    <3>3. Delta(saved, x) = -amount
      BY <3>1 DEF Delta
    <3> HIDE DEF amount
    <3> QED BY <1>3, <1>6, <1>7, <3>1, <3>2, <3>3
  <2>4. CASE Kind(x) \in TradeKinds
    <3>1. Kind(x) \notin OutKinds /\ Kind(x) \notin InKinds
      BY <2>4 DEF OutKinds, InKinds, TradeKinds
    <3>2. vault' = vault /\ account.qty = p.before
      BY <1>1, <2>4, ChainKinds
    <3>3. PICK filled \in {amount, amount \div 2, 0} :
              LET cost == IF filled = 0 THEN 0 ELSE TradeCost
                  free == account.free - filled * account.price - cost
                  kind == IF filled = 0 THEN "unfilled" ELSE "partial"
              IN  /\ (UNCHANGED trouble \/ (May(kind) /\ Happens(kind)))
                  /\ free >= 0
                  /\ account' = [account EXCEPT !.free = free, !.qty = @ + filled]
      BY <1>1, <2>4, ChainKinds
    <3>4. p.before \in Nat /\ p.before + amount >= 0
      <4>1. p.owned <= p.before /\ p.owned + amount >= 0 /\ p.owned \in Nat /\ p.before \in Nat
        BY <1>3, <1>5, <2>4 DEF NumbersOK, Step
      <4> HIDE DEF p, amount
      <4> QED BY <1>5, <4>1
    <3> DEFINE cost == IF filled = 0 THEN 0 ELSE TradeCost
               free == account.free - filled * account.price - cost
               kind == IF filled = 0 THEN "unfilled" ELSE "partial"
               qty == account.qty + filled
    <3>5. filled \in Int /\ qty \in Nat
      BY <1>5, <3>2, <3>4, HalfFilled
    <3>6. free \in Int
      <4>1. filled * account.price \in Int /\ cost \in Int
        BY <1>7, <3>5, CostAssumption
      <4> HIDE DEF cost
      <4> QED BY <1>7, <4>1
    <3>7. account' = [account EXCEPT !.free = free, !.qty = qty] /\ free >= 0
      BY <3>3
    <3>8. UNCHANGED trouble \/ (May(kind) /\ Happens(kind))
      BY <3>3
    <3>9. kind \in TroubleKinds
      BY DEF TroubleKinds
    <3> HIDE DEF free, kind, qty
    <3>10. account' \in Snapshot /\ account'.free >= 0 /\ account'.price > 0
      BY <1>3, <3>5, <3>6, <3>7 DEF Snapshot
    <3>11. OthersOK'
      <4>1. CASE UNCHANGED trouble
        BY <1>1, <4>1, Holding, SameOthers
      <4>2. CASE May(kind) /\ Happens(kind)
        BY <1>1, <3>9, <4>2, Troubled
      <4> QED BY <3>8, <4>1, <4>2
    <3>12. Delta(saved, x) = 0
      BY <3>1 DEF Delta
    <3> QED BY <1>3, <3>2, <3>10, <3>11, <3>12
  <2> QED BY <1>4, <2>1, <2>2, <2>3, <2>4
<1>9. VaultOK(saved, mined', vault')
  <2> DEFINE n == mined'
  <2>1. VaultOK(saved, n, vault + Delta(saved, x))
    <3>1. mined[x] # "ok" /\ n[x] = "ok" /\ saved.steps[x].st # "applied" /\ \A y \in StepIds \ {x} : n[y] = mined[y]
      BY <1>1, <1>2
    <3> HIDE DEF n
    <3> QED BY <1>3, <3>1, MinedVault
  <2> QED BY <1>8, <2>1
<1>10. ChainOK'
  <2> DEFINE snap == IF Kind(x) \in {"pay", "fee"} THEN NoSnapshot ELSE account'
  <2>1. snap \in Snapshot /\ snap.free >= 0 /\ (Kind(x) \in ReadingKinds => snap.price > 0)
    <3>1. NoSnapshot \in Snapshot /\ NoSnapshot.free >= 0
      BY DEF NoSnapshot, Snapshot
    <3>2. Kind(x) \in ReadingKinds => Kind(x) \notin {"pay", "fee"}
      BY DEF ReadingKinds, TradeKinds
    <3> QED BY <1>8, <3>1, <3>2
  <2>2. ChainOK /\ receipt' = [receipt EXCEPT ![x] = snap]
    BY <1>1 DEF IInv
  <2> HIDE DEF snap
  <2>3. /\ receipt' \in [StepIds -> Snapshot] /\ receipt'[x] = snap /\ \A y \in StepIds \ {x} : receipt'[y] = receipt[y]
    BY <2>1, <2>2 DEF ChainOK
  <2>4. ASSUME NEW y \in StepIds
        PROVE  /\ receipt'[y].free >= 0
               /\ Kind(y) \in ReadingKinds /\ mined'[y] = "ok" /\ saved'.steps[y].st # "applied" => receipt'[y].price > 0
    <3>1. CASE y = x
      BY <2>1, <2>3, <3>1
    <3>2. CASE y # x
      BY <1>1, <1>2, <2>2, <2>3, <3>2 DEF ChainOK
    <3> QED BY <3>1, <3>2
  <2>5. StepsTypeOK'
    BY <1>2, <2>2 DEF ChainOK, StepsTypeOK
  <2> QED BY <1>8, <2>3, <2>4, <2>5 DEF ChainOK
<1> QED BY <1>1, <1>2, <1>8, <1>9, <1>10, MineStep

\* A new strategy's books are books.
LEMMA NewBookTyped == ASSUME NEW b \in Books PROVE NewBook(b) \in Book
<1>1. Pending[b] \in Nat
  BY BoundsAssumption
<1>2. NoSettlement \in Settlement
  BY DEF NoSettlement, NoBase, Settlement
<1> QED BY <1>1, <1>2 DEF NewBook, Book

\* A new strategy has its pending deposits and nothing else.
LEMMA NewBookFields ==
    ASSUME NEW b \in Books
    PROVE  LET k == NewBook(b)
           IN  /\ k.pending = Pending[b] /\ k.cash = 0 /\ k.credited = 0 /\ k.units = 0 /\ k.feeAmount = 0
               /\ k.riskTry = 0 /\ k.settlement = NoSettlement
BY DEF NewBook

\* The first file is a file.
LEMMA InitState == ASSUME Init PROVE saved \in State
<1>1. \A b \in Books : NewBook(b) \in Book
  BY NewBookTyped
<1>2. EmptyPool(FirstPrice) \in Pool
  BY PricesAssumption DEF EmptyPool, Pool
<1>3. NewRequest \in Request /\ UnusedStep \in Step
  BY DEF NewRequest, Request, UnusedStep, Step
<1>4. [status |-> "none", payout |-> 0] \in Withdrawal
  BY DEF Withdrawal
<1>5. saved = [books |-> [b \in Books |-> NewBook(b)], pool |-> EmptyPool(FirstPrice),
               requests |-> [r \in Requests |-> NewRequest],
               withdrawals |-> [w \in Withdrawals |-> [status |-> "none", payout |-> 0]],
               steps |-> [s \in StepIds |-> UnusedStep]]
  BY DEF Init
<1> QED BY <1>1, <1>2, <1>3, <1>4, <1>5 DEF State

\* What the first file says.
LEMMA InitFacts ==
    ASSUME Init
    PROVE  /\ \A x \in StepIds : saved.steps[x] = UnusedStep /\ record[x] = "absent" /\ mined[x] = "no"
           /\ \A b \in Books : saved.books[b] = NewBook(b)
           /\ \A r \in Requests : saved.requests[r].status = "none"
           /\ \A w \in Withdrawals : saved.withdrawals[w].status = "none"
           /\ saved.pool = EmptyPool(FirstPrice)
BY DEF Init, StepsInit, NewRequest

\* The vault starts with the pending deposits.
LEMMA InitVault == ASSUME Init PROVE vault \in Nat /\ VaultOK(saved, mined, vault)
<1> DEFINE f == [b \in Books |-> Pending[b]]
<1>1. vault = SumFunctionOnSet(f, Books)
  BY DEF Init, SumOf
<1>2. \A b \in Books : f[b] \in Nat /\ Held(saved)[b] = f[b]
  <2>1. ASSUME NEW b \in Books PROVE f[b] \in Nat /\ Held(saved)[b] = f[b]
    <3>1. saved.books[b] = NewBook(b)
      BY InitFacts
    <3>2. saved.books[b].pending = Pending[b] /\ saved.books[b].cash = 0 /\ saved.books[b].credited = 0
      BY <3>1, NewBookFields
    <3>3. Pending[b] \in Nat
      BY BoundsAssumption
    <3> QED BY <3>2, <3>3 DEF Held
  <2> QED BY <2>1
<1> HIDE DEF f
<1>3. vault \in Nat
  BY <1>1, <1>2, BooksAssumption, SumGrows
<1>4. SumFunctionOnSet(Held(saved), Books) = vault
  BY <1>1, <1>2, BooksAssumption, SumSame
<1>5. \A kinds : UnappliedOf(saved, mined, kinds) = {}
  BY InitFacts DEF UnappliedOf
<1>6. SumFunctionOnSet(Amounts(saved), {}) = 0 /\ IsFiniteSet({})
  BY SumEmpty, FS_EmptySet
<1>7. vault + 0 = SumFunctionOnSet(Held(saved), Books) + 0
  BY <1>3, <1>4
<1> QED BY <1>3, <1>5, <1>6, <1>7 DEF VaultOK

\* The first file is correct.
LEMMA InitFile == ASSUME Init PROVE FileOK(saved, record, mined, vault)
<1>1. /\ \A x \in StepIds : saved.steps[x] = UnusedStep /\ record[x] = "absent" /\ mined[x] = "no"
      /\ \A b \in Books : saved.books[b] = NewBook(b)
      /\ \A r \in Requests : saved.requests[r].status = "none"
      /\ \A w \in Withdrawals : saved.withdrawals[w].status = "none"
      /\ saved.pool = EmptyPool(FirstPrice)
  BY InitFacts
<1>2. \A x \in StepIds : saved.steps[x].st = "none" /\ saved.steps[x].amount = 0 /\ saved.steps[x].owned = 0
                         /\ saved.steps[x].before = 0
  BY <1>1 DEF UnusedStep
<1>3. RecordsOK(saved, record, mined)
  BY <1>1, <1>2 DEF RecordsOK, Outcomes
<1>4. RequestsOK(saved)
  BY <1>1 DEF RequestsOK, BeingServed
<1>5. \A b \in Books : /\ saved.books[b].settlement.ids = {} /\ saved.books[b].settlement.attempt = 0
                       /\ saved.books[b].units = 0 /\ saved.books[b].feeAmount = 0 /\ saved.books[b].riskTry = 0
  BY <1>1, NewBookFields DEF NoSettlement
<1>6. SettlementOK(saved)
  BY <1>5, BoundsAssumption DEF SettlementOK
<1>7. UnitsOK(saved)
  <2>1. \A b \in Books : OpenOf(saved, b) = {}
    BY <1>1 DEF OpenOf
  <2>2. SumFunctionOnSet(Units, {}) = 0
    BY SumEmpty
  <2>3. ASSUME NEW b \in Books PROVE SumFunctionOnSet(Units, OpenOf(saved, b)) <= saved.books[b].units
    <3>1. SumFunctionOnSet(Units, OpenOf(saved, b)) = 0 /\ saved.books[b].units = 0
      BY <1>5, <2>1, <2>2
    <3> QED BY <3>1
  <2> QED BY <2>3 DEF UnitsOK
<1>8. FinishedOK(saved, record) /\ ForgottenOK(saved, record) /\ PayOK(saved, record)
  BY <1>1 DEF FinishedOK, ForgottenOK, PayOK, Unsettled
<1>9. FeeOK(saved)
  BY <1>2, <1>5 DEF FeeOK
<1>10. NumbersOK(saved)
  <2>1. saved.pool.checkpoint.free = 0 /\ saved.pool.checkpoint.price = FirstPrice
    <3>1. saved.pool = EmptyPool(FirstPrice)
      BY <1>1
    <3>2. EmptyPool(FirstPrice).checkpoint = [equity |-> 0, free |-> 0, qty |-> 0, price |-> FirstPrice]
      BY DEF EmptyPool
    <3> QED BY <3>1, <3>2
  <2>2. saved.pool.checkpoint.free \in Nat /\ saved.pool.checkpoint.price \in Nat \ {0}
    <3>1. FirstPrice \in Nat \ {0}
      BY PricesAssumption
    <3> QED BY ONLY <2>1, <3>1
  <2>3. \A b \in Books : saved.books[b].riskTry <= Tries
    BY <1>5, BoundsAssumption
  <2>4. ASSUME NEW x \in StepIds
        PROVE  /\ Kind(x) \notin TradeKinds => saved.steps[x].amount \in Nat
               /\ Kind(x) \in TradeKinds => /\ saved.steps[x].owned <= saved.steps[x].before
                                            /\ saved.steps[x].owned + saved.steps[x].amount >= 0
    BY <1>2
  <2> QED BY <2>2, <2>3, <2>4 DEF NumbersOK
<1> QED BY <1>3, <1>4, <1>6, <1>7, <1>8, <1>9, <1>10, InitState, InitVault DEF FileOK

\* The invariant holds initially.
LEMMA InitKept == Init => IInv
<1> SUFFICES ASSUME Init PROVE IInv
  OBVIOUS
<1>1. ChainOK
  <2>1. StepsTypeOK
    BY DEF Init, StepsInit, StepsTypeOK
  <2>2. receipt = [s \in StepIds |-> NoSnapshot] /\ account = [free |-> 0, qty |-> 0, price |-> FirstPrice]
    BY DEF Init
  <2>3. NoSnapshot \in Snapshot /\ NoSnapshot.free = 0
    BY DEF NoSnapshot, Snapshot
  <2>4. account \in Snapshot /\ account.free >= 0 /\ account.price > 0
    BY <2>2, PricesAssumption DEF Snapshot
  <2>5. \A x \in StepIds : mined[x] # "ok"
    BY InitFacts
  <2> QED BY <2>1, <2>2, <2>3, <2>4, <2>5, InitVault DEF ChainOK
<1>2. OthersOK
  BY BoundsAssumption DEF Init, OthersOK
<1>3. pc = "idle" /\ todo = <<>> /\ book = NoBook /\ cur = NoStep
  BY DEF Init
<1>4. ControlOK(saved, record, pc, todo, book, cur)
  BY <1>3, TickEnds
<1> QED BY <1>1, <1>2, <1>4, InitFile DEF IInv

\* Doing nothing keeps the invariant.
LEMMA StutterKept == ASSUME IInv, UNCHANGED vars PROVE IInv'
<1>1. /\ UNCHANGED <<chainVars, saved, tickVars>> /\ UNCHANGED <<timeVars, trouble>>
  BY DEF vars, chainVars, tickVars, timeVars
<1> QED BY <1>1, Holding, SameOthers, TickStays

\* What markBook() values the units at is an amount.
LEMMA MarkedTyped ==
    ASSUME NEW s \in State, NEW b \in Books
    PROVE  MarkedEquity(s, b) \in Nat
<1> DEFINE x == s.books[b].settlement
           unpaid == {w \in x.ids : s.withdrawals[w].status # "PAID"}
           part == SumFunctionOnSet(Units, unpaid)
           total == SumFunctionOnSet(Units, x.ids)
<1>1. x.ids \subseteq Withdrawals /\ x.cost \in Int /\ unpaid \subseteq Withdrawals
  BY DEF State, Book, Settlement
<1>2. SumOf(unpaid, units) = part /\ SumOf(x.ids, units) = total
  BY <1>1, SumOfUnits
<1>3. ReservedCost(s, b) = IF x.ids = {} THEN 0 ELSE IF ~x.priced THEN x.cost ELSE (x.cost * part) \div total
  BY <1>2 DEF ReservedCost
<1>4. part \in Nat /\ (x.ids # {} => total \in Nat /\ total > 0)
  BY <1>1, UnitsTyped, SumPositive
<1> HIDE DEF x, unpaid, part, total
<1>5. ReservedCost(s, b) \in Int
  BY <1>1, <1>3, <1>4
<1>6. Equity(s, b) + ReservedCost(s, b) \in Int
  BY <1>5, EquityTyped
<1> QED BY <1>6, LargerTyped DEF MarkedEquity

\* A strategy that is resumed keeps the invariant: its jobs stay as they are.
LEMMA RestartKeeps ==
    ASSUME IInv, NEW b \in Books, Restart(b)
    PROVE  IInv'
<1> DEFINE n == saved.books[b]
           base == IF n.units = 0 THEN n.base ELSE [equity |-> MarkedEquity(saved, b), units |-> n.units]
           k == [n EXCEPT !.status = "ACTIVE", !.base = base]
<1>1. /\ pc \in {"idle", "ready"} /\ UNCHANGED <<orderUnchanged, tickVars>>
      /\ saved' = [saved EXCEPT !.books[b] = k]
  BY DEF Restart
<1>2. n \in Book /\ saved \in State /\ Priced(saved)
  BY Holding DEF State
<1>3. base \in [equity : Nat, units : Nat]
  BY <1>2, Holding, MarkedTyped DEF Book
<1> HIDE DEF n, base
<1>4. /\ k \in Book /\ k.settlement = n.settlement /\ k.riskTry = n.riskTry
      /\ k.feeTry = n.feeTry /\ k.feeAmount = n.feeAmount /\ k.fees = n.fees /\ k.units = n.units
      /\ k.pending = n.pending /\ k.cash = n.cash /\ k.credited = n.credited
  BY <1>2, <1>3 DEF Book
<1>5. n.fees \in Nat /\ n.units \in Nat
  BY <1>2 DEF Book
<1> HIDE DEF k
<1>6. OnlyBook(saved, saved', b) /\ saved'.books[b] = k
  BY <1>1, <1>2, <1>4 DEF OnlyBook, State
<1>7. AlikeBook(n, k)
  BY <1>4, <1>5 DEF AlikeBook
<1>8. Kept(saved, saved')
  BY <1>2, <1>6, <1>7, BookKept DEF n
<1>9. FileOK(saved', record, mined, vault) /\ saved'.steps = saved.steps
  BY <1>6, <1>8, Holding, FileKept DEF OnlyBook
<1> QED BY <1>1, <1>9, OutsideStep

\* Customers' calls keep the invariant.
LEMMA CustomersKeep == ASSUME IInv, Customers PROVE IInv'
BY AcceptKeeps, RestartKeeps, RequestWithdrawalKeeps, CancelWithdrawalKeeps DEF Customers

\* The work on requests keeps the invariant.
LEMMA OrdersKeep == ASSUME IInv, Orders PROVE IInv'
BY NoOrdersKeeps, MarkBookKeeps, RiskExitKeeps, FlatKeeps, PlanRequestKeeps, ResumeRequestKeeps, ReleaseKeeps,
   FlattenedKeeps, BackKeeps, FundKeeps, TradeToPlanKeeps, CheckKeeps DEF Orders

\* The work on settlements and fees keeps the invariant.
LEMMA SettleKeeps == ASSUME IInv, Settle PROVE IInv'
BY OpenSettlementKeeps, NothingDueKeeps, SettlementJobKeeps, CloseLotsKeeps, ClosedKeeps, CollectKeeps,
   PriceRedemptionKeeps, PayOneKeeps, CloseSettlementKeeps, PayFeesKeeps, FeePaidKeeps DEF Settle

\* The submitter keeps the invariant.
LEMMA SubmittingKeeps == ASSUME IInv, Submitting PROVE IInv'
BY SubmitKnownKeeps, SubmitSignKeeps, SubmitAnsweredKeeps, SubmitSyncKeeps DEF Submitting

\* The tick keeps the invariant.
LEMMA TickKeeps == ASSUME IInv, Tick PROVE IInv'
BY TickBeginKeeps, TickSyncThrowsKeeps, TickSyncedKeeps, OpenSectionKeeps, RecoveredKeeps, TickSyncKeeps, RecoverKeeps,
   OrdersKeep, SettleKeeps, SubmittingKeeps, ApplyStepKeeps DEF Tick

\* Troubles keep the invariant.
LEMMA TroublesKeep == ASSUME IInv, Troubles PROVE IInv'
BY SubmitFailsKeeps, SubmitGivesUpKeeps, ApplyFailsKeeps, RecoverFailsKeeps, ReadFailsKeeps, CrashKeeps, ExpireKeeps,
   PriceMovesKeeps DEF Troubles

\* The chain keeps the invariant.
LEMMA MiningKeeps == ASSUME IInv, Mining PROVE IInv'
BY MineOkKeeps, MineRevertKeeps DEF Mining

\* Every step keeps the invariant.
LEMMA NextKept == ASSUME IInv, [Next]_vars PROVE IInv'
BY StutterKept, CustomersKeep, TickKeeps, TroublesKeep, MatureKeeps, OverdueKeeps, MiningKeeps DEF Next

\* The invariant holds at every step of every execution, whatever crashes, fails, is
\* late, is retried or given up.
THEOREM Invariance == Spec => []IInv
<1>1. IInv /\ [Next]_vars => IInv'
  BY NextKept
<1> QED BY <1>1, InitKept, PTL DEF Spec

\* The operator's file, its place in the tick and the chain stay of their types: no
\* division by zero, no negative lots, no vault overdrawn.
THEOREM TypeCorrect == Spec => []TypeOK
<1>1. IInv => TypeOK
  BY DEF IInv, FileOK, ChainOK, OthersOK, ControlOK, LocationOK, TypeOK
<1> QED BY <1>1, Invariance, PTL

\* A request that is reported as finished has nothing in flight and nothing left to
\* apply (execute() of execution.mjs and its catch block), for any number of
\* strategies, requests, redemptions and troubles.
THEOREM FinishedRequestsAreSettled == Spec => []FinishedIsSettled
<1>1. IInv => FinishedIsSettled
  BY DEF IInv, FileOK, FinishedOK, Unsettled, FinishedIsSettled
<1> QED BY <1>1, Invariance, PTL

\* A transaction that may still have an effect to apply belongs to a job the next
\* section looks through (the recovery at the start of a section).
THEOREM NoStepIsForgotten == Spec => []NothingForgotten
<1>1. IInv => NothingForgotten
  BY DEF IInv, FileOK, ForgottenOK, NothingForgotten
<1> QED BY <1>1, Invariance, PTL

--------------------------------------------------------------------------------
(* The claims on the shared account. *)

\* The claims are integers.
LEMMA ClaimsTyped == ASSUME NEW pool \in Pool PROVE TotalClaims(pool) \in Int
<1>1. \A b \in Books : pool.equity[b] \in Int
  BY DEF Pool
<1> QED BY <1>1, BooksAssumption, SumInt DEF TotalClaims

\* A product with a sum.
LEMMA TimesSum == \A m, n, d \in Int : (m + n) * d = m * d + n * d /\ m * d \in Int
OBVIOUS

\* A sum of claims, of lots at a change of price, and of a remainder that one element has.
LEMMA SumOfClaims ==
    ASSUME NEW S, IsFiniteSet(S), NEW e, NEW l, NEW f, NEW d \in Int, NEW rest \in Int, NEW actor,
           \A x \in S : /\ e[x] \in Int /\ l[x] \in Int
                        /\ f[x] = e[x] + l[x] * d + (IF x = actor THEN rest ELSE 0)
    PROVE  SumFunctionOnSet(f, S) = SumFunctionOnSet(e, S) + SumFunctionOnSet(l, S) * d
                                        + (IF actor \in S THEN rest ELSE 0)
<1> DEFINE Right(U) == SumFunctionOnSet(f, U) = SumFunctionOnSet(e, U) + SumFunctionOnSet(l, U) * d
                                        + (IF actor \in U THEN rest ELSE 0)
           T == {U \in SUBSET S : Right(U)}
<1>1. {} \in T
  <2>1. SumFunctionOnSet(f, {}) = 0 /\ SumFunctionOnSet(e, {}) = 0 /\ SumFunctionOnSet(l, {}) = 0
    BY SumEmpty
  <2>2. Right({})
    BY <2>1
  <2> QED BY <2>2
<1>2. \A x \in S : f[x] \in Int
  <2>1. \A x \in S : l[x] * d \in Int
    BY TimesSum
  <2> QED BY <2>1
<1>3. ASSUME NEW U \in T, NEW x \in S \ U PROVE U \cup {x} \in T
  <2>1. U \in SUBSET S /\ Right(U) /\ IsFiniteSet(U) /\ x \notin U
    BY FS_Subset
  <2>2. /\ \A y \in U \cup {x} : f[y] \in Int
        /\ \A y \in U \cup {x} : e[y] \in Int
        /\ \A y \in U \cup {x} : l[y] \in Int
    BY <1>2, <2>1
  <2> DEFINE E == SumFunctionOnSet(e, U)
             L == SumFunctionOnSet(l, U)
             V == U \cup {x}
             B == IF actor \in U THEN rest ELSE 0
             A == IF x = actor THEN rest ELSE 0
             C == IF actor \in V THEN rest ELSE 0
             ex == e[x]
             lx == l[x]
  <2>3. E \in Int /\ L \in Int
    BY <2>1, <2>2, SumInt
  <2>4. SumFunctionOnSet(f, V) = f[x] + SumFunctionOnSet(f, U)
    BY <2>1, <2>2, SumAdd
  <2>5. SumFunctionOnSet(e, V) = ex + E
    BY <2>1, <2>2, SumAdd
  <2>6. SumFunctionOnSet(l, V) = lx + L
    BY <2>1, <2>2, SumAdd
  <2>7. C = A + B /\ A \in Int /\ B \in Int
    BY <2>1
  <2>8. f[x] = ex + lx * d + A /\ SumFunctionOnSet(f, U) = E + L * d + B
    BY <2>1
  <2>9. ex \in Int /\ lx \in Int
    BY <2>2
  <2>11. V \in SUBSET S
    BY <2>1
  <2>10. Right(V)
    <3> HIDE DEF E, L, V, A, B, C, ex, lx
    <3>1. (lx + L) * d = lx * d + L * d /\ lx * d \in Int /\ L * d \in Int
      BY ONLY <2>3, <2>9, d \in Int, TimesSum
    <3>2. SumFunctionOnSet(f, V) = (ex + E) + (lx + L) * d + C
      BY ONLY <2>3, <2>4, <2>7, <2>8, <2>9, <3>1
    <3>3. SumFunctionOnSet(f, V) = SumFunctionOnSet(e, V) + SumFunctionOnSet(l, V) * d + C
      BY ONLY <3>2, <2>5, <2>6
    <3> QED BY <3>3 DEF C
  <2> QED BY <2>10, <2>11
<1>4. T \in SUBSET (SUBSET S)
  OBVIOUS
<1>5. T = SUBSET S
  <2> HIDE DEF T
  <2> QED BY <1>1, <1>3, <1>4, InductionOnSubsets
<1>6. S \in T
  BY <1>5
<1> QED BY <1>6

\* The claims are the account's equity as it was last read.
Claimed(pool) == TotalClaims(pool) = pool.checkpoint.equity

\* After a reading the claims are the equity that was read: always when one strategy takes
\* the rest, otherwise when there is none.
LEMMA CheckpointedClaims ==
    ASSUME NEW pool \in Pool, Claimed(pool), NEW snap \in Snapshot, NEW actor,
           actor \in Books \/ Remainder(pool, snap) = 0
    PROVE  Claimed(Checkpointed(pool, snap, actor))
<1> DEFINE d == snap.price - pool.checkpoint.price
           rest == Remainder(pool, snap)
           f == Attributed(pool, snap, actor)
           C == TotalClaims(pool)
           L == TotalLots(pool)
           E == EquityAt(snap)
           new == Checkpointed(pool, snap, actor)
<1>1. /\ pool.equity \in [Books -> Int] /\ pool.lots \in [Books -> Nat]
      /\ pool.checkpoint.equity \in Int /\ pool.checkpoint.price \in Nat
      /\ snap.price \in Nat /\ snap.qty \in Nat /\ snap.free \in Int
  BY DEF Pool, Snapshot
<1>2. d \in Int /\ C \in Int /\ L \in Int
  BY <1>1, ClaimsTyped, PoolSums
<1>3. E \in Int
  <2>1. snap.qty * snap.price \in Int
    BY <1>1, TimesSum
  <2> QED BY <1>1, <2>1 DEF EquityAt
<1>4. rest = E - C - L * d
  BY DEF Remainder, Claimed
<1>5. L * d \in Int /\ rest \in Int
  <2>1. L * d \in Int
    <3> HIDE DEF L, d
    <3> QED BY <1>2, TimesSum
  <2> HIDE DEF L, d, E, C, rest
  <2> QED BY <1>2, <1>3, <1>4, <2>1
<1>6. \A x \in Books : /\ pool.equity[x] \in Int /\ pool.lots[x] \in Int
                       /\ f[x] = pool.equity[x] + pool.lots[x] * d + (IF x = actor THEN rest ELSE 0)
  BY <1>1 DEF Attributed
<1>7. SumFunctionOnSet(f, Books) = SumFunctionOnSet(pool.equity, Books) + SumFunctionOnSet(pool.lots, Books) * d
                                     + (IF actor \in Books THEN rest ELSE 0)
  <2> DEFINE e == pool.equity
             l == pool.lots
  <2>1. \A x \in Books : /\ e[x] \in Int /\ l[x] \in Int
                         /\ f[x] = e[x] + l[x] * d + (IF x = actor THEN rest ELSE 0)
    BY <1>6
  <2> HIDE DEF f, d, rest, e, l
  <2>2. SumFunctionOnSet(f, Books) = SumFunctionOnSet(e, Books) + SumFunctionOnSet(l, Books) * d
                                     + (IF actor \in Books THEN rest ELSE 0)
    BY <1>2, <1>5, <2>1, BooksAssumption, SumOfClaims
  <2> QED BY <2>2 DEF e, l
<1>8. SumFunctionOnSet(f, Books) = C + L * d + (IF actor \in Books THEN rest ELSE 0)
  BY <1>7 DEF TotalClaims, TotalLots
<1>9. SumFunctionOnSet(f, Books) = E
  <2>1. actor \in Books \/ rest = 0
    OBVIOUS
  <2> DEFINE S == SumFunctionOnSet(f, Books)
             K == L * d
  <2>2. S = C + K + (IF actor \in Books THEN rest ELSE 0)
    BY <1>8
  <2>3. K \in Int /\ rest = E - C - K /\ rest \in Int
    BY <1>4, <1>5
  <2> HIDE DEF f, d, rest, C, L, E, S, K
  <2>4. S = E
    BY <1>2, <1>3, <2>1, <2>2, <2>3
  <2> QED BY <2>4 DEF S
<1>10. new.equity = f /\ new.checkpoint.equity = E
  BY DEF Checkpointed, Pool
<1> QED BY <1>9, <1>10 DEF Claimed, TotalClaims

\* A transfer moves the claim and the checkpoint together.
LEMMA MovedClaims ==
    ASSUME NEW pool \in Pool, Claimed(pool), NEW b \in Books, NEW delta \in Int
    PROVE  Claimed(Moved(pool, b, delta))
<1> DEFINE new == Moved(pool, b, delta)
<1>1. new \in Pool
  BY MovedTyped
<1>2. pool.equity \in [Books -> Int] /\ pool.checkpoint.equity \in Int
  BY DEF Pool
<1>3. new.equity = [pool.equity EXCEPT ![b] = @ + delta] /\ new.checkpoint.equity = pool.checkpoint.equity + delta
  BY DEF Moved, Pool
<1>4. /\ \A x \in Books : pool.equity[x] \in Int /\ new.equity[x] \in Int
      /\ \A x \in Books \ {b} : pool.equity[x] = new.equity[x]
      /\ new.equity[b] = pool.equity[b] + delta
  BY <1>2, <1>3
<1>5. SumFunctionOnSet(new.equity, Books) = SumFunctionOnSet(pool.equity, Books) - pool.equity[b] + new.equity[b]
  <2> DEFINE e == pool.equity
             l == new.equity
  <2>1. /\ \A x \in Books : e[x] \in Int /\ l[x] \in Int
        /\ \A x \in Books \ {b} : e[x] = l[x]
    BY <1>4
  <2> HIDE DEF new, e, l
  <2>2. SumFunctionOnSet(l, Books) = SumFunctionOnSet(e, Books) - e[b] + l[b]
    BY <2>1, BooksAssumption, SumChange
  <2> QED BY <2>2 DEF e, l
<1>6. TotalClaims(pool) \in Int /\ TotalClaims(pool) = pool.checkpoint.equity
  BY ClaimsTyped DEF Claimed
<1>7. TotalClaims(new) = TotalClaims(pool) - pool.equity[b] + new.equity[b]
  BY <1>5 DEF TotalClaims
<1> DEFINE A == TotalClaims(pool)
           B == TotalClaims(new)
           x == pool.equity[b]
           y == new.equity[b]
           z == pool.checkpoint.equity
<1>8. B = A - x + y /\ A = z /\ x \in Int /\ y = x + delta /\ A \in Int /\ z \in Int
  BY <1>2, <1>4, <1>6, <1>7
<1>9. B = z + delta
  <2> HIDE DEF A, B, x, y, z
  <2> QED BY <1>8
<1> QED BY <1>3, <1>9 DEF Claimed

\* What remains without an actor is nothing, when the claims explain the account.
LEMMA ExplainedRemainder ==
    ASSUME NEW pool, NEW snap, NEW trading, Explained(pool, snap, NoBook, trading)
    PROVE  Remainder(pool, snap) = 0
BY DEF Explained

--------------------------------------------------------------------------------
\* The same of the file.  It need not be a whole file.
ClaimsOK(s) == "pool" \in DOMAIN s /\ Claimed(s.pool)
SamePool(s, t) == "pool" \in DOMAIN t /\ t.pool = s.pool

\* The same pool has the same claims.
LEMMA SamePoolClaims == ASSUME NEW s, NEW t, ClaimsOK(s), SamePool(s, t) PROVE ClaimsOK(t)
BY DEF ClaimsOK, SamePool

\* A reading keeps the claims, when they explain the account.
LEMMA RefreshedClaims ==
    ASSUME IInv, ClaimsOK(saved), NEW b, Readable(b), NEW s, SamePool(saved, s)
    PROVE  ClaimsOK(Refreshed(s, b))
<1>1. saved.pool \in Pool /\ account \in Snapshot
  BY Holding DEF State, AccountOK
<1>2. s.pool = saved.pool /\ "pool" \in DOMAIN s /\ Claimed(saved.pool)
  BY DEF SamePool, ClaimsOK
<1>3. CASE Member(s, b)
  <2>1. Remainder(saved.pool, account) = 0
    BY <1>2, <1>3, ExplainedRemainder DEF Readable, Member
  <2>2. Claimed(Checkpointed(saved.pool, account, NoBook))
    BY <1>1, <1>2, <2>1, CheckpointedClaims
  <2>3. Refreshed(s, b) = [s EXCEPT !.pool = Checkpointed(saved.pool, account, NoBook)]
    BY <1>2, <1>3 DEF Refreshed
  <2> DEFINE p == Checkpointed(saved.pool, account, NoBook)
  <2> HIDE DEF p
  <2>4. ClaimsOK([s EXCEPT !.pool = p])
    BY <1>2, <2>2 DEF ClaimsOK, p
  <2> QED BY <2>3, <2>4 DEF p
<1>4. CASE ~Member(s, b)
  BY <1>2, <1>4 DEF Refreshed, ClaimsOK
<1> QED BY <1>3, <1>4

\* The assessment of the risk does not touch them.
LEMMA ObservedClaims ==
    ASSUME NEW s, NEW b, ClaimsOK(Refreshed(s, b))
    PROVE  ClaimsOK(Observed(s, b))
<1> DEFINE t == Refreshed(s, b)
           status == IF Loss(t, b) THEN "RISK_EXIT" ELSE t.books[b].status
<1>1. Observed(s, b) = [t EXCEPT !.books[b].status = IF Loss(t, b) THEN "RISK_EXIT" ELSE @]
  BY DEF Observed
<1> HIDE DEF t
<1>2. SamePool(t, [t EXCEPT !.books[b].status = IF Loss(t, b) THEN "RISK_EXIT" ELSE @])
  BY DEF SamePool, ClaimsOK, t
<1> QED BY <1>1, <1>2, SamePoolClaims DEF t

\* An error and a call keep the pool they are given.
LEMMA CaughtClaims ==
    ASSUME NEW s, ClaimsOK(s), NEW r, NEW error, NEW records
    PROVE  ClaimsOK(Caught(s, r, error, records))
BY DEF Caught, ClaimsOK

\* An error keeps the claims.
LEMMA ThrowClaims ==
    ASSUME NEW s, ClaimsOK(s), NEW error, NEW records, ThrowKnowing(records, s, error)
    PROVE  ClaimsOK(saved')
<1>1. CASE ~InRequest
  BY <1>1 DEF ThrowKnowing
<1>2. CASE InRequest
  <2>1. PICK r \in OpenRequests(s, book) : saved' = Caught(s, r, error, records)
    BY <1>2 DEF ThrowKnowing
  <2> QED BY <2>1, CaughtClaims
<1> QED BY <1>1, <1>2

\* A call keeps the claims.
LEMMA CallClaims ==
    ASSUME NEW s, ClaimsOK(s), NEW x, NEW args, CallStep(s, x, args)
    PROVE  ClaimsOK(saved')
<1> DEFINE t == IF s.steps[x].st = "none" THEN [s EXCEPT !.steps[x] = args] ELSE s
<1>1. ClaimsOK(t)
  BY DEF ClaimsOK
<1>2. saved' = s \/ saved' = t \/ Throw(t, "expired")
  BY DEF CallStep
<1> HIDE DEF t
<1>3. Throw(t, "expired") => ClaimsOK(saved')
  BY <1>1, ThrowClaims DEF Throw
<1> QED BY <1>1, <1>2, <1>3

\* An applied effect keeps the claims: the strategy takes what the receipt does not explain.
LEMMA AppliedClaims ==
    ASSUME NEW s \in State, ClaimsOK(s), NEW x \in StepIds, NumbersOK(s), ReceiptOK(x),
           NEW t \in State, AppliedPool(s, t, x)
    PROVE  ClaimsOK(t)
<1> DEFINE b == BookOf(x)
           snap == receipt[x]
           d == ToAccount(s, x)
           moved == Moved(s.pool, b, d)
           seen == Checkpointed(s.pool, snap, b)
<1>1. b \in Books /\ s.pool \in Pool /\ snap \in Snapshot /\ Claimed(s.pool) /\ "pool" \in DOMAIN t
  BY StepParts DEF State, ReceiptOK, ClaimsOK
<1>2. CASE Kind(x) \in MoveKinds
  <2>1. d \in Int
    <3>1. Kind(x) \notin TradeKinds
      BY <1>2 DEF MoveKinds, TradeKinds
    <3>2. s.steps[x].amount \in Nat
      BY <3>1 DEF NumbersOK
    <3> QED BY <3>2 DEF ToAccount
  <2>2. moved \in Pool /\ Claimed(moved)
    <3> HIDE DEF d
    <3> QED BY <1>1, <2>1, MovedTyped, MovedClaims
  <2>3. t.pool = Checkpointed(moved, snap, b)
    BY <1>2 DEF AppliedPool
  <2> HIDE DEF moved
  <2>4. Claimed(Checkpointed(moved, snap, b))
    BY <1>1, <2>2, CheckpointedClaims
  <2> QED BY <1>1, <2>3, <2>4 DEF ClaimsOK
<1>3. CASE Kind(x) \in TradeKinds
  <2>1. t.pool.equity = seen.equity /\ t.pool.checkpoint = seen.checkpoint
    BY <1>3 DEF AppliedPool
  <2>2. Claimed(seen)
    BY <1>1, CheckpointedClaims
  <2> HIDE DEF seen
  <2> QED BY <1>1, <2>1, <2>2 DEF ClaimsOK, Claimed, TotalClaims
<1>4. CASE Kind(x) \in {"pay", "fee"}
  BY <1>1, <1>4 DEF AppliedPool, ClaimsOK
<1>5. Kind(x) \in MoveKinds \cup TradeKinds \cup {"pay", "fee"}
  BY StepParts DEF MoveKinds, TradeKinds, RequestKinds
<1> QED BY <1>2, <1>3, <1>4, <1>5

\* So does the effect of a confirmed step on the saved file.
LEMMA SavedClaims ==
    ASSUME IInv, ClaimsOK(saved), NEW x \in StepIds, record[x] = "ok", saved.steps[x].st = "saved", MayApply(saved, x)
    PROVE  ClaimsOK(Applied(saved, x))
<1>1. saved \in State /\ NumbersOK(saved) /\ mined[x] = "ok"
  BY DEF IInv, FileOK, RecordsOK, Outcomes
<1>2. ReceiptOK(x)
  BY <1>1 DEF IInv, ChainOK, ReceiptOK
<1> DEFINE t == Applied(saved, x)
<1>3. t \in State /\ AppliedPool(saved, t, x)
  BY ApplyFile DEF AppliedTo
<1> HIDE DEF t
<1>4. ClaimsOK(t)
  BY <1>1, <1>2, <1>3, AppliedClaims
<1> QED BY <1>4 DEF t

\* What keeps the saved pool keeps the claims.
LEMMA FilledClaims == ASSUME ClaimsOK(saved) PROVE SamePool(saved, WithFill(saved))
BY DEF WithFill, SamePool, ClaimsOK

--------------------------------------------------------------------------------
(* Requests. *)

\* Planning and resuming a request keep the claims.
LEMMA PlanClaims ==
    ASSUME IInv, ClaimsOK(saved), NEW r \in Requests, PlanRequest(r) \/ ResumeRequest(r)
    PROVE  ClaimsOK(saved')
<1>1. CASE ResumeRequest(r)
  BY <1>1 DEF ResumeRequest, ClaimsOK
<1>2. CASE PlanRequest(r)
  <2> DEFINE begun == [saved EXCEPT !.requests[r].status = "EXECUTING"]
             seen == Observed(begun, book)
             active == Activated(seen, book)
  <2>1. SamePool(saved, begun)
    BY DEF SamePool, ClaimsOK
  <2>2. ClaimsOK(begun)
    BY <2>1, SamePoolClaims
  <2>3. \/ \E error : Throw(begun, error)
        \/ Readable(book) /\ \E error : Throw(seen, error)
        \/ Readable(book) /\ saved' = [active EXCEPT !.requests[r].plan = PlanFor(active, r)]
    BY <1>2 DEF PlanRequest
  <2> HIDE DEF begun
  <2>4. Readable(book) => ClaimsOK(seen)
    BY <2>1, RefreshedClaims, ObservedClaims
  <2> HIDE DEF seen
  <2>5. Readable(book) => ClaimsOK(active)
    BY <2>4 DEF Activated, ClaimsOK
  <2> HIDE DEF active
  <2>6. Readable(book) => ClaimsOK([active EXCEPT !.requests[r].plan = PlanFor(active, r)])
    BY <2>5 DEF ClaimsOK
  <2> QED BY <2>2, <2>3, <2>4, <2>6, ThrowClaims DEF Throw
<1> QED BY <1>1, <1>2

\* The saved file has its own pool.
LEMMA SavedSame == ASSUME ClaimsOK(saved) PROVE SamePool(saved, saved)
BY DEF SamePool, ClaimsOK

\* Closing an unwanted position and taking collateral back keep the claims.
LEMMA ReleaseClaims ==
    ASSUME IInv, ClaimsOK(saved), NEW r \in Requests, Release(r) \/ Flattened(r) \/ Back(r)
    PROVE  ClaimsOK(saved')
<1>1. CASE Release(r)
  <2> DEFINE s == Refreshed(saved, book)
  <2>1. \/ \E error : Throw(saved, error)
        \/ Readable(book) /\ \E error : Throw(s, error)
        \/ Readable(book) /\ saved' = s
        \/ Readable(book) /\ \E x, args : CallStep(s, x, args)
    BY <1>1 DEF Release
  <2>2. Readable(book) => ClaimsOK(s)
    BY SavedSame, RefreshedClaims
  <2> HIDE DEF s
  <2> QED BY <2>1, <2>2, ThrowClaims, CallClaims DEF Throw
<1>2. CASE Flattened(r)
  <2> DEFINE filled == WithFill(saved)
             s == Refreshed(filled, book)
  <2>1. \/ \E error : Throw(filled, error)
        \/ Readable(book) /\ \E error : Throw(s, error)
        \/ Readable(book) /\ saved' = s
    BY <1>2 DEF Flattened
  <2>2. SamePool(saved, filled) /\ ClaimsOK(filled)
    BY FilledClaims, SamePoolClaims
  <2> HIDE DEF filled
  <2>3. Readable(book) => ClaimsOK(s)
    BY <2>2, RefreshedClaims
  <2> HIDE DEF s
  <2> QED BY <2>1, <2>2, <2>3, ThrowClaims DEF Throw
<1>3. CASE Back(r)
  <2> DEFINE s == Refreshed(saved, book)
  <2>1. \/ \E error : Throw(saved, error)
        \/ Readable(book) /\ saved' = s
        \/ Readable(book) /\ \E x, args : CallStep(s, x, args)
    BY <1>3 DEF Back
  <2>2. Readable(book) => ClaimsOK(s)
    BY SavedSame, RefreshedClaims
  <2> HIDE DEF s
  <2> QED BY <2>1, <2>2, ThrowClaims, CallClaims DEF Throw
<1> QED BY <1>1, <1>2, <1>3

\* Joining and funding the account keep the claims.
LEMMA FundClaims ==
    ASSUME IInv, ClaimsOK(saved), NEW r \in Requests, Fund(r)
    PROVE  ClaimsOK(saved')
<1> DEFINE joined == [saved EXCEPT !.pool.members = @ \cup {book}]
           s == Refreshed(joined, book)
           fits == Explained(joined.pool, account, NoBook, FALSE)
<1>1. \/ \E error : Throw(joined, error)
      \/ fits /\ \E error : Throw(s, error)
      \/ fits /\ saved' = s
      \/ fits /\ \E x, args : CallStep(s, x, args)
  BY DEF Fund
<1>2. saved \in State /\ saved.pool \in Pool /\ account \in Snapshot /\ book \in Books /\ Claimed(saved.pool)
  <2>1. book \in Books
    BY RequestsAssumption DEF Fund, OpenRequests
  <2> QED BY <2>1, Holding DEF State, AccountOK, ClaimsOK
<1>3. "pool" \in DOMAIN joined /\ joined.pool = [saved.pool EXCEPT !.members = @ \cup {book}]
  BY <1>2 DEF State
<1>4. /\ joined.pool \in Pool /\ joined.pool.equity = saved.pool.equity
      /\ joined.pool.checkpoint = saved.pool.checkpoint
  BY <1>2, <1>3 DEF Pool
<1> HIDE DEF joined
<1>5. Claimed(joined.pool) /\ ClaimsOK(joined)
  BY <1>2, <1>3, <1>4 DEF Claimed, TotalClaims, ClaimsOK
<1>6. fits => Claimed(Checkpointed(joined.pool, account, NoBook))
  <2> DEFINE p == joined.pool
  <2>1. fits => Remainder(p, account) = 0
    BY ExplainedRemainder
  <2>2. p \in Pool /\ Claimed(p)
    BY <1>4, <1>5
  <2> HIDE DEF p
  <2>3. fits => Claimed(Checkpointed(p, account, NoBook))
    BY <1>2, <2>1, <2>2, CheckpointedClaims
  <2> QED BY <2>3 DEF p
<1>7. fits => ClaimsOK(s)
  <2> DEFINE p == Checkpointed(joined.pool, account, NoBook)
  <2>1. s = joined \/ s = [joined EXCEPT !.pool = p]
    BY DEF Refreshed
  <2> HIDE DEF p, s
  <2> QED BY <1>3, <1>5, <1>6, <2>1 DEF ClaimsOK, p
<1> HIDE DEF s, fits
<1> QED BY <1>1, <1>5, <1>7, ThrowClaims, CallClaims DEF Throw

\* Trading to the plan and the last check keep the claims.
LEMMA TradeClaims ==
    ASSUME IInv, ClaimsOK(saved), NEW r \in Requests, TradeToPlan(r) \/ Check(r)
    PROVE  ClaimsOK(saved')
<1>1. CASE TradeToPlan(r)
  <2> DEFINE s == Refreshed(saved, book)
  <2>1. \/ \E error : Throw(saved, error)
        \/ Readable(book) /\ \E error : Throw(s, error)
        \/ Readable(book) /\ saved' = s
        \/ Readable(book) /\ \E x, args : CallStep(s, x, args)
    BY <1>1 DEF TradeToPlan
  <2>2. Readable(book) => ClaimsOK(s)
    BY SavedSame, RefreshedClaims
  <2> HIDE DEF s
  <2> QED BY <2>1, <2>2, ThrowClaims, CallClaims DEF Throw
<1>2. CASE Check(r)
  <2> DEFINE filled == WithFill(saved)
             s == Observed(filled, book)
  <2>1. \/ \E error : Throw(filled, error)
        \/ Readable(book) /\ \E error : Throw(s, error)
        \/ Readable(book) /\ saved' = [s EXCEPT !.requests[r].status = "EXECUTED"]
    BY <1>2 DEF Check
  <2>2. SamePool(saved, filled) /\ ClaimsOK(filled)
    BY FilledClaims, SamePoolClaims
  <2> HIDE DEF filled
  <2>3. Readable(book) => ClaimsOK(s)
    BY <2>2, RefreshedClaims, ObservedClaims
  <2> HIDE DEF s
  <2>4. Readable(book) => ClaimsOK([s EXCEPT !.requests[r].status = "EXECUTED"])
    BY <2>3 DEF ClaimsOK
  <2> QED BY <2>1, <2>2, <2>3, <2>4, ThrowClaims DEF Throw
<1> QED BY <1>1, <1>2

\* The valuation and the risk exit keep the claims.
LEMMA RiskClaims ==
    ASSUME IInv, ClaimsOK(saved), MarkBook \/ RiskExit \/ Flat
    PROVE  ClaimsOK(saved')
<1>1. CASE MarkBook
  <2>1. Throw(saved, "other") \/ (Readable(book) /\ saved' = Observed(saved, book))
    BY <1>1 DEF MarkBook
  <2>2. Readable(book) => ClaimsOK(Observed(saved, book))
    BY SavedSame, RefreshedClaims, ObservedClaims
  <2> QED BY <2>1, <2>2, ThrowClaims DEF Throw
<1>2. CASE RiskExit
  <2> DEFINE renew == saved.books[book].riskTry = 0 \/ book \in late.risk
             begun == IF renew THEN [saved EXCEPT !.books[book].riskTry = @ + 1] ELSE saved
             s == Refreshed(begun, book)
  <2>1. \/ \E error : Throw(begun, error)
        \/ Readable(book) /\ saved' = s
        \/ Readable(book) /\ \E x, args : CallStep(s, x, args)
    BY <1>2 DEF RiskExit
  <2>2. SamePool(saved, begun) /\ ClaimsOK(begun)
    BY DEF SamePool, ClaimsOK
  <2> HIDE DEF begun
  <2>3. Readable(book) => ClaimsOK(s)
    BY <2>2, RefreshedClaims
  <2> HIDE DEF s
  <2> QED BY <2>1, <2>2, <2>3, ThrowClaims, CallClaims DEF Throw
<1>3. CASE Flat
  <2> DEFINE s == Refreshed(saved, book)
  <2>1. \/ Throw(saved, "other")
        \/ Readable(book) /\ (saved' = s \/ saved' = [s EXCEPT !.books[book].status = "HALTED"])
    BY <1>3 DEF Flat
  <2>2. Readable(book) => ClaimsOK(s)
    BY SavedSame, RefreshedClaims
  <2> HIDE DEF s
  <2>3. Readable(book) => ClaimsOK([s EXCEPT !.books[book].status = "HALTED"])
    BY <2>2 DEF ClaimsOK
  <2> QED BY <2>1, <2>2, <2>3, ThrowClaims DEF Throw
<1> QED BY <1>1, <1>2, <1>3

\* The work on requests keeps the claims.
LEMMA OrdersClaims == ASSUME IInv, ClaimsOK(saved), Orders PROVE ClaimsOK(saved')
<1>1. NoOrders => ClaimsOK(saved')
  BY DEF NoOrders
<1> QED BY <1>1, PlanClaims, ReleaseClaims, FundClaims, TradeClaims, RiskClaims DEF Orders

--------------------------------------------------------------------------------
(* Settlements and fees. *)

\* Opening a settlement keeps the claims.
LEMMA OpenSettlementClaims ==
    ASSUME IInv, ClaimsOK(saved), OpenSettlement
    PROVE  ClaimsOK(saved')
<1> DEFINE seen == Observed(saved, book)
           s == [seen EXCEPT !.books[book].lastCutoff = cutoffs]
           x == [NoSettlement EXCEPT !.ids = Due(book), !.target = TargetLots(s, book, Due(book))]
<1>1. \/ Throw(saved, "other")
      \/ Readable(book) /\ \E fee : saved' = Crystallized(s, book, Larger(0, Equity(s, book)), fee)
      \/ Readable(book) /\ saved' = [s EXCEPT !.books[book].settlement = x,
                                    !.withdrawals = [w \in Withdrawals |->
                                       IF w \in Due(book) THEN [@[w] EXCEPT !.status = "SETTLING"] ELSE @[w]]]
  BY DEF OpenSettlement
<1>2. Readable(book) => ClaimsOK(seen)
  BY SavedSame, RefreshedClaims, ObservedClaims
<1> HIDE DEF seen
<1>3. Readable(book) => ClaimsOK(s)
  BY <1>2 DEF ClaimsOK
<1> HIDE DEF s, x
<1>4. ASSUME NEW value, NEW fee PROVE Readable(book) => ClaimsOK(Crystallized(s, book, value, fee))
  BY <1>3 DEF Crystallized, ClaimsOK
<1>5. Readable(book) => ClaimsOK([s EXCEPT !.books[book].settlement = x,
                                    !.withdrawals = [w \in Withdrawals |->
                                       IF w \in Due(book) THEN [@[w] EXCEPT !.status = "SETTLING"] ELSE @[w]]])
  BY <1>3 DEF ClaimsOK
<1> QED BY <1>1, <1>4, <1>5, ThrowClaims DEF Throw

\* The closing trade, its cost and the collection keep the claims.
LEMMA CloseClaims ==
    ASSUME IInv, ClaimsOK(saved), CloseLots \/ Closed \/ Collect
    PROVE  ClaimsOK(saved')
<1>1. CASE CloseLots
  <2> DEFINE x == SettlementOf(saved, book)
             seen == Observed(saved, book)
             base == [equity |-> Larger(0, Equity(seen, book)), price |-> account.price]
             based == IF x.costBase # NoBase THEN Refreshed(saved, book)
                      ELSE [seen EXCEPT !.books[book].settlement.costBase = base]
  <2>1. \/ UNCHANGED saved
        \/ Throw(saved, "other")
        \/ Readable(book) /\ saved' = Refreshed(saved, book)
        \/ Readable(book) /\ saved' = based
        \/ Readable(book) /\ Throw(based, "expired")
        \/ Readable(book) /\ \E y, args : CallStep(based, y, args)
    BY <1>1 DEF CloseLots
  <2>2. Readable(book) => ClaimsOK(seen) /\ ClaimsOK(Refreshed(saved, book))
    BY SavedSame, RefreshedClaims, ObservedClaims
  <2> HIDE DEF seen, x, base
  <2>3. Readable(book) => ClaimsOK(based)
    BY <2>2 DEF ClaimsOK
  <2> HIDE DEF based
  <2> QED BY <2>1, <2>2, <2>3, ThrowClaims, CallClaims DEF Throw
<1>2. CASE Closed
  <2> DEFINE s == Refreshed(saved, book)
             x == SettlementOf(s, book)
             cost == x.costBase.equity
                       - (Larger(0, Equity(s, book)) + Lots(s, book) * (x.costBase.price - account.price))
             n == [x EXCEPT !.cost = @ + cost, !.costApplied = TRUE]
             t == IF x.costApplied THEN s ELSE [s EXCEPT !.books[book].settlement = n]
  <2>1. Throw(saved, "other") \/ (Readable(book) /\ (Throw(t, "other") \/ saved' = t))
    BY <1>2 DEF Closed
  <2>2. Readable(book) => ClaimsOK(s)
    BY SavedSame, RefreshedClaims
  <2> HIDE DEF s, x, n
  <2>3. Readable(book) => ClaimsOK(t)
    BY <2>2 DEF ClaimsOK
  <2> HIDE DEF t
  <2> QED BY <2>1, <2>2, <2>3, ThrowClaims DEF Throw
<1>3. CASE Collect
  <2> DEFINE s == Refreshed(saved, book)
  <2>1. \/ Throw(saved, "other")
        \/ Readable(book) /\ saved' = s
        \/ Readable(book) /\ \E x, args : CallStep(s, x, args)
    BY <1>3 DEF Collect
  <2>2. Readable(book) => ClaimsOK(s)
    BY SavedSame, RefreshedClaims
  <2> HIDE DEF s
  <2> QED BY <2>1, <2>2, ThrowClaims, CallClaims DEF Throw
<1> QED BY <1>1, <1>2, <1>3

\* Pricing a settlement keeps the claims.
LEMMA PriceClaims ==
    ASSUME IInv, ClaimsOK(saved), PriceRedemption
    PROVE  ClaimsOK(saved')
<1> DEFINE seen == Refreshed(saved, book)
           cost == SettlementOf(seen, book).cost
           value == Larger(0, Equity(seen, book)) + cost
           S(fee) == Crystallized(seen, book, value, fee)
           P(fee) == Payout(S(fee), book, value - fee, cost)
           H(fee) == Shares(S(fee), book, P(fee))
           N(s, shares) == [s EXCEPT !.books[book].settlement.priced = TRUE,
                                     !.withdrawals = [w \in Withdrawals |->
                                             IF w \in DOMAIN shares
                                             THEN [@[w] EXCEPT !.payout = shares[w]] ELSE @[w]]]
<1>1. \/ Throw(saved, "other")
      \/ Readable(book) /\ Throw(seen, "other")
      \/ Readable(book) /\ \E fee : Throw(S(fee), "other") \/ saved' = N(S(fee), H(fee))
  BY DEF PriceRedemption
<1>2. Readable(book) => ClaimsOK(seen)
  BY SavedSame, RefreshedClaims
<1> HIDE DEF seen, value, cost, H
<1>3. ASSUME NEW fee PROVE Readable(book) => ClaimsOK(S(fee))
  BY <1>2 DEF Crystallized, ClaimsOK
<1> HIDE DEF S
<1>4. ASSUME NEW fee PROVE Readable(book) => ClaimsOK(N(S(fee), H(fee)))
  BY <1>3 DEF ClaimsOK
<1> HIDE DEF N
<1> QED BY <1>1, <1>2, <1>3, <1>4, ThrowClaims DEF Throw

\* Burning units does not touch the account.
LEMMA BurnedClaims ==
    ASSUME ClaimsOK(saved), NEW w, NEW amount
    PROVE  ClaimsOK(Burned(saved, w, amount))
<1> DEFINE b == WithdrawalBook[w]
           n == [saved.books[b] EXCEPT !.units = @ - Units[w], !.cash = @ - amount]
<1>1. Burned(saved, w, amount) = [saved EXCEPT !.books[b] = n, !.withdrawals[w].status = "PAID"]
  BY DEF Burned
<1> HIDE DEF n
<1> QED BY <1>1 DEF ClaimsOK

\* Payouts and fee payments keep the claims.
LEMMA PayClaims ==
    ASSUME IInv, ClaimsOK(saved), PayOne \/ PayFees
    PROVE  ClaimsOK(saved')
<1>1. CASE PayOne
  <2>1. ASSUME NEW w PROVE ClaimsOK(Redeemed(w))
    <3> DEFINE t == Burned(saved, w, saved.withdrawals[w].payout)
    <3>1. ClaimsOK(t) /\ Redeemed(w) = [t EXCEPT !.books[WithdrawalBook[w]].credited = @ + saved.withdrawals[w].payout]
      BY BurnedClaims DEF Redeemed
    <3> HIDE DEF t
    <3> QED BY <3>1 DEF ClaimsOK
  <2>2. \/ Throw(saved, "other") \/ \E w : saved' = Redeemed(w) \/ \E x, args : CallStep(saved, x, args)
    BY <1>1 DEF PayOne
  <2> QED BY <2>1, <2>2, ThrowClaims, CallClaims DEF Throw
<1>2. CASE PayFees
  <2> DEFINE closed == IF FeeApplied(saved, book) THEN [saved EXCEPT !.books[book].feeAmount = 0] ELSE saved
             k == closed.books[book]
             n == [k EXCEPT !.feeTry = @ + 1, !.feeAmount = k.fees]
             begun == IF k.feeAmount > 0 THEN closed ELSE [closed EXCEPT !.books[book] = n]
  <2>1. saved' = closed \/ \E x, args : CallStep(begun, x, args)
    BY <1>2 DEF PayFees
  <2>2. ClaimsOK(closed)
    BY DEF ClaimsOK
  <2> HIDE DEF closed, n
  <2>3. ClaimsOK(begun)
    BY <2>2 DEF ClaimsOK
  <2> HIDE DEF begun
  <2> QED BY <2>1, <2>2, <2>3, CallClaims
<1> QED BY <1>1, <1>2

\* The work on settlements and fees keeps the claims.
LEMMA SettleClaims == ASSUME IInv, ClaimsOK(saved), Settle PROVE ClaimsOK(saved')
<1>1. NothingDue => ClaimsOK(saved')
  BY DEF NothingDue
<1>2. SettlementJob => ClaimsOK(saved')
  <2> DEFINE x == SettlementOf(saved, book)
             n == [x EXCEPT !.attempt = @ + 1, !.costBase = NoBase, !.costApplied = FALSE]
  <2>1. SettlementJob => saved' = saved \/ saved' = [saved EXCEPT !.books[book].settlement = n]
    BY DEF SettlementJob
  <2> HIDE DEF n
  <2> QED BY <2>1 DEF ClaimsOK
<1>3. CloseSettlement \/ FeePaid => ClaimsOK(saved')
  BY DEF CloseSettlement, FeePaid, ClaimsOK
<1> QED BY <1>1, <1>2, <1>3, OpenSettlementClaims, CloseClaims, PriceClaims, PayClaims DEF Settle

--------------------------------------------------------------------------------
(* The rest of the tick, and the claims as a theorem. *)

\* The submitter keeps the claims.
LEMMA SubmittingClaims == ASSUME IInv, ClaimsOK(saved), Submitting PROVE ClaimsOK(saved')
<1>1. \/ UNCHANGED saved
      \/ \E records, error : ThrowKnowing(records, saved, error)
  BY DEF Submitting, SubmitKnown, SubmitSign, SubmitAnswered, SubmitSync, Throw, tickVars
<1> QED BY <1>1, ThrowClaims

\* applyEffect() keeps the claims.
LEMMA ApplyClaims == ASSUME IInv, ClaimsOK(saved), ApplyStep PROVE ClaimsOK(saved')
<1>1. cur \in StepIds /\ record[cur] = "ok" /\ saved.steps[cur].st = "saved"
  BY DEF ApplyStep, IInv, ControlOK, CallOK, LocationOK, Calls
<1>2. (MayApply(saved, cur) /\ saved' = Applied(saved, cur)) \/ Throw(saved, "other")
  BY DEF ApplyStep
<1> QED BY <1>1, <1>2, SavedClaims, ThrowClaims DEF Throw

\* The recovery keeps the claims.
LEMMA RecoverClaims == ASSUME IInv, ClaimsOK(saved), NEW x \in StepIds, Recover(x) PROVE ClaimsOK(saved')
<1> DEFINE s == Applied(saved, x)
<1>1. record[x] = "ok" /\ saved.steps[x].st = "saved"
  BY DEF Recover, NextToRecover, Recoverable
<1>2. \/ UNCHANGED saved
      \/ MayApply(saved, x) /\ (saved' = s \/ saved' = [s EXCEPT !.requests[Job(x)].fill = TRUE])
  BY DEF Recover
<1>3. MayApply(saved, x) => ClaimsOK(s)
  BY <1>1, SavedClaims
<1> HIDE DEF s
<1> QED BY <1>2, <1>3 DEF ClaimsOK

\* The tick keeps the claims.
LEMMA TickClaims == ASSUME IInv, ClaimsOK(saved), Tick PROVE ClaimsOK(saved')
<1>1. TickBegin \/ TickSyncThrows \/ TickSynced \/ OpenSection \/ Recovered \/ (\E x \in StepIds : TickSync(x))
         => UNCHANGED saved
  BY DEF TickBegin, TickSyncThrows, TickSynced, OpenSection, Recovered, TickSync
<1> QED BY <1>1, OrdersClaims, SettleClaims, SubmittingClaims, ApplyClaims, RecoverClaims DEF Tick

\* Troubles keep the claims.
LEMMA TroublesClaims == ASSUME IInv, ClaimsOK(saved), Troubles PROVE ClaimsOK(saved')
<1>1. RecoverFails \/ Crash \/ Expire \/ PriceMoves => UNCHANGED saved
  BY DEF RecoverFails, Crash, Expire, PriceMoves
<1>2. SubmitFails \/ SubmitGivesUp \/ ApplyFails => \E error : Throw(saved, error)
  BY DEF SubmitFails, SubmitGivesUp, ApplyFails
<1>3. ReadFails => Throw(WithFill(saved), "other")
  BY DEF ReadFails
<1>4. ClaimsOK(WithFill(saved))
  BY FilledClaims, SamePoolClaims
<1> QED BY <1>1, <1>2, <1>3, <1>4, ThrowClaims DEF Troubles, Throw

\* Customers, the clock and the chain do not touch the claims.
LEMMA OthersClaims ==
    ASSUME ClaimsOK(saved), Customers \/ Mature \/ Overdue \/ Mining \/ UNCHANGED vars
    PROVE  ClaimsOK(saved')
<1>1. ASSUME NEW r, Accept(r) PROVE ClaimsOK(saved')
  BY <1>1 DEF Accept, ClaimsOK
<1>2. ASSUME NEW w, RequestWithdrawal(w) \/ CancelWithdrawal(w) PROVE ClaimsOK(saved')
  BY <1>2 DEF RequestWithdrawal, CancelWithdrawal, ClaimsOK
<1>3. ASSUME NEW b, Restart(b) PROVE ClaimsOK(saved')
  <2>1. \E e : saved' = [saved EXCEPT !.books[b] = e]
    BY <1>3 DEF Restart
  <2> QED BY <2>1 DEF ClaimsOK
<1>4. Mature \/ Overdue \/ Mining \/ UNCHANGED vars => UNCHANGED saved
  BY DEF Mature, Overdue, Mining, MineOk, MineRevert, vars
<1> QED BY <1>1, <1>2, <1>3, <1>4 DEF Customers

\* Nobody has a claim initially.
LEMMA InitClaims == ASSUME Init PROVE ClaimsOK(saved)
<1> DEFINE e == [b \in Books |-> 0]
           T == {U \in SUBSET Books : SumFunctionOnSet(e, U) = 0}
<1>1. saved.pool = EmptyPool(FirstPrice) /\ saved \in State
  BY InitFacts, InitState
<1>2. saved.pool.equity = e /\ saved.pool.checkpoint.equity = 0 /\ "pool" \in DOMAIN saved
  BY <1>1 DEF EmptyPool, State
<1>3. T = SUBSET Books
  <2>1. {} \in T
    BY SumEmpty
  <2>2. ASSUME NEW U \in T, NEW x \in Books \ U PROVE U \cup {x} \in T
    <3>1. IsFiniteSet(U) /\ x \notin U /\ \A y \in U \cup {x} : e[y] \in Int
      BY BooksAssumption, FS_Subset
    <3>2. SumFunctionOnSet(e, U) = 0 /\ e[x] = 0 /\ U \cup {x} \in SUBSET Books
      OBVIOUS
    <3>3. SumFunctionOnSet(e, U \cup {x}) = e[x] + SumFunctionOnSet(e, U)
      <4> HIDE DEF e, T
      <4> QED BY <3>1, SumAdd
    <3> QED BY <3>2, <3>3
  <2>3. T \in SUBSET (SUBSET Books)
    OBVIOUS
  <2> HIDE DEF T
  <2> QED BY <2>1, <2>2, <2>3, BooksAssumption, InductionOnSubsets
<1>4. SumFunctionOnSet(e, Books) = 0
  BY <1>3
<1> QED BY <1>2, <1>4 DEF ClaimsOK, Claimed, TotalClaims

\* The claims on the account add up to its equity as it was last read, at every step.
THEOREM ClaimsInvariance == Spec => [](IInv /\ ClaimsOK(saved))
<1>1. Init => IInv /\ ClaimsOK(saved)
  BY InitKept, InitClaims
<1>2. IInv /\ ClaimsOK(saved) /\ [Next]_vars => (IInv /\ ClaimsOK(saved))'
  BY NextKept, TickClaims, TroublesClaims, OthersClaims DEF Next
<1> QED BY <1>1, <1>2, PTL DEF Spec

--------------------------------------------------------------------------------
(* BooksReconcile in the words of the invariant. *)

\* The sums of the property and of the invariant.
LEMMA SumsAgree ==
    ASSUME NEW S, IsFiniteSet(S), NEW f
    PROVE  SumFunctionOnSet([x \in S |-> f[x]], S) = SumFunctionOnSet(f, S)
<1> DEFINE g == [x \in S |-> f[x]]
<1>1. \A x \in S : g[x] = f[x]
  OBVIOUS
<1> HIDE DEF g
<1>2. SumFunctionOnSet(g, S) = SumFunctionOnSet(f, S)
  BY <1>1, SumSame
<1> QED BY <1>2 DEF g

\* The invariant says of the vault what VaultReconciles says.
LEMMA VaultInWords == ASSUME IInv PROVE VaultReconciles
<1> DEFINE Out == UnappliedOf(saved, mined, OutKinds)
           In == UnappliedOf(saved, mined, InKinds)
           f == Amounts(saved)
           h == Held(saved)
           amount(x) == saved.steps[x].amount
           held(b) == saved.books[b].pending + saved.books[b].cash + saved.books[b].credited
<1>1. IsFiniteSet(Out) /\ IsFiniteSet(In) /\ Out \subseteq StepIds /\ In \subseteq StepIds
  BY DEF IInv, FileOK, VaultOK, UnappliedOf
<1>2. vault + SumFunctionOnSet(f, Out) = SumFunctionOnSet(h, Books) + SumFunctionOnSet(f, In)
  BY DEF IInv, FileOK, VaultOK
<1>3. Out = Unapplied({"pay", "fee", "fund"}) /\ In = Unapplied({"back", "collect"})
  BY DEF UnappliedOf, Unapplied, OutKinds, InKinds
<1>4. ASSUME NEW S, S \subseteq StepIds PROVE [x \in S |-> amount(x)] = [x \in S |-> f[x]]
  BY <1>4 DEF Amounts
<1>5. [b \in Books |-> held(b)] = [b \in Books |-> h[b]]
  BY DEF Held
<1>6. VaultReconciles <=> vault + SumFunctionOnSet([x \in Out |-> amount(x)], Out)
                            = SumFunctionOnSet([b \in Books |-> held(b)], Books)
                                + SumFunctionOnSet([x \in In |-> amount(x)], In)
  <2>1. VaultReconciles <=>
           vault + SumFunctionOnSet([x \in Unapplied({"pay", "fee", "fund"}) |-> amount(x)], Unapplied({"pay", "fee", "fund"}))
                            = SumFunctionOnSet([b \in Books |-> held(b)], Books)
                                + SumFunctionOnSet([x \in Unapplied({"back", "collect"}) |-> amount(x)],
                                                   Unapplied({"back", "collect"}))
    BY DEF VaultReconciles, SumOf
  <2> HIDE DEF amount, held, Out, In
  <2> QED BY <1>3, <2>1
<1> HIDE DEF Out, In, f, h, amount, held
<1>7. /\ SumFunctionOnSet([x \in Out |-> f[x]], Out) = SumFunctionOnSet(f, Out)
      /\ SumFunctionOnSet([x \in In |-> f[x]], In) = SumFunctionOnSet(f, In)
      /\ SumFunctionOnSet([b \in Books |-> h[b]], Books) = SumFunctionOnSet(h, Books)
  BY <1>1, BooksAssumption, SumsAgree
<1>8. [x \in Out |-> amount(x)] = [x \in Out |-> f[x]] /\ [x \in In |-> amount(x)] = [x \in In |-> f[x]]
  BY <1>1, <1>4
<1> QED BY <1>2, <1>5, <1>6, <1>7, <1>8

\* The operator's books account for all the money at every step of every execution: the
\* vault's up to the transactions that are confirmed and not applied, the exchange's as it
\* was last read.
THEOREM BooksAlwaysReconcile == Spec => []BooksReconcile
<1>1. IInv /\ ClaimsOK(saved) => BooksReconcile
  BY VaultInWords DEF BooksReconcile, ClaimsAddUp, ClaimsOK, Claimed
<1> QED BY <1>1, ClaimsInvariance, PTL

--------------------------------------------------------------------------------
(* Payouts on their way. *)

\* A payout on its way is one that the invariant calls unsettled.
LEMMA PayoutsAreUnsettled ==
    ASSUME IInv, NEW x \in Payouts
    PROVE  x \in StepIds /\ Kind(x) = "pay" /\ Unsettled(saved, record, x)
<1>1. x \in StepIds /\ Kind(x) = "pay" /\ (record[x] = "signed" \/ (mined[x] = "ok" /\ saved.steps[x].st # "applied"))
  BY DEF Payouts, Unapplied, InFlight
<1>2. record[x] \in {"absent", "signed", "ok", "reverted"}
  BY <1>1 DEF IInv, ChainOK, StepsTypeOK, Outcomes
<1>3. (record[x] \in Outcomes => mined[x] = record[x]) /\ (record[x] = "absent" => mined[x] = "no")
  BY <1>1 DEF IInv, FileOK, RecordsOK
<1> QED BY <1>1, <1>2, <1>3 DEF Unsettled, Outcomes

\* A payout on its way is for a redemption that waits for it at a fixed price, and its
\* units are there to be burned: it is not paid twice, and nobody cancels under it.
THEOREM PayoutsAreAwaited == Spec => []SignedPayoutIsAwaited
<1>1. ASSUME IInv, NEW x \in Payouts
      PROVE  /\ saved.withdrawals[Job(x)].status = "SETTLING"
             /\ saved.books[BookOf(x)].settlement.priced
             /\ Units[Job(x)] <= saved.books[BookOf(x)].units
  <2>1. x \in StepIds /\ Kind(x) = "pay" /\ Unsettled(saved, record, x)
    BY <1>1, PayoutsAreUnsettled
  <2>2. Job(x) \in Withdrawals /\ BookOf(x) = WithdrawalBook[Job(x)] /\ BookOf(x) \in Books
    BY <2>1, StepParts
  <2>3. Payable(saved, Job(x))
    BY <1>1, <2>1 DEF IInv, FileOK, PayOK
  <2>4. saved.withdrawals[Job(x)].status = "SETTLING" /\ saved.books[BookOf(x)].settlement.priced
    BY <2>2, <2>3 DEF Payable
  <2>5. Units[Job(x)] <= saved.books[BookOf(x)].units
    <3> DEFINE w == Job(x)
               b == BookOf(x)
    <3>1. {w} \in SUBSET OpenOf(saved, b) /\ {w} # {}
      BY <2>2, <2>4 DEF OpenOf
    <3>2. FileOK(saved, record, mined, vault) /\ b \in Books /\ w \in Withdrawals
      BY <1>1, <2>2 DEF IInv
    <3>3. SumFunctionOnSet(Units, {w}) = Units[w]
      <4>1. IsFiniteSet({w}) /\ w \in {w} /\ \A y \in {w} : Units[y] \in Int
        <5>1. Units[w] \in Nat \ {0}
          BY <3>2, WithdrawalsAssumption
        <5> HIDE DEF w
        <5>2. IsFiniteSet({w})
          BY FS_Singleton
        <5> QED BY <5>1, <5>2
      <4>2. SumFunctionOnSet(Units, {w}) = Units[w] + SumFunctionOnSet(Units, {w} \ {w})
        BY <4>1, SumTake
      <4>3. SumFunctionOnSet(Units, {w} \ {w}) = 0
        BY SumEmpty
      <4> QED BY <4>1, <4>2, <4>3
    <3> HIDE DEF w, b
    <3>4. SumFunctionOnSet(Units, {w}) <= saved.books[b].units
      BY <3>1, <3>2, UnitsThere
    <3> QED BY <3>3, <3>4 DEF w, b
  <2> QED BY <2>4, <2>5
<1>2. IInv => SignedPayoutIsAwaited
  BY <1>1 DEF SignedPayoutIsAwaited
<1> QED BY <1>2, Invariance, PTL
================================================================================
