----------------------------- MODULE CashAccounts -----------------------------
(***************************************************************************)
(* Customers' platform balances: top-ups, allocations to strategies, cash  *)
(* withdrawals and their payment from the vault.                           *)
(*                                                                         *)
(* deploy/tee/operator/investments.mjs keeps everything in one sealed file *)
(* (`saved').  Every operation runs in the queue (serial), so account      *)
(* requests and the sections of the operator's tick exclude each other,    *)
(* but a section awaits the chain in the middle and the process may die at *)
(* every await.  A payment is a step (execution.mjs step): its request is  *)
(* saved, submitted once, and its effect on the balance is saved together  *)
(* with the mark `applied'.  A section changes its copy of the state only  *)
(* where it saves it before the next await, so that copy needs no variable *)
(* of its own.                                                             *)
(*                                                                         *)
(* What a strategy does with allocated money is the subject of other       *)
(* modules.                                                                *)
(***************************************************************************)
EXTENDS Naturals, FiniteSets, Functions

CONSTANTS
    Wallets,            \* customers; each has one funding wallet and one cash book
    Keys,               \* account requests: a userId with a requestId
    KeyOwner,           \* the customer of each key
    Intents,            \* deposit ids
    Amounts,            \* amounts a customer may name
    NoWallet, NoKey, NoRequest,
    InterruptionLimit   \* how often a section may be cut short

\* What a customer asks under a key (its fingerprint).  A withdrawal gets the id
\* of the request that created it.
Requests ==
    [action : {"COMPLETE"}, intent : Intents]
        \cup [action : {"ALLOCATE", "WITHDRAW"}, amount : Amounts]
        \cup [action : {"CANCEL"}, target : Keys]

ASSUME KeysAssumption == KeyOwner \in [Keys -> Wallets]
ASSUME FiniteAssumption == IsFiniteSet(Keys) /\ IsFiniteSet(Intents)
ASSUME AmountsAssumption == Amounts \subseteq Nat \ {0}
ASSUME LimitAssumption == InterruptionLimit \in Nat
ASSUME NoneAssumption == NoWallet \notin Wallets /\ NoKey \notin Keys /\ NoRequest \notin Requests

Intent == [status : {"none", "PREPARED", "CONFIRMED"},
           wallet : Wallets \cup {NoWallet}, amount : Nat]
NoIntent == [status |-> "none", wallet |-> NoWallet, amount |-> 0]

\* A withdrawal with the one step of its payment job.
Withdrawal == [status : {"none", "REQUESTED", "SETTLING", "PAID", "CANCELLED"},
               amount : Nat, step : {"none", "saved", "applied"}]
NoWithdrawal == [status |-> "none", amount |-> 0, step |-> "none"]

State == [pending : [Wallets -> Nat],           \* the cash book's balance
          allocated : [Wallets -> Nat],         \* credited to strategy books
          intents : [Intents -> Intent],
          withdrawals : [Keys -> Withdrawal],
          accountRequests : [Keys -> Requests \cup {NoRequest}]]

EmptyState == [pending |-> [w \in Wallets |-> 0],
               allocated |-> [w \in Wallets |-> 0],
               intents |-> [i \in Intents |-> NoIntent],
               withdrawals |-> [k \in Keys |-> NoWithdrawal],
               accountRequests |-> [k \in Keys |-> NoRequest]]

VARIABLES
    record, mined,  \* the submitter and the chain (ExecutionSteps); a key names
                    \* the payment of its withdrawal
    deposited,      \* deposit ids whose Deposit event is on the chain
    saved,          \* the sealed investments file
    pc,             \* where the tick is; "idle": the queue is free
    todo,           \* cash books the tick has still to visit
    book,           \* whose cash book the section under way handles
    due,            \* withdrawals that section has still to pay
    paying,         \* the one it is paying
    interruptions

vars == <<record, mined, deposited, saved, pc, todo, book, due, paying, interruptions>>
chainVars == <<record, mined>>
tickVars == <<pc, todo, book, due, paying>>

INSTANCE ExecutionSteps WITH StepIds <- Keys

Locations == {"idle", "sync", "recover", "settle", "step", "submit", "await", "apply"}

Init ==
    /\ StepsInit
    /\ deposited = {} /\ saved = EmptyState
    /\ pc = "idle" /\ todo = {} /\ book = NoWallet /\ due = {} /\ paying = NoKey
    /\ interruptions = 0

--------------------------------------------------------------------------------
(* Account requests. *)

WithdrawalsOf(w) == {k \in Keys : KeyOwner[k] = w /\ saved.withdrawals[k].status # "none"}

\* Withdrawals that still hold part of the balance.
Open(w) == {k \in WithdrawalsOf(w) : saved.withdrawals[k].status \in {"REQUESTED", "SETTLING"}}

Amount == [k \in Keys |-> saved.withdrawals[k].amount]

\* cashBalance().
Reserved(w) == SumFunctionOnSet(Amount, Open(w))
Available(w) == saved.pending[w] - Reserved(w)

\* PREPARE_TOPUP: a fresh deposit id for a customer.
Prepare(i, w, amount) ==
    /\ pc = "idle" /\ saved.intents[i].status = "none"
    /\ saved' = [saved EXCEPT !.intents[i] =
                    [status |-> "PREPARED", wallet |-> w, amount |-> amount]]
    /\ UNCHANGED <<chainVars, deposited, tickVars, interruptions>>

\* The customer deposits on the chain; the vault takes a deposit id once.
DepositOnChain(i) ==
    /\ saved.intents[i].status = "PREPARED" /\ i \notin deposited
    /\ deposited' = deposited \cup {i}
    /\ UNCHANGED <<chainVars, saved, tickVars, interruptions>>

\* COMPLETE_TOPUP: the receipt is there and the intent was not confirmed before.
\* (A confirmed intent is answered without recording the request.)
Complete(s, w, r) ==
    /\ s.intents[r.intent].status = "PREPARED" /\ s.intents[r.intent].wallet = w
    /\ r.intent \in deposited
    /\ saved' = [s EXCEPT !.pending[w] = @ + s.intents[r.intent].amount,
                          !.intents[r.intent].status = "CONFIRMED"]

\* ALLOCATE: the strategy is there and ACTIVE (allocateCash refuses otherwise).
Allocate(s, w, r) ==
    /\ r.amount <= Available(w)
    /\ saved' = [s EXCEPT !.pending[w] = @ - r.amount, !.allocated[w] = @ + r.amount]

\* WITHDRAW_CASH (fault variant: what is being settled counts as available).
WithdrawCash_IgnoresSettling(s, k, r) ==
    /\ r.amount <= saved.pending[KeyOwner[k]]
                     - SumFunctionOnSet(Amount,
                           {j \in Open(KeyOwner[k]) : saved.withdrawals[j].status = "REQUESTED"})
    /\ saved' = [s EXCEPT !.withdrawals[k] =
                    [status |-> "REQUESTED", amount |-> r.amount, step |-> "none"]]
WithdrawCash(s, k, r) ==
    /\ r.amount <= Available(KeyOwner[k])
    /\ saved' = [s EXCEPT !.withdrawals[k] =
                    [status |-> "REQUESTED", amount |-> r.amount, step |-> "none"]]

\* CANCEL_CASH_WITHDRAWAL (fault variant: one that is being paid may be cancelled).
CancelCash_AnyOpen(s, w, r) ==
    /\ r.target \in Open(w)
    /\ saved' = [s EXCEPT !.withdrawals[r.target].status = "CANCELLED"]
CancelCash(s, w, r) ==
    /\ r.target \in WithdrawalsOf(w)
    /\ s.withdrawals[r.target].status = "REQUESTED" /\ s.withdrawals[r.target].step = "none"
    /\ saved' = [s EXCEPT !.withdrawals[r.target].status = "CANCELLED"]

\* Fault variant: an answered key is not looked up.
Fresh_Always(k) == TRUE

\* The key was not used before (prior); otherwise the recorded answer is returned,
\* or REQUEST_ID_REUSED, and nothing changes.
Fresh(k) == saved.accountRequests[k] = NoRequest

\* accountRequest(): effect and answer are written in one save.
AccountRequest(k, r) ==
    /\ pc = "idle" /\ Fresh(k)
    /\ LET s == [saved EXCEPT !.accountRequests[k] = r]
           w == KeyOwner[k]
       IN  CASE r.action = "COMPLETE" -> Complete(s, w, r)
             [] r.action = "ALLOCATE" -> Allocate(s, w, r)
             [] r.action = "WITHDRAW" -> WithdrawCash(s, k, r)
             [] r.action = "CANCEL"   -> CancelCash(s, w, r)
    /\ UNCHANGED <<chainVars, deposited, tickVars, interruptions>>

--------------------------------------------------------------------------------
(* The operator's tick. *)

EndTick == pc' = "idle" /\ todo' = {} /\ book' = NoWallet /\ due' = {} /\ paying' = NoKey

TickBegin ==
    /\ pc = "idle" /\ todo = {}
    /\ pc' = "sync"
    /\ UNCHANGED <<chainVars, deposited, saved, todo, book, due, paying, interruptions>>

\* sync() settles what is in flight; a revert makes it throw.
TickSync(s) ==
    /\ pc = "sync" /\ Learn(s)
    /\ IF mined[s] = "ok" THEN UNCHANGED tickVars ELSE EndTick
    /\ UNCHANGED <<deposited, saved, interruptions>>

TickSynced ==
    /\ pc = "sync" /\ InFlight = {}
    /\ pc' = "idle" /\ todo' = Wallets
    /\ UNCHANGED <<chainVars, deposited, saved, book, due, paying, interruptions>>

\* Nothing mined yet, or a provider error: the next tick tries again.
TickSyncThrows ==
    /\ pc = "sync" /\ InFlight # {}
    /\ EndTick
    /\ UNCHANGED <<chainVars, deposited, saved, interruptions>>

\* The section of one cash book.
OpenBook(w) ==
    /\ pc = "idle" /\ w \in todo
    /\ pc' = "recover" /\ todo' = todo \ {w} /\ book' = w
    /\ UNCHANGED <<chainVars, deposited, saved, due, paying, interruptions>>

\* applyEffect() for a payment, with the marks: debitPending, PAID, applied.
Applied(k) ==
    [saved EXCEPT !.pending[KeyOwner[k]] = @ - saved.withdrawals[k].amount,
                  !.withdrawals[k].status = "PAID",
                  !.withdrawals[k].step = "applied"]

\* debitPending() throws when the balance does not cover the payment.
MayDebit(k) == saved.withdrawals[k].amount <= saved.pending[KeyOwner[k]]

Unapplied(w) ==
    {k \in WithdrawalsOf(w) : saved.withdrawals[k].step = "saved" /\ record[k] = "ok"}

\* Saved effects of confirmed payments come first.  Nothing catches an error
\* here: the tick would end.
Recover(k) ==
    /\ pc = "recover" /\ k \in Unapplied(book)
    /\ IF MayDebit(k) THEN saved' = Applied(k) /\ UNCHANGED tickVars ELSE EndTick /\ UNCHANGED saved
    /\ UNCHANGED <<chainVars, deposited, interruptions>>

\* Fault variant: only withdrawals never tried before are listed.
Recovered_OnlyNew ==
    /\ pc = "recover" /\ Unapplied(book) = {}
    /\ pc' = "settle" /\ due' = {k \in Open(book) : saved.withdrawals[k].status = "REQUESTED"}
    /\ UNCHANGED <<chainVars, deposited, saved, todo, book, paying, interruptions>>

\* settleCash(): the open withdrawals, listed once.
Recovered ==
    /\ pc = "recover" /\ Unapplied(book) = {}
    /\ pc' = "settle" /\ due' = Open(book)
    /\ UNCHANGED <<chainVars, deposited, saved, todo, book, paying, interruptions>>

\* Next withdrawal: SETTLING and its job are saved.
BeginPayment(k) ==
    /\ pc = "settle" /\ k \in due
    /\ saved' = [saved EXCEPT !.withdrawals[k].status = "SETTLING"]
    /\ pc' = "step" /\ paying' = k /\ due' = due \ {k}
    /\ UNCHANGED <<chainVars, deposited, todo, book, interruptions>>

\* Fault variant: the request is submitted before the step is saved.
SaveStep_Late ==
    /\ pc = "step"
    /\ pc' = IF record[paying] = "ok" THEN "apply" ELSE "submit"
    /\ UNCHANGED <<chainVars, deposited, saved, todo, book, due, paying, interruptions>>

\* step(): the exact request is saved once; what has a receipt is not submitted.
SaveStep ==
    /\ pc = "step"
    /\ saved' = [saved EXCEPT !.withdrawals[paying].step = "saved"]
    /\ pc' = IF record[paying] = "ok" THEN "apply" ELSE "submit"
    /\ UNCHANGED <<chainVars, deposited, todo, book, due, paying, interruptions>>

\* A withdrawal's error is noted and the section goes on with the next one.
NextPayment == pc' = "settle" /\ paying' = NoKey /\ UNCHANGED <<todo, book, due>>

\* submit() begins with sync(): earlier transactions are settled first.
SubmitSync(s) ==
    /\ pc = "submit" /\ Learn(s)
    /\ IF mined[s] = "ok" THEN UNCHANGED tickVars ELSE NextPayment
    /\ UNCHANGED <<deposited, saved, interruptions>>

\* submit() of an id that has a receipt by now: its record, or MINED_REVERT.
SubmitKnown ==
    /\ pc = "submit" /\ InFlight = {} /\ record[paying] \in Outcomes
    /\ IF record[paying] = "ok"
       THEN pc' = "apply" /\ UNCHANGED <<todo, book, due, paying>>
       ELSE NextPayment
    /\ UNCHANGED <<chainVars, deposited, saved, interruptions>>

SubmitSign ==
    /\ pc = "submit" /\ Sign(paying)
    /\ pc' = "await"
    /\ UNCHANGED <<deposited, saved, todo, book, due, paying, interruptions>>

\* Fault variant: any receipt counts.
SubmitAnswered_AnyOutcome ==
    /\ pc = "await" /\ Learn(paying)
    /\ pc' = "apply"
    /\ UNCHANGED <<deposited, saved, todo, book, due, paying, interruptions>>

\* The receipt arrives while submit() polls ...
SubmitAnswered ==
    /\ pc = "await" /\ Learn(paying)
    /\ IF mined[paying] = "ok"
       THEN pc' = "apply" /\ UNCHANGED <<todo, book, due, paying>>
       ELSE NextPayment
    /\ UNCHANGED <<deposited, saved, interruptions>>

\* Fault variant: a failed attempt gives the withdrawal back to the customer.
SubmitThrows_Reopens ==
    /\ pc \in {"submit", "await"}
    /\ NextPayment
    /\ saved' = [saved EXCEPT !.withdrawals[paying] =
                    [status |-> "REQUESTED", amount |-> @.amount, step |-> "none"]]
    /\ UNCHANGED <<chainVars, deposited, interruptions>>

\* ... or submit() gives up, before or after signing: the outcome is unknown.
SubmitThrows ==
    /\ pc \in {"submit", "await"}
    /\ NextPayment
    /\ UNCHANGED <<chainVars, deposited, saved, interruptions>>

\* step(): effect and mark in one save.
ApplyPayment ==
    /\ pc = "apply"
    /\ saved' = IF MayDebit(paying) THEN Applied(paying) ELSE saved
    /\ NextPayment
    /\ UNCHANGED <<chainVars, deposited, interruptions>>

CloseBook ==
    /\ pc = "settle" /\ due = {}
    /\ pc' = "idle" /\ book' = NoWallet
    /\ UNCHANGED <<chainVars, deposited, saved, todo, due, paying, interruptions>>

\* The process dies and restarts, or the store refuses a save and the one in the
\* catch block: the section and the rest of the tick are gone.
Interrupt ==
    /\ pc # "idle" \/ todo # {}
    /\ interruptions < InterruptionLimit
    /\ interruptions' = interruptions + 1
    /\ EndTick
    /\ UNCHANGED <<chainVars, deposited, saved>>

MinePayment(k) ==
    /\ Mine(k)
    /\ UNCHANGED <<deposited, saved, tickVars, interruptions>>

--------------------------------------------------------------------------------

Customer ==
    \/ \E i \in Intents, w \in Wallets, a \in Amounts : Prepare(i, w, a)
    \/ \E i \in Intents : DepositOnChain(i)
    \/ \E k \in Keys, r \in Requests : AccountRequest(k, r)

Tick ==
    \/ TickBegin \/ TickSynced \/ TickSyncThrows
    \/ Recovered \/ SaveStep \/ SubmitKnown \/ SubmitSign \/ SubmitAnswered
    \/ ApplyPayment \/ CloseBook
    \/ \E w \in Wallets : OpenBook(w)
    \/ \E k \in Keys : TickSync(k) \/ Recover(k) \/ BeginPayment(k) \/ SubmitSync(k)

Next ==
    \/ Customer \/ Tick \/ SubmitThrows \/ Interrupt
    \/ \E k \in Keys : MinePayment(k)

Spec == Init /\ [][Next]_vars

\* The tick is scheduled again and again (server.mjs) and gives up waiting after
\* maxPolls; the chain mines what it was given; provider errors and an empty
\* operator wallet do not last for ever.
Fairness ==
    /\ WF_vars(Tick \/ SubmitThrows)
    /\ \A k \in Keys :
          /\ WF_vars(MinePayment(k))
          /\ SF_vars(paying = k /\ SubmitSign)
          /\ SF_vars(TickSync(k))

FairSpec == Spec /\ Fairness

--------------------------------------------------------------------------------
(* Properties. *)

TypeOK ==
    /\ StepsTypeOK
    /\ deposited \subseteq Intents /\ saved \in State
    /\ pc \in Locations /\ todo \subseteq Wallets /\ book \in Wallets \cup {NoWallet}
    /\ due \subseteq Keys /\ paying \in Keys \cup {NoKey}
    /\ interruptions \in 0 .. InterruptionLimit
    /\ pc \in {"step", "submit", "await", "apply"} => paying \in Keys
    /\ pc \in {"recover", "settle", "step", "submit", "await", "apply"} => book \in Wallets

\* What moved a customer's balance: confirmed deposits, answered allocations and
\* paid withdrawals.
Credits(w) == {i \in Intents : saved.intents[i].status = "CONFIRMED" /\ saved.intents[i].wallet = w}
Moves(w) == {k \in Keys : /\ KeyOwner[k] = w /\ saved.accountRequests[k] # NoRequest
                          /\ saved.accountRequests[k].action = "ALLOCATE"}
Paid(w) == {k \in WithdrawalsOf(w) : saved.withdrawals[k].status = "PAID"}

Credited(w) == SumFunction([i \in Credits(w) |-> saved.intents[i].amount])
Moved(w) == SumFunction([k \in Moves(w) |-> saved.accountRequests[k].amount])
PaidOut(w) == SumFunctionOnSet(Amount, Paid(w))

\* A customer's balance is what the confirmed deposits, the answered allocations
\* and the paid withdrawals say, each counted once, after any retries of requests
\* and any interrupted payments.
BalanceMatchesHistory ==
    \A w \in Wallets :
        /\ Credited(w) = saved.pending[w] + Moved(w) + PaidOut(w)
        /\ saved.allocated[w] = Moved(w)
        /\ Credits(w) \subseteq deposited

\* The open withdrawals of a customer never exceed the balance: cashBalance() does
\* not report CASH_ACCOUNTING_MISMATCH and no payment fails when it is booked.
ReservedIsCovered == \A w \in Wallets : Reserved(w) <= saved.pending[w]

\* A withdrawal the customer was told is cancelled is never paid on the chain.
CancelledIsNeverPaid ==
    \A k \in Keys : saved.withdrawals[k].status = "CANCELLED" =>
        record[k] = "absent" /\ mined[k] = "no"

\* The balance is debited only for payments the chain made.
PaidIsMined ==
    \A k \in Keys : saved.withdrawals[k].status = "PAID" => mined[k] = "ok"

\* "Persist exact calldata before broadcast": what is signed has its step in the
\* sealed file, so a restart finds it.
SignedWasSaved ==
    \A k \in Keys : record[k] # "absent" => saved.withdrawals[k].step # "none"

\* Once a payment is signed its amount is fixed and it only goes on to be paid.
PaymentIsCommitted ==
    [][\A k \in Keys : record[k] # "absent" =>
          /\ saved'.withdrawals[k].amount = saved.withdrawals[k].amount
          /\ saved'.withdrawals[k].status \in {"SETTLING", "PAID"}]_vars

\* Every withdrawal is paid in the end, unless it is cancelled in time or its
\* transaction reverts.
WithdrawalsComplete ==
    \A k \in Keys : saved.withdrawals[k].status = "REQUESTED"
        ~> saved.withdrawals[k].status \in {"PAID", "CANCELLED"} \/ record[k] = "reverted"
================================================================================
