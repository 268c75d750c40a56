-------------------------- MODULE CashAccountsProofs --------------------------
(***************************************************************************)
(* Proofs about CashAccounts, for any number of customers, keys, deposits  *)
(* and interruptions: payments of withdrawals are made once, only for what *)
(* was saved and not cancelled, and never taken back; a balance is what    *)
(* the deposits, allocations and payments say, and covers what is owed.    *)
(*                                                                         *)
(* The first invariant (IInv) ties each withdrawal to its record and its   *)
(* mark; the second (Money) adds that the sums agree, with SumTheorems for *)
(* what one more deposit, allocation or payment does to a sum.             *)
(***************************************************************************)
EXTENDS CashAccounts, SumTheorems, TLAPS

\* The withdrawals and the submitter, as far as they must have their shape here.
Shape ==
    /\ record \in [Keys -> {"absent", "signed"} \cup Outcomes]
    /\ mined \in [Keys -> {"no"} \cup Outcomes]
    /\ DOMAIN saved = {"pending", "allocated", "intents", "withdrawals", "accountRequests"}
    /\ DOMAIN saved.withdrawals = Keys
    /\ \A k \in Keys : DOMAIN saved.withdrawals[k] = {"status", "amount", "step"}
    /\ DOMAIN saved.accountRequests = Keys
    /\ due \subseteq Keys /\ paying \in Keys \cup {NoKey}

\* One withdrawal, given its record, its outcome and the request under its key.
WithdrawalOK(wd, rec, out, request) ==
    /\ rec \in Outcomes => out = rec
    /\ rec = "absent" => out = "no"
    /\ rec # "absent" => wd.step # "none" /\ wd.status \in {"SETTLING", "PAID"}
    /\ wd.step # "none" => wd.status \in {"SETTLING", "PAID"}
    /\ wd.step = "saved" => wd.status = "SETTLING"
    /\ wd.status = "PAID" => rec = "ok"
    /\ wd.status # "none" => request # NoRequest

\* Where the section is, and what that says of the withdrawals it handles.
SectionOK ==
    /\ pc \in {"step", "submit", "await", "apply"} =>
          /\ paying \in Keys /\ paying \notin due
          /\ saved.withdrawals[paying].status = "SETTLING"
    /\ pc \in {"submit", "await", "apply"} => saved.withdrawals[paying].step # "none"
    /\ pc = "apply" => record[paying] = "ok"
    /\ pc = "recover" => due = {}
    /\ pc = "idle" => due = {}
    /\ pc = "sync" => due = {}
    /\ \A k \in due : saved.withdrawals[k].status \in {"REQUESTED", "SETTLING"}

IInv ==
    /\ Shape
    /\ \A k \in Keys :
          WithdrawalOK(saved.withdrawals[k], record[k], mined[k], saved.accountRequests[k])
    /\ SectionOK

--------------------------------------------------------------------------------
(* Steps of the tick that change no file, no record and nothing on the chain. *)

\* The invariant holds in the beginning.
LEMMA InitIInv == ASSUME Init PROVE IInv
BY DEF Init, IInv, Shape, WithdrawalOK, SectionOK, StepsInit, EmptyState, NoWithdrawal, Outcomes

\* The tick goes on to the next payment.
LEMMA NextPaymentIInv ==
    ASSUME IInv, NextPayment, UNCHANGED <<record, mined, saved>>
    PROVE  IInv'
BY DEF IInv, Shape, WithdrawalOK, SectionOK, NextPayment, Outcomes

\* The tick ends.
LEMMA EndTickIInv ==
    ASSUME IInv, EndTick, UNCHANGED <<record, mined, saved>>
    PROVE  IInv'
BY DEF IInv, Shape, WithdrawalOK, SectionOK, EndTick, Outcomes

\* The receipt of a transaction is learned and nothing else changes.
LEMMA LearnIInv ==
    ASSUME IInv, NEW s \in Keys, Learn(s), saved' = saved, tickVars' = tickVars
    PROVE  IInv'
<1>1. Shape'
    BY DEF IInv, Shape, Learn, Outcomes, tickVars
<1>2. ASSUME NEW k \in Keys
      PROVE  WithdrawalOK(saved.withdrawals[k], record[k], mined[k], saved.accountRequests[k])'
    BY DEF IInv, Shape, WithdrawalOK, Learn, Outcomes
<1>3. SectionOK'
    BY DEF IInv, Shape, SectionOK, Learn, Outcomes, tickVars
<1>4. QED BY <1>1, <1>2, <1>3 DEF IInv

\* ... and the section goes somewhere else: on to apply, or to the next payment.
LEMMA LearnAndApply ==
    ASSUME IInv, Learn(paying), paying \in Keys, pc = "await", mined[paying] = "ok",
           pc' = "apply", UNCHANGED <<saved, todo, book, due, paying>>
    PROVE  IInv'
<1>1. Shape'
    BY DEF IInv, Shape, Learn, Outcomes
<1>2. ASSUME NEW k \in Keys
      PROVE  WithdrawalOK(saved.withdrawals[k], record[k], mined[k], saved.accountRequests[k])'
    BY DEF IInv, Shape, WithdrawalOK, Learn, Outcomes
<1>3. SectionOK'
    BY DEF IInv, Shape, SectionOK, Learn, Outcomes
<1>4. QED BY <1>1, <1>2, <1>3 DEF IInv

\* The outcome of a transaction is learned and the tick goes on.
LEMMA LearnAndNext ==
    ASSUME IInv, NEW s \in Keys, Learn(s), UNCHANGED saved, NextPayment
    PROVE  IInv'
<1>1. Shape'
    BY DEF IInv, Shape, Learn, Outcomes, NextPayment
<1>2. ASSUME NEW k \in Keys
      PROVE  WithdrawalOK(saved.withdrawals[k], record[k], mined[k], saved.accountRequests[k])'
    BY DEF IInv, Shape, WithdrawalOK, Learn, Outcomes
<1>3. SectionOK'
    BY DEF IInv, Shape, SectionOK, NextPayment
<1>4. QED BY <1>1, <1>2, <1>3 DEF IInv

\* The outcome of a transaction is learned and the tick ends.
LEMMA LearnAndEnd ==
    ASSUME IInv, NEW s \in Keys, Learn(s), UNCHANGED saved, EndTick
    PROVE  IInv'
<1>1. Shape'
    BY DEF IInv, Shape, Learn, Outcomes, EndTick
<1>2. ASSUME NEW k \in Keys
      PROVE  WithdrawalOK(saved.withdrawals[k], record[k], mined[k], saved.accountRequests[k])'
    BY DEF IInv, Shape, WithdrawalOK, Learn, Outcomes
<1>3. SectionOK'
    BY DEF IInv, Shape, SectionOK, EndTick
<1>4. QED BY <1>1, <1>2, <1>3 DEF IInv

--------------------------------------------------------------------------------
(* Steps that write the sealed file. *)

\* Deposits and allocations do not touch withdrawals.
LEMMA BalancesIInv ==
    ASSUME IInv, pc = "idle", UNCHANGED <<chainVars, tickVars>>,
           DOMAIN saved' = DOMAIN saved,
           saved'.withdrawals = saved.withdrawals,
           \/ saved'.accountRequests = saved.accountRequests
           \/ \E k \in Keys, r \in Requests :
                 saved'.accountRequests = [saved.accountRequests EXCEPT ![k] = r]
    PROVE  IInv'
<1>1. Shape'
    BY DEF IInv, Shape, chainVars, tickVars
<1>2. ASSUME NEW k \in Keys
      PROVE  saved.accountRequests[k] # NoRequest => saved'.accountRequests[k] # NoRequest
    BY NoneAssumption DEF IInv, Shape
<1>3. ASSUME NEW k \in Keys
      PROVE  WithdrawalOK(saved.withdrawals[k], record[k], mined[k], saved.accountRequests[k])'
    BY <1>2 DEF IInv, Shape, WithdrawalOK, chainVars
<1>4. SectionOK'
    BY DEF IInv, Shape, SectionOK, chainVars, tickVars
<1>5. QED BY <1>1, <1>3, <1>4 DEF IInv

\* A withdrawal is accepted.
LEMMA WithdrawCashIInv ==
    ASSUME IInv, pc = "idle", UNCHANGED <<chainVars, tickVars>>,
           NEW k \in Keys, NEW r \in Requests, Fresh(k),
           WithdrawCash([saved EXCEPT !.accountRequests[k] = r], k, r)
    PROVE  IInv'
<1> DEFINE wd == [status |-> "REQUESTED", amount |-> r.amount, step |-> "none"]
<1>1. /\ DOMAIN saved' = DOMAIN saved
      /\ saved'.withdrawals = [saved.withdrawals EXCEPT ![k] = wd]
      /\ saved'.accountRequests = [saved.accountRequests EXCEPT ![k] = r]
    BY DEF WithdrawCash, IInv, Shape
<1>2. record[k] = "absent"
    BY DEF IInv, Shape, WithdrawalOK, Fresh
<1>3. Shape'
    BY <1>1 DEF IInv, Shape, chainVars, tickVars
<1>4. ASSUME NEW j \in Keys
      PROVE  WithdrawalOK(saved.withdrawals[j], record[j], mined[j], saved.accountRequests[j])'
    <2>1. CASE j = k
        <3>1. saved'.withdrawals[j] = wd /\ saved'.accountRequests[j] = r
            BY <1>1, <2>1 DEF IInv, Shape
        <3>2. QED BY <1>2, <2>1, <3>1, NoneAssumption DEF IInv, WithdrawalOK, chainVars, Outcomes
    <2>2. CASE j # k
        <3>1. saved'.withdrawals[j] = saved.withdrawals[j] /\ saved'.accountRequests[j] = saved.accountRequests[j]
            BY <1>1, <2>2 DEF IInv, Shape
        <3>2. QED BY <3>1 DEF IInv, WithdrawalOK, chainVars
    <2>3. QED BY <2>1, <2>2
<1>5. SectionOK'
    BY DEF IInv, SectionOK, tickVars
<1>6. QED BY <1>3, <1>4, <1>5 DEF IInv

\* A withdrawal is cancelled.
LEMMA CancelCashIInv ==
    ASSUME IInv, pc = "idle", UNCHANGED <<chainVars, tickVars>>,
           NEW k \in Keys, NEW r \in Requests,
           CancelCash([saved EXCEPT !.accountRequests[k] = r], KeyOwner[k], r)
    PROVE  IInv'
<1> DEFINE t == r.target
<1>1. /\ t \in Keys
      /\ saved.withdrawals[t].status = "REQUESTED" /\ saved.withdrawals[t].step = "none"
    BY DEF CancelCash, WithdrawalsOf, IInv, Shape
<1>2. /\ DOMAIN saved' = DOMAIN saved
      /\ saved'.withdrawals = [saved.withdrawals EXCEPT ![t].status = "CANCELLED"]
      /\ saved'.accountRequests = [saved.accountRequests EXCEPT ![k] = r]
    BY DEF CancelCash, IInv, Shape
<1>3. Shape'
    BY <1>1, <1>2 DEF IInv, Shape, chainVars, tickVars
<1>4. ASSUME NEW j \in Keys
      PROVE  WithdrawalOK(saved.withdrawals[j], record[j], mined[j], saved.accountRequests[j])'
    <2>0. saved.accountRequests[j] # NoRequest => saved'.accountRequests[j] # NoRequest
        BY <1>2, NoneAssumption DEF IInv, Shape
    <2>1. CASE j = t
        <3>1. saved'.withdrawals[j].status = "CANCELLED" /\ saved'.withdrawals[j].step = "none"
            BY <1>1, <1>2, <2>1 DEF IInv, Shape
        <3>2. QED BY <1>1, <2>0, <2>1, <3>1 DEF IInv, WithdrawalOK, chainVars, Outcomes
    <2>2. CASE j # t
        <3>1. saved'.withdrawals[j] = saved.withdrawals[j]
            BY <1>1, <1>2, <2>2 DEF IInv, Shape
        <3>2. QED BY <2>0, <3>1 DEF IInv, WithdrawalOK, chainVars
    <2>3. QED BY <2>1, <2>2
<1>5. SectionOK'
    BY DEF IInv, SectionOK, tickVars
<1>6. QED BY <1>3, <1>4, <1>5 DEF IInv

\* A customer's request, whatever its action, keeps the payments' invariant.
LEMMA AccountRequestIInv ==
    ASSUME IInv, NEW k \in Keys, NEW r \in Requests, AccountRequest(k, r)
    PROVE  IInv'
<1> DEFINE s == [saved EXCEPT !.accountRequests[k] = r]
<1>0. pc = "idle" /\ Fresh(k) /\ UNCHANGED <<chainVars, tickVars>>
    BY DEF AccountRequest
<1>1. r.action \in {"COMPLETE", "ALLOCATE", "WITHDRAW", "CANCEL"}
    BY DEF Requests
<1>2. CASE r.action = "COMPLETE"
    <2>1. Complete(s, KeyOwner[k], r)
        BY <1>2 DEF AccountRequest
    <2>2. /\ DOMAIN saved' = DOMAIN saved /\ saved'.withdrawals = saved.withdrawals
          /\ saved'.accountRequests = [saved.accountRequests EXCEPT ![k] = r]
        BY <2>1 DEF Complete, IInv, Shape
    <2>3. QED BY <1>0, <2>2, BalancesIInv
<1>3. CASE r.action = "ALLOCATE"
    <2>1. Allocate(s, KeyOwner[k], r)
        BY <1>3 DEF AccountRequest
    <2>2. /\ DOMAIN saved' = DOMAIN saved /\ saved'.withdrawals = saved.withdrawals
          /\ saved'.accountRequests = [saved.accountRequests EXCEPT ![k] = r]
        BY <2>1 DEF Allocate, IInv, Shape
    <2>3. QED BY <1>0, <2>2, BalancesIInv
<1>4. CASE r.action = "WITHDRAW"
    BY <1>0, <1>4, WithdrawCashIInv DEF AccountRequest
<1>5. CASE r.action = "CANCEL"
    BY <1>0, <1>5, CancelCashIInv DEF AccountRequest
<1>6. QED BY <1>1, <1>2, <1>3, <1>4, <1>5

\* One open withdrawal is marked, gets its step, or is booked as paid.
LEMMA MarkedIInv ==
    ASSUME IInv, UNCHANGED chainVars, DOMAIN saved' = DOMAIN saved,
           saved'.accountRequests = saved.accountRequests,
           NEW k \in Keys, NEW wd,
           DOMAIN wd = {"status", "amount", "step"},
           saved'.withdrawals = [saved.withdrawals EXCEPT ![k] = wd],
           WithdrawalOK(wd, record[k], mined[k], saved.accountRequests[k]),
           due' \subseteq Keys, paying' \in Keys \cup {NoKey}
    PROVE  /\ Shape'
           /\ \A j \in Keys : WithdrawalOK(saved.withdrawals[j], record[j], mined[j], saved.accountRequests[j])'
<1>1. Shape'
    BY DEF IInv, Shape, chainVars
<1>2. ASSUME NEW j \in Keys
      PROVE  WithdrawalOK(saved.withdrawals[j], record[j], mined[j], saved.accountRequests[j])'
    <2>1. CASE j = k
        <3>1. saved'.withdrawals[j] = wd
            BY <2>1 DEF IInv, Shape
        <3>2. QED BY <2>1, <3>1 DEF chainVars
    <2>2. CASE j # k
        <3>1. saved'.withdrawals[j] = saved.withdrawals[j]
            BY <2>2 DEF IInv, Shape
        <3>2. QED BY <3>1 DEF IInv, chainVars
    <2>3. QED BY <2>1, <2>2
<1>3. QED BY <1>1, <1>2

\* A payment begins: its withdrawal is being settled.
LEMMA BeginPaymentIInv ==
    ASSUME IInv, NEW k \in Keys, BeginPayment(k)
    PROVE  IInv'
<1> DEFINE wd == [saved.withdrawals[k] EXCEPT !.status = "SETTLING"]
<1>1. /\ pc = "settle" /\ k \in due
      /\ saved.withdrawals[k].status \in {"REQUESTED", "SETTLING"}
      /\ pc' = "step" /\ paying' = k /\ due' = due \ {k}
      /\ UNCHANGED chainVars
    BY DEF BeginPayment, IInv, SectionOK
<1>2. /\ DOMAIN saved' = DOMAIN saved
      /\ saved'.withdrawals = [saved.withdrawals EXCEPT ![k] = wd]
      /\ saved'.accountRequests = saved.accountRequests
    BY DEF BeginPayment, IInv, Shape
<1>3. /\ wd.status = "SETTLING" /\ wd.step = saved.withdrawals[k].step
      /\ DOMAIN wd = {"status", "amount", "step"}
    BY DEF IInv, Shape
<1>4. WithdrawalOK(wd, record[k], mined[k], saved.accountRequests[k])
    BY <1>1, <1>3 DEF IInv, WithdrawalOK
<1>5. due' \subseteq Keys /\ paying' \in Keys \cup {NoKey}
    BY <1>1 DEF IInv, Shape
<1> HIDE DEF wd
<1>6. /\ Shape'
      /\ \A j \in Keys : WithdrawalOK(saved.withdrawals[j], record[j], mined[j], saved.accountRequests[j])'
    BY <1>1, <1>2, <1>3, <1>4, <1>5, MarkedIInv
<1>7. SectionOK'
    <2>1. saved'.withdrawals[k] = wd /\ \A j \in Keys \ {k} : saved'.withdrawals[j] = saved.withdrawals[j]
        BY <1>2 DEF IInv, Shape
    <2>2. QED BY <1>1, <1>3, <1>5, <2>1 DEF IInv, SectionOK
<1>8. QED BY <1>6, <1>7 DEF IInv

\* The payment's step is saved.
LEMMA SaveStepIInv ==
    ASSUME IInv, SaveStep
    PROVE  IInv'
<1> DEFINE wd == [saved.withdrawals[paying] EXCEPT !.step = "saved"]
<1>1. /\ pc = "step" /\ paying \in Keys /\ paying \notin due
      /\ saved.withdrawals[paying].status = "SETTLING"
      /\ pc' = IF record[paying] = "ok" THEN "apply" ELSE "submit"
      /\ UNCHANGED <<due, paying>> /\ UNCHANGED chainVars
    BY DEF SaveStep, IInv, SectionOK
<1>2. /\ DOMAIN saved' = DOMAIN saved
      /\ saved'.withdrawals = [saved.withdrawals EXCEPT ![paying] = wd]
      /\ saved'.accountRequests = saved.accountRequests
    BY DEF SaveStep, IInv, Shape
<1>3. /\ wd.status = "SETTLING" /\ wd.step = "saved"
      /\ DOMAIN wd = {"status", "amount", "step"}
    BY <1>1 DEF IInv, Shape
<1>4. WithdrawalOK(wd, record[paying], mined[paying], saved.accountRequests[paying])
    BY <1>1, <1>3 DEF IInv, WithdrawalOK
<1>5. due' \subseteq Keys /\ paying' \in Keys \cup {NoKey}
    BY <1>1 DEF IInv, Shape
<1> HIDE DEF wd
<1>6. /\ Shape'
      /\ \A j \in Keys : WithdrawalOK(saved.withdrawals[j], record[j], mined[j], saved.accountRequests[j])'
    BY <1>1, <1>2, <1>3, <1>4, <1>5, MarkedIInv
<1>7. SectionOK'
    <2>1. /\ saved'.withdrawals[paying] = wd
          /\ \A j \in Keys \ {paying} : saved'.withdrawals[j] = saved.withdrawals[j]
        BY <1>1, <1>2 DEF IInv, Shape
    <2>2. QED BY <1>1, <1>3, <2>1 DEF IInv, Shape, SectionOK, chainVars
<1>8. QED BY <1>6, <1>7 DEF IInv

\* A confirmed payment is booked, when a section starts or when step() returns.
LEMMA AppliedIInv ==
    ASSUME IInv, NEW k \in Keys, k \notin due, saved' = Applied(k), record[k] = "ok",
           saved.withdrawals[k].step # "none", UNCHANGED chainVars,
           \/ pc = "recover" /\ UNCHANGED tickVars
           \/ pc = "apply" /\ NextPayment
    PROVE  IInv'
<1> DEFINE wd == [saved.withdrawals[k] EXCEPT !.status = "PAID", !.step = "applied"]
<1>1. /\ DOMAIN saved' = DOMAIN saved
      /\ saved'.withdrawals = [saved.withdrawals EXCEPT ![k] = wd]
      /\ saved'.accountRequests = saved.accountRequests
    BY DEF Applied, IInv, Shape
<1>2. /\ wd.status = "PAID" /\ wd.step = "applied"
      /\ DOMAIN wd = {"status", "amount", "step"}
    BY DEF IInv, Shape
<1>3. WithdrawalOK(wd, record[k], mined[k], saved.accountRequests[k])
    BY <1>2 DEF IInv, WithdrawalOK
<1>4. due' = due /\ due' \subseteq Keys /\ paying' \in Keys \cup {NoKey}
    BY DEF IInv, Shape, NextPayment, tickVars
<1> HIDE DEF wd
<1>5. /\ Shape'
      /\ \A j \in Keys : WithdrawalOK(saved.withdrawals[j], record[j], mined[j], saved.accountRequests[j])'
    BY <1>1, <1>2, <1>3, <1>4, MarkedIInv
<1>6. SectionOK'
    <2>1. \A j \in Keys \ {k} : saved'.withdrawals[j] = saved.withdrawals[j]
        BY <1>1 DEF IInv, Shape
    <2>2. \A j \in due' : saved'.withdrawals[j].status \in {"REQUESTED", "SETTLING"}
        BY <1>4, <2>1 DEF IInv, Shape, SectionOK
    <2>3. pc' \in {"recover", "settle"} /\ (pc' = "recover" => due' = {})
        BY <1>4 DEF IInv, SectionOK, NextPayment, tickVars
    <2>4. QED BY <2>2, <2>3 DEF SectionOK
<1>7. QED BY <1>5, <1>6 DEF IInv

--------------------------------------------------------------------------------
(* Steps of the submitter and the chain. *)

\* The payment is signed.
LEMMA SignIInv ==
    ASSUME IInv, SubmitSign
    PROVE  IInv'
<1>1. /\ pc = "submit" /\ paying \in Keys /\ record[paying] = "absent"
      /\ saved.withdrawals[paying].step # "none"
      /\ saved.withdrawals[paying].status = "SETTLING"
      /\ record' = [record EXCEPT ![paying] = "signed"] /\ mined' = mined
      /\ pc' = "await" /\ UNCHANGED <<saved, todo, book, due, paying>>
    BY DEF SubmitSign, Sign, IInv, SectionOK
<1>2. Shape'
    BY <1>1 DEF IInv, Shape, Outcomes
<1>3. ASSUME NEW k \in Keys
      PROVE  WithdrawalOK(saved.withdrawals[k], record[k], mined[k], saved.accountRequests[k])'
    BY <1>1 DEF IInv, Shape, WithdrawalOK, Outcomes
<1>4. SectionOK'
    BY <1>1 DEF IInv, Shape, SectionOK
<1>5. QED BY <1>2, <1>3, <1>4 DEF IInv

\* The chain takes the payment.
LEMMA MineIInv ==
    ASSUME IInv, NEW k \in Keys, MinePayment(k)
    PROVE  IInv'
<1>1. /\ record[k] = "signed" /\ mined[k] = "no" /\ record' = record
      /\ \E outcome \in Outcomes : mined' = [mined EXCEPT ![k] = outcome]
      /\ UNCHANGED <<saved, pc, todo, book, due, paying>>
    BY DEF MinePayment, Mine, tickVars
<1>2. PICK outcome \in Outcomes : mined' = [mined EXCEPT ![k] = outcome]
    BY <1>1
<1>3. Shape'
    BY <1>1, <1>2 DEF IInv, Shape
<1>4. ASSUME NEW j \in Keys
      PROVE  WithdrawalOK(saved.withdrawals[j], record[j], mined[j], saved.accountRequests[j])'
    BY <1>1, <1>2 DEF IInv, Shape, WithdrawalOK, Outcomes
<1>5. SectionOK'
    BY <1>1 DEF IInv, SectionOK
<1>6. QED BY <1>3, <1>4, <1>5 DEF IInv

--------------------------------------------------------------------------------
(* Every step keeps the invariant. *)

\* Everything a customer does.
LEMMA CustomerIInv ==
    ASSUME IInv, Customer
    PROVE  IInv'
<1>1. ASSUME NEW i \in Intents, NEW w \in Wallets, NEW a \in Amounts, Prepare(i, w, a)
      PROVE  IInv'
    <2>1. /\ pc = "idle" /\ UNCHANGED <<chainVars, tickVars>> /\ DOMAIN saved' = DOMAIN saved
          /\ saved'.withdrawals = saved.withdrawals
          /\ saved'.accountRequests = saved.accountRequests
        BY <1>1 DEF Prepare, IInv, Shape
    <2>2. QED BY <2>1, BalancesIInv
<1>2. ASSUME NEW i \in Intents, DepositOnChain(i)
      PROVE  IInv'
    BY <1>2 DEF DepositOnChain, IInv, Shape, WithdrawalOK, SectionOK, chainVars, tickVars
<1>3. ASSUME NEW k \in Keys, NEW r \in Requests, AccountRequest(k, r)
      PROVE  IInv'
    BY <1>3, AccountRequestIInv
<1>4. QED BY <1>1, <1>2, <1>3 DEF Customer

\* Steps of the tick before a section and between payments.
LEMMA QuietTickIInv ==
    ASSUME IInv,
           \/ TickBegin \/ TickSynced \/ TickSyncThrows \/ Recovered \/ CloseBook
           \/ \E w \in Wallets : OpenBook(w)
           \/ \E k \in Keys : TickSync(k)
    PROVE  IInv'
<1>1. CASE TickBegin \/ TickSynced
    BY <1>1 DEF TickBegin, TickSynced, IInv, Shape, WithdrawalOK, SectionOK, chainVars
<1>2. CASE TickSyncThrows
    BY <1>2, EndTickIInv DEF TickSyncThrows, chainVars
<1>3. CASE Recovered
    <2>1. \A k \in Open(book) : k \in Keys /\ saved.withdrawals[k].status \in {"REQUESTED", "SETTLING"}
        BY DEF Open, WithdrawalsOf
    <2>2. QED BY <1>3, <2>1 DEF Recovered, IInv, Shape, WithdrawalOK, SectionOK, chainVars
<1>4. CASE CloseBook
    BY <1>4 DEF CloseBook, IInv, Shape, WithdrawalOK, SectionOK, chainVars
<1>5. CASE \E w \in Wallets : OpenBook(w)
    BY <1>5 DEF OpenBook, IInv, Shape, WithdrawalOK, SectionOK, chainVars
<1>6. ASSUME NEW k \in Keys, TickSync(k)
      PROVE  IInv'
    BY <1>6, LearnIInv, LearnAndEnd DEF TickSync
<1>7. QED BY <1>1, <1>2, <1>3, <1>4, <1>5, <1>6

\* Every step of the payments.
LEMMA PaymentIInv ==
    ASSUME IInv,
           \/ SubmitKnown \/ SubmitAnswered \/ ApplyPayment
           \/ \E k \in Keys : Recover(k) \/ SubmitSync(k)
    PROVE  IInv'
<1>1. CASE SubmitKnown
    <2>1. CASE record[paying] = "ok"
        BY <1>1, <2>1 DEF SubmitKnown, IInv, Shape, WithdrawalOK, SectionOK, chainVars
    <2>2. CASE record[paying] # "ok"
        BY <1>1, <2>2, NextPaymentIInv DEF SubmitKnown, chainVars
    <2>3. QED BY <2>1, <2>2
<1>2. CASE SubmitAnswered
    <2>1. paying \in Keys
        BY <1>2 DEF SubmitAnswered, IInv, SectionOK
    <2>2. QED BY <1>2, <2>1, LearnAndApply, LearnAndNext DEF SubmitAnswered
<1>3. CASE ApplyPayment
    <2>1. CASE MayDebit(paying)
        <3>1. /\ paying \in Keys /\ paying \notin due /\ record[paying] = "ok"
              /\ saved.withdrawals[paying].step # "none"
            BY <1>3 DEF ApplyPayment, IInv, SectionOK
        <3>2. saved' = Applied(paying) /\ pc = "apply" /\ NextPayment /\ UNCHANGED chainVars
            BY <1>3, <2>1 DEF ApplyPayment
        <3>3. QED BY <3>1, <3>2, AppliedIInv
    <2>2. CASE ~MayDebit(paying)
        BY <1>3, <2>2, NextPaymentIInv DEF ApplyPayment, chainVars
    <2>3. QED BY <2>1, <2>2
<1>4. ASSUME NEW k \in Keys, Recover(k)
      PROVE  IInv'
    <2>1. CASE MayDebit(k)
        <3>1. k \notin due /\ record[k] = "ok" /\ saved.withdrawals[k].step # "none"
            BY <1>4 DEF Recover, Unapplied, IInv, SectionOK
        <3>2. saved' = Applied(k) /\ pc = "recover" /\ UNCHANGED tickVars /\ UNCHANGED chainVars
            BY <1>4, <2>1 DEF Recover
        <3>3. QED BY <3>1, <3>2, AppliedIInv
    <2>2. CASE ~MayDebit(k)
        BY <1>4, <2>2, EndTickIInv DEF Recover, chainVars
    <2>3. QED BY <2>1, <2>2
<1>5. ASSUME NEW k \in Keys, SubmitSync(k)
      PROVE  IInv'
    BY <1>5, LearnIInv, LearnAndNext DEF SubmitSync
<1>6. QED BY <1>1, <1>2, <1>3, <1>4, <1>5

\* The invariant is inductive.
LEMMA Inductive == IInv /\ [Next]_vars => IInv'
<1> SUFFICES ASSUME IInv, [Next]_vars PROVE IInv'
    OBVIOUS
<1>1. CASE Customer
    BY <1>1, CustomerIInv
<1>2. CASE Tick
    BY <1>2, QuietTickIInv, PaymentIInv, BeginPaymentIInv, SaveStepIInv, SignIInv DEF Tick
<1>3. CASE SubmitThrows
    BY <1>3, NextPaymentIInv DEF SubmitThrows, chainVars
<1>4. CASE Interrupt
    BY <1>4, EndTickIInv DEF Interrupt, chainVars
<1>5. CASE \E k \in Keys : MinePayment(k)
    BY <1>5, MineIInv
<1>6. CASE UNCHANGED vars
    BY <1>6 DEF vars, IInv, Shape, WithdrawalOK, SectionOK
<1>7. QED BY <1>1, <1>2, <1>3, <1>4, <1>5, <1>6 DEF Next

\* The inductive invariant: the shape of every withdrawal, its record and its mark agree.
THEOREM InvariantHolds == Spec => []IInv
BY InitIInv, Inductive, PTL DEF Spec

--------------------------------------------------------------------------------
(* The theorems. *)

\* Whatever is interrupted, retried or answered late, a withdrawal the customer was
\* told is cancelled has no transaction (investments.mjs accountRequest refuses to
\* cancel once the payment's job was begun).
THEOREM CancelledNeverPaid == Spec => []CancelledIsNeverPaid
<1>1. IInv => CancelledIsNeverPaid
    BY DEF IInv, Shape, WithdrawalOK, CancelledIsNeverPaid, Outcomes
<1>2. QED BY <1>1, InvariantHolds, PTL

\* A withdrawal is booked as paid only when its transaction succeeded on the chain
\* (execution.mjs step and the recovery at the start of a section).
THEOREM PaidWereMined == Spec => []PaidIsMined
<1>1. IInv => PaidIsMined
    BY DEF IInv, Shape, WithdrawalOK, PaidIsMined, Outcomes
<1>2. QED BY <1>1, InvariantHolds, PTL

\* What was signed can be found again after a restart (execution.mjs step saves the
\* request before it submits it).
THEOREM SignedWereSaved == Spec => []SignedWasSaved
<1>1. IInv => SignedWasSaved
    BY DEF IInv, Shape, WithdrawalOK, SignedWasSaved
<1>2. QED BY <1>1, InvariantHolds, PTL

\* No request of a customer changes the amount of a withdrawal that was signed.
LEMMA AccountRequestKeepsSigned ==
    ASSUME IInv, NEW j \in Keys, NEW r \in Requests, AccountRequest(j, r),
           NEW k \in Keys, record[k] # "absent"
    PROVE  saved'.withdrawals[k].amount = saved.withdrawals[k].amount
<1> DEFINE s == [saved EXCEPT !.accountRequests[j] = r]
<1>1. r.action \in {"COMPLETE", "ALLOCATE", "WITHDRAW", "CANCEL"}
    BY DEF Requests
<1>2. saved.withdrawals[k].status \in {"SETTLING", "PAID"} /\ saved.accountRequests[k] # NoRequest
    BY DEF IInv, WithdrawalOK
<1>3. k # j
    BY <1>2 DEF AccountRequest, Fresh
<1>4. CASE r.action = "COMPLETE"
    <2>1. Complete(s, KeyOwner[j], r)
        BY <1>4 DEF AccountRequest
    <2>2. QED BY <2>1 DEF Complete, IInv, Shape
<1>5. CASE r.action = "ALLOCATE"
    <2>1. Allocate(s, KeyOwner[j], r)
        BY <1>5 DEF AccountRequest
    <2>2. QED BY <2>1 DEF Allocate, IInv, Shape
<1>6. CASE r.action = "WITHDRAW"
    <2>1. WithdrawCash(s, j, r)
        BY <1>6 DEF AccountRequest
    <2>2. QED BY <1>3, <2>1 DEF WithdrawCash, IInv, Shape
<1>7. CASE r.action = "CANCEL"
    <2>1. CancelCash(s, KeyOwner[j], r)
        BY <1>7 DEF AccountRequest
    <2>2. QED BY <2>1 DEF CancelCash, IInv, Shape
<1>8. QED BY <1>1, <1>4, <1>5, <1>6, <1>7

\* Nothing changes the amount of a withdrawal that was signed.
LEMMA SignedAmountStays ==
    ASSUME IInv, [Next]_vars, NEW k \in Keys, record[k] # "absent"
    PROVE  saved'.withdrawals[k].amount = saved.withdrawals[k].amount
<1>1. CASE Customer
    <2>1. CASE \E i \in Intents, w \in Wallets, a \in Amounts : Prepare(i, w, a)
        BY <2>1 DEF Prepare, IInv, Shape
    <2>2. CASE \E i \in Intents : DepositOnChain(i)
        BY <2>2 DEF DepositOnChain
    <2>3. CASE \E j \in Keys, r \in Requests : AccountRequest(j, r)
        BY <2>3, AccountRequestKeepsSigned
    <2>4. QED BY <1>1, <2>1, <2>2, <2>3 DEF Customer
<1>2. CASE Tick
    <2>0. ASSUME NEW j, saved' = Applied(j)
          PROVE  saved'.withdrawals[k].amount = saved.withdrawals[k].amount
        <3>1. saved'.withdrawals =
                 [saved.withdrawals EXCEPT ![j] = [@ EXCEPT !.status = "PAID", !.step = "applied"]]
            BY <2>0 DEF Applied, IInv, Shape
        <3>2. QED BY <3>1 DEF IInv, Shape
    <2>1. CASE \E j \in Keys : Recover(j) \/ BeginPayment(j)
        <3>1. ASSUME NEW j \in Keys, BeginPayment(j)
              PROVE  saved'.withdrawals[k].amount = saved.withdrawals[k].amount
            BY <3>1 DEF BeginPayment, IInv, Shape
        <3>2. ASSUME NEW j \in Keys, Recover(j)
              PROVE  saved'.withdrawals[k].amount = saved.withdrawals[k].amount
            BY <2>0, <3>2 DEF Recover
        <3>3. QED BY <2>1, <3>1, <3>2
    <2>2. CASE SaveStep \/ ApplyPayment
        <3>1. CASE SaveStep
            BY <3>1 DEF SaveStep, IInv, Shape
        <3>2. CASE ApplyPayment
            BY <2>0, <3>2 DEF ApplyPayment
        <3>3. QED BY <2>2, <3>1, <3>2
    <2>3. CASE TickBegin \/ TickSynced \/ TickSyncThrows \/ Recovered \/ SubmitKnown
                 \/ SubmitSign \/ SubmitAnswered \/ CloseBook
        BY <2>3 DEF TickBegin, TickSynced, TickSyncThrows, Recovered, SubmitKnown,
                    SubmitSign, SubmitAnswered, CloseBook
    <2>4. CASE (\E w \in Wallets : OpenBook(w)) \/ (\E j \in Keys : TickSync(j) \/ SubmitSync(j))
        BY <2>4 DEF OpenBook, TickSync, SubmitSync
    <2>5. QED BY <1>2, <2>1, <2>2, <2>3, <2>4 DEF Tick
<1>3. CASE SubmitThrows \/ Interrupt \/ \E j \in Keys : MinePayment(j)
    BY <1>3 DEF SubmitThrows, Interrupt, MinePayment
<1>4. CASE UNCHANGED vars
    BY <1>4 DEF vars
<1>5. QED BY <1>1, <1>2, <1>3, <1>4 DEF Next

\* Records are never lost (ExecutionSteps).
LEMMA SignedStaysSigned ==
    ASSUME IInv, [Next]_vars, NEW k \in Keys, record[k] # "absent"
    PROVE  record'[k] # "absent"
<1>1. ASSUME NEW s \in Keys, Learn(s)
      PROVE  record'[k] # "absent"
    BY <1>1 DEF Learn, IInv, Shape, Outcomes
<1>2. ASSUME NEW s, Sign(s)
      PROVE  record'[k] # "absent"
    BY <1>2 DEF Sign, IInv, Shape
<1>3. CASE record' = record
    BY <1>3
<1>4. CASE SubmitAnswered
    BY <1>4, <1>1 DEF SubmitAnswered, IInv, SectionOK
<1>5. CASE SubmitSign
    BY <1>5, <1>2 DEF SubmitSign
<1>6. CASE \E s \in Keys : TickSync(s) \/ SubmitSync(s)
    BY <1>6, <1>1 DEF TickSync, SubmitSync
<1>7. (Customer \/ SubmitThrows \/ Interrupt \/ (\E j \in Keys : MinePayment(j)) \/ UNCHANGED vars)
        => record' = record
    BY DEF Customer, Prepare, DepositOnChain, AccountRequest, SubmitThrows, Interrupt,
           MinePayment, Mine, vars, chainVars
<1>8. Tick => \/ record' = record
              \/ SubmitAnswered \/ SubmitSign \/ \E s \in Keys : TickSync(s) \/ SubmitSync(s)
    BY DEF Tick, TickBegin, TickSynced, TickSyncThrows, Recovered, SaveStep, SubmitKnown,
           ApplyPayment, CloseBook, OpenBook, Recover, BeginPayment, chainVars
<1>9. QED BY <1>3, <1>4, <1>5, <1>6, <1>7, <1>8 DEF Next

\* Once a payment is signed, its withdrawal keeps its amount and only goes on to be
\* paid: no request, retry or failed attempt reopens or cancels it.
THEOREM PaymentsCommitted == Spec => PaymentIsCommitted
<1>1. IInv /\ IInv' /\ [Next]_vars =>
        [\A k \in Keys : record[k] # "absent" =>
            /\ saved'.withdrawals[k].amount = saved.withdrawals[k].amount
            /\ saved'.withdrawals[k].status \in {"SETTLING", "PAID"}]_vars
    <2> SUFFICES ASSUME IInv, IInv', [Next]_vars, NEW k \in Keys, record[k] # "absent"
                 PROVE  /\ saved'.withdrawals[k].amount = saved.withdrawals[k].amount
                        /\ saved'.withdrawals[k].status \in {"SETTLING", "PAID"}
        OBVIOUS
    <2>1. record'[k] # "absent"
        BY SignedStaysSigned
    <2>2. saved'.withdrawals[k].status \in {"SETTLING", "PAID"}
        BY <2>1 DEF IInv, WithdrawalOK
    <2>3. QED BY <2>2, SignedAmountStays
<1>2. QED BY <1>1, InvariantHolds, PTL DEF Spec, PaymentIsCommitted

--------------------------------------------------------------------------------
(* Types.  A balance stays a natural number because allocations and payments are    *)
(* refused when they exceed it.                                                     *)

\* The sets of requests that a customer's sums range over are finite.
LEMMA SumsAreFinite ==
    ASSUME NEW w \in Wallets
    PROVE  /\ IsFiniteSet(Open(w)) /\ Open(w) \subseteq Keys
           /\ IsFiniteSet(Paid(w)) /\ Paid(w) \subseteq Keys
           /\ IsFiniteSet(Moves(w)) /\ Moves(w) \subseteq Keys
           /\ IsFiniteSet(Credits(w)) /\ Credits(w) \subseteq Intents
<1>1. /\ Open(w) \subseteq Keys /\ Paid(w) \subseteq Keys
      /\ Moves(w) \subseteq Keys /\ Credits(w) \subseteq Intents
    BY DEF Open, Paid, WithdrawalsOf, Moves, Credits
<1>2. QED BY <1>1, FiniteAssumption, FS_Subset

\* What is reserved is a number that is not negative.
LEMMA ReservedIsNatural ==
    ASSUME TypeOK, NEW w \in Wallets
    PROVE  Reserved(w) \in Nat
<1>1. \A k \in Open(w) : Amount[k] \in Nat
    BY SumsAreFinite DEF Amount, TypeOK, State, Withdrawal
<1>2. QED BY <1>1, SumsAreFinite, SumGrows DEF Reserved

\* What an account request of each kind writes.
LEMMA CompleteWrites ==
    ASSUME TypeOK, NEW k \in Keys, NEW r \in Requests,
           Complete([saved EXCEPT !.accountRequests[k] = r], KeyOwner[k], r), r.action = "COMPLETE"
    PROVE  LET w == KeyOwner[k]  i == r.intent
           IN  /\ w \in Wallets /\ i \in Intents
               /\ saved.intents[i].status = "PREPARED" /\ saved.intents[i].wallet = w
               /\ i \in deposited
               /\ saved' \in State
               /\ saved'.pending = [saved.pending EXCEPT ![w] = @ + saved.intents[i].amount]
               /\ saved'.allocated = saved.allocated
               /\ saved'.withdrawals = saved.withdrawals
               /\ saved'.intents = [saved.intents EXCEPT ![i].status = "CONFIRMED"]
               /\ saved'.accountRequests = [saved.accountRequests EXCEPT ![k] = r]
<1>1. KeyOwner[k] \in Wallets /\ r.intent \in Intents
    BY KeysAssumption DEF Requests
<1>2. /\ saved'.pending = [saved.pending EXCEPT ![KeyOwner[k]] = @ + saved.intents[r.intent].amount]
      /\ saved'.allocated = saved.allocated
      /\ saved'.withdrawals = saved.withdrawals
      /\ saved'.intents = [saved.intents EXCEPT ![r.intent].status = "CONFIRMED"]
      /\ saved'.accountRequests = [saved.accountRequests EXCEPT ![k] = r]
      /\ saved' = [saved EXCEPT !.pending = saved'.pending, !.intents = saved'.intents,
                                !.accountRequests = saved'.accountRequests]
    BY <1>1 DEF Complete, TypeOK, State
<1>3. /\ saved'.pending \in [Wallets -> Nat] /\ saved'.intents \in [Intents -> Intent]
      /\ saved'.accountRequests \in [Keys -> Requests \cup {NoRequest}]
    BY <1>1, <1>2 DEF TypeOK, State, Intent
<1>4. saved' \in State
    BY <1>2, <1>3 DEF TypeOK, State
<1>5. QED BY <1>1, <1>2, <1>4 DEF Complete

\* What ALLOCATE writes.
LEMMA AllocateWrites ==
    ASSUME TypeOK, NEW k \in Keys, NEW r \in Requests,
           Allocate([saved EXCEPT !.accountRequests[k] = r], KeyOwner[k], r), r.action = "ALLOCATE"
    PROVE  LET w == KeyOwner[k]
           IN  /\ w \in Wallets /\ r.amount \in Nat /\ r.amount <= saved.pending[w] - Reserved(w)
               /\ saved' \in State
               /\ saved'.pending = [saved.pending EXCEPT ![w] = @ - r.amount]
               /\ saved'.allocated = [saved.allocated EXCEPT ![w] = @ + r.amount]
               /\ saved'.withdrawals = saved.withdrawals /\ saved'.intents = saved.intents
               /\ saved'.accountRequests = [saved.accountRequests EXCEPT ![k] = r]
<1> DEFINE w == KeyOwner[k]
<1>1. w \in Wallets /\ r.amount \in Nat
    BY KeysAssumption, AmountsAssumption DEF Requests
<1>2. r.amount <= saved.pending[w] - Reserved(w) /\ Reserved(w) \in Nat /\ saved.pending[w] \in Nat
    BY <1>1, ReservedIsNatural DEF Allocate, Available, TypeOK, State
<1>3. /\ saved'.pending = [saved.pending EXCEPT ![w] = @ - r.amount]
      /\ saved'.allocated = [saved.allocated EXCEPT ![w] = @ + r.amount]
      /\ saved'.withdrawals = saved.withdrawals /\ saved'.intents = saved.intents
      /\ saved'.accountRequests = [saved.accountRequests EXCEPT ![k] = r]
      /\ saved' = [saved EXCEPT !.pending = saved'.pending, !.allocated = saved'.allocated,
                                !.accountRequests = saved'.accountRequests]
    BY <1>1 DEF Allocate, TypeOK, State
<1>4. saved.pending[w] - r.amount \in Nat
    BY <1>1, <1>2
<1>5. /\ saved'.pending \in [Wallets -> Nat] /\ saved'.allocated \in [Wallets -> Nat]
      /\ saved'.accountRequests \in [Keys -> Requests \cup {NoRequest}]
    BY <1>1, <1>3, <1>4 DEF TypeOK, State
<1>6. saved' \in State
    BY <1>3, <1>5 DEF TypeOK, State
<1>7. QED BY <1>1, <1>2, <1>3, <1>6

\* What WITHDRAW writes.
LEMMA WithdrawWrites ==
    ASSUME TypeOK, NEW k \in Keys, NEW r \in Requests,
           WithdrawCash([saved EXCEPT !.accountRequests[k] = r], k, r), r.action = "WITHDRAW"
    PROVE  LET w == KeyOwner[k]
           IN  /\ w \in Wallets /\ r.amount \in Nat /\ r.amount <= saved.pending[w] - Reserved(w)
               /\ saved' \in State
               /\ saved'.pending = saved.pending /\ saved'.allocated = saved.allocated
               /\ saved'.intents = saved.intents
               /\ saved'.withdrawals = [saved.withdrawals EXCEPT ![k] =
                                          [status |-> "REQUESTED", amount |-> r.amount, step |-> "none"]]
               /\ saved'.accountRequests = [saved.accountRequests EXCEPT ![k] = r]
<1> DEFINE w == KeyOwner[k]
           wd == [status |-> "REQUESTED", amount |-> r.amount, step |-> "none"]
<1>1. w \in Wallets /\ r.amount \in Nat
    BY KeysAssumption, AmountsAssumption DEF Requests
<1>2. r.amount <= saved.pending[w] - Reserved(w)
    BY DEF WithdrawCash, Available
<1>3. /\ saved'.pending = saved.pending /\ saved'.allocated = saved.allocated
      /\ saved'.withdrawals = [saved.withdrawals EXCEPT ![k] = wd]
      /\ saved'.intents = saved.intents
      /\ saved'.accountRequests = [saved.accountRequests EXCEPT ![k] = r]
      /\ saved' = [saved EXCEPT !.withdrawals = saved'.withdrawals,
                                !.accountRequests = saved'.accountRequests]
    BY DEF WithdrawCash, TypeOK, State
<1>4. wd \in Withdrawal
    BY <1>1 DEF Withdrawal
<1>5. /\ saved'.withdrawals \in [Keys -> Withdrawal]
      /\ saved'.accountRequests \in [Keys -> Requests \cup {NoRequest}]
    BY <1>3, <1>4 DEF TypeOK, State
<1>6. saved' \in State
    BY <1>3, <1>5 DEF TypeOK, State
<1>7. QED BY <1>1, <1>2, <1>3, <1>6

\* What CANCEL writes.
LEMMA CancelWrites ==
    ASSUME TypeOK, NEW k \in Keys, NEW r \in Requests,
           CancelCash([saved EXCEPT !.accountRequests[k] = r], KeyOwner[k], r), r.action = "CANCEL"
    PROVE  LET t == r.target
           IN  /\ t \in Keys /\ KeyOwner[t] = KeyOwner[k]
               /\ saved.withdrawals[t].status = "REQUESTED"
               /\ saved' \in State
               /\ saved'.pending = saved.pending /\ saved'.allocated = saved.allocated
               /\ saved'.intents = saved.intents
               /\ saved'.withdrawals = [saved.withdrawals EXCEPT ![t].status = "CANCELLED"]
               /\ saved'.accountRequests = [saved.accountRequests EXCEPT ![k] = r]
<1> DEFINE t == r.target
<1>1. t \in Keys /\ KeyOwner[t] = KeyOwner[k]
    BY DEF CancelCash, WithdrawalsOf
<1>2. saved.withdrawals[t].status = "REQUESTED"
    BY <1>1 DEF CancelCash, TypeOK, State
<1>3. /\ saved'.pending = saved.pending /\ saved'.allocated = saved.allocated
      /\ saved'.intents = saved.intents
      /\ saved'.withdrawals = [saved.withdrawals EXCEPT ![t].status = "CANCELLED"]
      /\ saved'.accountRequests = [saved.accountRequests EXCEPT ![k] = r]
      /\ saved' = [saved EXCEPT !.withdrawals = saved'.withdrawals,
                                !.accountRequests = saved'.accountRequests]
    BY DEF CancelCash, TypeOK, State
<1>4. /\ saved'.withdrawals \in [Keys -> Withdrawal]
      /\ saved'.accountRequests \in [Keys -> Requests \cup {NoRequest}]
    BY <1>1, <1>3 DEF TypeOK, State, Withdrawal
<1>5. saved' \in State
    BY <1>3, <1>4 DEF TypeOK, State
<1>6. QED BY <1>1, <1>2, <1>3, <1>5

\* What a confirmed payment writes.
LEMMA AppliedWrites ==
    ASSUME TypeOK, NEW k \in Keys, MayDebit(k), saved' = Applied(k)
    PROVE  LET w == KeyOwner[k]
           IN  /\ w \in Wallets /\ saved.withdrawals[k].amount <= saved.pending[w]
               /\ saved' \in State
               /\ saved'.pending = [saved.pending EXCEPT ![w] = @ - saved.withdrawals[k].amount]
               /\ saved'.allocated = saved.allocated /\ saved'.intents = saved.intents
               /\ saved'.withdrawals = [saved.withdrawals EXCEPT
                                          ![k].status = "PAID", ![k].step = "applied"]
               /\ saved'.accountRequests = saved.accountRequests
<1> DEFINE w == KeyOwner[k]
<1>1. w \in Wallets
    BY KeysAssumption
<1>2. /\ saved.withdrawals[k].amount <= saved.pending[w]
      /\ saved.withdrawals[k].amount \in Nat /\ saved.pending[w] \in Nat
    BY <1>1 DEF MayDebit, TypeOK, State, Withdrawal
<1>3. /\ saved'.pending = [saved.pending EXCEPT ![w] = @ - saved.withdrawals[k].amount]
      /\ saved'.allocated = saved.allocated /\ saved'.intents = saved.intents
      /\ saved'.withdrawals = [saved.withdrawals EXCEPT ![k].status = "PAID", ![k].step = "applied"]
      /\ saved'.accountRequests = saved.accountRequests
      /\ saved' = [saved EXCEPT !.pending = saved'.pending, !.withdrawals = saved'.withdrawals]
    BY <1>1 DEF Applied, TypeOK, State
<1>4. saved.pending[w] - saved.withdrawals[k].amount \in Nat
    BY <1>2
<1>5. saved'.pending \in [Wallets -> Nat] /\ saved'.withdrawals \in [Keys -> Withdrawal]
    BY <1>1, <1>3, <1>4 DEF TypeOK, State, Withdrawal
<1>6. saved' \in State
    BY <1>3, <1>5 DEF TypeOK, State
<1>7. QED BY <1>1, <1>2, <1>3, <1>6

\* A customer's request leaves a file of the right type.
LEMMA AccountRequestType ==
    ASSUME TypeOK, NEW k \in Keys, NEW r \in Requests, AccountRequest(k, r)
    PROVE  saved' \in State
<1>1. r.action \in {"COMPLETE", "ALLOCATE", "WITHDRAW", "CANCEL"}
    BY DEF Requests
<1> DEFINE s == [saved EXCEPT !.accountRequests[k] = r]
<1>2. CASE r.action = "COMPLETE"
    <2>1. Complete(s, KeyOwner[k], r)
        BY <1>2 DEF AccountRequest
    <2>2. QED BY <1>2, <2>1, CompleteWrites
<1>3. CASE r.action = "ALLOCATE"
    <2>1. Allocate(s, KeyOwner[k], r)
        BY <1>3 DEF AccountRequest
    <2>2. QED BY <1>3, <2>1, AllocateWrites
<1>4. CASE r.action = "WITHDRAW"
    <2>1. WithdrawCash(s, k, r)
        BY <1>4 DEF AccountRequest
    <2>2. QED BY <1>4, <2>1, WithdrawWrites
<1>5. CASE r.action = "CANCEL"
    <2>1. CancelCash(s, KeyOwner[k], r)
        BY <1>5 DEF AccountRequest
    <2>2. QED BY <1>5, <2>1, CancelWrites
<1>6. QED BY <1>1, <1>2, <1>3, <1>4, <1>5

\* The marks BeginPayment and SaveStep make.
LEMMA MarkType ==
    ASSUME TypeOK, NEW k \in Keys,
           \/ saved' = [saved EXCEPT !.withdrawals[k].status = "SETTLING"]
           \/ saved' = [saved EXCEPT !.withdrawals[k].step = "saved"]
    PROVE  /\ saved' \in State
           /\ saved'.pending = saved.pending /\ saved'.allocated = saved.allocated
           /\ saved'.intents = saved.intents /\ saved'.accountRequests = saved.accountRequests
           /\ \A j \in Keys : saved'.withdrawals[j].amount = saved.withdrawals[j].amount
<1>1. PICK wd : /\ wd \in Withdrawal /\ wd.amount = saved.withdrawals[k].amount
                /\ saved' = [saved EXCEPT !.withdrawals[k] = wd]
    <2>1. CASE saved' = [saved EXCEPT !.withdrawals[k].status = "SETTLING"]
        <3>1. [saved.withdrawals[k] EXCEPT !.status = "SETTLING"] \in Withdrawal
            BY DEF TypeOK, State, Withdrawal
        <3>2. QED BY <2>1, <3>1 DEF TypeOK, State, Withdrawal
    <2>2. CASE saved' = [saved EXCEPT !.withdrawals[k].step = "saved"]
        <3>1. [saved.withdrawals[k] EXCEPT !.step = "saved"] \in Withdrawal
            BY DEF TypeOK, State, Withdrawal
        <3>2. QED BY <2>2, <3>1 DEF TypeOK, State, Withdrawal
    <2>3. QED BY <2>1, <2>2
<1>2. QED BY <1>1 DEF TypeOK, State

\* So does a prepared deposit.
LEMMA PrepareType ==
    ASSUME TypeOK, NEW i \in Intents, NEW w \in Wallets, NEW a \in Amounts, Prepare(i, w, a)
    PROVE  saved' \in State
<1>1. [status |-> "PREPARED", wallet |-> w, amount |-> a] \in Intent
    BY AmountsAssumption DEF Intent
<1>2. QED BY <1>1 DEF Prepare, TypeOK, State

\* The types hold in the beginning.
LEMMA TypeInit == ASSUME Init PROVE TypeOK
BY LimitAssumption DEF Init, TypeOK, StepsInit, StepsTypeOK, Outcomes, EmptyState, State, NoWithdrawal,
   Withdrawal, NoIntent, Intent, Locations

\* The submitter's record and the chain keep their types.
LEMMA StepsType ==
    ASSUME StepsTypeOK, NEW k \in Keys, Sign(k) \/ Learn(k) \/ Mine(k)
    PROVE  StepsTypeOK'
BY DEF StepsTypeOK, Sign, Learn, Mine, Outcomes

\* The tick going on keeps the types.
LEMMA NextPaymentType ==
    ASSUME TypeOK, NextPayment, pc \in {"submit", "await", "apply"},
           saved' \in State, StepsTypeOK', UNCHANGED <<deposited, interruptions>>
    PROVE  TypeOK'
BY DEF TypeOK, NextPayment, Locations

\* The end of a tick keeps the types.
LEMMA EndTickType ==
    ASSUME TypeOK, EndTick, saved' \in State, StepsTypeOK', UNCHANGED deposited,
           interruptions' \in 0 .. InterruptionLimit
    PROVE  TypeOK'
BY DEF TypeOK, EndTick, Locations

\* Every step keeps the types.
LEMMA TypeNext == ASSUME TypeOK, IInv, [Next]_vars PROVE TypeOK'
<1> USE DEF Locations
<1>0. saved \in State /\ StepsTypeOK /\ interruptions \in 0 .. InterruptionLimit
    BY DEF TypeOK
<1>1. ASSUME NEW i \in Intents, NEW w \in Wallets, NEW a \in Amounts, Prepare(i, w, a)
      PROVE  TypeOK'
    BY <1>1, PrepareType DEF TypeOK, StepsTypeOK, Prepare, chainVars, tickVars
<1>2. ASSUME NEW i \in Intents, DepositOnChain(i)
      PROVE  TypeOK'
    BY <1>2 DEF TypeOK, StepsTypeOK, DepositOnChain, chainVars, tickVars
<1>3. ASSUME NEW k \in Keys, NEW r \in Requests, AccountRequest(k, r)
      PROVE  TypeOK'
    BY <1>3, AccountRequestType DEF TypeOK, StepsTypeOK, AccountRequest, chainVars, tickVars
<1>4. CASE TickBegin \/ TickSynced \/ Recovered \/ CloseBook \/ \E w \in Wallets : OpenBook(w)
    <2>1. Open(book) \subseteq Keys
        BY DEF Open, WithdrawalsOf
    <2>2. QED BY <1>4, <2>1 DEF TypeOK, StepsTypeOK, TickBegin, TickSynced, Recovered, CloseBook,
                 OpenBook, chainVars
<1>5. ASSUME NEW k \in Keys, TickSync(k) \/ SubmitSync(k)
      PROVE  TypeOK'
    <2>1. StepsTypeOK'
        BY <1>0, <1>5, StepsType DEF TickSync, SubmitSync
    <2>2. saved' \in State
        BY <1>0, <1>5 DEF TickSync, SubmitSync
    <2>3. CASE UNCHANGED tickVars
        BY <1>5, <2>1, <2>2, <2>3 DEF TypeOK, TickSync, SubmitSync, tickVars
    <2>4. CASE EndTick
        BY <1>0, <1>5, <2>1, <2>2, <2>4, EndTickType DEF TickSync, SubmitSync
    <2>5. CASE NextPayment /\ SubmitSync(k)
        BY <2>1, <2>2, <2>5, NextPaymentType DEF SubmitSync
    <2>6. QED BY <1>5, <2>3, <2>4, <2>5 DEF TickSync, SubmitSync
<1>6. CASE TickSyncThrows
    BY <1>0, <1>6, EndTickType DEF TickSyncThrows, chainVars, StepsTypeOK
<1>7. CASE Interrupt
    <2>1. interruptions' \in 0 .. InterruptionLimit
        BY <1>0, <1>7, LimitAssumption DEF Interrupt
    <2>2. QED BY <1>0, <1>7, <2>1, EndTickType DEF Interrupt, chainVars, StepsTypeOK
<1>8. ASSUME NEW k \in Keys, Recover(k)
      PROVE  TypeOK'
    <2>1. CASE MayDebit(k)
        BY <1>8, <2>1, AppliedWrites DEF Recover, TypeOK, StepsTypeOK, chainVars, tickVars
    <2>2. CASE ~MayDebit(k)
        BY <1>0, <1>8, <2>2, EndTickType DEF Recover, StepsTypeOK, chainVars
    <2>3. QED BY <2>1, <2>2
<1>9. ASSUME NEW k \in Keys, BeginPayment(k)
      PROVE  TypeOK'
    BY <1>9, MarkType DEF BeginPayment, TypeOK, StepsTypeOK, chainVars
<1>10. CASE SaveStep
    BY <1>10, MarkType DEF SaveStep, TypeOK, StepsTypeOK, chainVars
<1>11. CASE ApplyPayment
    <2>1. paying \in Keys /\ pc = "apply" /\ StepsTypeOK'
        BY <1>11 DEF ApplyPayment, TypeOK, StepsTypeOK, chainVars
    <2>2. saved' \in State
        BY <1>0, <1>11, <2>1, AppliedWrites DEF ApplyPayment
    <2>3. QED BY <1>11, <2>1, <2>2, NextPaymentType DEF ApplyPayment
<1>12. CASE SubmitKnown \/ SubmitThrows
    <2>1. StepsTypeOK' /\ saved' \in State
        BY <1>0, <1>12 DEF SubmitKnown, SubmitThrows, StepsTypeOK, chainVars
    <2>2. CASE NextPayment
        BY <1>12, <2>1, <2>2, NextPaymentType DEF SubmitKnown, SubmitThrows
    <2>3. QED BY <1>12, <2>1, <2>2 DEF TypeOK, SubmitKnown, SubmitThrows
<1>13. CASE SubmitSign \/ SubmitAnswered
    <2>1. paying \in Keys
        BY <1>13 DEF TypeOK, SubmitSign, SubmitAnswered
    <2>2. StepsTypeOK' /\ saved' \in State
        BY <1>0, <1>13, <2>1, StepsType DEF SubmitSign, SubmitAnswered
    <2>3. CASE NextPayment /\ SubmitAnswered
        BY <2>2, <2>3, NextPaymentType DEF SubmitAnswered
    <2>4. QED BY <1>13, <2>2, <2>3 DEF TypeOK, SubmitSign, SubmitAnswered
<1>14. ASSUME NEW k \in Keys, MinePayment(k)
      PROVE  TypeOK'
    BY <1>0, <1>14, StepsType DEF MinePayment, TypeOK, tickVars
<1>15. CASE UNCHANGED vars
    BY <1>15 DEF vars, TypeOK, StepsTypeOK
<1>16. QED BY <1>1, <1>2, <1>3, <1>4, <1>5, <1>6, <1>7, <1>8, <1>9, <1>10, <1>11, <1>12,
             <1>13, <1>14, <1>15 DEF Next, Customer, Tick

\* Every variable of the cash accounts keeps its type; in particular no balance ever
\* falls below zero (cash-ledger.mjs debitPending, allocateCash).
THEOREM TypeCorrect == Spec => []TypeOK
<1>1. Init => TypeOK
    BY TypeInit
<1>2. TypeOK /\ IInv /\ [Next]_vars => TypeOK'
    BY TypeNext
<1>3. QED BY <1>1, <1>2, InvariantHolds, PTL DEF Spec

--------------------------------------------------------------------------------
(* The money of one customer. *)

Money(w) ==
    /\ Credited(w) = saved.pending[w] + Moved(w) + PaidOut(w)
    /\ saved.allocated[w] = Moved(w)
    /\ Credits(w) \subseteq deposited
    /\ Reserved(w) <= saved.pending[w]

\* What is added up for a customer are natural numbers.
LEMMA SumsAreNatural ==
    ASSUME TypeOK, NEW w \in Wallets
    PROVE  /\ \A i \in Credits(w) : saved.intents[i].amount \in Nat
           /\ \A k \in Moves(w) : saved.accountRequests[k].amount \in Nat
           /\ \A k \in Keys : Amount[k] \in Nat
           /\ Reserved(w) \in Nat /\ PaidOut(w) \in Nat
           /\ Credited(w) \in Nat /\ Moved(w) \in Nat
           /\ saved.pending[w] \in Nat /\ saved.allocated[w] \in Nat
<1>1. \A i \in Credits(w) : saved.intents[i].amount \in Nat
    BY SumsAreFinite DEF TypeOK, State, Intent
<1>2. \A k \in Moves(w) : saved.accountRequests[k].amount \in Nat
    <2> TAKE k \in Moves(w)
    <2>1. /\ saved.accountRequests[k] \in Requests
          /\ saved.accountRequests[k].action = "ALLOCATE"
        BY DEF Moves, TypeOK, State
    <2>2. QED BY <2>1, AmountsAssumption DEF Requests
<1>3. \A k \in Keys : Amount[k] \in Nat
    BY DEF Amount, TypeOK, State, Withdrawal
<1>4. Reserved(w) \in Nat /\ PaidOut(w) \in Nat
    BY <1>3, SumsAreFinite, SumGrows DEF Reserved, PaidOut
<1>5. Credited(w) \in Nat
    <2> DEFINE f == [i \in Credits(w) |-> saved.intents[i].amount]
    <2>1. IsFiniteSet(Credits(w)) /\ \A i \in Credits(w) : f[i] \in Nat
        BY <1>1, SumsAreFinite
    <2>2. Credited(w) = SumFunctionOnSet(f, Credits(w))
        BY DEF Credited, SumFunction
    <2> HIDE DEF f
    <2>3. QED BY <2>1, <2>2, SumGrows
<1>6. Moved(w) \in Nat
    <2> DEFINE f == [k \in Moves(w) |-> saved.accountRequests[k].amount]
    <2>1. IsFiniteSet(Moves(w)) /\ \A k \in Moves(w) : f[k] \in Nat
        BY <1>2, SumsAreFinite
    <2>2. Moved(w) = SumFunctionOnSet(f, Moves(w))
        BY DEF Moved, SumFunction
    <2> HIDE DEF f
    <2>3. QED BY <2>1, <2>2, SumGrows
<1>7. QED BY <1>1, <1>2, <1>3, <1>4, <1>5, <1>6 DEF TypeOK, State

\* A sum stays when the set it ranges over and the values in it do.
LEMMA SumsStay ==
    ASSUME NEW w \in Wallets
    PROVE  /\ Credits(w)' = Credits(w) /\ (\A i \in Credits(w) : saved'.intents[i].amount = saved.intents[i].amount)
                => Credited(w)' = Credited(w)
           /\ Moves(w)' = Moves(w) /\ (\A k \in Moves(w) : saved'.accountRequests[k] = saved.accountRequests[k])
                => Moved(w)' = Moved(w)
           /\ Paid(w)' = Paid(w) /\ (\A k \in Paid(w) : Amount'[k] = Amount[k])
                => PaidOut(w)' = PaidOut(w)
           /\ Open(w)' = Open(w) /\ (\A k \in Open(w) : Amount'[k] = Amount[k])
                => Reserved(w)' = Reserved(w)
<1>1. ASSUME Credits(w)' = Credits(w),
             \A i \in Credits(w) : saved'.intents[i].amount = saved.intents[i].amount
      PROVE  Credited(w)' = Credited(w)
    <2>1. [i \in Credits(w)' |-> saved'.intents[i].amount] = [i \in Credits(w) |-> saved.intents[i].amount]
        BY <1>1
    <2>2. QED BY <2>1 DEF Credited
<1>2. ASSUME Moves(w)' = Moves(w),
             \A k \in Moves(w) : saved'.accountRequests[k] = saved.accountRequests[k]
      PROVE  Moved(w)' = Moved(w)
    <2>1. [k \in Moves(w)' |-> saved'.accountRequests[k].amount]
            = [k \in Moves(w) |-> saved.accountRequests[k].amount]
        BY <1>2
    <2>2. QED BY <2>1 DEF Moved
<1>3. ASSUME Paid(w)' = Paid(w), \A k \in Paid(w) : Amount'[k] = Amount[k]
      PROVE  PaidOut(w)' = PaidOut(w)
    BY <1>3, SumsAreFinite, SumSame DEF PaidOut
<1>4. ASSUME Open(w)' = Open(w), \A k \in Open(w) : Amount'[k] = Amount[k]
      PROVE  Reserved(w)' = Reserved(w)
    BY <1>4, SumsAreFinite, SumSame DEF Reserved
<1>5. QED BY <1>1, <1>2, <1>3, <1>4

\* Deposits confirmed, requests answered and withdrawals decide what is added up.
LEMMA WithdrawalsKept ==
    ASSUME TypeOK, NEW w \in Wallets, saved'.withdrawals = saved.withdrawals
    PROVE  Reserved(w)' = Reserved(w) /\ PaidOut(w)' = PaidOut(w)
<1>1. Open(w)' = Open(w) /\ Paid(w)' = Paid(w) /\ Amount' = Amount
    BY DEF Open, Paid, WithdrawalsOf, Amount
<1>2. QED BY <1>1, SumsStay

\* Deposits that do not change credit the same sum.
LEMMA CreditsKept ==
    ASSUME NEW w \in Wallets, saved'.intents = saved.intents
    PROVE  Credited(w)' = Credited(w) /\ Credits(w)' = Credits(w)
<1>1. Credits(w)' = Credits(w)
    BY DEF Credits
<1>2. QED BY <1>1, SumsStay

\* A request that allocates nothing leaves the sum of the allocations alone.
LEMMA MovesKept ==
    ASSUME TypeOK, NEW w \in Wallets,
           \/ saved'.accountRequests = saved.accountRequests
           \/ \E k \in Keys, r \in Requests :
                 /\ saved.accountRequests[k] = NoRequest
                 /\ saved'.accountRequests = [saved.accountRequests EXCEPT ![k] = r]
                 /\ KeyOwner[k] # w \/ r.action # "ALLOCATE"
    PROVE  Moved(w)' = Moved(w)
<1>1. CASE saved'.accountRequests = saved.accountRequests
    <2>1. Moves(w)' = Moves(w)
        BY <1>1 DEF Moves
    <2>2. QED BY <1>1, <2>1, SumsStay
<1>2. ASSUME NEW k \in Keys, NEW r \in Requests,
             saved.accountRequests[k] = NoRequest,
             saved'.accountRequests = [saved.accountRequests EXCEPT ![k] = r],
             KeyOwner[k] # w \/ r.action # "ALLOCATE"
      PROVE  Moved(w)' = Moved(w)
    <2>1. \A j \in Keys : j # k => saved'.accountRequests[j] = saved.accountRequests[j]
        BY <1>2 DEF TypeOK, State
    <2>2. saved'.accountRequests[k] = r
        BY <1>2 DEF TypeOK, State
    <2>3. k \notin Moves(w) /\ k \notin Moves(w)'
        BY <1>2, <2>2 DEF Moves
    <2>4. \A j \in Keys : j \in Moves(w) <=> j \in Moves(w)'
        BY <2>1, <2>3 DEF Moves
    <2>5. Moves(w)' = Moves(w)
        BY <2>4 DEF Moves
    <2>6. QED BY <2>1, <2>3, <2>5, SumsStay DEF Moves
<1>3. QED BY <1>1, <1>2

\* Nothing about money changes, or only the chain gets a deposit.
LEMMA MoneyKept ==
    ASSUME TypeOK, NEW w \in Wallets, Money(w), deposited \subseteq deposited',
           saved'.pending = saved.pending, saved'.allocated = saved.allocated,
           saved'.intents = saved.intents, saved'.accountRequests = saved.accountRequests,
           saved'.withdrawals = saved.withdrawals
    PROVE  Money(w)'
BY WithdrawalsKept, CreditsKept, MovesKept DEF Money

\* A prepared deposit moves no money.
LEMMA PrepareMoney ==
    ASSUME TypeOK, NEW w \in Wallets, Money(w),
           NEW i \in Intents, NEW v \in Wallets, NEW a \in Amounts, Prepare(i, v, a)
    PROVE  Money(w)'
<1> DEFINE new == [status |-> "PREPARED", wallet |-> v, amount |-> a]
<1>1. /\ saved'.pending = saved.pending /\ saved'.allocated = saved.allocated
      /\ saved'.withdrawals = saved.withdrawals /\ saved'.accountRequests = saved.accountRequests
      /\ saved.intents[i].status = "none" /\ saved'.intents[i] = new
      /\ \A j \in Intents : j # i => saved'.intents[j] = saved.intents[j]
      /\ deposited' = deposited
    BY DEF Prepare, TypeOK, State
<1>2. i \notin Credits(w) /\ i \notin Credits(w)'
    BY <1>1 DEF Credits
<1>3. \A j \in Intents : j \in Credits(w) <=> j \in Credits(w)'
    BY <1>1, <1>2 DEF Credits
<1>4. Credits(w)' = Credits(w)
    BY <1>3 DEF Credits
<1>5. Credited(w)' = Credited(w)
    BY <1>1, <1>2, <1>4, SumsStay, SumsAreFinite
<1>6. QED BY <1>1, <1>4, <1>5, WithdrawalsKept, MovesKept DEF Money

\* A completed deposit is credited once.
LEMMA CompleteMoney ==
    ASSUME TypeOK, NEW w \in Wallets, Money(w), deposited' = deposited,
           NEW k \in Keys, NEW r \in Requests, r.action = "COMPLETE", Fresh(k),
           Complete([saved EXCEPT !.accountRequests[k] = r], KeyOwner[k], r)
    PROVE  Money(w)'
<1> DEFINE v == KeyOwner[k]
           i == r.intent
<1>1. /\ v \in Wallets /\ i \in Intents /\ i \in deposited
      /\ saved.intents[i].status = "PREPARED" /\ saved.intents[i].wallet = v
      /\ saved'.pending = [saved.pending EXCEPT ![v] = @ + saved.intents[i].amount]
      /\ saved'.allocated = saved.allocated /\ saved'.withdrawals = saved.withdrawals
      /\ saved'.intents = [saved.intents EXCEPT ![i].status = "CONFIRMED"]
      /\ saved'.accountRequests = [saved.accountRequests EXCEPT ![k] = r]
    BY CompleteWrites
<1> HIDE DEF i, v
<1>2. /\ saved'.intents[i].status = "CONFIRMED" /\ saved'.intents[i].wallet = v
      /\ saved'.intents[i].amount = saved.intents[i].amount
      /\ \A j \in Intents : j # i => saved'.intents[j] = saved.intents[j]
    BY <1>1 DEF TypeOK, State, Intent
<1>3. /\ Reserved(w)' = Reserved(w) /\ PaidOut(w)' = PaidOut(w) /\ Moved(w)' = Moved(w)
      /\ saved'.allocated[w] = saved.allocated[w]
    BY <1>1, WithdrawalsKept, MovesKept DEF Fresh
<1>4. CASE w = v
    <2>1. i \notin Credits(w)
        BY <1>1 DEF Credits
    <2>2. Credits(w)' = Credits(w) \cup {i}
        <3>1. \A j \in Intents : j \in Credits(w)' <=> j \in Credits(w) \/ j = i
            BY <1>2, <1>4 DEF Credits
        <3>2. QED BY <1>1, <3>1 DEF Credits
    <2>3. Credited(w)' = Credited(w) + saved.intents[i].amount
        <3> DEFINE f == [j \in Credits(w) |-> saved.intents[j].amount]
                   h == [j \in Credits(w)' |-> saved'.intents[j].amount]
        <3>1. /\ \A j \in Credits(w) : f[j] = h[j]
              /\ h[i] = saved.intents[i].amount
            BY <1>2, <2>1, <2>2, SumsAreFinite
        <3>2. \A j \in Credits(w)' : h[j] \in Int
            BY <1>1, <1>2, <2>2, SumsAreFinite DEF TypeOK, State, Intent
        <3>3. Credited(w) = SumFunctionOnSet(f, Credits(w)) /\ Credited(w)' = SumFunctionOnSet(h, Credits(w)')
            BY DEF Credited, SumFunction
        <3> HIDE DEF f, h
        <3>4. QED BY <2>1, <2>2, <3>1, <3>2, <3>3, SumsAreFinite, SumExtends
    <2>4. saved'.pending[w] = saved.pending[w] + saved.intents[i].amount
        BY <1>1, <1>4 DEF TypeOK, State
    <2>5. /\ saved.intents[i].amount \in Nat /\ saved.pending[w] \in Nat /\ Reserved(w) \in Nat
          /\ Moved(w) \in Nat /\ PaidOut(w) \in Nat
        BY <1>1, SumsAreNatural DEF TypeOK, State, Intent
    <2>6. Credits(w)' \subseteq deposited'
        BY <1>1, <2>2 DEF Money
    <2>7. QED BY <1>3, <2>3, <2>4, <2>5, <2>6 DEF Money
<1>5. CASE w # v
    <2>1. \A j \in Intents : j \in Credits(w)' <=> j \in Credits(w)
        BY <1>1, <1>2, <1>5 DEF Credits
    <2>2. Credits(w)' = Credits(w)
        BY <2>1 DEF Credits
    <2>3. Credited(w)' = Credited(w)
        <3>1. \A j \in Credits(w) : saved'.intents[j].amount = saved.intents[j].amount
            BY <1>2, SumsAreFinite
        <3>2. QED BY <2>2, <3>1, SumsStay
    <2>4. saved'.pending[w] = saved.pending[w]
        BY <1>1, <1>5 DEF TypeOK, State
    <2>5. QED BY <1>3, <2>2, <2>3, <2>4 DEF Money
<1>6. QED BY <1>4, <1>5

\* An allocation moves money out of the balance.
LEMMA AllocateMoney ==
    ASSUME TypeOK, NEW w \in Wallets, Money(w), deposited' = deposited,
           NEW k \in Keys, NEW r \in Requests, r.action = "ALLOCATE", Fresh(k),
           Allocate([saved EXCEPT !.accountRequests[k] = r], KeyOwner[k], r)
    PROVE  Money(w)'
<1> DEFINE v == KeyOwner[k]
<1>1. /\ v \in Wallets /\ r.amount \in Nat /\ r.amount <= saved.pending[v] - Reserved(v)
      /\ saved'.pending = [saved.pending EXCEPT ![v] = @ - r.amount]
      /\ saved'.allocated = [saved.allocated EXCEPT ![v] = @ + r.amount]
      /\ saved'.withdrawals = saved.withdrawals /\ saved'.intents = saved.intents
      /\ saved'.accountRequests = [saved.accountRequests EXCEPT ![k] = r]
    BY AllocateWrites
<1> HIDE DEF v
<1>2. /\ Reserved(w)' = Reserved(w) /\ PaidOut(w)' = PaidOut(w)
      /\ Credited(w)' = Credited(w) /\ Credits(w)' = Credits(w)
    BY <1>1, WithdrawalsKept, CreditsKept
<1>3. CASE w = v
    <2>1. k \notin Moves(w)
        BY DEF Moves, Fresh
    <2>2. saved'.accountRequests[k] = r
          /\ \A j \in Keys : j # k => saved'.accountRequests[j] = saved.accountRequests[j]
        BY <1>1 DEF TypeOK, State
    <2>3. Moves(w)' = Moves(w) \cup {k}
        <3>1. \A j \in Keys : j \in Moves(w)' <=> j \in Moves(w) \/ j = k
            BY <1>3, <2>1, <2>2, NoneAssumption DEF Moves, v
        <3>2. QED BY <3>1 DEF Moves
    <2>4. Moved(w)' = Moved(w) + r.amount
        <3> DEFINE f == [j \in Moves(w) |-> saved.accountRequests[j].amount]
                   h == [j \in Moves(w)' |-> saved'.accountRequests[j].amount]
        <3>1. /\ \A j \in Moves(w) : f[j] = h[j]
              /\ h[k] = r.amount
            BY <2>1, <2>2, <2>3, SumsAreFinite
        <3>2. \A j \in Moves(w)' : h[j] \in Int
            BY <1>1, <2>1, <2>2, <2>3, <3>1, SumsAreNatural
        <3>3. Moved(w) = SumFunctionOnSet(f, Moves(w)) /\ Moved(w)' = SumFunctionOnSet(h, Moves(w)')
            BY DEF Moved, SumFunction
        <3>4. IsFiniteSet(Moves(w))
            BY SumsAreFinite
        <3> HIDE DEF f, h
        <3>5. SumFunctionOnSet(h, Moves(w)') = SumFunctionOnSet(f, Moves(w)) + h[k]
            BY <2>1, <2>3, <3>1, <3>2, <3>4, SumExtends
        <3>6. QED BY <3>1, <3>3, <3>5
    <2>5. /\ saved'.pending[w] = saved.pending[w] - r.amount
          /\ saved'.allocated[w] = saved.allocated[w] + r.amount
        BY <1>1, <1>3 DEF TypeOK, State
    <2>6. QED BY <1>1, <1>2, <1>3, <2>4, <2>5, SumsAreNatural DEF Money
<1>4. CASE w # v
    <2>1. Moved(w)' = Moved(w)
        BY <1>1, <1>4, MovesKept DEF Fresh, v
    <2>2. saved'.pending[w] = saved.pending[w] /\ saved'.allocated[w] = saved.allocated[w]
        BY <1>1, <1>4 DEF TypeOK, State
    <2>3. QED BY <1>2, <2>1, <2>2 DEF Money
<1>5. QED BY <1>3, <1>4

\* A withdrawal reserves what it asks for.
LEMMA WithdrawMoney ==
    ASSUME TypeOK, NEW w \in Wallets, Money(w), deposited' = deposited,
           NEW k \in Keys, NEW r \in Requests, r.action = "WITHDRAW", Fresh(k),
           saved.withdrawals[k].status = "none",
           WithdrawCash([saved EXCEPT !.accountRequests[k] = r], k, r)
    PROVE  Money(w)'
<1> DEFINE v == KeyOwner[k]
           wd == [status |-> "REQUESTED", amount |-> r.amount, step |-> "none"]
<1>1. /\ v \in Wallets /\ r.amount \in Nat /\ r.amount <= saved.pending[v] - Reserved(v)
      /\ saved'.pending = saved.pending /\ saved'.allocated = saved.allocated
      /\ saved'.intents = saved.intents
      /\ saved'.withdrawals = [saved.withdrawals EXCEPT ![k] = wd]
      /\ saved'.accountRequests = [saved.accountRequests EXCEPT ![k] = r]
    BY WithdrawWrites
<1>2. /\ saved'.withdrawals[k] = wd
      /\ \A j \in Keys : j # k => saved'.withdrawals[j] = saved.withdrawals[j]
    BY <1>1 DEF TypeOK, State
<1>3. wd.status = "REQUESTED" /\ wd.amount = r.amount
    OBVIOUS
<1> HIDE DEF v, wd
<1>4. Credited(w)' = Credited(w) /\ Credits(w)' = Credits(w) /\ Moved(w)' = Moved(w)
    BY <1>1, CreditsKept, MovesKept DEF Fresh
<1>5. \A j \in Keys : j # k => Amount'[j] = Amount[j]
    BY <1>2 DEF Amount
<1>6. PaidOut(w)' = PaidOut(w)
    <2>1. k \notin Paid(w) /\ k \notin Paid(w)'
        BY <1>2, <1>3 DEF Paid
    <2>2. \A j \in Keys : j \in Paid(w)' <=> j \in Paid(w)
        BY <1>2, <2>1 DEF Paid, WithdrawalsOf
    <2>3. Paid(w)' = Paid(w)
        BY <2>2 DEF Paid, WithdrawalsOf
    <2>4. QED BY <1>5, <2>1, <2>3, SumsStay, SumsAreFinite
<1>7. CASE w = v
    <2>1. k \notin Open(w)
        BY DEF Open
    <2>2. Open(w)' = Open(w) \cup {k}
        <3>1. \A j \in Keys : j \in Open(w)' <=> j \in Open(w) \/ j = k
            BY <1>2, <1>3, <1>7 DEF Open, WithdrawalsOf, v
        <3>2. QED BY <3>1 DEF Open, WithdrawalsOf
    <2>3. Reserved(w)' = Reserved(w) + r.amount
        <3>1. Amount'[k] = r.amount
            BY <1>2, <1>3 DEF Amount
        <3>2. \A j \in Open(w)' : Amount'[j] \in Int
            BY <1>1, <1>5, <2>1, <2>2, <3>1, SumsAreFinite, SumsAreNatural
        <3>3. \A j \in Open(w) : Amount[j] = Amount'[j]
            BY <1>5, <2>1, SumsAreFinite
        <3>4. IsFiniteSet(Open(w))
            BY SumsAreFinite
        <3> DEFINE f == Amount
                   h == Amount'
        <3>5. /\ \A j \in Open(w)' : h[j] \in Int
              /\ \A j \in Open(w) : f[j] = h[j]
            BY <3>2, <3>3
        <3> HIDE DEF f, h
        <3>6. SumFunctionOnSet(h, Open(w)') = SumFunctionOnSet(f, Open(w)) + h[k]
            BY <2>1, <2>2, <3>4, <3>5, SumExtends
        <3>7. QED BY <3>1, <3>6 DEF Reserved, f, h
    <2>4. QED BY <1>1, <1>4, <1>6, <1>7, <2>3, SumsAreNatural DEF Money
<1>8. CASE w # v
    <2>1. k \notin Open(w) /\ k \notin Open(w)'
        BY <1>8 DEF Open, WithdrawalsOf, v
    <2>2. \A j \in Keys : j \in Open(w)' <=> j \in Open(w)
        BY <1>2, <2>1 DEF Open, WithdrawalsOf
    <2>3. Open(w)' = Open(w)
        BY <2>2 DEF Open, WithdrawalsOf
    <2>4. Reserved(w)' = Reserved(w)
        BY <1>5, <2>1, <2>3, SumsStay, SumsAreFinite
    <2>5. QED BY <1>1, <1>4, <1>6, <2>4 DEF Money
<1>9. QED BY <1>7, <1>8

\* The withdrawal of one key is cancelled: it is open no more.
LEMMA CancelMoney ==
    ASSUME TypeOK, NEW w \in Wallets, Money(w), deposited' = deposited,
           NEW k \in Keys, NEW r \in Requests, r.action = "CANCEL", Fresh(k),
           CancelCash([saved EXCEPT !.accountRequests[k] = r], KeyOwner[k], r)
    PROVE  Money(w)'
<1> DEFINE t == r.target
<1>1. /\ t \in Keys /\ saved.withdrawals[t].status = "REQUESTED"
      /\ saved'.pending = saved.pending /\ saved'.allocated = saved.allocated
      /\ saved'.intents = saved.intents
      /\ saved'.withdrawals = [saved.withdrawals EXCEPT ![t].status = "CANCELLED"]
      /\ saved'.accountRequests = [saved.accountRequests EXCEPT ![k] = r]
    BY CancelWrites
<1> HIDE DEF t
<1>2. /\ saved'.withdrawals[t].status = "CANCELLED"
      /\ saved'.withdrawals[t].amount = saved.withdrawals[t].amount
      /\ \A j \in Keys : j # t => saved'.withdrawals[j] = saved.withdrawals[j]
    BY <1>1 DEF TypeOK, State, Withdrawal
<1>3. Credited(w)' = Credited(w) /\ Credits(w)' = Credits(w) /\ Moved(w)' = Moved(w)
    BY <1>1, CreditsKept, MovesKept DEF Fresh
<1>4. \A j \in Keys : Amount'[j] = Amount[j]
    BY <1>2 DEF Amount
<1>5. PaidOut(w)' = PaidOut(w)
    <2>1. \A j \in Keys : j \in Paid(w)' <=> j \in Paid(w)
        BY <1>1, <1>2 DEF Paid, WithdrawalsOf
    <2>2. Paid(w)' = Paid(w)
        BY <2>1 DEF Paid, WithdrawalsOf
    <2>3. QED BY <1>4, <2>2, SumsStay, SumsAreFinite
<1>6. Reserved(w)' <= Reserved(w)
    <2>1. \A j \in Keys : j \in Open(w)' => j \in Open(w)
        BY <1>1, <1>2 DEF Open, WithdrawalsOf
    <2>2. Open(w)' \subseteq Open(w)
        BY <2>1 DEF Open, WithdrawalsOf
    <2>3. Reserved(w)' = SumFunctionOnSet(Amount, Open(w)')
        BY <1>4, <2>2, SumSame, SumsAreFinite, FS_Subset DEF Reserved
    <2>4. SumFunctionOnSet(Amount, Open(w)') <= SumFunctionOnSet(Amount, Open(w))
        <3>1. IsFiniteSet(Open(w)) /\ \A j \in Open(w) : Amount[j] \in Nat
            BY SumsAreFinite, SumsAreNatural
        <3>2. QED BY <2>2, <3>1, SumGrows
    <2>5. QED BY <2>3, <2>4 DEF Reserved
<1>7. Reserved(w)' \in Nat
    <2>1. Open(w)' \subseteq Keys /\ \A j \in Keys : Amount'[j] \in Nat
        BY <1>4, SumsAreNatural DEF Open, WithdrawalsOf
    <2>2. IsFiniteSet(Open(w)')
        BY <2>1, FiniteAssumption, FS_Subset
    <2>3. QED BY <2>1, <2>2, SumGrows DEF Reserved
<1>8. QED BY <1>1, <1>3, <1>5, <1>6, <1>7, SumsAreNatural DEF Money

\* A payment is booked: the withdrawal leaves what is reserved and the balance.
LEMMA AppliedMoney ==
    ASSUME TypeOK, NEW w \in Wallets, Money(w), deposited' = deposited,
           NEW k \in Keys, saved.withdrawals[k].status \in {"REQUESTED", "SETTLING"},
           MayDebit(k), saved' = Applied(k)
    PROVE  Money(w)'
<1> DEFINE v == KeyOwner[k]
<1>1. /\ v \in Wallets /\ saved.withdrawals[k].amount <= saved.pending[v]
      /\ saved'.pending = [saved.pending EXCEPT ![v] = @ - saved.withdrawals[k].amount]
      /\ saved'.allocated = saved.allocated /\ saved'.intents = saved.intents
      /\ saved'.withdrawals = [saved.withdrawals EXCEPT ![k].status = "PAID", ![k].step = "applied"]
      /\ saved'.accountRequests = saved.accountRequests
    BY AppliedWrites
<1> HIDE DEF v
<1>2. /\ saved'.withdrawals[k].status = "PAID"
      /\ saved'.withdrawals[k].amount = saved.withdrawals[k].amount
      /\ \A j \in Keys : j # k => saved'.withdrawals[j] = saved.withdrawals[j]
    BY <1>1 DEF TypeOK, State, Withdrawal
<1>3. Credited(w)' = Credited(w) /\ Credits(w)' = Credits(w) /\ Moved(w)' = Moved(w)
    BY <1>1, CreditsKept, MovesKept
<1>4. \A j \in Keys : Amount'[j] = Amount[j]
    BY <1>2 DEF Amount
<1>5. \A j \in Keys : Amount[j] \in Int
    BY SumsAreNatural
<1> DEFINE f == Amount
           h == Amount'
<1>6. (\A j \in Keys : f[j] = h[j] /\ f[j] \in Int) /\ f[k] = saved.withdrawals[k].amount
    BY <1>4, <1>5 DEF Amount
<1>7. /\ Reserved(w) = SumFunctionOnSet(f, Open(w)) /\ Reserved(w)' = SumFunctionOnSet(h, Open(w)')
      /\ PaidOut(w) = SumFunctionOnSet(f, Paid(w)) /\ PaidOut(w)' = SumFunctionOnSet(h, Paid(w)')
    BY DEF Reserved, PaidOut
<1>8. CASE w = v
    <2>1. k \in Open(w) /\ k \notin Paid(w)
        BY <1>8 DEF Open, Paid, WithdrawalsOf, v
    <2>2. Open(w)' = Open(w) \ {k}
        <3>1. \A j \in Keys : j \in Open(w)' <=> j \in Open(w) /\ j # k
            BY <1>2 DEF Open, WithdrawalsOf
        <3>2. QED BY <3>1 DEF Open, WithdrawalsOf
    <2>3. Paid(w)' = Paid(w) \cup {k}
        <3>1. \A j \in Keys : j \in Paid(w)' <=> j \in Paid(w) \/ j = k
            BY <1>2, <1>8 DEF Paid, WithdrawalsOf, v
        <3>2. QED BY <3>1 DEF Paid, WithdrawalsOf
    <2>4. /\ IsFiniteSet(Open(w)) /\ Open(w) \subseteq Keys
          /\ IsFiniteSet(Paid(w)) /\ Paid(w) \subseteq Keys
        BY SumsAreFinite
    <2> HIDE DEF f, h
    <2>5. SumFunctionOnSet(h, Open(w)') = SumFunctionOnSet(f, Open(w)) - f[k]
        <3>1. (\A j \in Open(w) : f[j] \in Int) /\ \A j \in Open(w)' : f[j] = h[j]
            BY <1>6, <2>2, <2>4
        <3>2. QED BY <2>1, <2>2, <2>4, <3>1, SumShrinks
    <2>6. SumFunctionOnSet(h, Paid(w)') = SumFunctionOnSet(f, Paid(w)) + h[k]
        <3>1. (\A j \in Paid(w)' : h[j] \in Int) /\ \A j \in Paid(w) : f[j] = h[j]
            BY <1>6, <2>3, <2>4
        <3>2. QED BY <2>1, <2>3, <2>4, <3>1, SumExtends
    <2>7. h[k] = f[k] /\ f[k] \in Int
        BY <1>6
    <2>8. saved'.pending[w] = saved.pending[w] - f[k]
        BY <1>1, <1>6, <1>8 DEF TypeOK, State
    <2>9. Reserved(w)' = Reserved(w) - f[k] /\ PaidOut(w)' = PaidOut(w) + f[k]
        BY <1>7, <2>5, <2>6, <2>7
    <2>10. QED BY <1>1, <1>3, <2>7, <2>8, <2>9, SumsAreNatural DEF Money
<1>9. CASE w # v
    <2>1. k \notin Open(w) /\ k \notin Paid(w) /\ k \notin Open(w)' /\ k \notin Paid(w)'
        BY <1>9 DEF Open, Paid, WithdrawalsOf, v
    <2>2. \A j \in Keys : (j \in Open(w)' <=> j \in Open(w)) /\ (j \in Paid(w)' <=> j \in Paid(w))
        BY <1>2, <2>1 DEF Open, Paid, WithdrawalsOf
    <2>3. Open(w)' = Open(w) /\ Paid(w)' = Paid(w)
        BY <2>2 DEF Open, Paid, WithdrawalsOf
    <2>4. Reserved(w)' = Reserved(w) /\ PaidOut(w)' = PaidOut(w)
        BY <1>4, <2>3, SumsStay, SumsAreFinite
    <2>5. saved'.pending[w] = saved.pending[w]
        BY <1>1, <1>9 DEF TypeOK, State
    <2>6. QED BY <1>1, <1>3, <2>4, <2>5 DEF Money
<1>10. QED BY <1>8, <1>9

\* A mark on an open withdrawal that leaves it open.
LEMMA MarkMoney ==
    ASSUME TypeOK, NEW w \in Wallets, Money(w), deposited' = deposited,
           NEW k \in Keys, saved.withdrawals[k].status \in {"REQUESTED", "SETTLING"},
           \/ saved' = [saved EXCEPT !.withdrawals[k].status = "SETTLING"]
           \/ saved' = [saved EXCEPT !.withdrawals[k].step = "saved"]
    PROVE  Money(w)'
<1>1. /\ saved'.pending = saved.pending /\ saved'.allocated = saved.allocated
      /\ saved'.intents = saved.intents /\ saved'.accountRequests = saved.accountRequests
      /\ \A j \in Keys : saved'.withdrawals[j].amount = saved.withdrawals[j].amount
    BY MarkType
<1>2. /\ saved'.withdrawals[k].status \in {"REQUESTED", "SETTLING"}
      /\ \A j \in Keys : j # k => saved'.withdrawals[j].status = saved.withdrawals[j].status
    BY DEF TypeOK, State, Withdrawal
<1>3. \A j \in Keys : (j \in Open(w)' <=> j \in Open(w)) /\ (j \in Paid(w)' <=> j \in Paid(w))
    BY <1>2 DEF Open, Paid, WithdrawalsOf
<1>4. Open(w)' = Open(w) /\ Paid(w)' = Paid(w)
    BY <1>3 DEF Open, Paid, WithdrawalsOf
<1>5. \A j \in Keys : Amount'[j] = Amount[j]
    BY <1>1 DEF Amount
<1>6. Reserved(w)' = Reserved(w) /\ PaidOut(w)' = PaidOut(w)
    BY <1>4, <1>5, SumsStay, SumsAreFinite
<1>7. QED BY <1>1, <1>6, CreditsKept, MovesKept DEF Money

\* There is no money in the beginning.
LEMMA InitMoney ==
    ASSUME Init, NEW w \in Wallets
    PROVE  Money(w)
<1>1. Credits(w) = {} /\ Moves(w) = {} /\ Paid(w) = {} /\ Open(w) = {}
    BY DEF Init, EmptyState, NoWithdrawal, NoIntent, Credits, Moves, Paid, Open, WithdrawalsOf
<1>2. /\ Credited(w) = SumFunctionOnSet([i \in {} |-> saved.intents[i].amount], {})
      /\ Moved(w) = SumFunctionOnSet([k \in {} |-> saved.accountRequests[k].amount], {})
    BY <1>1 DEF Credited, Moved, SumFunction
<1>3. Credited(w) = 0 /\ Moved(w) = 0 /\ PaidOut(w) = 0 /\ Reserved(w) = 0
    BY <1>1, <1>2, SumEmpty DEF PaidOut, Reserved
<1>4. saved.pending[w] = 0 /\ saved.allocated[w] = 0
    BY DEF Init, EmptyState
<1>5. QED BY <1>1, <1>3, <1>4 DEF Money

\* The withdrawals a section handles are open ones.
LEMMA NextMoney ==
    ASSUME TypeOK, IInv, [Next]_vars, NEW w \in Wallets, Money(w)
    PROVE  Money(w)'
<1>1. ASSUME NEW i \in Intents, NEW v \in Wallets, NEW a \in Amounts, Prepare(i, v, a)
      PROVE  Money(w)'
    BY <1>1, PrepareMoney
<1>2. ASSUME NEW k \in Keys, NEW r \in Requests, AccountRequest(k, r)
      PROVE  Money(w)'
    <2> DEFINE s == [saved EXCEPT !.accountRequests[k] = r]
    <2>1. Fresh(k) /\ deposited' = deposited
        BY <1>2 DEF AccountRequest
    <2>2. saved.withdrawals[k].status = "none"
        BY <2>1 DEF IInv, WithdrawalOK, Fresh
    <2>3. CASE r.action = "COMPLETE"
        <3>1. Complete(s, KeyOwner[k], r)
            BY <1>2, <2>3 DEF AccountRequest
        <3>2. QED BY <2>1, <2>3, <3>1, CompleteMoney
    <2>4. CASE r.action = "ALLOCATE"
        <3>1. Allocate(s, KeyOwner[k], r)
            BY <1>2, <2>4 DEF AccountRequest
        <3>2. QED BY <2>1, <2>4, <3>1, AllocateMoney
    <2>5. CASE r.action = "WITHDRAW"
        <3>1. WithdrawCash(s, k, r)
            BY <1>2, <2>5 DEF AccountRequest
        <3>2. QED BY <2>1, <2>2, <2>5, <3>1, WithdrawMoney
    <2>6. CASE r.action = "CANCEL"
        <3>1. CancelCash(s, KeyOwner[k], r)
            BY <1>2, <2>6 DEF AccountRequest
        <3>2. QED BY <2>1, <2>6, <3>1, CancelMoney
    <2>7. QED BY <2>3, <2>4, <2>5, <2>6 DEF Requests
<1>3. ASSUME NEW k \in Keys, BeginPayment(k)
      PROVE  Money(w)'
    BY <1>3, MarkMoney DEF BeginPayment, IInv, SectionOK
<1>4. CASE SaveStep
    BY <1>4, MarkMoney DEF SaveStep, IInv, SectionOK
<1>5. ASSUME NEW k \in Keys, Recover(k), MayDebit(k)
      PROVE  Money(w)'
    <2>1. saved.withdrawals[k].status \in {"REQUESTED", "SETTLING"}
        BY <1>5 DEF Recover, Unapplied, IInv, WithdrawalOK, Outcomes
    <2>2. QED BY <1>5, <2>1, AppliedMoney DEF Recover
<1>6. CASE ApplyPayment /\ MayDebit(paying)
    BY <1>6, AppliedMoney DEF ApplyPayment, IInv, SectionOK
<1>7. CASE saved' = saved /\ deposited \subseteq deposited'
    BY <1>7, MoneyKept
<1>8. QED
    <2>1. CASE Customer
        BY <2>1, <1>1, <1>2, <1>7 DEF Customer, DepositOnChain
    <2>2. CASE Tick
        BY <2>2, <1>3, <1>4, <1>5, <1>6, <1>7 DEF Tick, TickBegin, TickSynced, TickSyncThrows, Recovered,
           SubmitKnown, SubmitSign, SubmitAnswered, ApplyPayment, CloseBook, OpenBook, TickSync, Recover,
           SubmitSync
    <2>3. CASE SubmitThrows \/ Interrupt \/ (\E k \in Keys : MinePayment(k)) \/ UNCHANGED vars
        BY <2>3, <1>7 DEF SubmitThrows, Interrupt, MinePayment, vars
    <2>4. QED BY <2>1, <2>2, <2>3 DEF Next

\* Every customer's money is accounted for: the balance with what was moved and paid
\* out is what was credited, and what is still owed is covered by it.
THEOREM MoneyIsKept == Spec => [](\A w \in Wallets : Money(w))
<1>1. Init => \A w \in Wallets : Money(w)
    BY InitMoney
<1>2. TypeOK /\ IInv /\ (\A w \in Wallets : Money(w)) /\ [Next]_vars
        => (\A w \in Wallets : Money(w))'
    BY NextMoney
<1>3. QED BY <1>1, <1>2, TypeCorrect, InvariantHolds, PTL DEF Spec

\* A customer's balance is always what the confirmed deposits, the answered
\* allocations and the paid withdrawals say, each counted once (investments.mjs
\* accountRequest, execution.mjs applyEffect), for any number of them.
THEOREM BalancesMatchHistory == Spec => []BalanceMatchesHistory
<1>1. (\A w \in Wallets : Money(w)) => BalanceMatchesHistory
    BY DEF Money, BalanceMatchesHistory
<1>2. QED BY <1>1, MoneyIsKept, PTL

\* Open withdrawals never exceed the balance: cashBalance() never reports a mismatch,
\* and debitPending() never refuses a payment the chain has made.
THEOREM ReservesAreCovered == Spec => []ReservedIsCovered
<1>1. (\A w \in Wallets : Money(w)) => ReservedIsCovered
    BY DEF Money, ReservedIsCovered
<1>2. QED BY <1>1, MoneyIsKept, PTL
================================================================================
