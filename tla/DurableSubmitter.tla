--------------------------- MODULE DurableSubmitter ---------------------------
(***************************************************************************)
(* The durable transaction submitter of the execution operator             *)
(* (protocol/cohort/durable-submitter.mjs) together with the chain it      *)
(* submits to.                                                             *)
(*                                                                         *)
(* The submitter keeps a journal: the next nonce and, per request id, the  *)
(* signed transaction.  The journal lives in memory and is written as a    *)
(* whole to a sealed file (src/integration/sealed.js, an atomic rename).   *)
(* A transaction is signed once, stored, sent, polled for and recorded.    *)
(* Every await of the JavaScript is a point where another step may happen: *)
(* a block is mined, the node forgets or re-learns a transaction, a call   *)
(* fails, the operator crashes, or the host hands back an older file.      *)
(*                                                                         *)
(* All callers hold the investment queue's mutex, so one call is under way *)
(* at a time; `pc' says where it is.                                       *)
(***************************************************************************)
EXTENDS Naturals, Sequences, FiniteSetsExt, Functions

CONSTANTS
    Ids,            \* request ids (execution steps, payouts, root updates)
    Requests,       \* fingerprints of what a request asks for
    Fees,           \* fee ceilings a quote may return (gasLimit * maxFeePerGas)
    GasBudget,      \* lifetime gas budget, or NoBudget
    NoBudget,
    NoTx,           \* no transaction
    NoId,           \* no id: a bare sync, or no record being reconciled
    NoRequest,
    FaultLimit      \* how often each kind of fault may happen

FaultKinds == {"crash", "rpc", "forget", "write", "rollback"}

ASSUME IdsAssumption == IsFiniteSet(Ids)
ASSUME FeesAssumption == Fees \subseteq Nat \ {0}
ASSUME BudgetAssumption == GasBudget \in Nat \/ GasBudget = NoBudget
ASSUME FaultAssumption == FaultLimit \in [FaultKinds -> Nat]

\* A signed transaction.  Its bytes (and its hash) fix all four fields; fee is
\* the ceiling it may be charged.
Tx == [id : Ids, request : Requests, nonce : Nat, fee : Nat]

ASSUME NoneAssumption == NoTx \notin Tx /\ NoId \notin Ids /\ NoRequest \notin Requests

\* One journal record.  The code leaves `status' undefined until the receipt:
\* that is "signed" here; an id without a record is "absent".
Record == [status : {"absent", "signed", "ok", "reverted"},
           tx : Tx \cup {NoTx}, fee : Nat]
Absent == [status |-> "absent", tx |-> NoTx, fee |-> 0]

Journal == [next : Nat, records : [Ids -> Record]]
EmptyJournal == [next |-> 0, records |-> [i \in Ids |-> Absent]]

\* A mined transaction: whether it succeeded and the fee it was charged.
Block == [tx : Tx, ok : BOOLEAN, fee : Nat]

VARIABLES
    chain,      \* mined transactions of the operator's wallet; position n+1 has nonce n
    pool,       \* transactions the node knows and has not mined
    sent,       \* every transaction ever handed to the node
    disk,       \* the sealed journal file
    snapshots,  \* every content the sealed file ever had (a host may restore one)
    mem,        \* the journal in the running operator's memory
    pc,         \* where the call under way is
    call,       \* its arguments
    cur,        \* the id whose record is being reconciled
    fresh,      \* reconcile() was reached from the end of submit(), not from sync()
    answered,   \* the calls of submit() that returned a record
    faults      \* faults so far, per kind

chainVars == <<chain, pool, sent>>
storeVars == <<disk, snapshots>>
procVars == <<mem, pc, call, cur, fresh>>
vars == <<chain, pool, sent, disk, snapshots, mem, pc, call, cur, fresh, answered, faults>>

NoCall == [id |-> NoId, request |-> NoRequest]
Calls == [id : Ids, request : Requests] \cup {NoCall}

Locations == {"down", "idle", "sync", "lookup", "nonce", "broadcast", "poll",
              "record", "prior", "quote"}

Mined(tx) == \E k \in DOMAIN chain : chain[k].tx = tx

\* getTransactionCount(address, 'latest') and (address, 'pending')
LatestCount == Len(chain)
PendingCount ==
    LET candidates == LatestCount .. LatestCount + Cardinality(pool)
    IN  Min({n \in candidates : \A t \in pool : t.nonce # n})

Signed(j) == {i \in Ids : j.records[i].status = "signed"}

\* What the records say was spent (journal.spent is recomputed on every save).
Spent(j) == SumFunction([i \in Ids |-> j.records[i].fee])

\* save(): the whole journal replaces the sealed file, or write() throws and
\* leaves the file as it was.
Save(j) == disk' = j /\ snapshots' = snapshots \cup {j}
WriteThrows == UNCHANGED storeVars

Fault(kind) ==
    /\ faults[kind] < FaultLimit[kind]
    /\ faults' = [faults EXCEPT ![kind] = @ + 1]

\* The call under way throws: the operator stays up and the caller gets an error.
Throw == pc' = "idle" /\ call' = NoCall /\ cur' = NoId /\ fresh' = FALSE

--------------------------------------------------------------------------------

Init ==
    /\ chain = <<>> /\ pool = {} /\ sent = {}
    /\ disk = EmptyJournal /\ snapshots = {EmptyJournal}
    /\ mem = EmptyJournal /\ pc = "down" /\ call = NoCall /\ cur = NoId /\ fresh = FALSE
    /\ answered = {}
    /\ faults = [k \in FaultKinds |-> 0]

\* durableSubmitter(): the operator starts and reads the sealed journal.
Start ==
    /\ pc = "down"
    /\ mem' = disk /\ pc' = "idle"
    /\ UNCHANGED <<chainVars, storeVars, call, cur, fresh, answered, faults>>

\* submit(id, request) begins; its first act is sync().
Submit(i, r) ==
    /\ pc = "idle"
    /\ pc' = "sync" /\ call' = [id |-> i, request |-> r]
    /\ UNCHANGED <<chainVars, storeVars, mem, cur, fresh, answered, faults>>

\* sync() on its own, as the operator's tick calls it.
Sync ==
    /\ pc = "idle"
    /\ pc' = "sync"
    /\ UNCHANGED <<chainVars, storeVars, mem, call, cur, fresh, answered, faults>>

\* The loop of sync(): a record without a status is reconciled.
SyncRecord(i) ==
    /\ pc = "sync" /\ i \in Signed(mem)
    /\ pc' = "lookup" /\ cur' = i
    /\ UNCHANGED <<chainVars, storeVars, mem, call, fresh, answered, faults>>

\* Fault variants for SyncEnd: the count is not compared with the chain; a bare
\* sync falls through into submit(); records without a receipt are skipped.
SyncEnd_IgnoresCount ==
    /\ pc = "sync" /\ Signed(mem) = {}
    /\ IF call = NoCall THEN Throw ELSE pc' = "prior" /\ UNCHANGED <<call, cur, fresh>>
    /\ UNCHANGED <<chainVars, storeVars, mem, answered, faults>>
SyncEnd_NeverReturns ==
    /\ pc = "sync" /\ Signed(mem) = {}
    /\ IF LatestCount # mem.next THEN Throw ELSE pc' = "prior" /\ UNCHANGED <<call, cur, fresh>>
    /\ UNCHANGED <<chainVars, storeVars, mem, answered, faults>>
SyncEnd_SkipsSigned ==
    /\ pc = "sync"
    /\ IF LatestCount # mem.next \/ call = NoCall
       THEN Throw
       ELSE pc' = "prior" /\ UNCHANGED <<call, cur, fresh>>
    /\ UNCHANGED <<chainVars, storeVars, mem, answered, faults>>

\* The end of sync(): the chain must have exactly as many transactions as the
\* journal; then the bare sync returns and submit() goes on.
SyncEnd ==
    /\ pc = "sync" /\ Signed(mem) = {}
    /\ IF LatestCount # mem.next \/ call = NoCall
       THEN Throw
       ELSE pc' = "prior" /\ UNCHANGED <<call, cur, fresh>>
    /\ UNCHANGED <<chainVars, storeVars, mem, answered, faults>>

\* reconcile(): is there a receipt already?
Lookup ==
    /\ pc = "lookup"
    /\ pc' = IF Mined(mem.records[cur].tx) THEN "record" ELSE "nonce"
    /\ UNCHANGED <<chainVars, storeVars, mem, call, cur, fresh, answered, faults>>

\* reconcile(): no receipt was there, so the nonce must not be used up.  A block
\* may have come in between: then this refuses although nothing is wrong.
CheckNonce ==
    /\ pc = "nonce"
    /\ IF LatestCount <= mem.records[cur].tx.nonce
       THEN pc' = "broadcast" /\ UNCHANGED <<call, cur, fresh>>
       ELSE Throw
    /\ UNCHANGED <<chainVars, storeVars, mem, answered, faults>>

\* Fault variant: recovery only polls, it does not send the stored bytes again.
Broadcast_OnlyFresh ==
    /\ pc = "broadcast"
    /\ IF fresh
       THEN LET tx == mem.records[cur].tx IN pool' = pool \cup {tx} /\ sent' = sent \cup {tx}
       ELSE UNCHANGED <<pool, sent>>
    /\ pc' = "poll"
    /\ UNCHANGED <<chain, storeVars, mem, call, cur, fresh, answered, faults>>

\* reconcile(): the node takes the stored bytes.  The answer may be lost: the
\* error is swallowed when the node turns out to know the transaction, as it
\* does when the transaction was mined a moment ago.
Broadcast ==
    /\ pc = "broadcast"
    /\ LET tx == mem.records[cur].tx
       IN  IF tx.nonce >= LatestCount
           THEN /\ pool' = pool \cup {tx} /\ sent' = sent \cup {tx}
                /\ pc' = "poll" /\ UNCHANGED <<call, cur, fresh>>
           ELSE /\ UNCHANGED <<pool, sent>>
                /\ IF Mined(tx) THEN pc' = "poll" /\ UNCHANGED <<call, cur, fresh>> ELSE Throw
    /\ UNCHANGED <<chain, storeVars, mem, answered, faults>>

\* reconcile(): polling finds the receipt ...
PollFound ==
    /\ pc = "poll" /\ Mined(mem.records[cur].tx)
    /\ pc' = "record"
    /\ UNCHANGED <<chainVars, storeVars, mem, call, cur, fresh, answered, faults>>

\* ... or gives up: PENDING_RECONCILE_REQUIRED.
PollExpired ==
    /\ pc = "poll" /\ ~Mined(mem.records[cur].tx)
    /\ Throw
    /\ UNCHANGED <<chainVars, storeVars, mem, answered, faults>>

\* Fault variant: a receipt counts as success, reverted or not.
Reconciled_IgnoresRevert(j, i) ==
    LET tx == j.records[i].tx
    IN  [next |-> tx.nonce + 1,
         records |-> [j.records EXCEPT ![i] =
             [status |-> "ok", tx |-> tx, fee |-> chain[tx.nonce + 1].fee]]]

\* The journal once the receipt of record i is written into it.
Reconciled(j, i) ==
    LET tx == j.records[i].tx
        block == chain[tx.nonce + 1]
    IN  [next |-> tx.nonce + 1,
         records |-> [j.records EXCEPT ![i] =
             [status |-> IF block.ok THEN "ok" ELSE "reverted",
              tx |-> tx, fee |-> block.fee]]]

\* reconcile(): receipt into the record, next nonce, save(), status must be 1.
\* A reconcile started by sync() returns to its loop, the one at the end of
\* submit() answers the caller.
RecordReceipt ==
    /\ pc = "record"
    /\ mem' = Reconciled(mem, cur)
    /\ Save(mem')
    /\ IF mem'.records[cur].status = "reverted"
       THEN Throw /\ UNCHANGED answered
       ELSE IF fresh
            THEN Throw /\ answered' = answered \cup {call}
            ELSE pc' = "sync" /\ cur' = NoId /\ UNCHANGED <<call, fresh, answered>>
    /\ UNCHANGED <<chainVars, faults>>

\* The same step when save() throws: memory has the receipt, the file does not.
RecordReceiptUnsaved ==
    /\ pc = "record"
    /\ Fault("write")
    /\ mem' = Reconciled(mem, cur)
    /\ WriteThrows /\ Throw
    /\ UNCHANGED <<chainVars, answered>>

\* Fault variants: the fingerprint is not compared; the status is not.
KnownId_AnyRequest ==
    /\ pc = "prior" /\ mem.records[call.id].status # "absent"
    /\ answered' = IF mem.records[call.id].status = "ok" THEN answered \cup {call} ELSE answered
    /\ Throw
    /\ UNCHANGED <<chainVars, storeVars, mem, faults>>
KnownId_AnyStatus ==
    /\ pc = "prior" /\ mem.records[call.id].status # "absent"
    /\ answered' = IF mem.records[call.id].tx.request = call.request
                   THEN answered \cup {call} ELSE answered
    /\ Throw
    /\ UNCHANGED <<chainVars, storeVars, mem, faults>>

\* submit(): an id that has a record answers with it, if the request is the same
\* and succeeded; otherwise it throws (REQUEST_ID_REUSED, MINED_REVERT).
KnownId ==
    /\ pc = "prior" /\ mem.records[call.id].status # "absent"
    /\ LET prior == mem.records[call.id]
       IN  answered' = IF prior.tx.request = call.request /\ prior.status = "ok"
                       THEN answered \cup {call} ELSE answered
    /\ Throw
    /\ UNCHANGED <<chainVars, storeVars, mem, faults>>

\* Fault variant: a reverted request is signed again under the same id.
NewId_RetriesReverted ==
    /\ pc = "prior" /\ mem.records[call.id].status \in {"absent", "reverted"}
    /\ IF PendingCount = mem.next THEN pc' = "quote" /\ UNCHANGED <<call, cur, fresh>> ELSE Throw
    /\ UNCHANGED <<chainVars, storeVars, mem, answered, faults>>

\* submit(): a new id needs a wallet with nothing pending.
NewId ==
    /\ pc = "prior" /\ mem.records[call.id].status = "absent"
    /\ IF PendingCount = mem.next THEN pc' = "quote" /\ UNCHANGED <<call, cur, fresh>> ELSE Throw
    /\ UNCHANGED <<chainVars, storeVars, mem, answered, faults>>

\* The nonce a new transaction is signed with (fault variant: the node's count).
NextNonce_FromNode == PendingCount
NextNonce == mem.next

\* TEE_GAS_BUDGET (fault variant: the new transaction's ceiling is left out).
WithinCap_SpentOnly(fee) == GasBudget # NoBudget => Spent(mem) < GasBudget
WithinCap(fee) == GasBudget # NoBudget => Spent(mem) + fee <= GasBudget

\* The journal with a new signed record.
WithSigned(j, tx) ==
    [j EXCEPT !.records[tx.id] = [status |-> "signed", tx |-> tx, fee |-> 0]]

Quoted(fee) == [id |-> call.id, request |-> call.request, nonce |-> NextNonce, fee |-> fee]

\* Fault variant: the record is sent before the journal is saved.
Sign_SendsFirst(fee) ==
    /\ pc = "quote" /\ WithinCap(fee)
    /\ mem' = WithSigned(mem, Quoted(fee))
    /\ pc' = "lookup" /\ cur' = call.id /\ fresh' = TRUE
    /\ UNCHANGED <<chainVars, storeVars, call, answered, faults>>

\* submit(): the quote fits the budget and the balance; sign, put the record into
\* the journal, save() and reconcile it.
Sign(fee) ==
    /\ pc = "quote" /\ WithinCap(fee)
    /\ mem' = WithSigned(mem, Quoted(fee))
    /\ Save(mem')
    /\ pc' = "lookup" /\ cur' = call.id /\ fresh' = TRUE
    /\ UNCHANGED <<chainVars, call, answered, faults>>

\* The same step when save() throws: the signed record stays in memory only.
SignUnsaved(fee) ==
    /\ pc = "quote" /\ WithinCap(fee)
    /\ Fault("write")
    /\ mem' = WithSigned(mem, Quoted(fee))
    /\ WriteThrows /\ Throw
    /\ UNCHANGED <<chainVars, answered>>

\* submit(): TEE_GAS_BUDGET, OPERATOR_GAS_INSUFFICIENT, or a failed estimate.
RefuseQuote ==
    /\ pc = "quote"
    /\ Throw
    /\ UNCHANGED <<chainVars, storeVars, mem, answered, faults>>

\* A provider call throws at one of the awaits (a refused broadcast that the
\* node does not know is one of them).
RpcError ==
    /\ pc \in {"sync", "lookup", "nonce", "broadcast", "poll", "prior"}
    /\ Fault("rpc")
    /\ Throw
    /\ UNCHANGED <<chainVars, storeVars, mem, answered>>

--------------------------------------------------------------------------------
(* The environment. *)

\* A block takes the pool transaction with the wallet's next nonce.
Mine(tx) ==
    /\ tx \in pool /\ tx.nonce = LatestCount
    /\ \E ok \in BOOLEAN, fee \in 1 .. tx.fee :
          chain' = Append(chain, [tx |-> tx, ok |-> ok, fee |-> fee])
    /\ pool' = {t \in pool : t.nonce # tx.nonce}
    /\ UNCHANGED <<sent, storeVars, procVars, answered, faults>>

\* The node forgets a transaction it had not mined ...
Forget(tx) ==
    /\ tx \in pool /\ Fault("forget")
    /\ pool' = pool \ {tx}
    /\ UNCHANGED <<chain, sent, storeVars, procVars, answered>>

\* ... or learns it again from a peer.
Reappear(tx) ==
    /\ tx \in sent \ pool /\ tx.nonce >= LatestCount
    /\ pool' = pool \cup {tx}
    /\ UNCHANGED <<chain, sent, storeVars, procVars, answered, faults>>

\* The operator dies: at the code's own crash points 'signed', 'broadcast',
\* 'receipt', and anywhere else.
Crash ==
    /\ pc # "down" /\ Fault("crash")
    /\ pc' = "down" /\ call' = NoCall /\ cur' = NoId /\ fresh' = FALSE
    /\ mem' = EmptyJournal
    /\ UNCHANGED <<chainVars, storeVars, answered>>

\* While it is down, the host puts an older sealed file back.
Rollback(old) ==
    /\ pc = "down" /\ old \in snapshots /\ Fault("rollback")
    /\ disk' = old
    /\ UNCHANGED <<chainVars, snapshots, procVars, answered>>

--------------------------------------------------------------------------------

Reconcile ==
    \/ Lookup \/ CheckNonce \/ Broadcast \/ PollFound \/ PollExpired
    \/ RecordReceipt \/ RecordReceiptUnsaved

Operator ==
    \/ Start \/ Sync \/ SyncEnd \/ Reconcile
    \/ KnownId \/ NewId \/ RefuseQuote \/ RpcError
    \/ \E i \in Ids : SyncRecord(i)
    \/ \E i \in Ids, r \in Requests : Submit(i, r)
    \/ \E fee \in Fees : Sign(fee) \/ SignUnsaved(fee)

Environment ==
    \/ \E tx \in pool : Mine(tx) \/ Forget(tx)
    \/ \E tx \in sent : Reappear(tx)
    \/ Crash
    \/ \E old \in snapshots : Rollback(old)

Next == Operator \/ Environment

Spec == Init /\ [][Next]_vars

\* The operator's loop never stops calling sync() (server.mjs schedules the next
\* tick after every tick), each started call runs on, and the chain keeps mining.
CallRunsOn ==
    \/ Start \/ Sync \/ SyncEnd \/ Lookup \/ CheckNonce \/ Broadcast
    \/ PollFound \/ PollExpired \/ RecordReceipt \/ KnownId \/ NewId \/ RefuseQuote
    \/ \E i \in Ids : SyncRecord(i)

Fairness == WF_vars(CallRunsOn) /\ WF_vars(\E tx \in pool : Mine(tx))

FairSpec == Spec /\ Fairness

--------------------------------------------------------------------------------
(* Properties. *)

\* Every variable keeps its shape, and the call under way is well formed.
TypeOK ==
    /\ chain \in Seq(Block)
    /\ pool \subseteq sent /\ sent \subseteq Tx
    /\ disk \in Journal /\ snapshots \subseteq Journal /\ mem \in Journal
    /\ pc \in Locations /\ call \in Calls /\ cur \in Ids \cup {NoId}
    /\ fresh \in BOOLEAN
    /\ answered \subseteq [id : Ids, request : Requests]
    /\ faults \in [FaultKinds -> Nat]
    /\ pc \in {"lookup", "nonce", "broadcast", "poll", "record"} => cur \in Ids
    /\ pc \in {"prior", "quote"} => call # NoCall

\* A request id takes effect on the chain at most once, whatever crashes, lost
\* answers, failed writes and restored files happen ("resumes crash ... without
\* duplicate tx", tests/cohort-journal.test.js).
AtMostOnce ==
    \A k, l \in DOMAIN chain : chain[k].tx.id = chain[l].tx.id => k = l

\* A caller that got a record back from submit() asked for a transaction that is
\* on the chain, succeeded, and does what that caller asked for.
AnsweredIsMined ==
    \A c \in answered :
        \E k \in DOMAIN chain :
            chain[k].ok /\ chain[k].tx.id = c.id /\ chain[k].tx.request = c.request

\* A journal, in memory or in any sealed file that ever existed, never claims a
\* receipt the chain does not have.
Truthful(j) ==
    \A i \in Ids :
        LET r == j.records[i]
        IN  r.status \in {"ok", "reverted"} =>
              /\ r.tx.nonce + 1 \in DOMAIN chain
              /\ chain[r.tx.nonce + 1] = [tx |-> r.tx, ok |-> r.status = "ok", fee |-> r.fee]

JournalAgreesWithChain == \A j \in snapshots \cup {disk, mem} : Truthful(j)

\* "Signed bytes are durably persisted BEFORE sending": a transaction handed to
\* the node has been in the sealed file.
PersistedBeforeSent ==
    \A t \in sent : \E j \in snapshots : j.records[t.id].tx = t

\* "Never replace an ambiguous tx": two different transactions of one nonce are
\* never both handed to the node.
NeverReplaced ==
    \A t, u \in sent : t.nonce = u.nonce => t = u

\* What the wallet has paid stays within the lifetime gas budget.
WithinBudget ==
    GasBudget # NoBudget => SumFunction([k \in DOMAIN chain |-> chain[k].fee]) <= GasBudget

\* sync() lets a new request through only when the journal holds every mined
\* transaction of the wallet: a restored or lost file fails closed.
SyncDetectsRollback ==
    [][pc = "sync" /\ pc' = "prior" =>
         \A k \in DOMAIN chain : mem.records[chain[k].tx.id].tx = chain[k].tx]_vars

\* Once a signed transaction is in the sealed file, that id never gets another one
\* (as long as nobody restores an older file).
SignedIsFinal ==
    [][\A i \in Ids : disk.records[i].status # "absent" =>
          disk'.records[i].tx = disk.records[i].tx]_vars

\* A stored transaction is settled in the end: mined and its receipt recorded,
\* after any finite number of crashes, provider errors and forgotten transactions.
SignedIsSettled ==
    \A i \in Ids : disk.records[i].status = "signed"
                     ~> disk.records[i].status \in {"ok", "reverted"}

\* The abstract promise (module EffectLog), with the chain as its log.
Log == [k \in DOMAIN chain |->
          [id |-> chain[k].tx.id, request |-> chain[k].tx.request, ok |-> chain[k].ok]]
Promise == INSTANCE EffectLog WITH log <- Log
PromiseSpec == Promise!Spec

\* What the operator's jobs rely on (module ExecutionSteps): per id one record in
\* the sealed file and one outcome on the chain.
Outcome(i) ==
    IF \E k \in DOMAIN chain : chain[k].tx.id = i
    THEN LET k == CHOOSE k \in DOMAIN chain : chain[k].tx.id = i
         IN  IF chain[k].ok THEN "ok" ELSE "reverted"
    ELSE "no"
Steps == INSTANCE ExecutionSteps WITH
             StepIds <- Ids,
             record <- [i \in Ids |-> disk.records[i].status],
             mined <- [i \in Ids |-> Outcome(i)]
StepsSpec == Steps!StepsSpec
================================================================================
