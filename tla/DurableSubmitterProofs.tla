------------------------ MODULE DurableSubmitterProofs ------------------------
(***************************************************************************)
(* Proofs about the durable submitter, for any ids, requests, fees, budget *)
(* and number of faults.                                                   *)
(*                                                                         *)
(* The argument: every journal that ever existed is a truthful prefix of   *)
(* the chain with at most one unsettled transaction at its end             *)
(* (JournalOn), and a transaction is only ever signed for an id that does  *)
(* not occur on the chain before the transaction's own nonce (FreshOn).    *)
(* A block only takes the transaction whose nonce is the chain's length,   *)
(* so no id is mined twice, even when the sealed file is rolled back.      *)
(***************************************************************************)
EXTENDS DurableSubmitter, SequenceTheorems, SumTheorems, TLAPS

Reconciling == {"lookup", "nonce", "broadcast", "poll", "record"}

\* No transaction of t's id is on chain c before the nonce of t.
FreshOn(c, t) ==
    /\ t.nonce <= Len(c)
    /\ \A k \in 1 .. Len(c) : k <= t.nonce => c[k].tx.id # t.id

\* A record of journal j is what it claims to be on chain c.
RecordOn(c, j, i) ==
    LET r == j.records[i]
    IN  /\ r.status # "absent" => r.tx \in Tx /\ r.tx.id = i /\ FreshOn(c, r.tx)
        /\ r.status = "signed" => r.tx.nonce = j.next
        /\ r.status \in {"ok", "reverted"} =>
              /\ r.tx.nonce + 1 <= j.next
              /\ c[r.tx.nonce + 1] = [tx |-> r.tx, ok |-> r.status = "ok", fee |-> r.fee]

\* The first j.next transactions of the chain are settled records of j.
PrefixOn(c, j) ==
    \A k \in 1 .. Len(c) : k <= j.next =>
        /\ j.records[c[k].tx.id].status \in {"ok", "reverted"}
        /\ j.records[c[k].tx.id].tx = c[k].tx

JournalOn(c, j) ==
    /\ j.next <= Len(c)
    /\ \A i \in Ids : RecordOn(c, j, i)
    /\ \A i, k \in Signed(j) : i = k
    /\ PrefixOn(c, j)

ChainInv ==
    /\ \A k \in 1 .. Len(chain) : chain[k].tx.nonce + 1 = k
    /\ \A k, l \in 1 .. Len(chain) : chain[k].tx.id = chain[l].tx.id => k = l

StoreInv ==
    /\ disk \in snapshots
    /\ \A j \in snapshots : JournalOn(chain, j)
    /\ JournalOn(chain, mem)
    /\ \A t \in sent : FreshOn(chain, t)

CallInv ==
    /\ pc \in Reconciling => cur \in Signed(mem)
    /\ pc = "record" => Mined(mem.records[cur].tx)
    /\ pc \in {"prior", "quote"} => Signed(mem) = {}
    /\ pc = "quote" => mem.records[call.id].status = "absent"
    /\ fresh => /\ pc \in Reconciling /\ call # NoCall /\ cur = call.id
                /\ call.request = mem.records[cur].tx.request

IInv == TypeOK /\ ChainInv /\ StoreInv /\ CallInv /\ AnsweredIsMined

--------------------------------------------------------------------------------
(* Lemmas about journals on a fixed or growing chain. *)

\* Appending a block moves neither the old blocks nor the length backwards.
LEMMA AppendBlock ==
    ASSUME NEW c \in Seq(Block), NEW b \in Block
    PROVE  /\ Append(c, b) \in Seq(Block)
           /\ Len(c) \in Nat /\ Len(Append(c, b)) = Len(c) + 1
           /\ \A k \in 1 .. Len(c) : Append(c, b)[k] = c[k]
           /\ Append(c, b)[Len(c) + 1] = b
    OBVIOUS

\* Every position of a chain holds a block with a transaction of some id.
LEMMA BlockAt ==
    ASSUME NEW c \in Seq(Block), NEW k \in 1 .. Len(c)
    PROVE  c[k] \in Block /\ c[k].tx \in Tx /\ c[k].tx.id \in Ids /\ c[k].tx.nonce \in Nat
    <1>1. c[k] \in Block
        BY ElementOfSeq
    <1>2. QED BY <1>1 DEF Block, Tx

\* A transaction that was fresh stays fresh when the chain grows.
LEMMA FreshGrows ==
    ASSUME NEW c \in Seq(Block), NEW b \in Block, NEW t \in Tx, FreshOn(c, t)
    PROVE  FreshOn(Append(c, b), t)
    BY AppendBlock DEF FreshOn, Tx

\* A journal that fits a chain fits every longer chain.
LEMMA JournalGrows ==
    ASSUME NEW c \in Seq(Block), NEW b \in Block, NEW j \in Journal, JournalOn(c, j)
    PROVE  JournalOn(Append(c, b), j)
    <1> DEFINE d == Append(c, b)
    <1>0. /\ j.next \in Nat /\ Len(c) \in Nat /\ Len(d) = Len(c) + 1
          /\ \A k \in 1 .. Len(c) : d[k] = c[k]
        BY AppendBlock DEF Journal
    <1> HIDE DEF d
    <1>1. j.next <= Len(d)
        BY <1>0 DEF JournalOn
    <1>2. ASSUME NEW i \in Ids PROVE RecordOn(d, j, i)
        <2> DEFINE r == j.records[i]
        <2>1. RecordOn(c, j, i) /\ j.next <= Len(c)
            BY DEF JournalOn
        <2>2. r.status # "absent" => r.tx \in Tx /\ r.tx.id = i /\ FreshOn(d, r.tx)
            BY <2>1, FreshGrows DEF RecordOn, d
        <2>3. r.status = "signed" => r.tx.nonce = j.next
            BY <2>1 DEF RecordOn
        <2>4. ASSUME r.status \in {"ok", "reverted"}
              PROVE  /\ r.tx.nonce + 1 <= j.next
                     /\ d[r.tx.nonce + 1]
                          = [tx |-> r.tx, ok |-> r.status = "ok", fee |-> r.fee]
            <3>1. r.tx.nonce \in Nat /\ r.tx.nonce + 1 \in 1 .. Len(c)
                BY <1>0, <2>1, <2>4 DEF RecordOn, Tx
            <3>2. QED BY <1>0, <2>1, <2>4, <3>1 DEF RecordOn
        <2>5. QED BY <2>2, <2>3, <2>4 DEF RecordOn
    <1>3. \A i, k \in Signed(j) : i = k
        BY DEF JournalOn
    <1>4. PrefixOn(d, j)
        BY <1>0 DEF JournalOn, PrefixOn
    <1>5. QED BY <1>1, <1>2, <1>3, <1>4 DEF JournalOn, d

\* Signing a new transaction at the journal's next nonce keeps the journal sound.
LEMMA SigningKeeps ==
    ASSUME NEW c \in Seq(Block), NEW j \in Journal, JournalOn(c, j), Signed(j) = {},
           NEW t \in Tx, t.nonce = j.next, j.records[t.id].status = "absent"
    PROVE  /\ WithSigned(j, t) \in Journal
           /\ JournalOn(c, WithSigned(j, t))
           /\ FreshOn(c, t)
           /\ t.id \in Signed(WithSigned(j, t))
           /\ WithSigned(j, t).records[t.id].tx = t
    <1> DEFINE w == WithSigned(j, t)
               new == [status |-> "signed", tx |-> t, fee |-> 0]
    <1>1. t.id \in Ids /\ new \in Record
        BY DEF Tx, Record
    <1>2. /\ w \in Journal /\ w.next = j.next
          /\ w.records[t.id] = new
          /\ \A i \in Ids : i # t.id => w.records[i] = j.records[i]
        BY <1>1 DEF WithSigned, Journal
    <1>3. \A k \in 1 .. Len(c) : c[k].tx.id \in Ids
        BY BlockAt
    <1>4. FreshOn(c, t)
        BY <1>3 DEF FreshOn, JournalOn, PrefixOn
    <1>5. ASSUME NEW i \in Ids PROVE RecordOn(c, w, i)
        BY <1>2, <1>4 DEF RecordOn, JournalOn
    <1>6. Signed(w) = {t.id}
        BY <1>1, <1>2 DEF Signed
    <1>7. PrefixOn(c, w)
        BY <1>2, <1>3 DEF PrefixOn, JournalOn
    <1>8. QED BY <1>2, <1>4, <1>5, <1>6, <1>7 DEF JournalOn

\* The empty journal fits every chain.
LEMMA EmptyFits ==
    ASSUME NEW c \in Seq(Block)
    PROVE  EmptyJournal \in Journal /\ JournalOn(c, EmptyJournal) /\ Signed(EmptyJournal) = {}
    BY DEF EmptyJournal, Journal, Record, Absent, JournalOn, RecordOn, PrefixOn, Signed

\* Writing the receipt of a mined transaction keeps the journal sound.
LEMMA ReceiptKeeps ==
    ASSUME TypeOK, ChainInv, NEW j \in Journal, JournalOn(chain, j),
           NEW i \in Signed(j), Mined(j.records[i].tx)
    PROVE  /\ Reconciled(j, i) \in Journal
           /\ JournalOn(chain, Reconciled(j, i))
           /\ j.records[i].tx \in Tx
           /\ Reconciled(j, i).records[i].tx = j.records[i].tx
    <1> DEFINE tx == j.records[i].tx
               n == tx.nonce + 1
               w == Reconciled(j, i)
               new == [status |-> IF chain[n].ok THEN "ok" ELSE "reverted",
                       tx |-> tx, fee |-> chain[n].fee]
    <1>0. chain \in Seq(Block) /\ DOMAIN chain = 1 .. Len(chain) /\ Len(chain) \in Nat
        BY DEF TypeOK
    <1>1. /\ i \in Ids /\ j.records[i].status = "signed"
          /\ tx \in Tx /\ tx.id = i /\ tx.nonce = j.next /\ FreshOn(chain, tx)
        BY DEF Signed, JournalOn, RecordOn
    <1>2. n \in 1 .. Len(chain) /\ chain[n].tx = tx
        <2>1. PICK k \in 1 .. Len(chain) : chain[k].tx = tx
            BY <1>0 DEF Mined
        <2>2. QED BY <2>1 DEF ChainInv
    <1>3. chain[n] \in Block /\ chain[n].ok \in BOOLEAN /\ chain[n].fee \in Nat
        BY <1>0, <1>2, BlockAt DEF Block
    <1>4. new \in Record
        BY <1>1, <1>3 DEF Record
    <1>5. /\ w \in Journal /\ w.next = n /\ w.next = j.next + 1
          /\ w.records[i] = new
          /\ \A k \in Ids : k # i => w.records[k] = j.records[k]
        <2>1. w = [next |-> n, records |-> [j.records EXCEPT ![i] = new]]
            BY DEF Reconciled
        <2>2. QED BY <1>1, <1>4, <2>1 DEF Journal, Tx
    <1>6. chain[n] = [tx |-> tx, ok |-> chain[n].ok, fee |-> chain[n].fee]
        BY <1>2, <1>3 DEF Block
    <1>7. ASSUME NEW k \in Ids PROVE RecordOn(chain, w, k)
        <2>1. CASE k = i
            <3>1. (new.status = "ok") = chain[n].ok
                BY <1>3
            <3>2. chain[n] = [tx |-> tx, ok |-> new.status = "ok", fee |-> new.fee]
                BY <1>6, <3>1
            <3>3. new.status \in {"ok", "reverted"} /\ new.tx = tx
                OBVIOUS
            <3>4. n <= w.next
                BY <1>1, <1>5 DEF Tx
            <3> HIDE DEF w, new
            <3>5. QED BY <1>1, <1>5, <2>1, <3>2, <3>3, <3>4 DEF RecordOn
        <2>2. CASE k # i
            <3>1. RecordOn(chain, j, k) /\ j.records[k].status # "signed"
                BY <1>1, <2>2 DEF JournalOn, Signed
            <3>2. j.records[k].status # "absent" => j.records[k].tx.nonce \in Nat
                BY <3>1 DEF RecordOn, Tx
            <3>3. j.next \in Nat /\ w.next = j.next + 1 /\ w.records[k] = j.records[k]
                BY <1>5, <2>2 DEF Journal
            <3> HIDE DEF w
            <3>4. QED BY <3>1, <3>2, <3>3 DEF RecordOn
        <2>3. QED BY <2>1, <2>2
    <1>8. Signed(w) = {}
        <2>1. new.status # "signed"
            OBVIOUS
        <2>2. \A k \in Ids : k # i => j.records[k].status # "signed"
            BY <1>1 DEF JournalOn, Signed
        <2>3. QED BY <1>5, <2>1, <2>2 DEF Signed
    <1>9. PrefixOn(chain, w)
        <2> SUFFICES ASSUME NEW k \in 1 .. Len(chain), k <= w.next
                     PROVE  /\ w.records[chain[k].tx.id].status \in {"ok", "reverted"}
                            /\ w.records[chain[k].tx.id].tx = chain[k].tx
            BY DEF PrefixOn
        <2>1. new.status \in {"ok", "reverted"} /\ new.tx = tx
            OBVIOUS
        <2> HIDE DEF w, new
        <2>2. CASE k = n
            BY <1>1, <1>2, <1>5, <2>1, <2>2
        <2>3. CASE k # n
            <3>1. k <= j.next
                BY <1>5, <2>3 DEF Journal
            <3>2. /\ j.records[chain[k].tx.id].status \in {"ok", "reverted"}
                  /\ j.records[chain[k].tx.id].tx = chain[k].tx
                BY <3>1 DEF JournalOn, PrefixOn
            <3>3. chain[k].tx.id \in Ids /\ chain[k].tx.id # i
                BY <1>0, <1>1, <3>2, BlockAt
            <3>4. QED BY <1>5, <3>2, <3>3
        <2>4. QED BY <2>2, <2>3
    <1>10. w.next <= Len(chain)
        BY <1>2, <1>5
    <1>11. QED BY <1>1, <1>4, <1>5, <1>7, <1>8, <1>9, <1>10 DEF JournalOn

--------------------------------------------------------------------------------
(* The inductive invariant. *)

\* The initial state satisfies the inductive invariant.
LEMMA InitInv == Init => IInv
    <1> SUFFICES ASSUME Init PROVE IInv
        OBVIOUS
    <1>0. <<>> \in Seq(Block) /\ Len(<<>>) = 0
        OBVIOUS
    <1>1. EmptyJournal \in Journal /\ JournalOn(<<>>, EmptyJournal)
        BY <1>0, EmptyFits
    <1>2. TypeOK
        BY <1>0, <1>1 DEF Init, TypeOK, Locations, Calls, FaultKinds
    <1>3. ChainInv /\ StoreInv
        BY <1>0, <1>1 DEF Init, ChainInv, StoreInv
    <1>4. CallInv /\ AnsweredIsMined
        BY DEF Init, CallInv, Reconciling, AnsweredIsMined
    <1>5. QED BY <1>2, <1>3, <1>4 DEF IInv

\* The call variables are well formed and a thrown call leaves nothing behind.
LEMMA ThrowKeeps ==
    ASSUME Throw
    PROVE  /\ pc' = "idle" /\ pc' \in Locations /\ call' \in Calls /\ cur' = NoId /\ fresh' = FALSE
           /\ CallInv'
    BY DEF Throw, Locations, Calls, CallInv, Reconciling

\* Steps that touch neither the chain nor any journal.
QuietStep ==
    \/ Sync \/ SyncEnd \/ Lookup \/ CheckNonce \/ PollFound \/ PollExpired
    \/ KnownId \/ NewId \/ RefuseQuote \/ RpcError
    \/ \E i \in Ids : SyncRecord(i)
    \/ \E i \in Ids, r \in Requests : Submit(i, r)

LEMMA FaultType ==
    ASSUME TypeOK, NEW kind \in FaultKinds, Fault(kind)
    PROVE  faults' \in [FaultKinds -> Nat]
    BY DEF Fault, TypeOK

\* A quiet step leaves chain, files and memory alone.
LEMMA QuietFrame ==
    ASSUME IInv, QuietStep
    PROVE  /\ UNCHANGED <<chain, pool, sent, disk, snapshots, mem>>
           /\ faults' \in [FaultKinds -> Nat]
           /\ ChainInv' /\ StoreInv'
    <1>1. UNCHANGED <<chain, pool, sent, disk, snapshots, mem>>
        BY DEF QuietStep, Sync, SyncEnd, Lookup, CheckNonce, PollFound, PollExpired, KnownId,
               NewId, RefuseQuote, RpcError, SyncRecord, Submit, chainVars, storeVars
    <1>2. faults' \in [FaultKinds -> Nat]
        <2>1. CASE RpcError
            BY <2>1, FaultType DEF RpcError, IInv, FaultKinds
        <2>2. CASE ~RpcError
            BY <2>2 DEF QuietStep, Sync, SyncEnd, Lookup, CheckNonce, PollFound, PollExpired,
                        KnownId, NewId, RefuseQuote, SyncRecord, Submit, IInv, TypeOK
        <2>3. QED BY <2>1, <2>2
    <1>3. ChainInv' /\ StoreInv'
        BY <1>1 DEF IInv, ChainInv, StoreInv
    <1>4. QED BY <1>1, <1>2, <1>3

\* A quiet step keeps the call well formed.
LEMMA QuietCall ==
    ASSUME IInv, QuietStep
    PROVE  /\ pc' \in Locations /\ call' \in Calls /\ cur' \in Ids \cup {NoId} /\ fresh' \in BOOLEAN
           /\ pc' \in Reconciling => cur' \in Ids
           /\ pc' \in {"prior", "quote"} => call' # NoCall
           /\ CallInv'
    <1> USE QuietFrame DEF IInv, TypeOK
    <1>1. CASE Sync
        BY <1>1 DEF Sync, CallInv, Locations, Reconciling
    <1>2. CASE SyncEnd
        BY <1>2, ThrowKeeps DEF SyncEnd, CallInv, Locations, Reconciling
    <1>3. CASE Lookup
        BY <1>3 DEF Lookup, CallInv, Locations, Reconciling, Mined
    <1>4. CASE CheckNonce
        BY <1>4, ThrowKeeps DEF CheckNonce, CallInv, Locations, Reconciling
    <1>5. CASE PollFound
        BY <1>5 DEF PollFound, CallInv, Locations, Reconciling, Mined
    <1>6. CASE PollExpired \/ KnownId \/ RefuseQuote \/ RpcError
        BY <1>6, ThrowKeeps DEF PollExpired, KnownId, RefuseQuote, RpcError, Reconciling
    <1>7. CASE NewId
        BY <1>7, ThrowKeeps DEF NewId, CallInv, Locations, Reconciling
    <1>8. ASSUME NEW i \in Ids, SyncRecord(i)
          PROVE  /\ pc' \in Locations /\ call' \in Calls /\ cur' \in Ids \cup {NoId} /\ fresh' \in BOOLEAN
                 /\ pc' \in Reconciling => cur' \in Ids
                 /\ pc' \in {"prior", "quote"} => call' # NoCall
                 /\ CallInv'
        BY <1>8 DEF SyncRecord, CallInv, Locations, Reconciling, Signed
    <1>9. ASSUME NEW i \in Ids, NEW r \in Requests, Submit(i, r)
          PROVE  /\ pc' \in Locations /\ call' \in Calls /\ cur' \in Ids \cup {NoId} /\ fresh' \in BOOLEAN
                 /\ pc' \in Reconciling => cur' \in Ids
                 /\ pc' \in {"prior", "quote"} => call' # NoCall
                 /\ CallInv'
        BY <1>9 DEF Submit, CallInv, Locations, Reconciling, Calls
    <1>10. QED BY <1>1, <1>2, <1>3, <1>4, <1>5, <1>6, <1>7, <1>8, <1>9 DEF QuietStep

\* A record that says "ok" is backed by a block of that id and request.
LEMMA OkIsMined ==
    ASSUME TypeOK, NEW j \in Journal, JournalOn(chain, j), NEW i \in Ids, j.records[i].status = "ok"
    PROVE  \E k \in DOMAIN chain :
              chain[k].ok /\ chain[k].tx.id = i /\ chain[k].tx.request = j.records[i].tx.request
    <1> DEFINE r == j.records[i]
               n == r.tx.nonce + 1
    <1>1. /\ r.tx \in Tx /\ r.tx.id = i /\ n <= j.next /\ j.next <= Len(chain)
          /\ chain[n] = [tx |-> r.tx, ok |-> TRUE, fee |-> r.fee]
        BY DEF JournalOn, RecordOn
    <1>2. DOMAIN chain = 1 .. Len(chain) /\ Len(chain) \in Nat /\ n \in 1 .. Len(chain)
        <2>1. r.tx.nonce \in Nat
            BY <1>1 DEF Tx
        <2>2. QED BY <1>1, <2>1 DEF TypeOK, Journal
    <1>3. QED BY <1>1, <1>2

\* A quiet step keeps every answer backed by a block.
LEMMA QuietAnswers ==
    ASSUME IInv, QuietStep
    PROVE  answered' \subseteq [id : Ids, request : Requests] /\ AnsweredIsMined'
    <1>0. chain' = chain /\ TypeOK /\ StoreInv /\ AnsweredIsMined
        BY QuietFrame DEF IInv
    <1>1. CASE KnownId /\ answered' # answered
        <2> DEFINE prior == mem.records[call.id]
        <2>1. /\ call \in [id : Ids, request : Requests]
              /\ prior.tx.request = call.request /\ prior.status = "ok"
              /\ answered' = answered \cup {call}
            BY <1>0, <1>1 DEF KnownId, TypeOK, Calls
        <2>2. mem \in Journal /\ JournalOn(chain, mem) /\ call.id \in Ids
            BY <1>0, <2>1 DEF TypeOK, StoreInv
        <2>3. \E k \in DOMAIN chain :
                 /\ chain[k].ok /\ chain[k].tx.id = call.id
                 /\ chain[k].tx.request = call.request
            BY <1>0, <2>1, <2>2, OkIsMined
        <2>4. QED BY <1>0, <2>1, <2>3 DEF AnsweredIsMined, TypeOK
    <1>2. CASE answered' = answered
        BY <1>0, <1>2 DEF AnsweredIsMined, TypeOK
    <1>3. answered' = answered \/ KnownId
        BY DEF QuietStep, Sync, SyncEnd, Lookup, CheckNonce, PollFound, PollExpired,
               NewId, RefuseQuote, RpcError, SyncRecord, Submit
    <1>4. QED BY <1>1, <1>2, <1>3

LEMMA QuietInv ==
    ASSUME IInv, QuietStep
    PROVE  IInv'
    <1>1. TypeOK'
        BY QuietFrame, QuietCall, QuietAnswers DEF IInv, TypeOK, Reconciling
    <1>2. QED BY <1>1, QuietFrame, QuietCall, QuietAnswers DEF IInv

\* Start, a crash and a restored file only move journals that exist already.
LEMMA StartInv ==
    ASSUME IInv, Start
    PROVE  IInv'
    <1> USE DEF IInv, Start, chainVars, storeVars
    <1>1. TypeOK'
        BY DEF TypeOK, Locations
    <1>2. ChainInv' /\ StoreInv'
        BY DEF ChainInv, StoreInv
    <1>3. CallInv'
        BY DEF CallInv, Reconciling
    <1>4. AnsweredIsMined'
        BY DEF AnsweredIsMined
    <1>5. QED BY <1>1, <1>2, <1>3, <1>4

LEMMA CrashInv ==
    ASSUME IInv, Crash
    PROVE  IInv'
    <1> USE DEF IInv, Crash, chainVars, storeVars
    <1>1. EmptyJournal \in Journal /\ JournalOn(chain, EmptyJournal)
        BY EmptyFits DEF TypeOK
    <1>2. TypeOK'
        BY <1>1, FaultType DEF TypeOK, Locations, Calls, FaultKinds
    <1>3. ChainInv' /\ StoreInv'
        BY <1>1 DEF ChainInv, StoreInv
    <1>4. CallInv' /\ AnsweredIsMined'
        BY DEF CallInv, Reconciling, AnsweredIsMined
    <1>5. QED BY <1>2, <1>3, <1>4

LEMMA RollbackInv ==
    ASSUME IInv, NEW old \in snapshots, Rollback(old)
    PROVE  IInv'
    <1> USE DEF IInv, Rollback, chainVars, procVars
    <1>1. TypeOK'
        BY FaultType DEF TypeOK, FaultKinds
    <1>2. ChainInv' /\ StoreInv'
        BY DEF ChainInv, StoreInv
    <1>3. CallInv' /\ AnsweredIsMined'
        BY DEF CallInv, Reconciling, AnsweredIsMined, Mined
    <1>4. QED BY <1>1, <1>2, <1>3

\* The node's pool may change freely: a signed transaction is fresh wherever it is.
LEMMA BroadcastInv ==
    ASSUME IInv, Broadcast
    PROVE  IInv'
    <1> DEFINE tx == mem.records[cur].tx
    <1> USE DEF IInv, Broadcast, storeVars
    <1>1. cur \in Ids /\ tx \in Tx /\ FreshOn(chain, tx)
        BY DEF CallInv, Reconciling, Signed, StoreInv, JournalOn, RecordOn
    <1>0. pc = "broadcast"
        OBVIOUS
    <1>2. /\ sent' \subseteq sent \cup {tx} /\ pool' \subseteq sent'
          /\ UNCHANGED <<chain, disk, snapshots, mem, answered, faults>>
        BY DEF TypeOK
    <1>3. /\ \/ pc' = "poll" /\ UNCHANGED <<call, cur, fresh>>
             \/ Throw
        OBVIOUS
    <1> HIDE DEF Broadcast, storeVars
    <1>4. TypeOK'
        BY <1>0, <1>1, <1>2, <1>3, ThrowKeeps DEF TypeOK, Locations
    <1>5. ChainInv' /\ StoreInv'
        BY <1>1, <1>2 DEF ChainInv, StoreInv
    <1>6. CallInv'
        <2>1. CASE Throw
            BY <2>1, ThrowKeeps
        <2>2. CASE pc' = "poll" /\ UNCHANGED <<call, cur, fresh>>
            <3>1. mem' = mem /\ cur' = cur /\ call' = call /\ fresh' = fresh
                BY <1>2, <2>2
            <3>2. cur \in Signed(mem) /\ Signed(mem') = Signed(mem)
                BY <1>0, <3>1 DEF CallInv, Reconciling
            <3>3. QED BY <2>2, <3>1, <3>2 DEF CallInv, Reconciling
        <2>3. QED BY <1>3, <2>1, <2>2
    <1>7. AnsweredIsMined'
        BY <1>2 DEF AnsweredIsMined
    <1>8. QED BY <1>4, <1>5, <1>6, <1>7

LEMMA PoolInv ==
    ASSUME IInv, NEW tx \in sent, Forget(tx) \/ Reappear(tx)
    PROVE  IInv'
    <1> USE DEF IInv, Forget, Reappear, storeVars, procVars
    <1>1. TypeOK'
        BY FaultType DEF TypeOK, FaultKinds
    <1>2. ChainInv' /\ StoreInv'
        BY DEF ChainInv, StoreInv
    <1>3. CallInv' /\ AnsweredIsMined'
        BY DEF CallInv, Reconciling, AnsweredIsMined, Mined
    <1>4. QED BY <1>1, <1>2, <1>3

\* Signing: the id is not on the chain below the journal's nonce, because the
\* journal holds every transaction below it and has no record of the id.
LEMMA SignInv ==
    ASSUME IInv, NEW fee \in Fees, Sign(fee) \/ SignUnsaved(fee)
    PROVE  IInv'
    <1> DEFINE tx == Quoted(fee)
    <1>0. /\ pc = "quote" /\ mem' = WithSigned(mem, tx)
          /\ UNCHANGED <<chain, pool, sent, answered>>
          /\ faults' \in [FaultKinds -> Nat]
          /\ \/ /\ Save(mem') /\ pc' = "lookup" /\ cur' = call.id /\ fresh' = TRUE
                /\ call' = call
             \/ UNCHANGED <<disk, snapshots>> /\ Throw
        BY FaultType DEF Sign, SignUnsaved, chainVars, IInv, TypeOK, WriteThrows, storeVars,
                         FaultKinds
    <1>1. call \in [id : Ids, request : Requests] /\ mem \in Journal /\ chain \in Seq(Block)
        BY <1>0 DEF IInv, TypeOK, Calls
    <1>2. /\ tx \in Tx /\ tx.id = call.id /\ tx.nonce = mem.next /\ tx.request = call.request
        BY <1>1, FeesAssumption DEF Quoted, NextNonce, Tx, Journal
    <1>3. /\ Signed(mem) = {} /\ mem.records[tx.id].status = "absent" /\ JournalOn(chain, mem)
        BY <1>0, <1>2 DEF IInv, CallInv, StoreInv
    <1> HIDE DEF tx
    <1>4. /\ mem' \in Journal /\ JournalOn(chain, mem')
          /\ tx.id \in Signed(mem') /\ mem'.records[tx.id].tx = tx
        BY <1>0, <1>1, <1>2, <1>3, SigningKeeps
    <1>5. TypeOK'
        BY <1>0, <1>1, <1>4, ThrowKeeps DEF IInv, TypeOK, Save, Locations
    <1>6. ChainInv' /\ StoreInv' /\ AnsweredIsMined'
        BY <1>0, <1>4 DEF IInv, ChainInv, StoreInv, AnsweredIsMined, Save
    <1>7. CallInv'
        <2>1. CASE Throw
            BY <2>1, ThrowKeeps
        <2>2. CASE pc' = "lookup" /\ cur' = call.id /\ fresh' = TRUE /\ call' = call
            <3>1. call # NoCall
                BY <1>0 DEF IInv, TypeOK
            <3>2. QED BY <1>2, <1>4, <2>2, <3>1 DEF CallInv, Reconciling
        <2>3. QED BY <1>0, <2>1, <2>2
    <1>8. QED BY <1>5, <1>6, <1>7 DEF IInv

\* Writing a receipt, saved or not: the transaction is the block at its nonce.
LEMMA ReceiptInv ==
    ASSUME IInv, RecordReceipt \/ RecordReceiptUnsaved
    PROVE  IInv'
    <1>0. /\ pc = "record" /\ mem' = Reconciled(mem, cur)
          /\ UNCHANGED <<chain, pool, sent>>
          /\ faults' \in [FaultKinds -> Nat]
          /\ Save(mem') \/ UNCHANGED <<disk, snapshots>>
        BY FaultType DEF RecordReceipt, RecordReceiptUnsaved, chainVars, IInv, TypeOK,
                         WriteThrows, storeVars, FaultKinds
    <1>1. /\ answered' = answered \/ (fresh /\ answered' = answered \cup {call}
                                      /\ mem'.records[cur].status # "reverted")
          /\ Throw \/ (pc' = "sync" /\ cur' = NoId /\ ~fresh /\ UNCHANGED <<call, fresh>>)
        BY DEF RecordReceipt, RecordReceiptUnsaved, IInv, TypeOK
    <1>2. /\ cur \in Signed(mem) /\ cur \in Ids /\ Mined(mem.records[cur].tx)
          /\ mem \in Journal /\ JournalOn(chain, mem)
        BY <1>0 DEF IInv, CallInv, Reconciling, StoreInv, TypeOK, Signed
    <1>3. /\ mem' \in Journal /\ JournalOn(chain, mem')
          /\ mem'.records[cur].tx = mem.records[cur].tx
        BY <1>0, <1>2, ReceiptKeeps DEF IInv
    <1>4. answered' \subseteq [id : Ids, request : Requests] /\ AnsweredIsMined'
        <2>1. CASE answered' = answered
            BY <1>0, <2>1 DEF IInv, TypeOK, AnsweredIsMined
        <2>2. CASE /\ fresh /\ answered' = answered \cup {call}
                   /\ mem'.records[cur].status # "reverted"
            <3>1. mem'.records[cur].status = "ok"
                BY <1>0, <1>2, <2>2 DEF Reconciled, Journal
            <3>2. /\ call \in [id : Ids, request : Requests] /\ cur = call.id
                  /\ call.request = mem'.records[cur].tx.request
                BY <1>3, <2>2 DEF IInv, TypeOK, CallInv, Calls
            <3>3. \E k \in DOMAIN chain :
                     /\ chain[k].ok /\ chain[k].tx.id = cur
                     /\ chain[k].tx.request = mem'.records[cur].tx.request
                BY <1>2, <1>3, <3>1, OkIsMined DEF IInv
            <3>4. \E k \in DOMAIN chain :
                     /\ chain[k].ok /\ chain[k].tx.id = call.id
                     /\ chain[k].tx.request = call.request
                BY <3>2, <3>3
            <3>5. chain' = chain /\ answered' = answered \cup {call}
                BY <1>0, <2>2
            <3>6. AnsweredIsMined'
                BY <3>4, <3>5 DEF IInv, AnsweredIsMined
            <3>7. QED BY <3>2, <3>5, <3>6 DEF IInv, TypeOK
        <2>3. QED BY <1>1, <2>1, <2>2
    <1>5. TypeOK'
        BY <1>0, <1>1, <1>3, <1>4, ThrowKeeps DEF IInv, TypeOK, Save, Locations
    <1>6. ChainInv' /\ StoreInv'
        BY <1>0, <1>3 DEF IInv, ChainInv, StoreInv, Save
    <1>7. CallInv'
        <2>1. CASE Throw
            BY <2>1, ThrowKeeps
        <2>2. CASE pc' = "sync" /\ ~fresh /\ fresh' = fresh
            BY <2>2 DEF CallInv, Reconciling
        <2>3. QED BY <1>1, <2>1, <2>2
    <1>8. QED BY <1>4, <1>5, <1>6, <1>7 DEF IInv

\* A block: the transaction has the chain's length as its nonce and is fresh, so
\* its id is on the chain for the first time.
LEMMA MineInv ==
    ASSUME IInv, NEW tx \in pool, Mine(tx)
    PROVE  IInv'
    <1>0. /\ tx \in sent /\ tx \in Tx /\ tx.nonce = Len(chain) /\ FreshOn(chain, tx)
          /\ chain \in Seq(Block) /\ DOMAIN chain = 1 .. Len(chain)
        BY DEF Mine, IInv, TypeOK, StoreInv, LatestCount
    <1>1. PICK ok \in BOOLEAN, fee \in 1 .. tx.fee :
             chain' = Append(chain, [tx |-> tx, ok |-> ok, fee |-> fee])
        BY DEF Mine
    <1> DEFINE b == [tx |-> tx, ok |-> ok, fee |-> fee]
    <1>2. b \in Block /\ b.tx = tx
        BY <1>0 DEF Block, Tx
    <1> HIDE DEF b
    <1>3. /\ chain' = Append(chain, b) /\ chain' \in Seq(Block)
          /\ Len(chain) \in Nat /\ Len(chain') = Len(chain) + 1
          /\ \A k \in 1 .. Len(chain) : chain'[k] = chain[k]
          /\ chain'[Len(chain) + 1] = b
          /\ DOMAIN chain' = 1 .. Len(chain')
        <2>1. chain' = Append(chain, b)
            BY <1>1 DEF b
        <2>2. QED BY <1>0, <1>2, <2>1, AppendBlock
    <1>4. /\ UNCHANGED <<sent, disk, snapshots, mem, pc, call, cur, fresh, answered, faults>>
          /\ pool' \subseteq pool
        BY DEF Mine, storeVars, procVars
    <1>5. TypeOK'
        BY <1>3, <1>4 DEF IInv, TypeOK
    <1>6. ChainInv'
        <2>1. \A k \in 1 .. Len(chain) : chain[k].tx.id # tx.id
            BY <1>0, <1>3 DEF FreshOn
        <2>2. \A k \in 1 .. Len(chain') : k \in 1 .. Len(chain) \/ k = Len(chain) + 1
            BY <1>3
        <2>3. \A k \in 1 .. Len(chain') : chain'[k].tx.nonce + 1 = k
            BY <1>0, <1>2, <1>3, <2>2 DEF IInv, ChainInv
        <2>4. \A k, l \in 1 .. Len(chain') : chain'[k].tx.id = chain'[l].tx.id => k = l
            BY <1>2, <1>3, <2>1, <2>2 DEF IInv, ChainInv
        <2>5. QED BY <2>3, <2>4 DEF ChainInv
    <1>7. StoreInv'
        <2>1. \A j \in Journal : JournalOn(chain, j) => JournalOn(chain', j)
            BY <1>0, <1>2, <1>3, JournalGrows
        <2>2. \A t \in Tx : FreshOn(chain, t) => FreshOn(chain', t)
            BY <1>0, <1>2, <1>3, FreshGrows
        <2>3. QED BY <1>4, <2>1, <2>2 DEF IInv, TypeOK, StoreInv
    <1>8. CallInv'
        <2>1. \A t : Mined(t) => \E k \in DOMAIN chain' : chain'[k].tx = t
            BY <1>0, <1>3 DEF Mined
        <2>2. QED BY <1>4, <2>1 DEF IInv, CallInv, Mined
    <1>9. AnsweredIsMined'
        <2>1. \A k \in DOMAIN chain : k \in DOMAIN chain' /\ chain'[k] = chain[k]
            BY <1>0, <1>3
        <2>2. QED BY <1>4, <2>1 DEF IInv, AnsweredIsMined
    <1>10. QED BY <1>5, <1>6, <1>7, <1>8, <1>9 DEF IInv

\* Every step of the operator and of its environment keeps the invariant.
LEMMA StepInv == IInv /\ [Next]_vars => IInv'
    <1> SUFFICES ASSUME IInv, [Next]_vars PROVE IInv'
        OBVIOUS
    <1>1. CASE QuietStep
        BY <1>1, QuietInv
    <1>2. CASE Start
        BY <1>2, StartInv
    <1>3. CASE Broadcast
        BY <1>3, BroadcastInv
    <1>4. CASE RecordReceipt \/ RecordReceiptUnsaved
        BY <1>4, ReceiptInv
    <1>5. CASE \E fee \in Fees : Sign(fee) \/ SignUnsaved(fee)
        BY <1>5, SignInv
    <1>6. CASE \E tx \in pool : Mine(tx)
        BY <1>6, MineInv
    <1>7. CASE \E tx \in sent : Forget(tx) \/ Reappear(tx)
        BY <1>7, PoolInv
    <1>8. CASE Crash
        BY <1>8, CrashInv
    <1>9. CASE \E old \in snapshots : Rollback(old)
        BY <1>9, RollbackInv
    <1>10. CASE UNCHANGED vars
        BY <1>10 DEF vars, IInv, TypeOK, ChainInv, StoreInv, CallInv, AnsweredIsMined, Mined
    <1>11. pool \subseteq sent
        BY DEF IInv, TypeOK
    <1>12. QED BY <1>1, <1>2, <1>3, <1>4, <1>5, <1>6, <1>7, <1>8, <1>9, <1>10, <1>11
              DEF Next, Operator, Environment, Reconcile, QuietStep

\* The inductive invariant holds in every reachable state.
THEOREM InvariantHolds == Spec => []IInv
    <1>1. Init => IInv
        BY InitInv
    <1>2. IInv /\ [Next]_vars => IInv'
        BY StepInv
    <1>3. QED BY <1>1, <1>2, PTL DEF Spec

--------------------------------------------------------------------------------
(* What follows for the submitter's callers. *)

\* Type correctness of the submitter.
THEOREM TypeCorrect == Spec => []TypeOK
    <1>1. IInv => TypeOK
        BY DEF IInv
    <1>2. QED BY <1>1, InvariantHolds, PTL

\* No request id is mined twice, whatever crashes, failed writes and restored
\* journal files happen.
THEOREM MinedAtMostOnce == Spec => []AtMostOnce
    <1>1. IInv => AtMostOnce
        BY DEF IInv, TypeOK, ChainInv, AtMostOnce
    <1>2. QED BY <1>1, InvariantHolds, PTL

\* submit() only answers for transactions that were mined and succeeded.
THEOREM AnswersAreMined == Spec => []AnsweredIsMined
    <1>1. IInv => AnsweredIsMined
        BY DEF IInv
    <1>2. QED BY <1>1, InvariantHolds, PTL

\* Neither memory nor any sealed file ever claims a receipt the chain does not have.
THEOREM JournalsAreTruthful == Spec => []JournalAgreesWithChain
    <1>1. IInv => JournalAgreesWithChain
        <2> SUFFICES ASSUME IInv, NEW j \in snapshots \cup {disk, mem} PROVE Truthful(j)
            BY DEF JournalAgreesWithChain
        <2>1. j \in Journal /\ JournalOn(chain, j) /\ chain \in Seq(Block)
            BY DEF IInv, TypeOK, StoreInv
        <2>2. QED BY <2>1 DEF JournalOn, RecordOn, Truthful, Journal, Tx
    <1>2. QED BY <1>1, InvariantHolds, PTL

\* A restored or lost journal never gets a new request past sync().
THEOREM RollbackIsDetected == Spec => SyncDetectsRollback
    <1>1. IInv /\ [Next]_vars => [pc = "sync" /\ pc' = "prior" =>
            \A k \in DOMAIN chain : mem.records[chain[k].tx.id].tx = chain[k].tx]_vars
        <2> SUFFICES ASSUME IInv, Next, pc = "sync", pc' = "prior", NEW k \in DOMAIN chain
                     PROVE  mem.records[chain[k].tx.id].tx = chain[k].tx
            OBVIOUS
        <2>1. SyncEnd
            BY DEF Next, Operator, Environment, Reconcile, Start, Sync, Lookup, CheckNonce,
                   Broadcast, PollFound, PollExpired, RecordReceipt, RecordReceiptUnsaved,
                   KnownId, NewId, RefuseQuote, RpcError, SyncRecord, Submit, Sign, SignUnsaved,
                   Mine, Forget, Reappear, Crash, Rollback, procVars, Throw
        <2>2. Len(chain) = mem.next
            BY <2>1 DEF SyncEnd, LatestCount, Throw
        <2>3. JournalOn(chain, mem) /\ DOMAIN chain = 1 .. Len(chain)
            BY DEF IInv, TypeOK, StoreInv
        <2>4. QED BY <2>2, <2>3 DEF JournalOn, PrefixOn
    <1>2. QED BY <1>1, InvariantHolds, PTL DEF Spec, SyncDetectsRollback

--------------------------------------------------------------------------------
(* Stores that do not fail. *)

PersistedInv ==
    /\ EmptyJournal \in snapshots /\ disk \in snapshots /\ mem \in snapshots
    /\ PersistedBeforeSent

\* When no save() fails, a transaction is in the sealed file before the node sees
\* it, even if the host restores older files.
THEOREM SentWasPersisted ==
    ASSUME FaultLimit["write"] = 0
    PROVE  Spec => []PersistedBeforeSent
    <1>1. Init => PersistedInv
        BY DEF Init, PersistedInv, PersistedBeforeSent
    <1>2. IInv /\ PersistedInv /\ [Next]_vars => PersistedInv'
        <2> SUFFICES ASSUME IInv, PersistedInv, [Next]_vars PROVE PersistedInv'
            OBVIOUS
        <2>0. ~Fault("write")
            BY DEF Fault, IInv, TypeOK, FaultKinds
        <2>1. CASE QuietStep \/ UNCHANGED vars
            <3>1. UNCHANGED <<sent, disk, snapshots, mem>>
                BY <2>1, QuietFrame DEF vars
            <3>2. QED BY <3>1 DEF PersistedInv, PersistedBeforeSent
        <2>2. CASE Start \/ Crash
            BY <2>2 DEF Start, Crash, PersistedInv, PersistedBeforeSent, chainVars, storeVars
        <2>3. CASE Broadcast
            <3> DEFINE tx == mem.records[cur].tx
            <3>1. cur \in Ids /\ tx.id = cur
                BY <2>3 DEF Broadcast, IInv, CallInv, Reconciling, Signed, StoreInv, JournalOn,
                            RecordOn
            <3>2. sent' \subseteq sent \cup {tx} /\ UNCHANGED <<disk, snapshots, mem>>
                BY <2>3 DEF Broadcast, storeVars
            <3>3. mem \in snapshots /\ mem.records[tx.id].tx = tx
                BY <3>1 DEF PersistedInv
            <3> HIDE DEF tx
            <3>4. QED BY <3>2, <3>3 DEF PersistedInv, PersistedBeforeSent
        <2>4. CASE RecordReceipt \/ \E fee \in Fees : Sign(fee)
            BY <2>4 DEF RecordReceipt, Sign, Save, chainVars, PersistedInv, PersistedBeforeSent
        <2>5. CASE RecordReceiptUnsaved \/ \E fee \in Fees : SignUnsaved(fee)
            BY <2>0, <2>5 DEF RecordReceiptUnsaved, SignUnsaved
        <2>6. CASE \/ \E tx \in pool : Mine(tx) \/ Forget(tx)
                   \/ \E tx \in sent : Reappear(tx)
            BY <2>6 DEF Mine, Forget, Reappear, PersistedInv, PersistedBeforeSent, storeVars,
                        procVars
        <2>7. CASE \E old \in snapshots : Rollback(old)
            BY <2>7 DEF Rollback, PersistedInv, PersistedBeforeSent, chainVars, procVars
        <2>8. QED BY <2>1, <2>2, <2>3, <2>4, <2>5, <2>6, <2>7
                  DEF Next, Operator, Environment, Reconcile, QuietStep
    <1>3. PersistedInv => PersistedBeforeSent
        BY DEF PersistedInv
    <1>4. QED BY <1>1, <1>2, <1>3, InvariantHolds, PTL DEF Spec

\* Memory and file agree, and the file has every transaction the node was given.
NoLossInv ==
    /\ pc # "down" => mem = disk
    /\ \A t \in sent : disk.records[t.id].status # "absent" /\ disk.records[t.id].tx = t

\* The journal in memory and the file stay the same when saves succeed and the file is
\* never rolled back.
LEMMA NoLossStep ==
    ASSUME FaultLimit["write"] = 0, FaultLimit["rollback"] = 0, IInv, NoLossInv, [Next]_vars
    PROVE  NoLossInv'
    <1>0. ~Fault("write") /\ ~Fault("rollback")
        BY DEF Fault, IInv, TypeOK, FaultKinds
    <1>1. CASE QuietStep \/ UNCHANGED vars
        <2>1. UNCHANGED <<sent, disk, mem>>
            BY <1>1, QuietFrame DEF vars
        <2>2. pc' # "down" => pc # "down"
            BY <1>1 DEF QuietStep, Sync, SyncEnd, Lookup, CheckNonce, PollFound,
                        PollExpired, KnownId, NewId, RefuseQuote, RpcError, SyncRecord,
                        Submit, vars
        <2>3. QED BY <2>1, <2>2 DEF NoLossInv
    <1>2. CASE Start \/ Crash
        BY <1>2 DEF Start, Crash, NoLossInv, chainVars, storeVars
    <1>3. CASE Broadcast
        <2> DEFINE tx == mem.records[cur].tx
        <2>1. cur \in Ids /\ tx.id = cur /\ mem.records[cur].status = "signed" /\ mem = disk
            BY <1>3 DEF Broadcast, IInv, CallInv, Reconciling, Signed, StoreInv, JournalOn,
                        RecordOn, NoLossInv
        <2>2. sent' \subseteq sent \cup {tx} /\ UNCHANGED <<disk, mem>>
            BY <1>3 DEF Broadcast, storeVars
        <2>3. disk.records[tx.id].status # "absent" /\ disk.records[tx.id].tx = tx
            BY <2>1
        <2> HIDE DEF tx
        <2>4. QED BY <2>1, <2>2, <2>3 DEF NoLossInv
    <1>4. ASSUME NEW fee \in Fees, Sign(fee) PROVE NoLossInv'
        <2>1. /\ pc = "quote" /\ mem = disk /\ sent' = sent /\ mem' = disk'
              /\ mem' = WithSigned(mem, Quoted(fee))
            BY <1>4 DEF Sign, Save, chainVars, NoLossInv
        <2>2. mem.records[call.id].status = "absent" /\ Quoted(fee).id = call.id
            BY <2>1 DEF IInv, CallInv, Quoted
        <2>3. \A t \in sent : t.id \in Ids /\ t.id # call.id
            BY <2>1, <2>2 DEF NoLossInv, IInv, TypeOK, Tx
        <2>4. mem \in Journal
            BY DEF IInv, TypeOK
        <2>5. \A t \in sent : mem'.records[t.id] = mem.records[t.id]
            BY <2>1, <2>2, <2>3, <2>4 DEF WithSigned, Journal
        <2>6. QED BY <2>1, <2>5 DEF NoLossInv
    <1>5. CASE RecordReceipt
        <2>1. /\ pc = "record" /\ mem = disk /\ sent' = sent /\ mem' = disk'
              /\ mem' = Reconciled(mem, cur)
            BY <1>5 DEF RecordReceipt, Save, chainVars, NoLossInv
        <2>2. mem \in Journal /\ \A t \in sent : t.id \in Ids
            BY DEF IInv, TypeOK, Tx
        <2>3. \A t \in sent : /\ mem'.records[t.id].tx = mem.records[t.id].tx
                              /\ t.id = cur \/ mem'.records[t.id] = mem.records[t.id]
                              /\ t.id = cur => mem'.records[t.id].status # "absent"
            BY <2>1, <2>2 DEF Reconciled, Journal
        <2>4. QED BY <2>1, <2>3 DEF NoLossInv
    <1>6. CASE RecordReceiptUnsaved \/ \E fee \in Fees : SignUnsaved(fee)
        BY <1>0, <1>6 DEF RecordReceiptUnsaved, SignUnsaved
    <1>7. CASE \/ \E tx \in pool : Mine(tx) \/ Forget(tx)
               \/ \E tx \in sent : Reappear(tx)
        BY <1>7 DEF Mine, Forget, Reappear, NoLossInv, storeVars, procVars
    <1>8. CASE \E old \in snapshots : Rollback(old)
        BY <1>0, <1>8 DEF Rollback
    <1>9. QED BY <1>1, <1>2, <1>3, <1>4, <1>5, <1>6, <1>7, <1>8
              DEF Next, Operator, Environment, Reconcile, QuietStep

\* When saves succeed and the file is never rolled back, no nonce is ever used for
\* two different transactions.
THEOREM AmbiguousNeverReplaced ==
    ASSUME FaultLimit["write"] = 0, FaultLimit["rollback"] = 0
    PROVE  Spec => []NeverReplaced
    <1>1. Init => NoLossInv
        BY DEF Init, NoLossInv
    <1>2. IInv /\ NoLossInv /\ [Next]_vars => NoLossInv'
        BY NoLossStep
    <1>3. IInv /\ NoLossInv => NeverReplaced
        <2> SUFFICES ASSUME IInv, NoLossInv, NEW t \in sent, NEW u \in sent, t.nonce = u.nonce
                     PROVE  t = u
            BY DEF NeverReplaced
        <2>1. /\ t.id \in Ids /\ u.id \in Ids /\ t.nonce \in Nat /\ JournalOn(chain, disk)
              /\ disk \in Journal
              /\ disk.records[t.id] \in Record /\ disk.records[u.id] \in Record
            BY DEF IInv, TypeOK, Tx, StoreInv, Journal
        <2>2. RecordOn(chain, disk, t.id) /\ RecordOn(chain, disk, u.id)
            BY <2>1 DEF JournalOn
        <2>3. /\ disk.records[t.id].status \in {"signed", "ok", "reverted"}
              /\ disk.records[u.id].status \in {"signed", "ok", "reverted"}
              /\ disk.records[t.id].tx = t /\ disk.records[u.id].tx = u
            BY <2>1 DEF NoLossInv, Record
        <2>4. CASE disk.records[t.id].status = "signed" /\ disk.records[u.id].status = "signed"
            <3>1. t.id = u.id
                BY <2>1, <2>4 DEF JournalOn, Signed
            <3>2. QED BY <2>3, <3>1
        <2>5. CASE /\ disk.records[t.id].status \in {"ok", "reverted"}
                   /\ disk.records[u.id].status \in {"ok", "reverted"}
            BY <2>2, <2>3, <2>5 DEF RecordOn
        <2>6. CASE \/ disk.records[t.id].status = "signed" /\ disk.records[u.id].status # "signed"
                   \/ disk.records[t.id].status # "signed" /\ disk.records[u.id].status = "signed"
            BY <2>1, <2>2, <2>3, <2>6 DEF RecordOn, Journal
        <2>7. QED BY <2>3, <2>4, <2>5, <2>6
    <1>4. QED BY <1>1, <1>2, <1>3, InvariantHolds, PTL DEF Spec

--------------------------------------------------------------------------------
(* The submitter implements the abstract log of effects. *)

\* Blocks are the effects, answers the answers; everything else stutters.
THEOREM SubmitterKeepsPromise == Spec => PromiseSpec
    <1>1. Init => Promise!Init
        BY DEF Init, Promise!Init, Log
    <1>2. IInv /\ IInv' /\ [Next]_vars => [Promise!Next]_<<Log, answered>>
        <2> SUFFICES ASSUME IInv, IInv', [Next]_vars
                     PROVE  [Promise!Next]_<<Log, answered>>
            OBVIOUS
        <2>0. chain \in Seq(Block) /\ DOMAIN chain = 1 .. Len(chain) /\ Len(chain) \in Nat
            BY DEF IInv, TypeOK
        <2>1. ASSUME NEW tx \in pool, Mine(tx) PROVE Promise!Next
            <3>1. PICK ok \in BOOLEAN, fee \in 1 .. tx.fee :
                     chain' = Append(chain, [tx |-> tx, ok |-> ok, fee |-> fee])
                BY <2>1 DEF Mine
            <3> DEFINE e == [id |-> tx.id, request |-> tx.request, ok |-> ok]
            <3>2. /\ tx \in Tx /\ FreshOn(chain, tx) /\ tx.nonce = Len(chain)
                  /\ answered' = answered
                BY <2>1 DEF Mine, IInv, TypeOK, StoreInv, LatestCount
            <3>3. e \in Promise!Effect
                BY <3>2 DEF Promise!Effect, Tx
            <3>4. \A k \in DOMAIN Log : Log[k].id # e.id
                BY <2>0, <3>2 DEF Log, FreshOn
            <3>5. Log' = Append(Log, e)
                <4> DEFINE b == [tx |-> tx, ok |-> ok, fee |-> fee]
                <4>1. /\ DOMAIN chain' = 1 .. Len(chain) + 1
                      /\ \A k \in 1 .. Len(chain) : chain'[k] = chain[k]
                      /\ chain'[Len(chain) + 1] = b
                    BY <2>0, <3>1
                <4>2. Len(Log) = Len(chain) /\ DOMAIN Log = 1 .. Len(chain)
                    BY <2>0 DEF Log
                <4>3. Append(Log, e) = [k \in 1 .. Len(chain) + 1 |->
                                          IF k = Len(chain) + 1 THEN e ELSE Log[k]]
                    BY <2>0, <4>2
                <4>4. Log' = [k \in 1 .. Len(chain) + 1 |->
                                [id |-> chain'[k].tx.id, request |-> chain'[k].tx.request,
                                 ok |-> chain'[k].ok]]
                    BY <4>1 DEF Log
                <4>5. \A k \in 1 .. Len(chain) + 1 :
                        [id |-> chain'[k].tx.id, request |-> chain'[k].tx.request,
                         ok |-> chain'[k].ok] = IF k = Len(chain) + 1 THEN e ELSE Log[k]
                    BY <2>0, <4>1 DEF Log
                <4>6. QED BY <4>3, <4>4, <4>5
            <3>6. Promise!Apply(e)
                BY <3>2, <3>4, <3>5 DEF Promise!Apply
            <3>7. QED BY <3>3, <3>6 DEF Promise!Next
        <2>2. CASE chain' = chain /\ answered' # answered
            <3>1. call \in Calls /\ answered' = answered \cup {call}
                BY <2>2 DEF IInv, TypeOK, Next, Operator, Environment, Reconcile, Start, Sync,
                            SyncEnd, Lookup, CheckNonce, Broadcast, PollFound, PollExpired,
                            RecordReceipt, RecordReceiptUnsaved, KnownId, NewId, RefuseQuote,
                            RpcError, SyncRecord, Submit, Sign, SignUnsaved, Mine, Forget,
                            Reappear, Crash, Rollback, vars
            <3>2. call \in [id : Ids, request : Requests] /\ call \in answered'
                BY <3>1 DEF IInv, TypeOK
            <3>3. PICK k \in DOMAIN chain : /\ chain[k].ok /\ chain[k].tx.id = call.id
                                            /\ chain[k].tx.request = call.request
                BY <2>2, <3>2 DEF IInv, AnsweredIsMined
            <3>4. chain[k].ok = TRUE
                BY <2>0, <3>3, BlockAt DEF Block
            <3>5. Log[k] = [id |-> call.id, request |-> call.request, ok |-> TRUE]
                  /\ k \in DOMAIN Log
                BY <3>3, <3>4 DEF Log
            <3>6. call = [id |-> call.id, request |-> call.request]
                BY <3>2
            <3>7. Promise!Answer(call.id, call.request)
                BY <2>2, <3>1, <3>5, <3>6 DEF Promise!Answer, Log
            <3>8. QED BY <3>2, <3>7 DEF Promise!Next
        <2>3. CASE chain' = chain /\ answered' = answered
            BY <2>3 DEF Log
        <2>4. chain' = chain \/ \E tx \in pool : Mine(tx)
            BY DEF Next, Operator, Environment, Reconcile, Start, Sync, SyncEnd, Lookup,
                   CheckNonce, Broadcast, PollFound, PollExpired, RecordReceipt,
                   RecordReceiptUnsaved, KnownId, NewId, RefuseQuote, RpcError, SyncRecord,
                   Submit, Sign, SignUnsaved, Forget, Reappear, Crash, Rollback, vars, chainVars
        <2>5. QED BY <2>1, <2>2, <2>3, <2>4
    <1>3. QED BY <1>1, <1>2, InvariantHolds, PTL DEF Spec, PromiseSpec, Promise!Spec

--------------------------------------------------------------------------------
(* The submitter implements the steps its callers see. *)

OutcomeOn(c, i) ==
    IF \E k \in DOMAIN c : c[k].tx.id = i
    THEN LET k == CHOOSE k \in DOMAIN c : c[k].tx.id = i
         IN  IF c[k].ok THEN "ok" ELSE "reverted"
    ELSE "no"
Result(b) == IF b.ok THEN "ok" ELSE "reverted"
UniqueOn(c) == \A k, l \in 1 .. Len(c) : c[k].tx.id = c[l].tx.id => k = l

\* An id's outcome is the result of the block that has it.
LEMMA OutcomeFound ==
    ASSUME NEW c \in Seq(Block), UniqueOn(c), NEW k \in 1 .. Len(c), NEW i, c[k].tx.id = i
    PROVE  OutcomeOn(c, i) = Result(c[k])
    <1> DEFINE l == CHOOSE l \in DOMAIN c : c[l].tx.id = i
    <1>1. DOMAIN c = 1 .. Len(c)
        OBVIOUS
    <1>2. \E m \in DOMAIN c : c[m].tx.id = i
        BY <1>1
    <1>3. l \in DOMAIN c /\ c[l].tx.id = i
        BY <1>2
    <1>4. OutcomeOn(c, i) = Result(c[l])
        BY <1>2 DEF OutcomeOn, Result
    <1> HIDE DEF l
    <1>5. l = k
        BY <1>1, <1>3 DEF UniqueOn
    <1>6. QED BY <1>4, <1>5

\* An id that is not on the chain has none.
LEMMA OutcomeMissing ==
    ASSUME NEW c \in Seq(Block), NEW i, \A k \in 1 .. Len(c) : c[k].tx.id # i
    PROVE  OutcomeOn(c, i) = "no"
    BY DEF OutcomeOn

\* A block changes the outcome of its own id.
LEMMA OutcomeGrows ==
    ASSUME NEW c \in Seq(Block), NEW b \in Block, UniqueOn(c), UniqueOn(Append(c, b)), NEW i
    PROVE  OutcomeOn(Append(c, b), i) = IF i = b.tx.id THEN Result(b) ELSE OutcomeOn(c, i)
    <1> DEFINE d == Append(c, b)
    <1>1. /\ d \in Seq(Block) /\ Len(c) \in Nat /\ Len(d) = Len(c) + 1
          /\ \A k \in 1 .. Len(c) : d[k] = c[k]
          /\ d[Len(c) + 1] = b
        BY AppendBlock
    <1>2. UniqueOn(d)
        OBVIOUS
    <1> HIDE DEF d
    <1>3. CASE i = b.tx.id
        <2>1. Len(c) + 1 \in 1 .. Len(d) /\ d[Len(c) + 1].tx.id = i
            BY <1>1, <1>3
        <2>2. OutcomeOn(d, i) = Result(d[Len(c) + 1])
            BY <1>1, <1>2, <2>1, OutcomeFound
        <2>3. QED BY <1>1, <1>3, <2>2 DEF d
    <1>4. ASSUME i # b.tx.id, NEW k \in 1 .. Len(c), c[k].tx.id = i
          PROVE  OutcomeOn(d, i) = OutcomeOn(c, i)
        <2>1. k \in 1 .. Len(d) /\ d[k] = c[k] /\ d[k].tx.id = i
            BY <1>1, <1>4
        <2>2. OutcomeOn(d, i) = Result(d[k])
            BY <1>1, <1>2, <2>1, OutcomeFound
        <2>3. OutcomeOn(c, i) = Result(c[k])
            BY <1>4, OutcomeFound
        <2>4. QED BY <2>1, <2>2, <2>3
    <1>5. ASSUME i # b.tx.id, \A k \in 1 .. Len(c) : c[k].tx.id # i
          PROVE  OutcomeOn(d, i) = OutcomeOn(c, i)
        <2>1. \A k \in 1 .. Len(d) : d[k].tx.id # i
            BY <1>1, <1>5
        <2>2. QED BY <1>1, <1>5, <2>1, OutcomeMissing
    <1>6. QED BY <1>3, <1>4, <1>5 DEF d

\* What a caller sees: the file's status of each id, and the chain's outcome.
Statuses == [i \in Ids |-> disk.records[i].status]
Outcomes == [i \in Ids |-> OutcomeOn(chain, i)]
LEMMA StepsSeen ==
    /\ Outcomes = [i \in Ids |-> Outcome(i)] /\ Outcomes' = [i \in Ids |-> Outcome(i)]'
    BY DEF Outcomes, OutcomeOn, Outcome

\* The first signature of an id, when everything before is settled.
LEMMA SignRefines ==
    ASSUME IInv, NoLossInv, NEW fee \in Fees, Sign(fee), NEW i \in Ids, i = call.id
    PROVE  Steps!Sign(i)
    <1>1. /\ pc = "quote" /\ mem = disk /\ chain' = chain
          /\ disk' = WithSigned(mem, Quoted(fee))
        BY DEF Sign, Save, chainVars, NoLossInv
    <1>2. /\ disk.records[i].status = "absent" /\ Signed(disk) = {}
          /\ disk \in Journal /\ Quoted(fee).id = i
        BY <1>1 DEF IInv, CallInv, TypeOK, Calls, Quoted
    <1>3. \A k \in Ids : disk.records[k].status # "signed"
        BY <1>2 DEF Signed
    <1>4. Steps!InFlight = {}
        BY <1>3 DEF Steps!InFlight
    <1>5. \A k \in Ids : disk'.records[k].status
                           = IF k = i THEN "signed" ELSE disk.records[k].status
        BY <1>1, <1>2 DEF WithSigned, Journal
    <1>6. Statuses' = [Statuses EXCEPT ![i] = "signed"]
        BY <1>2, <1>5 DEF Statuses
    <1>7. Outcomes' = Outcomes
        BY <1>1 DEF Outcomes
    <1>8. QED BY <1>2, <1>4, <1>6, <1>7, StepsSeen DEF Steps!Sign, Statuses

\* A receipt is the outcome of the id it is recorded for.
LEMMA ReceiptRefines ==
    ASSUME IInv, NoLossInv, RecordReceipt, NEW i \in Ids, i = cur
    PROVE  Steps!Learn(i)
    <1> DEFINE tx == mem.records[cur].tx
               block == chain[tx.nonce + 1]
    <1>1. /\ pc = "record" /\ mem = disk /\ chain' = chain
          /\ disk' = Reconciled(mem, cur)
        BY DEF RecordReceipt, Save, chainVars, NoLossInv
    <1>2. /\ disk.records[i].status = "signed" /\ Mined(tx)
          /\ disk \in Journal /\ chain \in Seq(Block) /\ JournalOn(chain, disk)
        BY <1>1 DEF IInv, CallInv, TypeOK, Reconciling, Signed, StoreInv
    <1>3. tx \in Tx /\ tx.id = i
        BY <1>1, <1>2 DEF JournalOn, RecordOn
    <1>4. PICK k \in DOMAIN chain : chain[k].tx = tx
        BY <1>2 DEF Mined
    <1>5. k \in 1 .. Len(chain) /\ tx.nonce + 1 = k /\ block = chain[k]
        BY <1>2, <1>4 DEF IInv, ChainInv
    <1>6. Outcomes[i] = Result(block)
        <2>1. chain[k].tx.id = i /\ UniqueOn(chain)
            BY <1>3, <1>4 DEF IInv, ChainInv, UniqueOn
        <2>2. OutcomeOn(chain, i) = Result(chain[k])
            BY <1>2, <1>5, <2>1, OutcomeFound
        <2>3. QED BY <1>2, <1>5, <2>2 DEF Outcomes
    <1>7. \A j \in Ids : disk'.records[j].status
                           = IF j = i THEN Result(block) ELSE disk.records[j].status
        BY <1>1, <1>2 DEF Reconciled, Journal, Result
    <1>8. Statuses' = [Statuses EXCEPT ![i] = Outcomes[i]]
        BY <1>2, <1>6, <1>7 DEF Statuses
    <1>9. Outcomes' = Outcomes
        BY <1>1 DEF Outcomes
    <1>10. Outcomes[i] \in {"ok", "reverted"} /\ Statuses[i] = "signed"
        BY <1>2, <1>6 DEF Result, Statuses
    <1>11. QED BY <1>8, <1>9, <1>10, StepsSeen DEF Steps!Learn, Steps!Outcomes, Statuses

\* A block is the outcome of an id whose transaction waits in the file.
LEMMA MineRefines ==
    ASSUME IInv, IInv', NoLossInv, NEW tx \in pool, Mine(tx)
    PROVE  Steps!Mine(tx.id)
    <1>1. PICK ok \in BOOLEAN, fee \in 1 .. tx.fee :
             chain' = Append(chain, [tx |-> tx, ok |-> ok, fee |-> fee])
        BY DEF Mine
    <1> DEFINE b == [tx |-> tx, ok |-> ok, fee |-> fee]
    <1>2. /\ tx \in sent /\ tx \in Tx /\ tx.id \in Ids /\ tx.nonce = Len(chain) /\ disk' = disk
          /\ chain \in Seq(Block) /\ Len(chain) \in Nat
        BY DEF Mine, IInv, TypeOK, LatestCount, storeVars, Tx
    <1>3. chain' \in Seq(Block) /\ UniqueOn(chain) /\ UniqueOn(chain')
        BY DEF IInv, TypeOK, ChainInv, UniqueOn
    <1>4. b \in Block
        BY <1>2 DEF Block, Tx
    <1>5. \A k \in 1 .. Len(chain) : chain[k].tx.id # tx.id
        BY <1>2 DEF IInv, StoreInv, FreshOn
    <1>6. Statuses[tx.id] = "signed"
        <2>1. /\ disk.records[tx.id].status # "absent" /\ disk.records[tx.id].tx = tx
              /\ disk \in Journal /\ JournalOn(chain, disk)
            BY <1>2 DEF NoLossInv, IInv, TypeOK, StoreInv
        <2>2. disk.records[tx.id].status \in {"absent", "signed", "ok", "reverted"}
            BY <1>2, <2>1 DEF Journal, Record
        <2>3. disk.records[tx.id].status \notin {"ok", "reverted"}
            <3>1. RecordOn(chain, disk, tx.id) /\ disk.next <= Len(chain) /\ disk.next \in Nat
                BY <1>2, <2>1 DEF JournalOn, Journal
            <3>2. QED BY <1>2, <2>1, <3>1 DEF RecordOn
        <2>4. QED BY <1>2, <2>1, <2>2, <2>3 DEF Statuses
    <1>7. Outcomes[tx.id] = "no"
        BY <1>2, <1>5, OutcomeMissing DEF Outcomes
    <1>8. Outcomes' = [Outcomes EXCEPT ![tx.id] = Result(b)]
        <2>1. b.tx.id = tx.id
            OBVIOUS
        <2> HIDE DEF b
        <2>2. \A i \in Ids : OutcomeOn(Append(chain, b), i)
                               = IF i = tx.id THEN Result(b) ELSE OutcomeOn(chain, i)
            BY <1>1, <1>2, <1>3, <1>4, <2>1, OutcomeGrows DEF b
        <2>3. QED BY <1>1, <1>2, <2>2 DEF Outcomes, b
    <1>9. Result(b) \in {"ok", "reverted"} /\ Statuses' = Statuses
        BY <1>2 DEF Result, Statuses
    <1> HIDE DEF b
    <1>10. QED BY <1>6, <1>7, <1>8, <1>9, StepsSeen DEF Steps!Mine, Steps!Outcomes, Statuses

\* With a file that can be written and is not rolled back, the submitter's records and the
\* chain are what the operator's jobs take them for: an id is signed once, when nothing
\* else is in flight, and learns the one outcome the chain has for it.
THEOREM SubmitterKeepsSteps ==
    ASSUME FaultLimit["write"] = 0, FaultLimit["rollback"] = 0
    PROVE  Spec => StepsSpec
    <1>1. Init => NoLossInv /\ Steps!StepsInit
        BY DEF Init, NoLossInv, Steps!StepsInit, Outcome, EmptyJournal, Absent
    <1>2. IInv /\ NoLossInv /\ [Next]_vars => NoLossInv'
        BY NoLossStep
    <1>3. IInv /\ IInv' /\ NoLossInv /\ [Next]_vars => [Steps!StepsNext]_(Steps!stepVars)
        <2> SUFFICES ASSUME IInv, IInv', NoLossInv, [Next]_vars
                     PROVE  [Steps!StepsNext]_(Steps!stepVars)
            OBVIOUS
        <2>0. ~Fault("rollback")
            BY DEF Fault, IInv, TypeOK, FaultKinds
        <2>1. ASSUME NEW fee \in Fees, Sign(fee) PROVE Steps!StepsNext
            <3>1. PICK i \in Ids : i = call.id
                BY <2>1 DEF Sign, IInv, TypeOK, Calls
            <3>2. QED BY <2>1, <3>1, SignRefines DEF Steps!StepsNext
        <2>2. CASE RecordReceipt
            <3>1. PICK i \in Ids : i = cur
                BY <2>2 DEF RecordReceipt, IInv, TypeOK
            <3>2. QED BY <2>2, <3>1, ReceiptRefines DEF Steps!StepsNext
        <2>3. ASSUME NEW tx \in pool, Mine(tx) PROVE Steps!StepsNext
            <3>1. tx.id \in Ids
                BY DEF IInv, TypeOK, Tx
            <3>2. QED BY <2>3, <3>1, MineRefines DEF Steps!StepsNext
        <2>4. CASE disk' = disk /\ chain' = chain
            <3>1. Statuses' = Statuses /\ Outcomes' = Outcomes
                BY <2>4 DEF Statuses, Outcomes
            <3>2. QED BY <3>1, StepsSeen DEF Steps!stepVars, Statuses
        <2>5. \/ disk' = disk /\ chain' = chain
              \/ RecordReceipt
              \/ \E fee \in Fees : Sign(fee)
              \/ \E tx \in pool : Mine(tx)
            BY <2>0 DEF Next, Operator, Environment, Reconcile, Start, Sync, SyncEnd, Lookup,
                   CheckNonce, Broadcast, PollFound, PollExpired, RecordReceiptUnsaved, WriteThrows,
                   KnownId, NewId, RefuseQuote, RpcError, SyncRecord, Submit, SignUnsaved,
                   Forget, Reappear, Crash, Rollback, vars, chainVars, storeVars
        <2>6. QED BY <2>1, <2>2, <2>3, <2>4, <2>5
    <1>4. QED BY <1>1, <1>2, <1>3, InvariantHolds, PTL DEF Spec, StepsSpec, Steps!StepsSpec

--------------------------------------------------------------------------------
(* The lifetime gas budget. *)

FeesOn(c) == [k \in 1 .. Len(c) |-> c[k].fee]

\* What the first n transactions of chain c were charged.
PaidBefore(c, n) == SumFunctionOnSet(FeesOn(c), 1 .. n)

\* Transaction t fits the budget wherever it is mined: nothing else gets its nonce.
FitsOn(c, t) == GasBudget # NoBudget => PaidBefore(c, t.nonce) + t.fee <= GasBudget

JournalFits(c, j) == \A i \in Signed(j) : FitsOn(c, j.records[i].tx)

\* Every transaction that may still be mined fits what is left of the budget, also
\* one in a sealed file the host may put back.
BudgetInv ==
    /\ \A j \in snapshots : JournalFits(chain, j)
    /\ JournalFits(chain, mem)
    /\ \A t \in sent : FitsOn(chain, t)
    /\ GasBudget # NoBudget => PaidBefore(chain, Len(chain)) <= GasBudget

\* What was charged up to a position is a number.
LEMMA PaidIsNatural ==
    ASSUME NEW c \in Seq(Block), NEW n \in 0 .. Len(c)
    PROVE  PaidBefore(c, n) \in Nat
    <1>1. Len(c) \in Nat /\ n \in Nat /\ n <= Len(c)
        OBVIOUS
    <1>2. IsFiniteSet(1 .. n)
        BY <1>1, FS_Interval
    <1>3. \A k \in 1 .. n : FeesOn(c)[k] \in Nat
        <2>1. \A k \in 1 .. Len(c) : c[k].fee \in Nat
            BY BlockAt DEF Block
        <2>2. QED BY <1>1, <2>1 DEF FeesOn
    <1>4. SumFunctionOnSet(FeesOn(c), 1 .. n) \in Nat
        BY <1>2, <1>3, SumGrows
    <1>5. QED BY <1>4 DEF PaidBefore

\* A longer chain charges the same for the same positions, and the new block last.
LEMMA PaidGrows ==
    ASSUME NEW c \in Seq(Block), NEW b \in Block
    PROVE  /\ \A n \in 0 .. Len(c) : PaidBefore(Append(c, b), n) = PaidBefore(c, n)
           /\ PaidBefore(Append(c, b), Len(c) + 1) = PaidBefore(c, Len(c)) + b.fee
    <1> DEFINE d == Append(c, b)
    <1>1. /\ Len(c) \in Nat /\ Len(d) = Len(c) + 1 /\ d \in Seq(Block)
          /\ \A k \in 1 .. Len(c) : d[k] = c[k]
          /\ d[Len(c) + 1] = b
        BY AppendBlock
    <1> HIDE DEF d
    <1> DEFINE f == FeesOn(c)
               h == FeesOn(d)
               m == Len(c) + 1
    <1>2. /\ \A k \in 1 .. Len(c) : f[k] = h[k] /\ h[k] \in Nat
          /\ h[m] = b.fee /\ b.fee \in Nat
        <2>1. \A k \in 1 .. Len(c) : f[k] = c[k].fee /\ h[k] = d[k].fee
            BY <1>1 DEF FeesOn
        <2>2. \A k \in 1 .. Len(c) : c[k].fee \in Nat
            BY BlockAt DEF Block
        <2>3. m \in 1 .. Len(d) /\ h[m] = d[m].fee
            BY <1>1 DEF FeesOn
        <2>4. b.fee \in Nat
            BY DEF Block
        <2> HIDE DEF f, h
        <2>5. QED BY <1>1, <2>1, <2>2, <2>3, <2>4
    <1>3. ASSUME NEW n \in 0 .. Len(c) PROVE PaidBefore(d, n) = PaidBefore(c, n)
        <2>1. IsFiniteSet(1 .. n) /\ \A k \in 1 .. n : f[k] = h[k]
            <3>1. n \in Int /\ IsFiniteSet(1 .. n)
                BY <1>1, FS_Interval
            <3>2. \A k \in 1 .. n : k \in 1 .. Len(c)
                BY <1>1
            <3> HIDE DEF f, h
            <3>3. QED BY <1>2, <3>1, <3>2
        <2> HIDE DEF f, h
        <2>2. SumFunctionOnSet(f, 1 .. n) = SumFunctionOnSet(h, 1 .. n)
            BY <2>1, SumSame
        <2>3. QED BY <2>2 DEF f, h, PaidBefore
    <1>4. PaidBefore(d, m) = PaidBefore(c, Len(c)) + b.fee
        <2> DEFINE S == 1 .. Len(c)
                   R == 1 .. m
        <2>1. m \notin S /\ R = S \cup {m}
            BY <1>1
        <2>2. h[m] = b.fee /\ (\A k \in S : f[k] = h[k]) /\ \A k \in R : h[k] \in Int
            <3> HIDE DEF f, h
            <3>1. QED BY <1>2, <2>1
        <2>3. IsFiniteSet(S)
            BY <1>1, FS_Interval
        <2> HIDE DEF f, h, S, R, m
        <2>4. SumFunctionOnSet(h, R) = SumFunctionOnSet(f, S) + h[m]
            <3>1. SumFunctionOnSet(f, S) = SumFunctionOnSet(h, S)
                BY <2>2, <2>3, SumSame
            <3>2. \A k \in S \cup {m} : h[k] \in Int
                BY <2>1, <2>2
            <3>3. SumFunctionOnSet(h, S \cup {m}) = h[m] + SumFunctionOnSet(h, S)
                BY <2>1, <2>3, <3>2, SumAdd
            <3>4. SumFunctionOnSet(h, S) \in Int /\ h[m] \in Int
                BY <2>1, <2>3, <3>2, SumInt
            <3>5. QED BY <2>1, <3>1, <3>3, <3>4
        <2>5. QED BY <2>2, <2>4 DEF f, h, S, R, PaidBefore
    <1>5. QED BY <1>3, <1>4 DEF d

\* A journal that fits the chain has recorded at least what its transactions were
\* charged: each of them is a record of its own.
LEMMA PaidIsSpent ==
    ASSUME TypeOK, ChainInv, NEW j \in Journal, JournalOn(chain, j)
    PROVE  Spent(j) \in Nat /\ PaidBefore(chain, j.next) <= Spent(j)
    <1> DEFINE S == 1 .. j.next
               f == FeesOn(chain)
               h == [i \in Ids |-> j.records[i].fee]
               e == [k \in S |-> chain[k].tx.id]
               R == {e[k] : k \in S}
    <1>0. /\ chain \in Seq(Block) /\ Len(chain) \in Nat /\ j.next \in Nat /\ j.next <= Len(chain)
        BY DEF TypeOK, Journal, JournalOn
    <1>1. \A k \in S : /\ chain[k].tx.id \in Ids /\ chain[k].tx.nonce + 1 = k
                       /\ chain[k].fee \in Nat /\ f[k] = chain[k].fee
        <2> SUFFICES ASSUME NEW k \in S
                     PROVE  /\ chain[k].tx.id \in Ids /\ chain[k].tx.nonce + 1 = k
                            /\ chain[k].fee \in Nat /\ f[k] = chain[k].fee
            OBVIOUS
        <2>1. k \in 1 .. Len(chain)
            BY <1>0
        <2>2. chain[k] \in Block /\ chain[k].tx.id \in Ids
            BY <1>0, <2>1, BlockAt
        <2>3. f[k] = chain[k].fee
            BY <2>1 DEF FeesOn
        <2>4. QED BY <2>1, <2>2, <2>3 DEF ChainInv, Block
    <1>2. ASSUME NEW k \in S PROVE f[k] = h[e[k]]
        <2> DEFINE r == j.records[chain[k].tx.id]
        <2>1. r.status \in {"ok", "reverted"} /\ r.tx = chain[k].tx
            BY <1>0 DEF JournalOn, PrefixOn
        <2>2. chain[r.tx.nonce + 1] = [tx |-> r.tx, ok |-> r.status = "ok", fee |-> r.fee]
            BY <1>1, <2>1 DEF JournalOn, RecordOn
        <2>3. chain[k].fee = r.fee
            BY <1>1, <2>1, <2>2
        <2>4. QED BY <1>1, <2>3
    <1>3. \A k, l \in S : e[k] = e[l] => k = l
        BY <1>0 DEF ChainInv
    <1>4. IsFiniteSet(S) /\ IsFiniteSet(Ids) /\ R \in SUBSET Ids
        <2>1. IsFiniteSet(S)
            BY <1>0, FS_Interval
        <2>2. QED BY <1>1, <2>1, IdsAssumption
    <1>5. (\A k \in S : f[k] \in Int) /\ (\A i \in Ids : h[i] \in Nat)
        BY <1>1 DEF Journal, Record
    <1>6. Spent(j) = SumFunctionOnSet(h, Ids)
        BY DEF Spent, SumFunction
    <1>7. PaidBefore(chain, j.next) = SumFunctionOnSet(f, S)
        BY DEF PaidBefore
    <1> HIDE DEF S, f, h, e
    <1>8. SumFunctionOnSet(f, S) = SumFunctionOnSet(h, {e[k] : k \in S})
        BY <1>2, <1>3, <1>4, <1>5, SumCarried
    <1> HIDE DEF R
    <1>9. /\ SumFunctionOnSet(h, R) <= SumFunctionOnSet(h, Ids)
          /\ SumFunctionOnSet(h, Ids) \in Nat
        BY <1>4, <1>5, SumGrows
    <1>10. QED BY <1>6, <1>7, <1>8, <1>9 DEF R

\* Nothing is charged before the first block.
LEMMA InitBudget ==
    ASSUME Init
    PROVE  BudgetInv
    <1>1. PaidBefore(chain, Len(chain)) = 0
        <2>1. 1 .. Len(<<>>) = {}
            OBVIOUS
        <2>2. SumFunctionOnSet(FeesOn(<<>>), {}) = 0
            BY SumEmpty
        <2>3. QED BY <2>1, <2>2 DEF Init, PaidBefore
    <1>2. Signed(EmptyJournal) = {}
        BY DEF Signed, EmptyJournal, Absent
    <1>3. QED BY <1>1, <1>2, BudgetAssumption DEF Init, BudgetInv, JournalFits

\* A signed transaction fits: what the journal has recorded as spent is at least what
\* the chain charged before the new nonce, and the ceiling was added to it.
LEMMA SignBudget ==
    ASSUME IInv, BudgetInv, NEW fee \in Fees, Sign(fee) \/ SignUnsaved(fee)
    PROVE  BudgetInv'
    <1> DEFINE tx == Quoted(fee)
    <1>1. /\ pc = "quote" /\ WithinCap(fee) /\ mem' = WithSigned(mem, tx)
          /\ chain' = chain /\ sent' = sent
          /\ snapshots' = snapshots \/ snapshots' = snapshots \cup {mem'}
        BY DEF Sign, SignUnsaved, Save, WriteThrows, storeVars, chainVars
    <1>2. Signed(mem) = {} /\ mem \in Journal /\ JournalOn(chain, mem) /\ call # NoCall
        BY <1>1 DEF IInv, CallInv, StoreInv, TypeOK
    <1>3. tx.fee = fee /\ tx.nonce = mem.next /\ tx.id \in Ids /\ fee \in Nat
        BY <1>2, FeesAssumption DEF Quoted, NextNonce, IInv, TypeOK, Calls
    <1>4. Spent(mem) \in Nat /\ PaidBefore(chain, mem.next) <= Spent(mem)
        BY <1>2, PaidIsSpent DEF IInv
    <1>5. PaidBefore(chain, mem.next) \in Nat
        BY <1>2, PaidIsNatural DEF IInv, TypeOK, JournalOn, Journal
    <1>6. FitsOn(chain, tx)
        <2>1. GasBudget # NoBudget => GasBudget \in Nat
            BY BudgetAssumption
        <2> HIDE DEF tx
        <2>2. QED BY <1>1, <1>3, <1>4, <1>5, <2>1 DEF FitsOn, WithinCap
    <1>7. \A i \in Signed(mem') : mem'.records[i].tx = tx
        <2> HIDE DEF tx
        <2>1. QED BY <1>1, <1>2, <1>3 DEF Signed, WithSigned, Journal
    <1> HIDE DEF tx
    <1>8. JournalFits(chain, mem')
        BY <1>6, <1>7 DEF JournalFits
    <1>9. QED BY <1>1, <1>8 DEF BudgetInv

\* A receipt settles a record and signs nothing.
LEMMA ReceiptBudget ==
    ASSUME IInv, BudgetInv, RecordReceipt \/ RecordReceiptUnsaved
    PROVE  BudgetInv'
    <1>1. /\ pc = "record" /\ mem' = Reconciled(mem, cur) /\ chain' = chain /\ sent' = sent
          /\ snapshots' = snapshots \/ snapshots' = snapshots \cup {mem'}
        BY DEF RecordReceipt, RecordReceiptUnsaved, Save, WriteThrows, storeVars, chainVars
    <1>2. cur \in Ids /\ mem \in Journal
        BY <1>1 DEF IInv, TypeOK
    <1>3. \A i \in Signed(mem') : i \in Signed(mem) /\ mem'.records[i] = mem.records[i]
        BY <1>1, <1>2 DEF Signed, Reconciled, Journal
    <1>4. JournalFits(chain, mem')
        BY <1>3 DEF JournalFits, BudgetInv
    <1>5. QED BY <1>1, <1>4 DEF BudgetInv

\* A block charges at most the ceiling of the transaction it takes.
LEMMA MineBudget ==
    ASSUME IInv, BudgetInv, NEW tx \in pool, Mine(tx)
    PROVE  BudgetInv'
    <1>1. /\ tx \in sent /\ tx \in Tx /\ tx.nonce = Len(chain) /\ chain \in Seq(Block)
          /\ FitsOn(chain, tx) /\ Len(chain) \in Nat
        BY DEF Mine, IInv, TypeOK, LatestCount, BudgetInv
    <1>2. PICK ok \in BOOLEAN, fee \in 1 .. tx.fee :
             chain' = Append(chain, [tx |-> tx, ok |-> ok, fee |-> fee])
        BY DEF Mine
    <1> DEFINE b == [tx |-> tx, ok |-> ok, fee |-> fee]
    <1>3. b \in Block /\ b.fee \in Nat /\ b.fee <= tx.fee /\ tx.fee \in Nat
        BY <1>1 DEF Block, Tx
    <1>4. chain' = Append(chain, b)
        BY <1>2
    <1> HIDE DEF b
    <1>5. /\ Len(chain') = Len(chain) + 1
          /\ \A n \in 0 .. Len(chain) : PaidBefore(chain', n) = PaidBefore(chain, n)
          /\ PaidBefore(chain', Len(chain) + 1) = PaidBefore(chain, Len(chain)) + b.fee
        BY <1>1, <1>3, <1>4, PaidGrows, AppendBlock
    <1>6. mem' = mem /\ snapshots' = snapshots /\ sent' = sent
        BY DEF Mine, storeVars, procVars
    <1>7. \A t \in Tx : t.nonce <= Len(chain) /\ FitsOn(chain, t) => FitsOn(chain', t)
        BY <1>1, <1>5 DEF FitsOn, Tx
    <1>8. \A t \in sent : t \in Tx /\ t.nonce <= Len(chain)
        BY DEF IInv, TypeOK, StoreInv, FreshOn
    <1>9. \A j \in Journal : JournalOn(chain, j) /\ JournalFits(chain, j) => JournalFits(chain', j)
        BY <1>7 DEF JournalFits, JournalOn, RecordOn, FreshOn, Signed
    <1>10. GasBudget # NoBudget => PaidBefore(chain', Len(chain')) <= GasBudget
        <2>1. GasBudget # NoBudget => GasBudget \in Nat
            BY BudgetAssumption
        <2>2. PaidBefore(chain, Len(chain)) \in Nat
            BY <1>1, PaidIsNatural
        <2>3. QED BY <1>1, <1>3, <1>5, <2>1, <2>2 DEF FitsOn
    <1>11. /\ \A j \in snapshots : JournalFits(chain', j)
           /\ JournalFits(chain', mem) /\ \A t \in sent : FitsOn(chain', t)
        BY <1>7, <1>8, <1>9 DEF IInv, TypeOK, StoreInv, BudgetInv
    <1>12. QED BY <1>6, <1>10, <1>11 DEF BudgetInv

\* Every step keeps what may still be mined within the budget.
LEMMA StepBudget ==
    ASSUME IInv, BudgetInv, [Next]_vars
    PROVE  BudgetInv'
    <1>1. CASE QuietStep
        <2>1. UNCHANGED <<chain, sent, snapshots, mem>>
            BY <1>1, QuietFrame DEF IInv
        <2>2. QED BY <2>1 DEF BudgetInv
    <1>2. CASE Start
        BY <1>2 DEF Start, BudgetInv, IInv, StoreInv, chainVars, storeVars
    <1>3. CASE Broadcast
        <2>1. /\ cur \in Signed(mem) /\ sent' \subseteq sent \cup {mem.records[cur].tx}
              /\ UNCHANGED <<chain, snapshots, mem>>
            BY <1>3 DEF Broadcast, IInv, CallInv, Reconciling, storeVars
        <2>2. QED BY <2>1 DEF BudgetInv, JournalFits
    <1>4. CASE RecordReceipt \/ RecordReceiptUnsaved
        BY <1>4, ReceiptBudget
    <1>5. CASE \E fee \in Fees : Sign(fee) \/ SignUnsaved(fee)
        BY <1>5, SignBudget
    <1>6. CASE \E tx \in pool : Mine(tx)
        BY <1>6, MineBudget
    <1>7. CASE \E tx \in sent : Forget(tx) \/ Reappear(tx)
        BY <1>7 DEF Forget, Reappear, BudgetInv, storeVars, procVars
    <1>8. CASE Crash
        <2>1. Signed(EmptyJournal) = {}
            BY DEF Signed, EmptyJournal, Absent
        <2>2. QED BY <1>8, <2>1 DEF Crash, BudgetInv, JournalFits, chainVars, storeVars
    <1>9. CASE \E old \in snapshots : Rollback(old)
        BY <1>9 DEF Rollback, BudgetInv, chainVars, procVars
    <1>10. CASE UNCHANGED vars
        BY <1>10 DEF vars, BudgetInv
    <1>11. pool \subseteq sent
        BY DEF IInv, TypeOK
    <1>12. QED BY <1>1, <1>2, <1>3, <1>4, <1>5, <1>6, <1>7, <1>8, <1>9, <1>10, <1>11
              DEF Next, Operator, Environment, Reconcile, QuietStep

\* The wallet never pays more than its lifetime gas budget: the check before signing
\* counts what the journal recorded, and no restored file lets a transaction through
\* that the budget does not cover.
THEOREM BudgetIsKept == Spec => []WithinBudget
    <1>1. IInv /\ BudgetInv => WithinBudget
        <2> SUFFICES ASSUME IInv, BudgetInv PROVE WithinBudget
            OBVIOUS
        <2>1. chain \in Seq(Block) /\ DOMAIN chain = 1 .. Len(chain)
            BY DEF IInv, TypeOK
        <2>2. [k \in DOMAIN chain |-> chain[k].fee] = FeesOn(chain)
            BY <2>1 DEF FeesOn
        <2>3. DOMAIN FeesOn(chain) = 1 .. Len(chain)
            BY DEF FeesOn
        <2>4. SumFunction(FeesOn(chain)) = PaidBefore(chain, Len(chain))
            BY <2>3 DEF SumFunction, PaidBefore
        <2>5. QED BY <2>2, <2>4 DEF WithinBudget, BudgetInv
    <1>2. Init => IInv /\ BudgetInv
        BY InitInv, InitBudget
    <1>3. IInv /\ BudgetInv /\ [Next]_vars => (IInv /\ BudgetInv)'
        BY StepInv, StepBudget
    <1>4. QED BY <1>1, <1>2, <1>3, PTL DEF Spec
================================================================================
