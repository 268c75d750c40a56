------------------------------ MODULE FundProofs ------------------------------
(***************************************************************************)
(* Vaults and funds that may only do what was decided before, proved for   *)
(* every value of their constants: the cohort that closes, the vault with  *)
(* a confidential coordinator, the pilot and the paper fund.  First one    *)
(* theorem about each, with the invariant it needs; then that the          *)
(* composition of Protocols keeps them.  A theorem's hypothesis says what  *)
(* it assumes of the constants.                                            *)
(***************************************************************************)
EXTENDS Protocols, FiniteSets, FiniteSetTheorems, TLAPS

-------------------------------------------------------------------------------
(* Closing a cohort. *)

CohortTerms == Targets \subseteq Int

CohortTyped ==
    /\ {"phase", "paused", "deposits", "claims", "fee", "recovered", "epoch", "cash"} \subseteq DOMAIN vault
    /\ {"nonce", "qty", "free", "key"} \subseteq DOMAIN margins
    /\ vault.phase \in 0..4 /\ vault.epoch \in Nat /\ margins.qty \in Int /\ closing \in Int
    /\ \A x \in signals : x.epoch \in Nat /\ x.target \in Targets

\* The account has the operator's key of the epoch or none the operator has, and what the
\* operator has checked is an intent for the key it was checked with.
KeyOK == margins.key \in {vault.epoch, -1}
CheckedOK(tx) == tx # Cohort!Idle => tx.intent \in signals /\ tx.key = tx.intent.epoch

CohortOK == CohortTyped /\ KeyOK /\ CheckedOK(work) /\ CheckedOK(sent) /\ Cohort!ClosingOnlyReduces

\* An order to close fills towards nothing.
LEMMA FillsToZero ==
    ASSUME CohortTyped, NEW qty \in Cohort!Fills(0)
    PROVE  qty \in Int /\ Cohort!Size(qty) <= Cohort!Size(margins.qty)
BY DEF CohortTyped, Cohort!Fills, Cohort!Size

\* A step that leaves the position, the phase and the key alone.
LEMMA CohortStays ==
    ASSUME CohortOK, CohortTyped', vault'.phase = vault.phase, vault'.epoch = vault.epoch, margins'.qty = margins.qty,
           margins'.key = margins.key, UNCHANGED <<closing, traded>>, signals \subseteq signals',
           CheckedOK(work)', CheckedOK(sent)'
    PROVE  CohortOK'
<1>1. Cohort!Size(margins'.qty) = Cohort!Size(margins.qty)
    BY DEF Cohort!Size
<1> QED
    BY <1>1 DEF CohortOK, KeyOK, Cohort!ClosingOnlyReduces, Cohort!Size, Cohort!Phases

\* Each step keeps the invariant: an order is executed under the key and the phase of that
\* moment, whatever they were when it was checked.
LEMMA CohortKept ==
    ASSUME CohortTerms, CohortOK, [Cohort!Next]_(Cohort!vars)
    PROVE  CohortOK'
<1>0. CohortTyped /\ KeyOK /\ CheckedOK(work) /\ CheckedOK(sent) /\ Cohort!ClosingOnlyReduces
    BY DEF CohortOK
<1>1. ASSUME vault'.phase = vault.phase, vault'.epoch = vault.epoch, DOMAIN vault' = DOMAIN vault,
             UNCHANGED <<margins, closing, traded, signals, work, sent>>
      PROVE  CohortOK'
    <2>1. CohortTyped' /\ CheckedOK(work)' /\ CheckedOK(sent)'
        BY <1>0, <1>1 DEF CohortTyped, CheckedOK, Cohort!Idle
    <2> QED
        BY <1>1, <2>1, CohortStays
<1>2. ASSUME NEW i \in Cohort!Investors,
             Cohort!CancelSubscription(i) \/ Cohort!Claim(i) \/ \E a \in Amounts : Cohort!Subscribe(i, a)
      PROVE  CohortOK'
    BY <1>0, <1>1, <1>2 DEF CohortTyped, Cohort!CancelSubscription, Cohort!Claim, Cohort!Subscribe, Cohort!Chain
<1>3. CASE Cohort!Activate
    <2>1. /\ Cohort!In("funding") /\ UNCHANGED <<closing, traded, signals, work, sent>>
          /\ DOMAIN vault' = DOMAIN vault /\ vault'.phase = Cohort!Phases.live /\ vault'.epoch = vault.epoch
          /\ DOMAIN margins' = DOMAIN margins /\ margins'.qty = margins.qty /\ margins'.key = margins.key
        BY <1>0, <1>3 DEF CohortTyped, Cohort!Activate, Cohort!Chain
    <2>2. CohortTyped' /\ KeyOK' /\ CheckedOK(work)' /\ CheckedOK(sent)'
        BY <1>0, <2>1 DEF CohortTyped, KeyOK, CheckedOK, Cohort!Idle, Cohort!Phases
    <2>3. Cohort!ClosingOnlyReduces'
        BY <1>0, <2>1 DEF Cohort!ClosingOnlyReduces, Cohort!Phases
    <2> QED
        BY <2>2, <2>3 DEF CohortOK
<1>4. CASE Cohort!Close
    <2>1. /\ closing' = Cohort!Size(margins.qty) /\ UNCHANGED <<margins, traded, signals, work, sent>>
          /\ DOMAIN vault' = DOMAIN vault /\ vault'.phase = Cohort!Phases.closing /\ vault'.epoch = vault.epoch
        BY <1>0, <1>4 DEF CohortTyped, Cohort!Close, Cohort!Chain
    <2>2. CohortTyped' /\ KeyOK' /\ CheckedOK(work)' /\ CheckedOK(sent)'
        BY <1>0, <2>1 DEF CohortTyped, KeyOK, CheckedOK, Cohort!Idle, Cohort!Phases, Cohort!Size
    <2>3. Cohort!Size(margins.qty) \in Int
        BY <1>0 DEF CohortTyped, Cohort!Size
    <2>4. Cohort!ClosingOnlyReduces'
        BY <1>0, <2>1, <2>3 DEF Cohort!ClosingOnlyReduces, Cohort!Size
    <2> QED
        BY <2>2, <2>4 DEF CohortOK
<1>5. ASSUME NEW value \in BOOLEAN, Cohort!Pause(value)
      PROVE  CohortOK'
    BY <1>0, <1>1, <1>5 DEF CohortTyped, Cohort!Pause, Cohort!Chain
<1>6. ASSUME NEW key \in {vault.epoch + 1, -1}, Cohort!RotateKey(key)
      PROVE  CohortOK'
    <2>1. /\ DOMAIN vault' = DOMAIN vault /\ vault'.phase = vault.phase /\ vault'.epoch = vault.epoch + 1
          /\ DOMAIN margins' = DOMAIN margins /\ margins'.qty = margins.qty /\ margins'.key = key
          /\ UNCHANGED <<closing, traded, signals, work, sent>>
        BY <1>0, <1>6 DEF CohortTyped, Cohort!RotateKey, Cohort!Chain
    <2>2. CohortTyped' /\ KeyOK' /\ CheckedOK(work)' /\ CheckedOK(sent)'
        BY <1>0, <2>1 DEF CohortTyped, KeyOK, CheckedOK, Cohort!Idle
    <2>3. Cohort!ClosingOnlyReduces'
        BY <1>0, <2>1 DEF Cohort!ClosingOnlyReduces, Cohort!Size, Cohort!Phases
    <2> QED
        BY <2>2, <2>3 DEF CohortOK
<1>7. CASE Cohort!Recover
    <2>1. /\ Cohort!In("closing") /\ margins'.qty = margins.qty /\ margins'.key = margins.key
          /\ DOMAIN vault' = DOMAIN vault /\ vault'.phase = Cohort!Phases.recovered /\ vault'.epoch = vault.epoch
          /\ DOMAIN margins' = DOMAIN margins /\ UNCHANGED <<closing, traded, signals, work, sent>>
        BY <1>0, <1>7 DEF CohortTyped, Cohort!Recover, Cohort!Chain
    <2>2. CohortTyped' /\ KeyOK' /\ CheckedOK(work)' /\ CheckedOK(sent)'
        BY <1>0, <2>1 DEF CohortTyped, KeyOK, CheckedOK, Cohort!Idle, Cohort!Phases
    <2>3. vault.phase >= Cohort!Phases.closing
        BY <2>1 DEF Cohort!In, Cohort!Phases
    <2>4. Cohort!ClosingOnlyReduces'
        BY <1>0, <2>1, <2>3 DEF Cohort!ClosingOnlyReduces, Cohort!Size
    <2> QED
        BY <2>2, <2>4 DEF CohortOK
<1>8. CASE Cohort!Settle
    <2>1. /\ Cohort!In("recovered") /\ UNCHANGED <<margins, closing, traded, signals, work, sent>>
          /\ DOMAIN vault' = DOMAIN vault /\ vault'.phase = Cohort!Phases.settled /\ vault'.epoch = vault.epoch
        BY <1>0, <1>8 DEF CohortTyped, Cohort!Settle, Cohort!Chain
    <2>2. CohortTyped' /\ KeyOK' /\ CheckedOK(work)' /\ CheckedOK(sent)'
        BY <1>0, <2>1 DEF CohortTyped, KeyOK, CheckedOK, Cohort!Idle, Cohort!Phases
    <2>3. vault.phase >= Cohort!Phases.closing
        BY <2>1 DEF Cohort!In, Cohort!Phases
    <2>4. Cohort!ClosingOnlyReduces'
        BY <1>0, <2>1, <2>3 DEF Cohort!ClosingOnlyReduces, Cohort!Size
    <2> QED
        BY <2>2, <2>4 DEF CohortOK
<1>9. CASE Cohort!ClaimFee
    BY <1>0, <1>1, <1>9 DEF CohortTyped, Cohort!ClaimFee, Cohort!Chain
<1>10. ASSUME NEW t \in Targets, Cohort!Sign(t)
       PROVE  CohortOK'
    <2>1. /\ signals' = signals \cup {[target |-> t, seq |-> margins.nonce, epoch |-> vault.epoch, deadline |-> sec + Ttl]}
          /\ UNCHANGED <<vault, margins, work, sent, closing, traded>>
        BY <1>10 DEF Cohort!Sign
    <2>2. CohortTyped' /\ CheckedOK(work)' /\ CheckedOK(sent)'
        BY <1>0, <2>1 DEF CohortTyped, CheckedOK, Cohort!Idle
    <2> QED
        BY <2>1, <2>2, CohortStays
<1>11. ASSUME NEW x \in signals, Cohort!Check(x)
       PROVE  CohortOK'
    <2>1. /\ work' = [seq |-> x.seq, intent |-> x, qty |-> margins.qty, key |-> margins.key]
          /\ x.epoch = vault.epoch /\ margins.key = vault.epoch
          /\ UNCHANGED <<vault, margins, signals, sent, closing, traded>>
        BY <1>11 DEF Cohort!Check
    <2>2. CohortTyped' /\ CheckedOK(work)' /\ CheckedOK(sent)'
        BY <1>0, <2>1 DEF CohortTyped, CheckedOK, Cohort!Idle
    <2> QED
        BY <2>1, <2>2, CohortStays
<1>12. ASSUME Cohort!Send \/ Cohort!Crash \/ Cohort!Revert \/ Cohort!Tick \/ UNCHANGED Cohort!vars
       PROVE  CohortOK'
    <2>1. /\ UNCHANGED <<vault, margins, signals, closing, traded>>
          /\ work' \in {work, Cohort!Idle} /\ sent' \in {sent, work, Cohort!Idle}
        BY <1>12 DEF Cohort!Send, Cohort!Crash, Cohort!Revert, Cohort!Tick, Cohort!vars
    <2>2. CohortTyped' /\ CheckedOK(work)' /\ CheckedOK(sent)'
        BY <1>0, <2>1 DEF CohortTyped, CheckedOK, Cohort!Idle
    <2> QED
        BY <2>1, <2>2, CohortStays
<1>13. CASE Cohort!Mine
    <2> DEFINE x == sent.intent
    <2>1. /\ sent # Cohort!Idle /\ Cohort!Accepted(sent) /\ sent' = Cohort!Idle
          /\ traded' = traded \cup {[intent |-> x, epoch |-> vault.epoch, key |-> sent.key]}
          /\ UNCHANGED <<vault, signals, work, closing>>
        BY <1>13 DEF Cohort!Mine
    <2>2. PICK qty \in Cohort!Fills(x.target), gain \in Returns \cup {0} :
              margins' = [margins EXCEPT !.nonce = @ + 1, !.qty = qty, !.free = @ + gain]
        BY <1>13 DEF Cohort!Mine
    <2>3. x \in signals /\ sent.key = x.epoch /\ sent.key = margins.key /\ Cohort!MayTrade(x)
        BY <1>0, <2>1 DEF CheckedOK, Cohort!Accepted
    <2>4. x.target \in Int /\ x.epoch \in Nat
        BY <1>0, <2>3 DEF CohortTyped, CohortTerms
    <2>5. sent.key = vault.epoch
        BY <1>0, <2>3, <2>4 DEF KeyOK
    <2>6. DOMAIN margins' = DOMAIN margins /\ margins'.qty = qty /\ margins'.key = margins.key
        BY <1>0, <2>2 DEF CohortTyped
    <2>7. qty \in Int
        BY <1>0, <2>2, <2>4 DEF CohortTyped, Cohort!Fills
    <2>8. CohortTyped' /\ KeyOK' /\ CheckedOK(work)' /\ CheckedOK(sent)'
        BY <1>0, <2>1, <2>6, <2>7 DEF CohortTyped, KeyOK, CheckedOK
    <2>9. vault.phase >= Cohort!Phases.closing => Cohort!Size(margins'.qty) <= closing
        <3> SUFFICES ASSUME vault.phase >= Cohort!Phases.closing
                     PROVE  Cohort!Size(qty) <= closing
            BY <2>6
        <3>1. x.target = 0
            BY <2>3 DEF Cohort!MayTrade, Cohort!In, Cohort!Phases
        <3>2. Cohort!Size(qty) <= Cohort!Size(margins.qty)
            BY <1>0, <2>2, <3>1, FillsToZero
        <3>3. Cohort!Size(qty) \in Int /\ Cohort!Size(margins.qty) \in Int /\ closing \in Int
            BY <1>0, <2>7 DEF CohortTyped, Cohort!Size
        <3>4. Cohort!Size(margins.qty) <= closing
            BY <1>0 DEF Cohort!ClosingOnlyReduces
        <3> QED
            BY <3>2, <3>3, <3>4
    <2>10. \A t \in traded' : t.intent.epoch = t.epoch /\ t.key = t.epoch
        <3>1. \A t \in traded : t.intent.epoch = t.epoch /\ t.key = t.epoch
            BY <1>0 DEF Cohort!ClosingOnlyReduces
        <3>2. x.epoch = vault.epoch /\ sent.key = vault.epoch
            BY <2>3, <2>5
        <3> HIDE DEF x
        <3> QED
            BY <2>1, <3>1, <3>2
    <2>11. Cohort!ClosingOnlyReduces'
        BY <2>1, <2>9, <2>10 DEF Cohort!ClosingOnlyReduces, Cohort!Size, Cohort!Phases
    <2> QED
        BY <2>8, <2>11 DEF CohortOK
<1>14. CASE Cohort!Liquidate
    <2>1. /\ margins'.qty = 0 /\ margins'.key = margins.key /\ DOMAIN margins' = DOMAIN margins
          /\ UNCHANGED <<vault, closing, traded, signals, work, sent>>
        BY <1>0, <1>14 DEF CohortTyped, Cohort!Liquidate, Cohort!Chain
    <2>2. CohortTyped' /\ KeyOK' /\ CheckedOK(work)' /\ CheckedOK(sent)'
        BY <1>0, <2>1 DEF CohortTyped, KeyOK, CheckedOK, Cohort!Idle
    <2>3. Cohort!ClosingOnlyReduces'
        BY <1>0, <2>1 DEF CohortTyped, Cohort!ClosingOnlyReduces, Cohort!Size, Cohort!Phases
    <2> QED
        BY <2>2, <2>3 DEF CohortOK
<1> QED
    BY <1>2, <1>3, <1>4, <1>5, <1>6, <1>7, <1>8, <1>9, <1>10, <1>11, <1>12, <1>13, <1>14 DEF Cohort!Next

\* Once a cohort closes its position only shrinks, also by orders that were checked while
\* it was trading, and a target is only traded under the key of the epoch it was signed
\* for: for every set of targets and any number of intents, rotations and crashes
\* (PerplCohortVault.sol, execute; engine.mjs, execute).
THEOREM ClosingCohortsOnlyReduce ==
    ASSUME CohortTerms
    PROVE  Cohort!Spec => []Cohort!ClosingOnlyReduces
<1>1. Cohort!Init => CohortOK
    BY DEF Cohort!Init, CohortOK, CohortTyped, KeyOK, CheckedOK, Cohort!ClosingOnlyReduces, Cohort!Phases, Cohort!Idle
<1>2. CohortOK /\ [Cohort!Next]_(Cohort!vars) => CohortOK'
    BY CohortKept
<1>3. CohortOK => Cohort!ClosingOnlyReduces
    BY DEF CohortOK
<1> QED
    BY <1>1, <1>2, <1>3, PTL DEF Cohort!Spec

-------------------------------------------------------------------------------
(* The confidential vault. *)

\* Times are numbers, and "nothing" is no client's id.
ApprovalTerms == ApprovalTtl \in Int /\ "nothing" \notin Tickets

\* A log is a sequence, of whatever was carried out.
IsLog(s) == \E S : s \in Seq(S)
\* The first log is a beginning of the second.
BeginsWith(s, t) == Len(s) <= Len(t) /\ \A k \in 1 .. Len(s) : t[k] = s[k]

\* What was carried out after the last finalized block was in time for it.
LogsOK ==
    /\ DOMAIN safe = {"log", "cash", "asset", "balance", "deposits"}
    /\ IsLog(safe.log) /\ IsLog(finalized.vault.log) /\ BeginsWith(finalized.vault.log, safe.log)
    /\ finalized.time \in Int /\ hour \in Int /\ finalized.time <= hour
    /\ \A k \in 1 .. Len(safe.log) : k > Len(finalized.vault.log) => safe.log[k].approval.deadline >= finalized.time

\* An approval that a client holds is older than the file, the one in the file, or one that the
\* vault does not carry out any more.
ReleasedOK ==
    \A a \in released :
        /\ a.sequence \in Nat /\ a.sequence > 0 /\ a.deadline \in Int
        /\ Len(a.previous) <= Len(disk.log)
        /\ a.previous = disk.log => a = disk.pending \/ a.deadline < finalized.time

\* The file is the memory, its pending approval is out, and the vault has the file's log or one more.
FileOK ==
    /\ DOMAIN disk = {"log", "strategies", "used", "pending"} /\ IsLog(disk.log)
    /\ enclave # "down" => memory = disk
    /\ disk.pending # Confidential!Blank => disk.pending \in released
    /\ \/ safe.log = disk.log
       \/ /\ Len(safe.log) = Len(disk.log) + 1 /\ BeginsWith(disk.log, safe.log)
          /\ disk.pending # Confidential!Blank /\ safe.log[Len(safe.log)].approval = disk.pending

ApprovalsOK == rollbacks \in Nat /\ (rollbacks = 0 => LogsOK /\ ReleasedOK /\ FileOK)

\* A log with one more entry.
LEMMA LogGrows ==
    ASSUME NEW s, IsLog(s), NEW e, NEW t, t = Append(s, e)
    PROVE  IsLog(t) /\ Len(s) \in Nat /\ Len(t) = Len(s) + 1 /\ BeginsWith(s, t) /\ t[Len(t)] = e
<1>1. PICK S : s \in Seq(S)
    BY DEF IsLog
<1>2. s \in Seq(S \cup {e}) /\ e \in S \cup {e}
    BY <1>1
<1>3. t \in Seq(S \cup {e}) /\ Len(s) \in Nat /\ Len(t) = Len(s) + 1 /\ t[Len(t)] = e
    BY <1>2
<1>4. \A k \in 1 .. Len(s) : t[k] = s[k]
    BY <1>2
<1>5. QED BY <1>3, <1>4 DEF IsLog, BeginsWith

\* Logs have a length, and a beginning of the same length is the whole.
LEMMA WholeLog ==
    ASSUME NEW s, IsLog(s), NEW t, IsLog(t), BeginsWith(s, t), Len(s) = Len(t)
    PROVE  s = t
<1>1. PICK S, T : s \in Seq(S) /\ t \in Seq(T)
    BY DEF IsLog
<1>2. s \in Seq(S \cup T) /\ t \in Seq(S \cup T)
    BY <1>1
<1>3. QED BY <1>2 DEF BeginsWith

\* The length of a log is a number.
LEMMA LogLength ==
    ASSUME NEW s, IsLog(s)
    PROVE  Len(s) \in Nat
BY DEF IsLog

\* An approval is carried out.
LEMMA ApprovalExecuted ==
    ASSUME LogsOK, ReleasedOK, FileOK, NEW a \in released, Confidential!ExecuteApproved(a)
    PROVE  LogsOK' /\ ReleasedOK' /\ FileOK'
<1>1. /\ Confidential!Accepted(a) /\ UNCHANGED <<finalized, hour, memory, disk, enclave, released>>
      /\ \E e : e.approval = a /\ safe'.log = Append(safe.log, e)
      /\ DOMAIN safe' = DOMAIN safe
    <2>1. CASE Confidential!Credit(a)
        <3> DEFINE e == [request |-> a.request, approval |-> a, out |-> a.amount]
        <3>2. PICK held : held = [safe.deposits EXCEPT ![a.request].state = "credited"]
            OBVIOUS
        <3>3. safe' = [safe EXCEPT !.deposits = held, !.cash = @ + a.amount, !.log = Append(@, e)]
            BY <2>1, <3>2, Zenon DEF Confidential!Credit
        <3>4. DOMAIN safe' = DOMAIN safe /\ safe'.log = Append(safe.log, e) /\ e.approval = a
            BY <3>3 DEF LogsOK
        <3> HIDE DEF e
        <3> QED
            BY <3>4 DEF Confidential!ExecuteApproved, Confidential!enclaveVars
    <2>2. CASE Confidential!Swap(a)
        BY <2>2 DEF Confidential!ExecuteApproved, Confidential!Swap, LogsOK, Confidential!enclaveVars
    <2>3. CASE Confidential!Withdraw(a)
        <3> DEFINE e == [request |-> a.request, approval |-> a, out |-> a.amount]
        <3>2. safe' = [safe EXCEPT !.cash = @ - a.amount, !.balance = @ - a.amount, !.log = Append(@, e)]
            BY <2>3, Zenon DEF Confidential!Withdraw
        <3>4. DOMAIN safe' = DOMAIN safe /\ safe'.log = Append(safe.log, e) /\ e.approval = a
            BY <3>2 DEF LogsOK
        <3> HIDE DEF e
        <3> QED
            BY <3>4 DEF Confidential!ExecuteApproved, Confidential!enclaveVars
    <2> QED
        BY <2>1, <2>2, <2>3 DEF Confidential!ExecuteApproved, Confidential!enclaveVars
<1>2. PICK e : e.approval = a /\ safe'.log = Append(safe.log, e)
    BY <1>1
<1>3. /\ IsLog(safe'.log) /\ Len(safe.log) \in Nat /\ Len(safe'.log) = Len(safe.log) + 1
      /\ BeginsWith(safe.log, safe'.log) /\ safe'.log[Len(safe'.log)] = e
    BY <1>2, LogGrows DEF LogsOK
<1>4. a.previous = safe.log /\ hour <= a.deadline
    BY <1>1 DEF Confidential!Accepted, Confidential!Follows
<1>5. Len(disk.log) \in Nat /\ Len(finalized.vault.log) \in Nat
    BY LogLength DEF LogsOK, FileOK
<1>6. safe.log = disk.log /\ a = disk.pending
    BY <1>4, <1>5 DEF LogsOK, ReleasedOK, FileOK
<1>7. a # Confidential!Blank
    BY DEF ReleasedOK, Confidential!Blank
<1>8. LogsOK'
    <2>1. BeginsWith(finalized.vault.log, safe'.log)
        BY <1>3, <1>5 DEF BeginsWith, LogsOK
    <2>2. ASSUME NEW k \in 1 .. Len(safe'.log), k > Len(finalized.vault.log)
          PROVE  safe'.log[k].approval.deadline >= finalized.time
        <3>1. CASE k = Len(safe'.log)
            BY <1>2, <1>3, <1>4, <3>1 DEF LogsOK, ReleasedOK
        <3>2. CASE k # Len(safe'.log)
            BY <1>3, <2>2, <3>2 DEF LogsOK, BeginsWith
        <3> QED
            BY <3>1, <3>2
    <2> QED
        BY <1>1, <1>3, <2>1, <2>2 DEF LogsOK
<1>9. ReleasedOK'
    BY <1>1 DEF ReleasedOK
<1>10. FileOK'
    BY <1>1, <1>2, <1>3, <1>6, <1>7 DEF FileOK
<1> QED
    BY <1>8, <1>9, <1>10

\* A block is final.
LEMMA BlockFinalized ==
    ASSUME LogsOK, ReleasedOK, FileOK, Confidential!Finalize
    PROVE  LogsOK' /\ ReleasedOK' /\ FileOK'
<1>1. /\ finalized' = [vault |-> safe, time |-> hour] /\ UNCHANGED <<safe, hour, memory, disk, enclave, released>>
    BY DEF Confidential!Finalize, Confidential!enclaveVars
<1>2. finalized'.vault = safe /\ finalized'.time = hour
    BY <1>1
<1>3. Len(safe.log) \in Nat
    BY LogLength DEF LogsOK
<1>4. LogsOK'
    BY <1>1, <1>2, <1>3 DEF LogsOK, BeginsWith
<1>5. ReleasedOK'
    BY <1>1, <1>2 DEF ReleasedOK, LogsOK
<1>6. FileOK'
    BY <1>1 DEF FileOK
<1> QED
    BY <1>4, <1>5, <1>6

\* Deposits are made and refunded, and time passes.
LEMMA VaultGoesOn ==
    ASSUME LogsOK, ReleasedOK, FileOK,
           Confidential!TimePasses \/ \E i \in Tickets : Confidential!Deposit(i) \/ Confidential!RefundUncredited(i)
    PROVE  LogsOK' /\ ReleasedOK' /\ FileOK'
<1>1. /\ UNCHANGED <<finalized, memory, disk, enclave, released>> /\ safe'.log = safe.log /\ DOMAIN safe' = DOMAIN safe
      /\ hour' \in {hour, hour + 1}
    <2>1. CASE Confidential!TimePasses
        BY <2>1 DEF Confidential!TimePasses, Confidential!enclaveVars
    <2>2. ASSUME NEW i \in Tickets, Confidential!Deposit(i) \/ Confidential!RefundUncredited(i)
          PROVE  /\ UNCHANGED <<finalized, memory, disk, enclave, released>> /\ safe'.log = safe.log
                 /\ DOMAIN safe' = DOMAIN safe /\ hour' = hour
        <3>1. UNCHANGED <<finalized, hour, memory, disk, enclave, released>>
            BY <2>2 DEF Confidential!Deposit, Confidential!RefundUncredited, Confidential!enclaveVars
        <3>2. \E deposits, balance : safe' = [safe EXCEPT !.deposits = deposits, !.balance = balance]
            <4>1. CASE Confidential!Deposit(i)
                <5>1. PICK wrote : wrote = [safe.deposits EXCEPT ![i] = [state |-> "held", time |-> hour]]
                    OBVIOUS
                <5>2. safe' = [safe EXCEPT !.deposits = wrote, !.balance = safe.balance + Stake]
                    BY <4>1, <5>1, Zenon DEF Confidential!Deposit
                <5> QED BY <5>2
            <4>2. CASE Confidential!RefundUncredited(i)
                <5>1. PICK given : given = [safe.deposits EXCEPT ![i].state = "refunded"]
                    OBVIOUS
                <5>2. safe' = [safe EXCEPT !.deposits = given, !.balance = safe.balance - Stake]
                    BY <4>2, <5>1, Zenon DEF Confidential!RefundUncredited
                <5> QED BY <5>2
            <4> QED BY <2>2, <4>1, <4>2
        <3> QED
            BY <3>1, <3>2 DEF LogsOK
    <2> QED
        BY <2>1, <2>2
<1>2. LogsOK' /\ ReleasedOK' /\ FileOK'
    BY <1>1 DEF LogsOK, ReleasedOK, FileOK
<1> QED
    BY <1>2

\* An approval that can no longer be carried out is given up.
LEMMA CurrentRecovered ==
    ASSUME LogsOK, ReleasedOK, FileOK, Confidential!RecoverCurrent
    PROVE  LogsOK' /\ ReleasedOK' /\ FileOK'
<1>1. /\ memory = disk /\ disk.log = finalized.vault.log /\ enclave' = "ready" /\ UNCHANGED <<safe, finalized, hour, released>>
    BY DEF Confidential!RecoverCurrent, Confidential!chainVars, FileOK
<1>2. LogsOK'
    BY <1>1 DEF LogsOK
<1>3. CASE UNCHANGED <<memory, disk>>
    BY <1>1, <1>2, <1>3 DEF ReleasedOK, FileOK
<1>4. CASE ~UNCHANGED <<memory, disk>>
    <2>1. /\ disk.pending # Confidential!Blank /\ finalized.time > disk.pending.deadline
          /\ memory' = [disk EXCEPT !.pending = Confidential!Blank] /\ disk' = memory'
        BY <1>1, <1>4 DEF Confidential!RecoverCurrent, Confidential!Pending, Confidential!Expired, Confidential!Save
    <2>2. DOMAIN disk' = DOMAIN disk /\ disk'.log = disk.log /\ disk'.pending = Confidential!Blank
        BY <2>1 DEF FileOK
    <2>3. Len(disk.log) \in Nat /\ Len(safe.log) \in Nat
        BY LogLength DEF LogsOK, FileOK
    <2>4. disk.pending.deadline \in Int
        BY <2>1 DEF FileOK, ReleasedOK
    <2>5. safe.log = disk.log
        <3>1. SUFFICES ASSUME Len(safe.log) = Len(disk.log) + 1, safe.log[Len(safe.log)].approval = disk.pending
                       PROVE  FALSE
            BY DEF FileOK
        <3>2. Len(safe.log) \in 1 .. Len(safe.log) /\ Len(safe.log) > Len(finalized.vault.log)
            BY <1>1, <2>3, <3>1
        <3>3. disk.pending.deadline >= finalized.time
            BY <3>1, <3>2 DEF LogsOK
        <3> QED
            BY <2>1, <2>4, <3>3 DEF LogsOK
    <2>6. ReleasedOK'
        BY <1>1, <2>1, <2>2 DEF ReleasedOK
    <2>7. FileOK'
        BY <1>1, <2>1, <2>2, <2>5 DEF FileOK
    <2> QED
        BY <1>2, <2>6, <2>7
<1> QED
    BY <1>3, <1>4

\* What was carried out is booked.
LEMMA AppliedRecovered ==
    ASSUME LogsOK, ReleasedOK, FileOK, Confidential!RecoverApplied
    PROVE  LogsOK' /\ ReleasedOK' /\ FileOK'
<1>1. /\ memory = disk /\ Len(finalized.vault.log) = Len(disk.log) + 1 /\ enclave' = "ready"
      /\ UNCHANGED <<safe, finalized, hour, released>>
      /\ disk' = memory' /\ DOMAIN disk' = DOMAIN disk /\ disk'.log = finalized.vault.log /\ disk'.pending = Confidential!Blank
    BY DEF Confidential!RecoverApplied, Confidential!chainVars, FileOK, Confidential!Save
<1>2. Len(disk.log) \in Nat /\ Len(safe.log) \in Nat /\ Len(finalized.vault.log) \in Nat
    BY LogLength DEF LogsOK, FileOK
<1>3. Len(safe.log) = Len(finalized.vault.log)
    BY <1>1, <1>2 DEF FileOK, LogsOK, BeginsWith
<1>4. safe.log = finalized.vault.log
    BY <1>3, WholeLog DEF LogsOK
<1>5. LogsOK'
    BY <1>1 DEF LogsOK
<1>6. ASSUME NEW a \in released
      PROVE  Len(a.previous) < Len(disk'.log) /\ a.previous # disk'.log
    <2>1. Len(a.previous) <= Len(disk.log)
        BY DEF ReleasedOK
    <2>2. Len(a.previous) # Len(disk'.log)
        BY <1>1, <1>2, <2>1
    <2> QED
        BY <1>1, <1>2, <2>1, <2>2
<1>7. ReleasedOK'
    BY <1>1, <1>6 DEF ReleasedOK
<1>8. FileOK'
    BY <1>1, <1>4 DEF FileOK, LogsOK
<1> QED
    BY <1>5, <1>7, <1>8

\* An approval is made, saved and answered.
LEMMA ApprovalMade ==
    ASSUME ApprovalTerms, LogsOK, ReleasedOK, FileOK, NEW i, NEW s, NEW kind, NEW buy, NEW amount, NEW quote, NEW minOut, NEW units,
           Confidential!Command(i, s, kind, buy, amount, quote, minOut, units)
    PROVE  LogsOK' /\ ReleasedOK' /\ FileOK'
<1>1. memory = disk /\ disk.pending = Confidential!Blank
    BY DEF Confidential!Command, FileOK, Confidential!Pending
<1>2. PICK a : /\ a.sequence = Len(disk.log) + 1 /\ a.previous = disk.log /\ a.deadline = finalized.time + ApprovalTtl
               /\ memory' = [disk EXCEPT !.pending = a] /\ disk' = memory' /\ released' = released \cup {a}
               /\ enclave' = "idle" /\ UNCHANGED <<safe, finalized, hour>>
    BY <1>1 DEF Confidential!Command, Confidential!Save, Confidential!chainVars
<1>3. DOMAIN disk' = DOMAIN disk /\ disk'.log = disk.log /\ disk'.pending = a
    BY <1>2 DEF FileOK
<1>4. Len(disk.log) \in Nat
    BY LogLength DEF FileOK
<1>5. LogsOK'
    BY <1>2 DEF LogsOK
<1>6. ReleasedOK'
    <2>1. ASSUME NEW r \in released
          PROVE  r.previous = disk.log => r.deadline < finalized.time
        <3>1. r # Confidential!Blank
            BY DEF ReleasedOK, Confidential!Blank
        <3> QED
            BY <1>1, <3>1 DEF ReleasedOK
    <2>2. a.sequence \in Nat /\ a.sequence > 0 /\ a.deadline \in Int /\ Len(a.previous) <= Len(disk.log)
        BY <1>2, <1>4 DEF LogsOK, ApprovalTerms
    <2> QED
        BY <1>2, <1>3, <2>1, <2>2 DEF ReleasedOK
<1>7. FileOK'
    <2>1. safe.log = disk.log
        BY <1>1 DEF FileOK
    <2> QED
        BY <1>2, <1>3, <2>1 DEF FileOK
<1> QED
    BY <1>5, <1>6, <1>7

\* Deposits are allocated, targets traded and stakes redeemed by approvals.
LEMMA MadeByCommand ==
    ASSUME NEW i, NEW s, \/ Confidential!Allocate(i, s) \/ Confidential!Redeem(i, s)
                         \/ \E price \in {1, 2} : Confidential!Target(i, s, price)
    PROVE  \E kind, buy, amount, quote, minOut, units :
               Confidential!Command(i, s, kind, buy, amount, quote, minOut, units)
<1>1. CASE Confidential!Allocate(i, s)
    BY <1>1, Zenon DEF Confidential!Allocate
<1>2. CASE Confidential!Redeem(i, s)
    BY <1>2, Zenon DEF Confidential!Redeem
<1>3. ASSUME NEW price \in {1, 2}, Confidential!Target(i, s, price)
      PROVE  \E kind, buy, amount, quote, minOut, units :
                 Confidential!Command(i, s, kind, buy, amount, quote, minOut, units)
    BY <1>3, Zenon DEF Confidential!Target
<1> QED
    BY <1>1, <1>2, <1>3

\* A client gets its approval again; the process starts, or dies.
LEMMA EnclaveGoesOn ==
    ASSUME ApprovalTerms, LogsOK, ReleasedOK, FileOK,
           Confidential!Restart \/ Confidential!Crash \/ \E i \in Tickets : Confidential!AskAgain(i)
    PROVE  LogsOK' /\ ReleasedOK' /\ FileOK'
<1>1. UNCHANGED <<safe, finalized, hour, disk>> /\ (enclave' # "down" => memory' = disk)
    BY DEF Confidential!Restart, Confidential!Crash, Confidential!AskAgain, Confidential!chainVars, FileOK
<1>2. released' = released
    <2>1. CASE Confidential!Restart \/ Confidential!Crash
        BY <2>1 DEF Confidential!Restart, Confidential!Crash
    <2>2. ASSUME NEW i \in Tickets, Confidential!AskAgain(i)
          PROVE  released' = released
        <3>1. memory = disk /\ disk.pending.request = i /\ released' = released \cup {disk.pending}
            BY <2>2 DEF Confidential!AskAgain, FileOK
        <3>2. disk.pending # Confidential!Blank
            BY <3>1 DEF ApprovalTerms, Confidential!Blank, Confidential!Nothing
        <3> QED
            BY <3>1, <3>2 DEF FileOK
    <2> QED
        BY <2>1, <2>2
<1> QED
    BY <1>1, <1>2 DEF LogsOK, ReleasedOK, FileOK

\* Nothing was carried out, and the file is new.
LEMMA ConfidentialStart ==
    ASSUME Confidential!Init
    PROVE  ApprovalsOK
<1>1. rollbacks = 0 /\ released = {} /\ enclave = "down" /\ hour = 0
    BY DEF Confidential!Init
<1>2. /\ safe = Confidential!NewVault /\ finalized.vault = safe /\ finalized.time = 0
      /\ disk = Confidential!NewState
    BY DEF Confidential!Init
<1>3. /\ DOMAIN safe = {"log", "cash", "asset", "balance", "deposits"} /\ safe.log = <<>>
      /\ DOMAIN disk = {"log", "strategies", "used", "pending"} /\ disk.log = <<>> /\ disk.pending = Confidential!Blank
    BY <1>2 DEF Confidential!NewVault, Confidential!NewState
<1>4. IsLog(<<>>) /\ Len(<<>>) = 0
    BY DEF IsLog
<1>5. LogsOK
    BY <1>1, <1>2, <1>3, <1>4 DEF LogsOK, BeginsWith
<1>6. ReleasedOK /\ FileOK
    BY <1>1, <1>2, <1>3, <1>4 DEF ReleasedOK, FileOK
<1> QED
    BY <1>1, <1>5, <1>6 DEF ApprovalsOK

\* As long as nobody restores an older file, the vault has carried out what the sealed file
\* says, or one approval more, the one the file holds, even when it was given up as expired,
\* the process died, or blocks were not final yet (coordinator.js, recover and command;
\* ApprovedVault.sol, executeApproved).
THEOREM ApprovedIsKnown ==
    ASSUME ApprovalTerms
    PROVE  Confidential!Init /\ [][Confidential!Next]_(Confidential!vars) => []Confidential!ExecutedIsKnown
<1>1. Confidential!Init => ApprovalsOK
    BY ConfidentialStart
<1>2. ApprovalsOK /\ [Confidential!Next]_(Confidential!vars) => ApprovalsOK'
    <2> SUFFICES ASSUME ApprovalsOK, [Confidential!Next]_(Confidential!vars)
                 PROVE  ApprovalsOK'
        OBVIOUS
    <2>1. CASE UNCHANGED Confidential!vars
        BY <2>1 DEF Confidential!vars, ApprovalsOK, LogsOK, ReleasedOK, FileOK
    <2>2. CASE Confidential!Rollback
        BY <2>2 DEF Confidential!Rollback, ApprovalsOK
    <2>3. CASE Confidential!Next /\ ~Confidential!Rollback
        <3>1. rollbacks' = rollbacks
            <4>1. CASE Confidential!TimePasses \/ Confidential!Finalize \/ Confidential!RecoverCurrent \/ Confidential!RecoverApplied
                BY <4>1 DEF Confidential!TimePasses, Confidential!Finalize, Confidential!RecoverCurrent,
                   Confidential!RecoverApplied, Confidential!hostVars
            <4>2. CASE Confidential!Restart \/ Confidential!Crash
                BY <4>2 DEF Confidential!Restart, Confidential!Crash, Confidential!hostVars
            <4>3. CASE \E i \in Tickets : Confidential!Deposit(i) \/ Confidential!RefundUncredited(i) \/ Confidential!AskAgain(i)
                BY <4>3 DEF Confidential!Deposit, Confidential!RefundUncredited, Confidential!AskAgain, Confidential!hostVars
            <4>4. CASE \E a \in released : Confidential!ExecuteApproved(a)
                BY <4>4 DEF Confidential!ExecuteApproved, Confidential!hostVars
            <4>5. CASE \E i \in Tickets, s \in Desks : \/ Confidential!Allocate(i, s) \/ Confidential!Redeem(i, s)
                                                      \/ \E price \in {1, 2} : Confidential!Target(i, s, price)
                BY <4>5, MadeByCommand DEF Confidential!Command, Confidential!hostVars
            <4> QED
                BY <2>3, <4>1, <4>2, <4>3, <4>4, <4>5 DEF Confidential!Next
        <3> SUFFICES ASSUME rollbacks = 0
                     PROVE  LogsOK' /\ ReleasedOK' /\ FileOK'
            BY <3>1 DEF ApprovalsOK
        <3>2. LogsOK /\ ReleasedOK /\ FileOK
            BY DEF ApprovalsOK
        <3>3. CASE Confidential!TimePasses \/ \E i \in Tickets : Confidential!Deposit(i) \/ Confidential!RefundUncredited(i)
            BY <3>2, <3>3, VaultGoesOn
        <3>4. CASE \E a \in released : Confidential!ExecuteApproved(a)
            BY <3>2, <3>4, ApprovalExecuted
        <3>5. CASE Confidential!Finalize
            BY <3>2, <3>5, BlockFinalized
        <3>6. CASE Confidential!RecoverCurrent \/ Confidential!RecoverApplied
            BY <3>2, <3>6, CurrentRecovered, AppliedRecovered
        <3>7. CASE \E i \in Tickets, s \in Desks : \/ Confidential!Allocate(i, s) \/ Confidential!Redeem(i, s)
                                                  \/ \E price \in {1, 2} : Confidential!Target(i, s, price)
            BY <3>2, <3>7, MadeByCommand, ApprovalMade
        <3>8. CASE Confidential!Restart \/ Confidential!Crash \/ \E i \in Tickets : Confidential!AskAgain(i)
            BY <3>2, <3>8, EnclaveGoesOn
        <3> QED
            BY <2>3, <3>3, <3>4, <3>5, <3>6, <3>7, <3>8 DEF Confidential!Next
    <2> QED
        BY <2>1, <2>2, <2>3
<1>3. ApprovalsOK => Confidential!ExecutedIsKnown
    BY DEF ApprovalsOK, FileOK, Confidential!ExecutedIsKnown
<1> QED
    BY <1>1, <1>2, <1>3, PTL

-------------------------------------------------------------------------------
(* The pilot. *)

\* The epochs are numbered.
PilotTerms == RoundLimit \in Nat /\ Investment \in Nat \ {0} /\ PilotScale \in Nat \ {0} /\ Earnings \subseteq Int /\ Losses \subseteq Int

\* Fields of an epoch of the coordinator's file, of the fund, and of a row of the journal.
RoundFields == {"status", "startAt", "receipts", "sealed", "final", "begin", "end", "recovery"}
FundFields == {"cash", "shares", "highWater", "reserve", "active", "observed", "phase", "root", "anchor", "fee"}

\* What was submitted is sealed.
FrozenRound(e) == e.status # "OPEN" /\ e.sealed = e.receipts

\* How far the fund is once a transaction was mined, whatever followed.
Reached(call, phase) ==
    /\ call = "commit" => phase \in 2 .. 6
    /\ call = "execute" => phase \in 3 .. 5
    /\ call = "payRewards" => phase = 5
    /\ call = "cancelUnexecuted" => phase = 6

\* A row of the file, and what it says of the fund.
RoundOK(e) ==
    /\ DOMAIN e = RoundFields /\ e.startAt \in Int
    /\ e.status \in {"SEALED", "EXECUTED"} => FrozenRound(e)
ClaimsOK(e, phase) ==
    /\ e.final => Reached("commit", phase)
    /\ e.status = "EXECUTED" => Reached("execute", phase)
    /\ e.status = "SETTLED" => Reached("payRewards", phase)
    /\ e.status = "CANCELLED" => Reached("cancelUnexecuted", phase)
RoundsOK ==
    /\ IsLog(rounds) /\ Len(rounds) <= RoundLimit /\ minute \in Int
    /\ \A i \in 1 .. Len(rounds) : RoundOK(rounds[i]) /\ ClaimsOK(rounds[i], fund.phase[i])

\* What the fund is committed to, once it is, is what was sealed, and in time.
CommittedTo(e, phase, root, anchor) == phase \in 2 .. 5 => FrozenRound(e) /\ anchor < e.startAt /\ root = e.receipts
FundOK ==
    /\ DOMAIN fund = FundFields
    /\ DOMAIN fund.phase = Pilot!Ids /\ DOMAIN fund.root = Pilot!Ids /\ DOMAIN fund.anchor = Pilot!Ids
    /\ \A i \in Pilot!Ids : fund.phase[i] \in 0 .. 6 /\ (i > Len(rounds) => fund.phase[i] = 0)
    /\ \A i \in 1 .. Len(rounds) : CommittedTo(rounds[i], fund.phase[i], fund.root[i], fund.anchor[i])

\* A transaction is for an epoch of the file, and was a commit only if it was sealed.
RowOK(row) ==
    /\ DOMAIN row = {"tx", "status"} /\ row.status \in {"sent", "mined", "reverted"}
    /\ DOMAIN row.tx = {"id", "call", "at", "paid"} /\ row.tx.id \in 1 .. Len(rounds)
    /\ row.tx.call \in {"openEpoch", "commit", "setMarks", "execute", "closeEpoch", "payRewards", "cancelUnexecuted"}
    /\ row.tx.call = "commit" => FrozenRound(rounds[row.tx.id])
    /\ row.status = "mined" => Reached(row.tx.call, fund.phase[row.tx.id])
TxsOK == IsLog(txs) /\ \A k \in 1 .. Len(txs) : RowOK(txs[k])

\* What a command knows at its step.
CommandOK ==
    /\ DOMAIN command = {"name", "step"}
    /\ command = Pilot!NoCommand \/ command.name \in {"open", "seal", "execute", "settle", "recovery", "cancel"}
    /\ command.name = "open" /\ command.step = "plan" => Pilot!Active \/ Len(rounds) < RoundLimit
    /\ command # Pilot!NoCommand /\ command.step # "plan" => Len(rounds) > 0
    /\ command.name = "seal" /\ command.step \in {"commit", "finality"} => FrozenRound(rounds[Len(rounds)])
    /\ command.name = "seal" /\ command.step = "finality" => Reached("commit", fund.phase[Len(rounds)])
    /\ command.name = "execute" /\ command.step = "save" => Reached("execute", fund.phase[Len(rounds)])
    /\ command.name \in {"settle", "recovery"} /\ command.step = "save" => Reached("payRewards", fund.phase[Len(rounds)])
    /\ command.name = "cancel" /\ command.step = "save" => Reached("cancelUnexecuted", fund.phase[Len(rounds)])
PilotOK == RoundsOK /\ FundOK /\ TxsOK /\ CommandOK

\* Nothing happened yet.
LEMMA PilotStart == ASSUME PilotTerms, Pilot!Init PROVE PilotOK
<1>1. rounds = <<>> /\ txs = <<>> /\ command = Pilot!NoCommand /\ minute = 0
    BY DEF Pilot!Init
<1>2. IsLog(<<>>) /\ Len(<<>>) = 0
    BY DEF IsLog
<1>3. /\ DOMAIN fund = FundFields
      /\ fund.phase = [i \in Pilot!Ids |-> 0] /\ fund.root = [i \in Pilot!Ids |-> {}]
      /\ fund.anchor = [i \in Pilot!Ids |-> Pilot!None]
    BY DEF Pilot!Init, FundFields
<1>4. RoundsOK /\ TxsOK
    BY <1>1, <1>2 DEF RoundsOK, TxsOK, PilotTerms
<1>5. FundOK
    BY <1>1, <1>2, <1>3 DEF FundOK
<1>6. CommandOK
    BY <1>1 DEF CommandOK, Pilot!NoCommand
<1> QED
    BY <1>4, <1>5, <1>6 DEF PilotOK

\* The file's last epoch, in the words of the invariant.
LEMMA LastRound ==
    ASSUME RoundsOK
    PROVE  /\ Len(rounds) \in Nat /\ DOMAIN rounds = 1 .. Len(rounds) /\ Pilot!Id = Len(rounds)
           /\ rounds # <<>> => Len(rounds) > 0 /\ Pilot!Entry = rounds[Len(rounds)]
           /\ Pilot!Active => Len(rounds) > 0
<1>1. PICK S : rounds \in Seq(S)
    BY DEF RoundsOK, IsLog
<1> QED
    BY <1>1 DEF Pilot!Id, Pilot!Entry, Pilot!Active

\* The steps between two phases.
Phased(call, before, after) ==
    \/ call = "setMarks" /\ after = before
    \/ call = "openEpoch" /\ before = 0 /\ after = 1
    \/ call = "commit" /\ before = 1 /\ after = 2
    \/ call = "execute" /\ before = 2 /\ after = 3
    \/ call = "closeEpoch" /\ before = 3 /\ after = 4
    \/ call = "payRewards" /\ before = 4 /\ after = 5
    \/ call = "cancelUnexecuted" /\ before \in {1, 2} /\ after = 6

\* What a transaction does to the fund.
LEMMA TxDone ==
    ASSUME FundOK, NEW tx, tx.id \in Pilot!Ids,
           tx.call \in {"openEpoch", "commit", "setMarks", "execute", "closeEpoch", "payRewards", "cancelUnexecuted"},
           Pilot!Accepts(tx), fund' \in Pilot!Effects(tx)
    PROVE  /\ DOMAIN fund' = FundFields
           /\ DOMAIN fund'.phase = Pilot!Ids /\ DOMAIN fund'.root = Pilot!Ids /\ DOMAIN fund'.anchor = Pilot!Ids
           /\ \A j \in Pilot!Ids \ {tx.id} : fund'.phase[j] = fund.phase[j]
           /\ \A j \in Pilot!Ids : tx.call # "commit" \/ j # tx.id => fund'.root[j] = fund.root[j] /\ fund'.anchor[j] = fund.anchor[j]
           /\ Phased(tx.call, fund.phase[tx.id], fund'.phase[tx.id])
           /\ tx.call = "commit" => /\ fund'.root[tx.id] = rounds[tx.id].sealed /\ fund'.anchor[tx.id] = minute
                                    /\ minute < rounds[tx.id].startAt
<1> DEFINE i == tx.id
<1>1. CASE tx.call = "openEpoch"
    <2>1. fund.phase[i] = 0 /\ fund' = [fund EXCEPT !.phase[i] = 1, !.active = i]
        BY <1>1, Zenon DEF Pilot!Accepts, Pilot!Effects, Pilot!Phases
    <2> QED
        BY <1>1, <2>1 DEF FundOK, FundFields, Phased
<1>2. CASE tx.call = "commit"
    <2>1. /\ fund.phase[i] = 1 /\ minute < rounds[i].startAt
          /\ fund' = [fund EXCEPT !.phase[i] = 2, !.root[i] = rounds[i].sealed, !.anchor[i] = minute]
        BY <1>2, Zenon DEF Pilot!Accepts, Pilot!Effects, Pilot!Phases, Pilot!InPhase, Pilot!StartAt
    <2> QED
        BY <1>2, <2>1 DEF FundOK, FundFields, Phased
<1>3. CASE tx.call = "setMarks"
    <2>1. fund' = [fund EXCEPT !.observed = tx.at]
        BY <1>3, Zenon DEF Pilot!Effects
    <2> QED
        BY <1>3, <2>1 DEF FundOK, FundFields, Phased
<1>4. CASE tx.call = "execute"
    <2>1. fund.phase[i] = 2 /\ fund' = [fund EXCEPT !.phase[i] = 3]
        BY <1>4, Zenon DEF Pilot!Accepts, Pilot!Effects, Pilot!Phases, Pilot!InPhase
    <2> QED
        BY <1>4, <2>1 DEF FundOK, FundFields, Phased
<1>5. CASE tx.call = "closeEpoch"
    <2>1. fund.phase[i] = 3 /\ \E r : fund' = Pilot!Closed(i, r)
        BY <1>5, Zenon DEF Pilot!Accepts, Pilot!Effects, Pilot!Phases, Pilot!InPhase
    <2>2. PICK r : fund' = Pilot!Closed(i, r)
        BY <2>1
    <2>3. /\ DOMAIN fund' = DOMAIN fund /\ fund'.phase = [fund.phase EXCEPT ![i] = 4]
          /\ fund'.root = fund.root /\ fund'.anchor = fund.anchor
        BY <2>2 DEF Pilot!Closed, Pilot!Phases, FundOK, FundFields
    <2> QED
        BY <1>5, <2>1, <2>3 DEF FundOK, FundFields, Phased
<1>6. CASE tx.call = "payRewards"
    <2>1. fund.phase[i] = 4 /\ fund' = Pilot!PaidOut(i, tx.paid)
        BY <1>6, Zenon DEF Pilot!Accepts, Pilot!Effects, Pilot!Phases, Pilot!InPhase
    <2>2. PICK cash, mark : fund' = [fund EXCEPT !.cash = cash, !.reserve = 0, !.active = 0, !.phase[i] = 5, !.highWater = mark]
        BY <2>1, Zenon DEF Pilot!PaidOut, Pilot!Phases
    <2> QED
        BY <1>6, <2>1, <2>2 DEF FundOK, FundFields, Phased
<1>7. CASE tx.call = "cancelUnexecuted"
    <2>1. fund.phase[i] \in {1, 2} /\ fund' = [fund EXCEPT !.phase[i] = 6, !.active = 0]
        BY <1>7, Zenon DEF Pilot!Accepts, Pilot!Effects, Pilot!Phases, Pilot!InPhase
    <2> QED
        BY <1>7, <2>1 DEF FundOK, FundFields, Phased
<1> QED
    BY <1>1, <1>2, <1>3, <1>4, <1>5, <1>6, <1>7

\* The fund goes on, and what was reached stays reached.
LEMMA FundMined ==
    ASSUME PilotTerms, PilotOK, Pilot!Mine
    PROVE  PilotOK'
<1>1. PICK k \in DOMAIN txs : txs[k].status = "sent" /\
          IF Pilot!Accepts(txs[k].tx)
          THEN fund' \in Pilot!Effects(txs[k].tx) /\ txs' = [txs EXCEPT ![k].status = "mined"]
          ELSE txs' = [txs EXCEPT ![k].status = "reverted"] /\ UNCHANGED fund
    BY Zenon DEF Pilot!Mine
<1>2. UNCHANGED <<minute, rounds, command>>
    BY DEF Pilot!Mine
<1> DEFINE tx == txs[k].tx
<1> DEFINE i == tx.id
<1>3. k \in 1 .. Len(txs) /\ RowOK(txs[k]) /\ IsLog(txs) /\ Len(txs) \in Nat /\ DOMAIN txs = 1 .. Len(txs)
    BY DEF PilotOK, TxsOK, IsLog
<1>4. i \in 1 .. Len(rounds) /\ i \in Pilot!Ids /\ Len(rounds) \in Nat /\ \A j \in 1 .. Len(rounds) : j \in Pilot!Ids
    BY <1>3, LastRound DEF RowOK, PilotOK, RoundsOK, Pilot!Ids, PilotTerms, tx, i
<1>5. /\ IsLog(txs') /\ Len(txs') = Len(txs)
      /\ \A j \in 1 .. Len(txs) : j # k => txs'[j] = txs[j]
      /\ DOMAIN txs'[k] = {"tx", "status"} /\ txs'[k].tx = tx
      /\ \/ txs'[k].status = "mined" /\ Pilot!Accepts(tx) /\ fund' \in Pilot!Effects(tx)
         \/ txs'[k].status = "reverted" /\ UNCHANGED fund
    <2>1. PICK S : txs \in Seq(S)
        BY <1>3 DEF IsLog
    <2>2. PICK s \in {"mined", "reverted"} :
              /\ txs' = [txs EXCEPT ![k].status = s]
              /\ \/ s = "mined" /\ Pilot!Accepts(tx) /\ fund' \in Pilot!Effects(tx)
                 \/ s = "reverted" /\ UNCHANGED fund
        BY <1>1
    <2>3. PICK row : row = [txs[k] EXCEPT !.status = s]
        OBVIOUS
    <2>4. txs' = [txs EXCEPT ![k] = row]
        BY <2>2, <2>3, Zenon
    <2>5. txs' \in Seq(S \cup {row}) /\ Len(txs') = Len(txs)
        BY <1>3, <2>1, <2>4
    <2>6. row.status = s /\ row.tx = tx /\ DOMAIN row = {"tx", "status"}
        BY <1>3, <2>3 DEF RowOK
    <2> QED
        BY <1>3, <2>2, <2>4, <2>5, <2>6 DEF IsLog
<1> HIDE DEF tx, i
<1>6. /\ DOMAIN fund' = FundFields
      /\ DOMAIN fund'.phase = Pilot!Ids /\ DOMAIN fund'.root = Pilot!Ids /\ DOMAIN fund'.anchor = Pilot!Ids
      /\ \A j \in Pilot!Ids : fund'.phase[j] \in 0 .. 6 /\ (j > Len(rounds) => fund'.phase[j] = 0)
      /\ \A j \in 1 .. Len(rounds) : CommittedTo(rounds[j], fund'.phase[j], fund'.root[j], fund'.anchor[j])
      /\ \A call : \A j \in 1 .. Len(rounds) : Reached(call, fund.phase[j]) => Reached(call, fund'.phase[j])
      /\ txs'[k].status = "mined" => Reached(tx.call, fund'.phase[i])
    <2>1. CASE UNCHANGED fund /\ txs'[k].status = "reverted"
        BY <2>1 DEF PilotOK, FundOK
    <2>2. CASE Pilot!Accepts(tx) /\ fund' \in Pilot!Effects(tx)
        <3>1. /\ DOMAIN fund' = FundFields
              /\ DOMAIN fund'.phase = Pilot!Ids /\ DOMAIN fund'.root = Pilot!Ids /\ DOMAIN fund'.anchor = Pilot!Ids
              /\ \A j \in Pilot!Ids \ {i} : fund'.phase[j] = fund.phase[j]
              /\ \A j \in Pilot!Ids : tx.call # "commit" \/ j # i => fund'.root[j] = fund.root[j] /\ fund'.anchor[j] = fund.anchor[j]
              /\ Phased(tx.call, fund.phase[i], fund'.phase[i])
              /\ tx.call = "commit" => /\ fund'.root[i] = rounds[i].sealed /\ fund'.anchor[i] = minute
                                       /\ minute < rounds[i].startAt
            BY <1>3, <1>4, <2>2, TxDone DEF PilotOK, RowOK, tx, i
        <3>2. fund.phase[i] \in 0 .. 6 /\ CommittedTo(rounds[i], fund.phase[i], fund.root[i], fund.anchor[i])
            BY <1>4 DEF PilotOK, FundOK
        <3>3. tx.call = "commit" => FrozenRound(rounds[i])
            BY <1>3 DEF RowOK, tx, i
        <3>4. fund'.phase[i] \in 0 .. 6 /\ CommittedTo(rounds[i], fund'.phase[i], fund'.root[i], fund'.anchor[i])
            BY <1>4, <3>1, <3>2, <3>3 DEF CommittedTo, Phased, FrozenRound
        <3>5. \A call : Reached(call, fund.phase[i]) => Reached(call, fund'.phase[i])
            BY <3>1, <3>2 DEF Phased, Reached
        <3>6. Reached(tx.call, fund'.phase[i])
            BY <3>1, <3>2 DEF Phased, Reached
        <3>7. \A j \in 1 .. Len(rounds) : CommittedTo(rounds[j], fund'.phase[j], fund'.root[j], fund'.anchor[j])
            BY <1>4, <3>1, <3>4 DEF PilotOK, FundOK
        <3>8. \A j \in Pilot!Ids : fund'.phase[j] \in 0 .. 6 /\ (j > Len(rounds) => fund'.phase[j] = 0)
            BY <1>4, <3>1, <3>4 DEF PilotOK, FundOK
        <3>9. \A call : \A j \in 1 .. Len(rounds) : Reached(call, fund.phase[j]) => Reached(call, fund'.phase[j])
            BY <1>4, <3>1, <3>5
        <3> QED
            BY <3>1, <3>6, <3>7, <3>8, <3>9
    <2> QED
        BY <1>5, <2>1, <2>2
<1>7. FundOK'
    BY <1>2, <1>6 DEF FundOK, Pilot!Ids
<1>8. RoundsOK'
    <2>1. \A j \in 1 .. Len(rounds) : ClaimsOK(rounds[j], fund'.phase[j])
        BY <1>6 DEF PilotOK, RoundsOK, ClaimsOK
    <2> QED
        BY <1>2, <2>1 DEF PilotOK, RoundsOK
<1>9. TxsOK'
    <2>1. ASSUME NEW j \in 1 .. Len(txs), j # k
          PROVE  RowOK(txs[j])'
        <3>1. RowOK(txs[j]) /\ txs'[j] = txs[j]
            BY <1>5, <2>1 DEF PilotOK, TxsOK
        <3> QED
            BY <1>2, <1>6, <3>1 DEF RowOK
    <2>2. RowOK(txs[k])'
        BY <1>2, <1>3, <1>5, <1>6 DEF RowOK, tx, i
    <2> QED
        BY <1>5, <2>1, <2>2 DEF TxsOK
<1>10. CommandOK'
    <2>1. Pilot!Active' = Pilot!Active
        BY <1>2 DEF Pilot!Active, Pilot!Entry
    <2>2. ASSUME Len(rounds) > 0
          PROVE  \A call : Reached(call, fund.phase[Len(rounds)]) => Reached(call, fund'.phase[Len(rounds)])
        <3>1. Len(rounds) \in 1 .. Len(rounds)
            BY <1>4, <2>2
        <3> QED
            BY <1>6, <3>1, Zenon
    <2>3. command.step = "save" \/ command.step = "finality" => command # Pilot!NoCommand /\ command.step # "plan"
        BY DEF Pilot!NoCommand
    <2>4. command.step = "save" \/ command.step = "finality" => Len(rounds) > 0
        BY <2>3 DEF PilotOK, CommandOK
    <2> QED
        BY <1>2, <2>1, <2>2, <2>4 DEF PilotOK, CommandOK
<1> QED
    BY <1>7, <1>8, <1>9, <1>10 DEF PilotOK

\* The file and the journal stay, and so does what the invariant says of the fund.
LEMMA FilesStay ==
    ASSUME PilotOK, UNCHANGED <<rounds, txs>>, minute' \in Int, DOMAIN fund' = DOMAIN fund,
           fund'.phase = fund.phase, fund'.root = fund.root, fund'.anchor = fund.anchor
    PROVE  RoundsOK' /\ FundOK' /\ TxsOK'
BY DEF PilotOK, RoundsOK, FundOK, TxsOK, RowOK, Pilot!Ids

\* Another command, or the same one, with everything it knew.
LEMMA CommandStays ==
    ASSUME PilotOK, UNCHANGED <<rounds, command>>, fund'.phase = fund.phase
    PROVE  CommandOK'
BY DEF PilotOK, CommandOK, Pilot!Active, Pilot!Entry

\* Deposits, redemptions, time, commands that begin, and commands that stop.
LEMMA NothingFiled ==
    ASSUME PilotOK,
           \/ Pilot!Deposit \/ Pilot!Redeem \/ Pilot!Tick \/ Pilot!Stop
           \/ Pilot!StartOpen \/ Pilot!StartSeal \/ Pilot!StartExecute \/ Pilot!StartSettle \/ Pilot!StartCancel
    PROVE  PilotOK'
<1>0. minute \in Int
    BY DEF PilotOK, RoundsOK
<1>1. CASE Pilot!Deposit \/ Pilot!Redeem
    <2>1. \E cash, shares : fund' = [fund EXCEPT !.shares = shares, !.cash = cash]
        BY <1>1, Zenon DEF Pilot!Deposit, Pilot!Redeem
    <2>2. UNCHANGED <<minute, rounds, txs, command>>
        BY <1>1 DEF Pilot!Deposit, Pilot!Redeem
    <2>3. DOMAIN fund' = DOMAIN fund /\ fund'.phase = fund.phase /\ fund'.root = fund.root /\ fund'.anchor = fund.anchor
        BY <2>1 DEF PilotOK, FundOK, FundFields
    <2> QED
        BY <1>0, <2>2, <2>3, FilesStay, CommandStays DEF PilotOK
<1>2. CASE Pilot!Tick
    <2>1. UNCHANGED <<rounds, txs, command, fund>> /\ minute' = minute + 1
        BY <1>2 DEF Pilot!Tick
    <2> QED
        BY <1>0, <2>1, FilesStay, CommandStays DEF PilotOK
<1>3. CASE Pilot!Stop
    <2>1. UNCHANGED <<minute, rounds, txs, fund>> /\ command' = Pilot!NoCommand
        BY <1>3 DEF Pilot!Stop, Pilot!Finish
    <2>2. CommandOK'
        BY <2>1 DEF CommandOK, Pilot!NoCommand
    <2> QED
        BY <1>0, <2>1, <2>2, FilesStay DEF PilotOK
<1>4. CASE \/ Pilot!StartOpen \/ Pilot!StartSeal \/ Pilot!StartExecute \/ Pilot!StartSettle \/ Pilot!StartCancel
    <2>1. /\ UNCHANGED <<minute, rounds, txs, fund>> /\ DOMAIN command' = {"name", "step"}
          /\ \/ command'.name = "open" /\ command'.step = "plan" /\ (Pilot!Active \/ Len(rounds) < RoundLimit)
             \/ /\ command'.name \in {"seal", "execute", "settle", "recovery", "cancel"}
                /\ command'.step \in {"seal", "market", "send"} /\ Pilot!Active
        BY <1>4, LastRound DEF Pilot!StartOpen, Pilot!StartSeal, Pilot!StartExecute, Pilot!StartSettle, Pilot!StartCancel,
           Pilot!Begin, PilotOK
    <2>2. Pilot!Active => Len(rounds) > 0
        BY LastRound DEF PilotOK
    <2>3. Pilot!Active' = Pilot!Active
        BY <2>1 DEF Pilot!Active, Pilot!Entry
    <2>4. CommandOK'
        BY <2>1, <2>2, <2>3 DEF CommandOK, Pilot!NoCommand
    <2> QED
        BY <1>0, <2>1, <2>4, FilesStay DEF PilotOK
<1> QED
    BY <1>1, <1>2, <1>3, <1>4

\* The last epoch of the file changes.
LEMMA RoundChanged ==
    ASSUME PilotTerms, PilotOK, NEW e, Len(rounds) > 0, rounds' = [rounds EXCEPT ![Len(rounds)] = e], UNCHANGED <<minute, fund, txs>>,
           RoundOK(e), ClaimsOK(e, fund.phase[Len(rounds)]), e.startAt = rounds[Len(rounds)].startAt,
           FrozenRound(rounds[Len(rounds)]) => FrozenRound(e) /\ e.receipts = rounds[Len(rounds)].receipts
    PROVE  RoundsOK' /\ FundOK' /\ TxsOK' /\ Len(rounds') = Len(rounds) /\ rounds'[Len(rounds')] = e
<1>1. PICK S : rounds \in Seq(S)
    BY DEF PilotOK, RoundsOK, IsLog
<1>2. /\ rounds' \in Seq(S \cup {e}) /\ Len(rounds') = Len(rounds) /\ Len(rounds) \in Nat /\ rounds'[Len(rounds)] = e
      /\ \A j \in 1 .. Len(rounds) : j # Len(rounds) => rounds'[j] = rounds[j]
    BY <1>1
<1>3. RoundsOK'
    BY <1>2 DEF PilotOK, RoundsOK, IsLog
<1>4. FundOK'
    <2>1. Len(rounds) \in 1 .. Len(rounds)
        <3> HIDE <1>2
        <3>1. Len(rounds) \in Nat
            BY LastRound DEF PilotOK
        <3> QED
            BY <3>1
    <2>2. CommittedTo(e, fund.phase[Len(rounds)], fund.root[Len(rounds)], fund.anchor[Len(rounds)])
        BY <2>1 DEF PilotOK, FundOK, CommittedTo
    <2>3. \A j \in 1 .. Len(rounds) : CommittedTo(rounds'[j], fund.phase[j], fund.root[j], fund.anchor[j])
        BY <1>2, <2>2 DEF PilotOK, FundOK
    <2> QED
        BY <1>2, <2>3 DEF PilotOK, FundOK, Pilot!Ids
<1>5. TxsOK'
    <2>1. \A j \in 1 .. Len(rounds) : FrozenRound(rounds[j]) => FrozenRound(rounds'[j])
        BY <1>2
    <2> QED
        BY <1>2, <2>1 DEF PilotOK, TxsOK, RowOK
<1> QED
    BY <1>2, <1>3, <1>4, <1>5

\* A provider submits.
LEMMA SignalSubmitted ==
    ASSUME PilotTerms, PilotOK, NEW p \in Providers, Pilot!Submit(p)
    PROVE  PilotOK'
<1>1. /\ Len(rounds) > 0 /\ Pilot!Id = Len(rounds) /\ Pilot!Entry = rounds[Len(rounds)] /\ Len(rounds) \in 1 .. Len(rounds)
    BY LastRound DEF PilotOK, Pilot!Submit, Pilot!Active
<1> DEFINE old == rounds[Len(rounds)]
<1>2. old.status = "OPEN" /\ UNCHANGED <<minute, fund, txs, command>>
    BY <1>1 DEF Pilot!Submit
<1>3. PICK e : e = [old EXCEPT !.receipts = @ \cup {p}]
    OBVIOUS
<1>4. rounds' = [rounds EXCEPT ![Len(rounds)] = e]
    BY <1>1, <1>3, Zenon DEF Pilot!Submit
<1>5. RoundOK(old) /\ ClaimsOK(old, fund.phase[Len(rounds)])
    BY <1>1 DEF PilotOK, RoundsOK
<1>6. RoundOK(e) /\ ClaimsOK(e, fund.phase[Len(rounds)]) /\ e.startAt = old.startAt /\ e.status = "OPEN"
    BY <1>2, <1>3, <1>5 DEF RoundOK, RoundFields, ClaimsOK
<1>7. ~FrozenRound(old)
    BY <1>2 DEF FrozenRound
<1>8. RoundsOK' /\ FundOK' /\ TxsOK' /\ Len(rounds') = Len(rounds) /\ rounds'[Len(rounds')] = e
    BY <1>1, <1>2, <1>4, <1>6, <1>7, RoundChanged
<1>9. CommandOK'
    <2>1. Pilot!Active'
        BY <1>6, <1>8, LastRound DEF Pilot!Active, Pilot!Entry, Pilot!Submit
    <2> QED
        BY <1>2, <1>7, <1>8, <2>1 DEF PilotOK, CommandOK
<1> QED
    BY <1>8, <1>9 DEF PilotOK

\* A command sends a transaction, or goes on once it was mined.
LEMMA TxSent ==
    ASSUME PilotTerms, PilotOK, NEW call, NEW at, NEW paid, NEW next,
           call \in {"openEpoch", "commit", "setMarks", "execute", "closeEpoch", "payRewards", "cancelUnexecuted"},
           Len(rounds) > 0, call = "commit" => FrozenRound(rounds[Len(rounds)]),
           Pilot!Send(Pilot!Tx(call, at, paid), next), UNCHANGED <<minute, rounds, fund>>
    PROVE  /\ RoundsOK' /\ FundOK' /\ TxsOK'
           /\ command' = command \/ (Pilot!Goto(next) /\ Reached(call, fund.phase[Len(rounds)]))
<1> DEFINE tx == Pilot!Tx(call, at, paid)
<1>1. Len(rounds) \in 1 .. Len(rounds) /\ Pilot!Id = Len(rounds)
    BY LastRound DEF PilotOK
<1>2. /\ DOMAIN tx = {"id", "call", "at", "paid"} /\ tx.id = Len(rounds) /\ tx.call = call
      /\ \A row : DOMAIN row = DOMAIN tx /\ [row EXCEPT !.paid = 0] = [tx EXCEPT !.paid = 0] => row.id = tx.id /\ row.call = tx.call
    BY <1>1 DEF Pilot!Tx
<1>3. IsLog(txs) /\ DOMAIN txs = 1 .. Len(txs) /\ \A k \in 1 .. Len(txs) : RowOK(txs[k])
    BY DEF PilotOK, TxsOK, IsLog
<1>4. RoundsOK' /\ FundOK'
    BY DEF PilotOK, RoundsOK, FundOK, Pilot!Ids
<1> HIDE DEF tx
<1>5. CASE txs' = Append(txs, [tx |-> tx, status |-> "sent"]) /\ UNCHANGED command
    <2>1. RowOK([tx |-> tx, status |-> "sent"])
        BY <1>1, <1>2 DEF RowOK
    <2>2. IsLog(txs') /\ Len(txs) \in Nat /\ Len(txs') = Len(txs) + 1 /\ BeginsWith(txs, txs')
          /\ txs'[Len(txs')] = [tx |-> tx, status |-> "sent"]
        <3>1. PICK row : row = [tx |-> tx, status |-> "sent"]
            OBVIOUS
        <3>2. IsLog(txs) /\ txs' = Append(txs, row)
            BY <1>3, <1>5, <3>1
        <3>3. IsLog(txs') /\ Len(txs) \in Nat /\ Len(txs') = Len(txs) + 1 /\ BeginsWith(txs, txs') /\ txs'[Len(txs')] = row
            BY <3>2, LogGrows
        <3> QED
            BY <3>1, <3>3
    <2>3. \A k \in 1 .. Len(txs') : RowOK(txs'[k])
        BY <1>3, <2>1, <2>2 DEF BeginsWith
    <2>4. TxsOK'
        BY <2>2, <2>3 DEF TxsOK, RowOK
    <2> QED
        BY <1>4, <1>5, <2>4
<1>6. CASE (\E k \in Pilot!Rows(tx) : Pilot!Succeeded(k)) /\ Pilot!Goto(next) /\ UNCHANGED txs
    <2>1. PICK k \in DOMAIN txs : [txs[k].tx EXCEPT !.paid = 0] = [tx EXCEPT !.paid = 0] /\ txs[k].status = "mined"
        BY <1>6 DEF Pilot!Rows, Pilot!Succeeded
    <2>2. RowOK(txs[k])
        BY <1>3
    <2>3. txs[k].tx.id = Len(rounds) /\ txs[k].tx.call = call
        BY <1>2, <2>1, <2>2 DEF RowOK
    <2>4. Reached(call, fund.phase[Len(rounds)])
        BY <2>1, <2>2, <2>3 DEF RowOK
    <2>5. TxsOK'
        BY <1>6 DEF PilotOK, TxsOK, RowOK
    <2> QED
        BY <1>4, <1>6, <2>4, <2>5
<1> QED
    BY <1>5, <1>6 DEF Pilot!Send, tx

\* The steps of commands that send.
LEMMA CommandSends ==
    ASSUME PilotTerms, PilotOK,
           \/ Pilot!OpenSend \/ Pilot!SealCommit \/ Pilot!ExecuteMarks \/ Pilot!ExecuteSend
           \/ Pilot!SettleMarks \/ Pilot!SettleClose \/ Pilot!SettlePay \/ Pilot!CancelSend
    PROVE  PilotOK'
<1>1. PICK call, at, paid, next :
          /\ Pilot!Send(Pilot!Tx(call, at, paid), next)
          /\ \/ command.name = "open" /\ command.step = "send" /\ call = "openEpoch" /\ next = "done"
             \/ command.name = "seal" /\ command.step = "commit" /\ call = "commit" /\ next = "finality"
             \/ command.name = "execute" /\ command.step = "marks" /\ call = "setMarks" /\ next = "execute"
             \/ command.name = "execute" /\ command.step = "execute" /\ call = "execute" /\ next = "save"
             \/ command.name \in {"settle", "recovery"} /\ command.step = "marks" /\ call = "setMarks" /\ next = "close"
             \/ command.name \in {"settle", "recovery"} /\ command.step = "close" /\ call = "closeEpoch" /\ next = "pay"
             \/ command.name \in {"settle", "recovery"} /\ command.step = "pay" /\ call = "payRewards" /\ next = "save"
             \/ command.name = "cancel" /\ command.step = "send" /\ call = "cancelUnexecuted" /\ next = "save"
    <2>1. ASSUME NEW name, NEW step, Pilot!Step(name, step)
          PROVE  command.name = name /\ command.step = step
        BY <2>1 DEF Pilot!Step
    <2>2. CASE Pilot!OpenSend
        BY <2>1, <2>2, Zenon DEF Pilot!OpenSend
    <2>3. CASE Pilot!SealCommit
        BY <2>1, <2>3, Zenon DEF Pilot!SealCommit
    <2>4. CASE Pilot!ExecuteMarks
        BY <2>1, <2>4, Zenon DEF Pilot!ExecuteMarks
    <2>5. CASE Pilot!ExecuteSend
        BY <2>1, <2>5, Zenon DEF Pilot!ExecuteSend
    <2>6. CASE Pilot!SettleMarks
        BY <2>6, Zenon DEF Pilot!SettleMarks, Pilot!Settling
    <2>7. CASE Pilot!SettleClose
        BY <2>7, Zenon DEF Pilot!SettleClose, Pilot!Settling
    <2>8. CASE Pilot!SettlePay
        BY <2>8, Zenon DEF Pilot!SettlePay, Pilot!Settling
    <2>9. CASE Pilot!CancelSend
        BY <2>1, <2>9, Zenon DEF Pilot!CancelSend
    <2> QED
        BY <2>2, <2>3, <2>4, <2>5, <2>6, <2>7, <2>8, <2>9
<1>2. UNCHANGED <<minute, rounds, fund>>
    BY DEF Pilot!OpenSend, Pilot!SealCommit, Pilot!ExecuteMarks, Pilot!ExecuteSend,
                Pilot!SettleMarks, Pilot!SettleClose,
       Pilot!SettlePay, Pilot!CancelSend, Pilot!Remote
<1>3. command # Pilot!NoCommand /\ command.step # "plan" /\ DOMAIN command = {"name", "step"}
    BY <1>1 DEF Pilot!NoCommand, PilotOK, CommandOK
<1>4. Len(rounds) > 0 /\ (call = "commit" => FrozenRound(rounds[Len(rounds)]))
    BY <1>1, <1>3 DEF PilotOK, CommandOK
<1>5. call \in {"openEpoch", "commit", "setMarks", "execute", "closeEpoch", "payRewards", "cancelUnexecuted"}
    BY <1>1
<1>6. /\ RoundsOK' /\ FundOK' /\ TxsOK'
      /\ command' = command \/ (Pilot!Goto(next) /\ Reached(call, fund.phase[Len(rounds)]))
    BY <1>1, <1>2, <1>4, <1>5, TxSent
<1>7. CASE command' = command
    BY <1>2, <1>6, <1>7, CommandStays DEF PilotOK
<1>8. CASE Pilot!Goto(next) /\ Reached(call, fund.phase[Len(rounds)])
    <2>1. CASE next = "done"
        BY <1>6, <1>8, <2>1 DEF Pilot!Goto, Pilot!Finish, PilotOK, CommandOK, Pilot!NoCommand
    <2>2. CASE next # "done"
        <3>1. DOMAIN command' = {"name", "step"} /\ command'.name = command.name /\ command'.step = next
            BY <1>3, <1>8, <2>2 DEF Pilot!Goto
        <3>2. CommandOK'
            BY <1>1, <1>2, <1>4, <1>8, <3>1 DEF CommandOK, Pilot!NoCommand
        <3> QED
            BY <1>6, <3>2 DEF PilotOK
    <2> QED
        BY <2>1, <2>2
<1> QED
    BY <1>6, <1>7, <1>8

\* An epoch is planned.
LEMMA EpochPlanned ==
    ASSUME PilotTerms, PilotOK, Pilot!OpenPlan
    PROVE  PilotOK'
<1>1. /\ command = [name |-> "open", step |-> "plan"] /\ command' = [command EXCEPT !.step = "send"] /\ UNCHANGED <<minute, fund, txs>>
    BY DEF Pilot!OpenPlan, Pilot!Step, Pilot!Goto, Pilot!Local
<1>2. command' = [name |-> "open", step |-> "send"]
    BY <1>1
<1>3. CASE Pilot!Active
    <2>1. rounds' = rounds
        BY <1>3 DEF Pilot!OpenPlan
    <2>2. Len(rounds) > 0
        BY <1>3, LastRound DEF PilotOK
    <2>3. CommandOK'
        BY <1>2, <2>1, <2>2 DEF CommandOK, Pilot!NoCommand
    <2>4. minute' \in Int
        BY <1>1 DEF PilotOK, RoundsOK
    <2> QED
        BY <1>1, <2>1, <2>3, <2>4, FilesStay DEF PilotOK
<1>4. CASE ~Pilot!Active
    <2>1. PICK e : /\ DOMAIN e = RoundFields /\ e.status = "OPEN" /\ e.startAt = minute + 2 /\ e.final = FALSE
                   /\ rounds' = Append(rounds, e)
        BY <1>4 DEF Pilot!OpenPlan, RoundFields
    <2>2. IsLog(rounds') /\ Len(rounds) \in Nat /\ Len(rounds') = Len(rounds) + 1 /\ (\A k \in 1 .. Len(rounds) : rounds'[k] = rounds[k])
          /\ rounds'[Len(rounds')] = e
        <3>1. IsLog(rounds) /\ rounds' = Append(rounds, e)
            BY <2>1 DEF PilotOK, RoundsOK
        <3>2. IsLog(rounds') /\ Len(rounds) \in Nat /\ Len(rounds') = Len(rounds) + 1 /\ BeginsWith(rounds, rounds')
              /\ rounds'[Len(rounds')] = e
            BY <3>1, LogGrows
        <3> QED
            BY <3>2 DEF BeginsWith
    <2>3. Len(rounds) < RoundLimit
        BY <1>1, <1>4 DEF PilotOK, CommandOK
    <2>4. Len(rounds') \in Pilot!Ids /\ fund.phase[Len(rounds')] = 0
        BY <2>2, <2>3 DEF Pilot!Ids, PilotTerms, PilotOK, FundOK
    <2>5. RoundOK(e) /\ ClaimsOK(e, 0)
        BY <2>1 DEF RoundOK, ClaimsOK, PilotOK, RoundsOK
    <2>6. RoundsOK'
        BY <1>1, <2>2, <2>3, <2>4, <2>5 DEF PilotOK, RoundsOK, PilotTerms
    <2>7. FundOK'
        <3>1. \A j \in 1 .. Len(rounds') : CommittedTo(rounds'[j], fund.phase[j], fund.root[j], fund.anchor[j])
            BY <2>2, <2>4 DEF PilotOK, FundOK, CommittedTo
        <3> QED
            BY <1>1, <2>2, <3>1 DEF PilotOK, FundOK, Pilot!Ids
    <2>8. TxsOK'
        BY <1>1, <2>2 DEF PilotOK, TxsOK, RowOK
    <2>9. CommandOK'
        BY <1>2, <2>2 DEF CommandOK, Pilot!NoCommand
    <2> QED
        BY <2>6, <2>7, <2>8, <2>9 DEF PilotOK
<1> QED
    BY <1>3, <1>4

\* Signals are sealed.
LEMMA EpochSealed ==
    ASSUME PilotTerms, PilotOK, Pilot!Seal
    PROVE  PilotOK'
<1>1. /\ command = [name |-> "seal", step |-> "seal"] /\ command' = [command EXCEPT !.step = "commit"] /\ UNCHANGED <<minute, fund, txs>>
    BY DEF Pilot!Seal, Pilot!Step, Pilot!Goto, Pilot!Local
<1>2. command' = [name |-> "seal", step |-> "commit"]
    BY <1>1
<1>3. Len(rounds) > 0
    BY <1>1 DEF PilotOK, CommandOK, Pilot!NoCommand
<1>4. Pilot!Id = Len(rounds) /\ Pilot!Entry = rounds[Len(rounds)] /\ Len(rounds) \in 1 .. Len(rounds)
    BY <1>3, LastRound DEF PilotOK, Pilot!Id, Pilot!Entry
<1> DEFINE old == rounds[Len(rounds)]
<1>5. RoundOK(old) /\ ClaimsOK(old, fund.phase[Len(rounds)])
    BY <1>4 DEF PilotOK, RoundsOK
<1>6. CASE old.status = "SEALED" /\ UNCHANGED rounds
    <2>1. FrozenRound(old)
        BY <1>5, <1>6 DEF RoundOK
    <2>2. CommandOK'
        BY <1>2, <1>3, <1>6, <2>1 DEF CommandOK, Pilot!NoCommand
    <2>3. minute' \in Int
        BY <1>1 DEF PilotOK, RoundsOK
    <2> QED
        BY <1>1, <1>6, <2>2, <2>3, FilesStay DEF PilotOK
<1>7. CASE old.status = "OPEN" /\ rounds' = [rounds EXCEPT ![Len(rounds)] = [old EXCEPT !.status = "SEALED", !.sealed = old.receipts]]
    <2>1. PICK e : e = [old EXCEPT !.status = "SEALED", !.sealed = old.receipts]
        OBVIOUS
    <2>2. rounds' = [rounds EXCEPT ![Len(rounds)] = e]
        BY <1>7, <2>1, Zenon
    <2>3. /\ RoundOK(e) /\ ClaimsOK(e, fund.phase[Len(rounds)]) /\ e.startAt = old.startAt /\ FrozenRound(e)
          /\ ~FrozenRound(old)
        BY <1>5, <1>7, <2>1 DEF RoundOK, RoundFields, ClaimsOK, FrozenRound
    <2>4. RoundsOK' /\ FundOK' /\ TxsOK' /\ Len(rounds') = Len(rounds) /\ rounds'[Len(rounds')] = e
        BY <1>1, <1>3, <2>2, <2>3, RoundChanged
    <2>5. CommandOK'
        BY <1>2, <1>3, <2>3, <2>4 DEF CommandOK, Pilot!NoCommand
    <2> QED
        BY <2>4, <2>5 DEF PilotOK
<1>8. \/ old.status = "SEALED" /\ UNCHANGED rounds
      \/ old.status = "OPEN" /\ rounds' = [rounds EXCEPT ![Len(rounds)] = [old EXCEPT !.status = "SEALED", !.sealed = old.receipts]]
    BY <1>4, Zenon DEF Pilot!Seal, Pilot!Record
<1> QED
    BY <1>6, <1>7, <1>8

\* What a command found out is saved: that the commit is final, that the market was read, that
\* the epoch was executed, settled or cancelled.
LEMMA OutcomeSaved ==
    ASSUME PilotTerms, PilotOK,
           \/ Pilot!SealFinality \/ Pilot!ExecuteMarket \/ Pilot!ExecuteSave
           \/ Pilot!SettleMarket \/ Pilot!SettleSave \/ Pilot!CancelSave
    PROVE  PilotOK'
<1>1. command # Pilot!NoCommand /\ command.step # "plan" /\ UNCHANGED <<minute, fund, txs>>
    BY DEF Pilot!NoCommand, Pilot!SealFinality, Pilot!ExecuteMarket, Pilot!ExecuteSave, Pilot!SettleMarket, Pilot!SettleSave,
       Pilot!CancelSave, Pilot!Step, Pilot!Settling, Pilot!Local
<1>2. Len(rounds) > 0
    BY <1>1 DEF PilotOK, CommandOK
<1>3. Pilot!Id = Len(rounds) /\ Pilot!Entry = rounds[Len(rounds)] /\ Len(rounds) \in 1 .. Len(rounds)
    BY <1>2, LastRound DEF PilotOK, Pilot!Id, Pilot!Entry
<1> DEFINE old == rounds[Len(rounds)]
<1> DEFINE phase == fund.phase[Len(rounds)]
<1>4. RoundOK(old) /\ ClaimsOK(old, phase) /\ CommittedTo(old, phase, fund.root[Len(rounds)], fund.anchor[Len(rounds)])
    BY <1>3 DEF PilotOK, RoundsOK, FundOK
<1>5. PICK e : /\ rounds' = [rounds EXCEPT ![Len(rounds)] = e] /\ DOMAIN e = DOMAIN old
               /\ e.startAt = old.startAt /\ e.sealed = old.sealed /\ e.receipts = old.receipts
               /\ \/ Pilot!SealFinality /\ e.status = old.status
                  \/ (Pilot!ExecuteMarket \/ Pilot!SettleMarket) /\ e.status = old.status /\ e.final = old.final
                  \/ Pilot!ExecuteSave /\ e.status = "EXECUTED" /\ e.final = old.final
                  \/ Pilot!SettleSave /\ e.status = "SETTLED" /\ e.final = old.final
                  \/ Pilot!CancelSave /\ e.status = "CANCELLED" /\ e.final = old.final
    <2>1. CASE Pilot!SealFinality
        <3>1. PICK e : e = [old EXCEPT !.final = TRUE]
            OBVIOUS
        <3>2. rounds' = [rounds EXCEPT ![Len(rounds)] = e]
            BY <1>3, <2>1, <3>1, Zenon DEF Pilot!SealFinality, Pilot!Record
        <3>3. /\ DOMAIN e = DOMAIN old /\ e.startAt = old.startAt /\ e.sealed = old.sealed /\ e.receipts = old.receipts
              /\ e.status = old.status
            BY <1>4, <3>1 DEF RoundOK, RoundFields
        <3> QED BY <2>1, <3>2, <3>3
    <2>2. CASE Pilot!ExecuteMarket
        <3>1. PICK e : e = [old EXCEPT !.begin = TRUE]
            OBVIOUS
        <3>2. rounds' = [rounds EXCEPT ![Len(rounds)] = e]
            BY <1>3, <2>2, <3>1, Zenon DEF Pilot!ExecuteMarket, Pilot!Record
        <3>3. /\ DOMAIN e = DOMAIN old /\ e.startAt = old.startAt /\ e.sealed = old.sealed /\ e.receipts = old.receipts
              /\ e.status = old.status /\ e.final = old.final
            BY <1>4, <3>1 DEF RoundOK, RoundFields
        <3> QED BY <2>2, <3>2, <3>3
    <2>3. CASE Pilot!ExecuteSave
        <3>1. PICK e : e = [old EXCEPT !.status = "EXECUTED"]
            OBVIOUS
        <3>2. rounds' = [rounds EXCEPT ![Len(rounds)] = e]
            BY <1>3, <2>3, <3>1, Zenon DEF Pilot!ExecuteSave, Pilot!Record
        <3>3. /\ DOMAIN e = DOMAIN old /\ e.startAt = old.startAt /\ e.sealed = old.sealed /\ e.receipts = old.receipts
              /\ e.status = "EXECUTED" /\ e.final = old.final
            BY <1>4, <3>1 DEF RoundOK, RoundFields
        <3> QED BY <2>3, <3>2, <3>3
    <2>4. CASE Pilot!SettleMarket
        <3>1. CASE command.name = "settle"
            <4>1. PICK e : e = [old EXCEPT !.end = TRUE]
                OBVIOUS
            <4>2. rounds' = [rounds EXCEPT ![Len(rounds)] = e]
                BY <1>3, <2>4, <3>1, <4>1, Zenon DEF Pilot!SettleMarket, Pilot!Record
            <4>3. /\ DOMAIN e = DOMAIN old /\ e.startAt = old.startAt /\ e.sealed = old.sealed /\ e.receipts = old.receipts
                  /\ e.status = old.status /\ e.final = old.final
                BY <1>4, <4>1 DEF RoundOK, RoundFields
            <4> QED BY <2>4, <4>2, <4>3
        <3>2. CASE command.name # "settle"
            <4>1. PICK e : e = [old EXCEPT !.recovery = IF @ = Pilot!None THEN minute - 1 ELSE @]
                OBVIOUS
            <4>2. rounds' = [rounds EXCEPT ![Len(rounds)] = e]
                BY <1>3, <2>4, <3>2, <4>1, Zenon DEF Pilot!SettleMarket, Pilot!Record
            <4>3. /\ DOMAIN e = DOMAIN old /\ e.startAt = old.startAt /\ e.sealed = old.sealed /\ e.receipts = old.receipts
                  /\ e.status = old.status /\ e.final = old.final
                BY <1>4, <4>1 DEF RoundOK, RoundFields
            <4> QED BY <2>4, <4>2, <4>3
        <3> QED BY <3>1, <3>2
    <2>5. CASE Pilot!SettleSave
        <3>1. PICK e : e = [old EXCEPT !.status = "SETTLED"]
            OBVIOUS
        <3>2. rounds' = [rounds EXCEPT ![Len(rounds)] = e]
            BY <1>3, <2>5, <3>1, Zenon DEF Pilot!SettleSave, Pilot!Record
        <3>3. /\ DOMAIN e = DOMAIN old /\ e.startAt = old.startAt /\ e.sealed = old.sealed /\ e.receipts = old.receipts
              /\ e.status = "SETTLED" /\ e.final = old.final
            BY <1>4, <3>1 DEF RoundOK, RoundFields
        <3> QED BY <2>5, <3>2, <3>3
    <2>6. CASE Pilot!CancelSave
        <3>1. PICK e : e = [old EXCEPT !.status = "CANCELLED"]
            OBVIOUS
        <3>2. rounds' = [rounds EXCEPT ![Len(rounds)] = e]
            BY <1>3, <2>6, <3>1, Zenon DEF Pilot!CancelSave, Pilot!Record
        <3>3. /\ DOMAIN e = DOMAIN old /\ e.startAt = old.startAt /\ e.sealed = old.sealed /\ e.receipts = old.receipts
              /\ e.status = "CANCELLED" /\ e.final = old.final
            BY <1>4, <3>1 DEF RoundOK, RoundFields
        <3> QED BY <2>6, <3>2, <3>3
    <2> QED
        BY <2>1, <2>2, <2>3, <2>4, <2>5, <2>6
<1>6. /\ Pilot!SealFinality => Reached("commit", phase)
      /\ Pilot!ExecuteSave => Reached("execute", phase)
      /\ Pilot!SettleSave => Reached("payRewards", phase)
      /\ Pilot!CancelSave => Reached("cancelUnexecuted", phase)
    <2>1. Pilot!SealFinality => Reached("commit", phase)
        BY DEF Pilot!SealFinality, Pilot!Step, PilotOK, CommandOK
    <2>2. Pilot!ExecuteSave => Reached("execute", phase)
        BY DEF Pilot!ExecuteSave, Pilot!Step, PilotOK, CommandOK
    <2>3. Pilot!SettleSave => Reached("payRewards", phase)
        BY DEF Pilot!SettleSave, Pilot!Settling, PilotOK, CommandOK
    <2>4. Pilot!CancelSave => Reached("cancelUnexecuted", phase)
        BY DEF Pilot!CancelSave, Pilot!Step, PilotOK, CommandOK
    <2> QED
        BY <2>1, <2>2, <2>3, <2>4
<1> HIDE DEF phase
<1>7. /\ RoundOK(e) /\ ClaimsOK(e, phase)
      /\ FrozenRound(old) => FrozenRound(e)
    <2>1. FrozenRound(old) => FrozenRound(e)
        BY <1>5 DEF FrozenRound
    <2>2. phase \in 3 .. 5 => FrozenRound(old)
        BY <1>4 DEF CommittedTo
    <2>3. e.status \in {"SEALED", "EXECUTED"} => FrozenRound(e)
        BY <1>4, <1>5, <1>6, <2>1, <2>2 DEF RoundOK, Reached
    <2>4. ClaimsOK(e, phase)
        BY <1>4, <1>5, <1>6 DEF ClaimsOK
    <2> QED
        BY <1>4, <1>5, <2>1, <2>3, <2>4 DEF RoundOK
<1>8. RoundsOK' /\ FundOK' /\ TxsOK' /\ Len(rounds') = Len(rounds)
    BY <1>1, <1>2, <1>5, <1>7, RoundChanged DEF phase
<1>9. \/ command' = Pilot!NoCommand
      \/ command' = [command EXCEPT !.step = "marks"] /\ command.name \in {"execute", "settle", "recovery"}
    BY DEF Pilot!SealFinality, Pilot!ExecuteMarket, Pilot!ExecuteSave, Pilot!SettleMarket, Pilot!SettleSave,
       Pilot!CancelSave, Pilot!Step, Pilot!Settling, Pilot!Goto, Pilot!Finish
<1>10. CommandOK'
    <2>1. CASE command' = Pilot!NoCommand
        BY <2>1 DEF CommandOK, Pilot!NoCommand
    <2>2. CASE command' = [command EXCEPT !.step = "marks"] /\ command.name \in {"execute", "settle", "recovery"}
        <3>1. DOMAIN command' = {"name", "step"} /\ command'.name \in {"execute", "settle", "recovery"} /\ command'.step = "marks"
            BY <2>2 DEF PilotOK, CommandOK
        <3> QED
            BY <1>2, <1>8, <3>1 DEF CommandOK, Pilot!NoCommand
    <2> QED
        BY <1>9, <2>1, <2>2
<1> QED
    BY <1>8, <1>10 DEF PilotOK

\* A product is monotone.
LEMMA ProductGrows == ASSUME NEW a \in Nat, NEW b \in Nat, NEW c \in Nat, a <= b PROVE a * c <= b * c
<1>1. PICK d \in Nat : b = a + d
    <2>1. b - a \in Nat /\ b = a + (b - a)
        OBVIOUS
    <2> QED BY <2>1
<1>2. b * c = a * c + d * c /\ d * c >= 0
    BY <1>1
<1> QED BY <1>2

\* What a division rounds away.
LEMMA Divided ==
    ASSUME NEW a \in Nat, NEW b \in Nat, b > 0
    PROVE  a \div b \in Nat /\ (a \div b) * b <= a /\ a < (a \div b) * b + b
BY Z3

\* Who leaves is paid no more than the fund has.
LEMMA LeavingPays ==
    ASSUME NEW nav \in Nat, NEW all \in Nat, NEW taken \in Nat, taken <= all
    PROVE (taken * (nav + 1)) \div (all + 1) \in 0 .. nav
<1> DEFINE q == (taken * (nav + 1)) \div (all + 1)
<1>1. taken * (nav + 1) <= all * (nav + 1) /\ taken * (nav + 1) \in Nat
    BY ProductGrows
<1>2. q \in Nat /\ q * (all + 1) <= taken * (nav + 1)
    BY <1>1, Divided
<1> HIDE DEF q
<1>3. ASSUME q >= nav + 1 PROVE FALSE
    <2>1. (nav + 1) * (all + 1) <= q * (all + 1)
        BY <1>2, <1>3, ProductGrows
    <2>2. (nav + 1) * (all + 1) = all * (nav + 1) + (nav + 1)
        OBVIOUS
    <2>3. q * (all + 1) \in Nat /\ all * (nav + 1) \in Nat
        BY <1>2
    <2> HIDE DEF q
    <2> QED BY <1>1, <1>2, <2>1, <2>2, <2>3
<1> QED BY <1>2, <1>3 DEF q

\* The fee leaves what the shares were worth at their highest price (PilotFund.sol, closeEpoch).
LEMMA FeeIsProfit ==
    ASSUME NEW nav \in Nat, NEW shares \in Nat, NEW mark \in Nat, NEW scale \in Nat, scale > 0,
           nav > (shares * mark) \div scale
    PROVE LET fee == ((nav - (shares * mark) \div scale) * 1000) \div 10000
          IN fee \in 0 .. nav /\ (nav - fee) * scale >= shares * mark
<1> DEFINE t == (shares * mark) \div scale
<1> DEFINE fee == ((nav - t) * 1000) \div 10000
<1>1. t \in Nat /\ shares * mark < t * scale + scale /\ shares * mark \in Nat
    BY Divided
<1> HIDE DEF t
<1>2. nav - t \in Nat /\ nav > t
    BY <1>1 DEF t
<1>3. fee \in 0 .. nav /\ nav - fee >= t + 1
    BY <1>1, <1>2
<1>4. (t + 1) * scale <= (nav - fee) * scale
    <2>1. nav - fee \in Nat /\ t + 1 \in Nat
        BY <1>1, <1>3
    <2> HIDE DEF fee
    <2> QED BY <1>3, <2>1, ProductGrows
<1>5. (t + 1) * scale = t * scale + scale
    BY <1>1
<1>6. (nav - fee) * scale >= shares * mark
    <2>1. t * scale \in Nat /\ (nav - fee) * scale \in Int
        BY <1>1, <1>3
    <2> HIDE DEF fee
    <2> QED BY <1>1, <1>4, <1>5, <2>1
<1> QED BY <1>3, <1>6 DEF t

\* A log of numbers up to a mark, with one more and a higher mark.
LEMMA NumbersGrow ==
    ASSUME NEW s, IsLog(s), NEW mark \in Nat, \A k \in 1 .. Len(s) : s[k] \in Nat /\ s[k] <= mark,
           NEW higher \in Nat, mark <= higher, NEW e \in Nat, e <= higher, NEW t, t = Append(s, e)
    PROVE  IsLog(t) /\ \A k \in 1 .. Len(t) : t[k] \in Nat /\ t[k] <= higher
<1>1. IsLog(t) /\ Len(s) \in Nat /\ Len(t) = Len(s) + 1 /\ BeginsWith(s, t) /\ t[Len(t)] = e
    BY LogGrows
<1>2. ASSUME NEW k \in 1 .. Len(t) PROVE t[k] \in Nat /\ t[k] <= higher
    <2>1. CASE k = Len(t)
        BY <1>1, <2>1
    <2>2. CASE k # Len(t)
        <3>1. k \in 1 .. Len(s) /\ t[k] = s[k]
            BY <1>1, <2>2 DEF BeginsWith
        <3> QED
            BY <3>1
    <2> QED
        BY <2>1, <2>2
<1> QED
    BY <1>1, <1>2

\* The fund's money is its own and its reserve, which is set aside while an epoch is closed,
\* out of what is above the mark.
MoneyOK ==
    /\ fund.cash \in Nat /\ fund.shares \in Nat /\ fund.highWater \in Nat /\ fund.reserve \in Nat /\ fund.reserve <= fund.cash
    /\ DOMAIN fund.fee = Pilot!Ids /\ \A i \in Pilot!Ids : fund.fee[i] \in Nat
    /\ \A i \in Pilot!Ids : fund.phase[i] \in 1 .. 4 <=> i = fund.active
    /\ fund.active = 0 => fund.reserve = 0
    /\ fund.active # 0 => fund.shares > 0
    /\ \A i \in Pilot!Ids : fund.phase[i] \in 1 .. 3 => fund.reserve = 0
    /\ \A i \in Pilot!Ids : fund.phase[i] = 4 => /\ fund.fee[i] = fund.reserve
                                                 /\ fund.reserve > 0 => (fund.cash - fund.reserve) * PilotScale >= fund.shares * fund.highWater
PricesOK == IsLog(sharePrices) /\ \A k \in 1 .. Len(sharePrices) : sharePrices[k] \in Nat /\ sharePrices[k] <= fund.highWater
PaidOK == \A k \in 1 .. Len(txs) : txs[k].tx.paid \in Nat
ProfitOK == MoneyOK /\ PricesOK /\ PaidOK

\* An epoch is closed.
LEMMA EpochClosed ==
    ASSUME PilotTerms, FundOK, MoneyOK, NEW i \in Pilot!Ids, fund.active = i, fund.phase[i] = 3, NEW nav \in Nat,
           fund' = Pilot!Closed(i, nav)
    PROVE  MoneyOK' /\ fund'.highWater = fund.highWater
<1> DEFINE fee == IF nav > Pilot!Threshold THEN ((nav - Pilot!Threshold) * 1000) \div 10000 ELSE 0
<1>1. /\ DOMAIN fund' = DOMAIN fund /\ fund'.phase = [fund.phase EXCEPT ![i] = 4]
      /\ fund'.fee = [fund.fee EXCEPT ![i] = fee] /\ fund'.cash = nav /\ fund'.reserve = fee
      /\ fund'.shares = fund.shares /\ fund'.highWater = fund.highWater /\ fund'.active = fund.active
    BY DEF Pilot!Closed, Pilot!Phases, FundOK, FundFields
<1>2. fee \in 0 .. nav /\ (fee > 0 => (nav - fee) * PilotScale >= fund.shares * fund.highWater)
    <2>1. CASE nav > Pilot!Threshold
        <3>1. nav > (fund.shares * fund.highWater) \div PilotScale
            BY <2>1 DEF Pilot!Threshold
        <3>2. fee = ((nav - (fund.shares * fund.highWater) \div PilotScale) * 1000) \div 10000
            BY <2>1 DEF Pilot!Threshold
        <3> HIDE DEF fee
        <3> QED
            BY <3>1, <3>2, FeeIsProfit DEF MoneyOK, PilotTerms
    <2>2. CASE ~(nav > Pilot!Threshold)
        BY <2>2
    <2> QED
        BY <2>1, <2>2
<1> HIDE DEF fee
<1>3. fee \in Nat /\ fund.phase[i] \in 1 .. 4 /\ i # 0
    BY <1>2 DEF Pilot!Ids
<1>4. /\ \A j \in Pilot!Ids : j # i => fund'.phase[j] = fund.phase[j] /\ fund'.fee[j] = fund.fee[j]
      /\ fund'.phase[i] = 4 /\ fund'.fee[i] = fee /\ DOMAIN fund'.fee = Pilot!Ids
    BY <1>1 DEF FundOK, MoneyOK
<1>5. \A j \in Pilot!Ids : j # i => fund'.phase[j] \notin 1 .. 4
    BY <1>4 DEF MoneyOK
<1> QED
    BY <1>1, <1>2, <1>3, <1>4, <1>5 DEF MoneyOK, Pilot!Ids

\* The providers are paid out of the reserve, and the mark follows the price.
LEMMA RewardsPaid ==
    ASSUME PilotTerms, FundOK, MoneyOK, PricesOK, NEW i \in Pilot!Ids, fund.active = i, fund.phase[i] = 4, NEW paid \in Nat,
           paid <= fund.fee[i], fund' = Pilot!PaidOut(i, paid), sharePrices' = Append(sharePrices, Pilot!PriceAfter(paid))
    PROVE  MoneyOK' /\ PricesOK'
<1> DEFINE price == Pilot!PriceAfter(paid)
<1>1. /\ DOMAIN fund' = DOMAIN fund /\ fund'.phase = [fund.phase EXCEPT ![i] = 5] /\ fund'.fee = fund.fee
      /\ fund'.cash = fund.cash - paid /\ fund'.reserve = 0 /\ fund'.active = 0 /\ fund'.shares = fund.shares
      /\ fund'.highWater = Pilot!Raised(fund.highWater, price)
    BY DEF Pilot!PaidOut, Pilot!Phases, FundOK, FundFields
<1>2. fund.fee[i] = fund.reserve /\ i # 0 /\ fund.shares \in Nat /\ fund.shares > 0
    BY DEF MoneyOK, Pilot!Ids
<1>3. fund.cash - paid \in Nat
    BY <1>2 DEF MoneyOK
<1>4. price \in Nat
    <2>1. (fund.cash - paid) * PilotScale \in Nat
        BY <1>3 DEF PilotTerms
    <2> QED
        BY <1>2, <2>1, Divided DEF Pilot!PriceAfter
<1> HIDE DEF price
<1>5. fund'.highWater \in Nat /\ fund'.highWater >= price /\ fund'.highWater >= fund.highWater /\ fund.highWater \in Nat
    BY <1>1, <1>4 DEF Pilot!Raised, MoneyOK
<1>6. /\ \A j \in Pilot!Ids : j # i => fund'.phase[j] = fund.phase[j]
      /\ fund'.phase[i] = 5
    BY <1>1 DEF FundOK
<1>7. \A j \in Pilot!Ids : fund'.phase[j] \notin 1 .. 4
    BY <1>6 DEF MoneyOK
<1>8. MoneyOK'
    <2>1. \A j \in Pilot!Ids : j # 0
        BY DEF Pilot!Ids
    <2>2. Pilot!Ids' = Pilot!Ids /\ \A j \in Pilot!Ids : fund'.phase[j] \notin 1 .. 3 /\ fund'.phase[j] # 4
        BY <1>7 DEF Pilot!Ids
    <2>3. fund.shares \in Nat /\ DOMAIN fund.fee = Pilot!Ids /\ \A j \in Pilot!Ids : fund.fee[j] \in Nat
        BY DEF MoneyOK
    <2> QED
        BY <1>1, <1>3, <1>5, <1>7, <2>1, <2>2, <2>3 DEF MoneyOK
<1>9. PricesOK'
    <2>1. IsLog(sharePrices) /\ \A k \in 1 .. Len(sharePrices) : sharePrices[k] \in Nat /\ sharePrices[k] <= fund.highWater
        BY DEF PricesOK
    <2>2. sharePrices' = Append(sharePrices, price)
        BY DEF price
    <2>3. price <= fund'.highWater /\ fund.highWater <= fund'.highWater
        BY <1>4, <1>5
    <2> QED
        BY <1>4, <1>5, <2>1, <2>2, <2>3, NumbersGrow, Zenon DEF PricesOK
<1> QED
    BY <1>8, <1>9

\* Money goes where the transactions say.
LEMMA MoneyMined ==
    ASSUME PilotTerms, PilotOK, ProfitOK, Pilot!Mine
    PROVE  ProfitOK'
<1>1. PICK k \in DOMAIN txs :
          IF Pilot!Accepts(txs[k].tx)
          THEN /\ fund' \in Pilot!Effects(txs[k].tx) /\ txs' = [txs EXCEPT ![k].status = "mined"]
               /\ sharePrices' = IF txs[k].tx.call = "payRewards"
                                 THEN Append(sharePrices, Pilot!PriceAfter(txs[k].tx.paid))
                                 ELSE sharePrices
          ELSE txs' = [txs EXCEPT ![k].status = "reverted"] /\ UNCHANGED <<fund, sharePrices>>
    BY Zenon DEF Pilot!Mine
<1> DEFINE tx == txs[k].tx
<1> DEFINE i == tx.id
<1>2. k \in 1 .. Len(txs) /\ RowOK(txs[k]) /\ IsLog(txs) /\ DOMAIN txs = 1 .. Len(txs) /\ tx.paid \in Nat
    BY DEF PilotOK, TxsOK, IsLog, ProfitOK, PaidOK
<1>3. i \in Pilot!Ids /\ i # 0
    BY <1>2, LastRound DEF RowOK, PilotOK, RoundsOK, Pilot!Ids, PilotTerms
<1>4. PaidOK'
    <2>1. PICK s : txs' = [txs EXCEPT ![k].status = s]
        BY <1>1
    <2>2. PICK row : row = [txs[k] EXCEPT !.status = s]
        OBVIOUS
    <2>3. txs' = [txs EXCEPT ![k] = row]
        BY <2>1, <2>2, Zenon
    <2>4. row.tx = tx
        BY <1>2, <2>2 DEF RowOK
    <2>5. Len(txs') = Len(txs) /\ \A j \in 1 .. Len(txs) : txs'[j].tx = txs[j].tx
        <3>1. PICK S : txs \in Seq(S)
            BY <1>2 DEF IsLog
        <3> QED
            BY <1>2, <2>3, <2>4, <3>1
    <2> QED
        BY <2>5 DEF ProfitOK, PaidOK
<1> HIDE DEF tx, i
<1>5. CASE UNCHANGED <<fund, sharePrices>>
    BY <1>4, <1>5 DEF ProfitOK, MoneyOK, PricesOK, Pilot!Ids
<1>6. CASE /\ Pilot!Accepts(tx) /\ fund' \in Pilot!Effects(tx)
           /\ sharePrices' = IF tx.call = "payRewards" THEN Append(sharePrices, Pilot!PriceAfter(tx.paid)) ELSE sharePrices
    <2>0. FundOK /\ MoneyOK /\ PricesOK /\ \A j \in Pilot!Ids : fund.phase[j] \in 0 .. 6
        BY DEF PilotOK, ProfitOK, FundOK
    <2>1. CASE tx.call = "openEpoch"
        <3>1. fund.phase[i] = 0 /\ fund.active = 0 /\ fund.shares > 0 /\ fund' = [fund EXCEPT !.phase[i] = 1, !.active = i]
            BY <1>6, <2>1, Zenon DEF Pilot!Accepts, Pilot!Effects, Pilot!Phases, i
        <3>2. /\ fund'.cash = fund.cash /\ fund'.shares = fund.shares /\ fund'.highWater = fund.highWater /\ fund'.reserve = fund.reserve
              /\ fund'.fee = fund.fee /\ fund'.active = i /\ fund'.phase[i] = 1
              /\ \A j \in Pilot!Ids : j # i => fund'.phase[j] = fund.phase[j]
            BY <1>3, <2>0, <3>1 DEF FundOK, FundFields
        <3>3. \A j \in Pilot!Ids : fund.phase[j] \notin 1 .. 4
            BY <2>0, <3>1 DEF MoneyOK, Pilot!Ids
        <3>4. MoneyOK'
            BY <1>3, <2>0, <3>1, <3>2, <3>3 DEF MoneyOK, Pilot!Ids
        <3> QED
            BY <1>4, <1>6, <2>0, <2>1, <3>2, <3>4 DEF ProfitOK, PricesOK
    <2>2. CASE tx.call \in {"commit", "execute"}
        <3>1. /\ fund.active = i /\ fund.phase[i] \in {1, 2} /\ fund'.phase[i] \in {2, 3}
              /\ \A j \in Pilot!Ids : j # i => fund'.phase[j] = fund.phase[j]
              /\ fund'.cash = fund.cash /\ fund'.shares = fund.shares /\ fund'.highWater = fund.highWater
              /\ fund'.reserve = fund.reserve /\ fund'.fee = fund.fee /\ fund'.active = i
            <4>1. CASE tx.call = "commit"
                <5>1. fund.phase[i] = 1 /\ fund.active = i
                    BY <1>6, <4>1, Zenon DEF Pilot!Accepts, Pilot!Phases, Pilot!InPhase, i
                <5>2. fund' = [fund EXCEPT !.phase[i] = 2, !.root[i] = rounds[i].sealed, !.anchor[i] = minute]
                    BY <1>6, <4>1, Zenon DEF Pilot!Effects, Pilot!Phases, i
                <5> QED
                    BY <1>3, <2>0, <5>1, <5>2 DEF FundOK, FundFields
            <4>2. CASE tx.call = "execute"
                <5>1. fund.phase[i] = 2 /\ fund.active = i
                    BY <1>6, <4>2, Zenon DEF Pilot!Accepts, Pilot!Phases, Pilot!InPhase, i
                <5>2. fund' = [fund EXCEPT !.phase[i] = 3]
                    BY <1>6, <4>2, Zenon DEF Pilot!Effects, Pilot!Phases, i
                <5> QED
                    BY <1>3, <2>0, <5>1, <5>2 DEF FundOK, FundFields
            <4> QED
                BY <2>2, <4>1, <4>2
        <3>3. MoneyOK'
            BY <1>3, <2>0, <3>1 DEF MoneyOK, Pilot!Ids
        <3> QED
            BY <1>4, <1>6, <2>0, <2>2, <3>1, <3>3 DEF ProfitOK, PricesOK
    <2>3. CASE tx.call = "setMarks"
        <3>1. fund' = [fund EXCEPT !.observed = tx.at]
            BY <1>6, <2>3, Zenon DEF Pilot!Effects
        <3>2. /\ fund'.cash = fund.cash /\ fund'.shares = fund.shares /\ fund'.highWater = fund.highWater /\ fund'.reserve = fund.reserve
              /\ fund'.fee = fund.fee /\ fund'.active = fund.active /\ fund'.phase = fund.phase
            BY <2>0, <3>1 DEF FundOK, FundFields
        <3> QED
            BY <1>4, <1>6, <2>0, <2>3, <3>2 DEF ProfitOK, PricesOK, MoneyOK, Pilot!Ids
    <2>4. CASE tx.call = "closeEpoch"
        <3>1. fund.phase[i] = 3 /\ fund.active = i
            BY <1>6, <2>4, Zenon DEF Pilot!Accepts, Pilot!Phases, Pilot!InPhase, i
        <3>2. PICK r \in Pilot!Results : fund.cash + r >= 0 /\ fund' = Pilot!Closed(i, fund.cash + r)
            BY <1>6, <2>4, Zenon DEF Pilot!Effects, i
        <3>3. fund.cash + r \in Nat
            <4>1. r \in Int
                <5>1. CASE r \in Earnings
                    BY <5>1 DEF PilotTerms
                <5>2. CASE \E loss \in Losses : r = -loss
                    BY <5>2 DEF PilotTerms
                <5> QED
                    BY <5>1, <5>2 DEF Pilot!Results
            <4>2. fund.cash \in Nat
                BY <2>0 DEF MoneyOK
            <4> QED
                BY <3>2, <4>1, <4>2
        <3>4. MoneyOK' /\ fund'.highWater = fund.highWater
            BY <1>3, <2>0, <3>1, <3>2, <3>3, EpochClosed
        <3> QED
            BY <1>4, <1>6, <2>0, <2>4, <3>4 DEF ProfitOK, PricesOK
    <2>5. CASE tx.call = "payRewards"
        <3>1. fund.phase[i] = 4 /\ fund.active = i /\ tx.paid <= fund.fee[i]
            BY <1>6, <2>5, Zenon DEF Pilot!Accepts, Pilot!Phases, Pilot!InPhase, i
        <3>2. fund' = Pilot!PaidOut(i, tx.paid)
            BY <1>6, <2>5, Zenon DEF Pilot!Effects, i
        <3>3. tx.paid \in Nat
            BY <1>2 DEF tx
        <3>4. sharePrices' = Append(sharePrices, Pilot!PriceAfter(tx.paid))
            BY <1>6, <2>5
        <3>5. MoneyOK' /\ PricesOK'
            BY <1>3, <2>0, <3>1, <3>2, <3>3, <3>4, RewardsPaid
        <3> QED
            BY <1>4, <3>5 DEF ProfitOK
    <2>6. CASE tx.call = "cancelUnexecuted"
        <3>1. fund.active = i /\ fund.phase[i] \in {1, 2} /\ fund' = [fund EXCEPT !.phase[i] = 6, !.active = 0]
            BY <1>6, <2>6, Zenon DEF Pilot!Accepts, Pilot!Effects, Pilot!Phases, Pilot!InPhase, i
        <3>2. /\ fund'.cash = fund.cash /\ fund'.shares = fund.shares /\ fund'.highWater = fund.highWater /\ fund'.reserve = fund.reserve
              /\ fund'.fee = fund.fee /\ fund'.active = 0 /\ fund'.phase[i] = 6
              /\ \A j \in Pilot!Ids : j # i => fund'.phase[j] = fund.phase[j]
            BY <1>3, <2>0, <3>1 DEF FundOK, FundFields
        <3>3. MoneyOK'
            BY <1>3, <2>0, <3>1, <3>2 DEF MoneyOK, Pilot!Ids
        <3> QED
            BY <1>4, <1>6, <2>0, <2>6, <3>2, <3>3 DEF ProfitOK, PricesOK
    <2>7. tx.call \in {"openEpoch", "commit", "setMarks", "execute", "closeEpoch", "payRewards", "cancelUnexecuted"}
        BY <1>2 DEF RowOK, tx
    <2> QED
        BY <2>1, <2>2, <2>3, <2>4, <2>5, <2>6, <2>7
<1> QED
    BY <1>1, <1>5, <1>6 DEF tx

\* Money stays where it is.
LEMMA MoneyStays ==
    ASSUME ProfitOK, UNCHANGED sharePrices, fund'.cash = fund.cash, fund'.shares = fund.shares, fund'.highWater = fund.highWater,
           fund'.reserve = fund.reserve, fund'.fee = fund.fee, fund'.active = fund.active, fund'.phase = fund.phase
    PROVE  MoneyOK' /\ PricesOK'
BY DEF ProfitOK, MoneyOK, PricesOK, Pilot!Ids

\* Investors come and go while no epoch is active.
LEMMA InvestorsGo ==
    ASSUME PilotTerms, PilotOK, ProfitOK, Pilot!Deposit \/ Pilot!Redeem
    PROVE  ProfitOK'
<1>1. fund.active = 0 /\ UNCHANGED <<txs, sharePrices>>
    BY DEF Pilot!Deposit, Pilot!Redeem
<1>2. /\ fund.cash \in Nat /\ fund.shares \in Nat /\ fund.reserve = 0 /\ Pilot!Nav = fund.cash /\ Investment \in Nat /\ Investment > 0
    BY <1>1 DEF ProfitOK, MoneyOK, Pilot!Nav, PilotTerms
<1>3. PICK cash \in Nat, shares \in Nat : fund' = [fund EXCEPT !.shares = shares, !.cash = cash]
    <2>1. CASE Pilot!Deposit
        <3> DEFINE more == (Investment * (fund.shares + 1)) \div (Pilot!Nav + 1)
        <3>1. fund' = [fund EXCEPT !.shares = @ + more, !.cash = @ + Investment]
            BY <2>1, Zenon DEF Pilot!Deposit
        <3>2. more \in Nat
            <4>1. Investment * (fund.shares + 1) \in Nat /\ Pilot!Nav + 1 \in Nat /\ Pilot!Nav + 1 > 0
                BY <1>2
            <4> QED BY <4>1, Divided
        <3> HIDE DEF more
        <3>3. fund.shares + more \in Nat /\ fund.cash + Investment \in Nat
            BY <1>2, <3>2
        <3> QED
            BY <3>1, <3>3
    <2>2. CASE Pilot!Redeem
        <3> DEFINE half == fund.shares \div 2
        <3> DEFINE out == (half * (Pilot!Nav + 1)) \div (fund.shares + 1)
        <3>1. fund' = [fund EXCEPT !.shares = @ - half, !.cash = @ - out]
            BY <2>2, Zenon DEF Pilot!Redeem
        <3>2. half \in Nat /\ half <= fund.shares
            BY <1>2
        <3> HIDE DEF half
        <3>3. out \in 0 .. fund.cash
            BY <1>2, <3>2, LeavingPays
        <3> HIDE DEF out
        <3>4. fund.shares - half \in Nat /\ fund.cash - out \in Nat
            BY <1>2, <3>2, <3>3
        <3> QED
            BY <3>1, <3>4
    <2> QED
        BY <2>1, <2>2
<1>4. /\ fund'.cash = cash /\ fund'.shares = shares /\ fund'.highWater = fund.highWater
      /\ fund'.reserve = fund.reserve /\ fund'.fee = fund.fee /\ fund'.active = fund.active /\ fund'.phase = fund.phase
    BY <1>3 DEF PilotOK, FundOK, FundFields
<1>5. \A j \in Pilot!Ids : fund.phase[j] \notin 1 .. 4
    BY <1>1 DEF ProfitOK, MoneyOK, Pilot!Ids
<1>6. MoneyOK'
    <2>1. Pilot!Ids' = Pilot!Ids /\ \A j \in Pilot!Ids : fund'.phase[j] \notin 1 .. 4 /\ fund'.phase[j] # 4
        BY <1>4, <1>5 DEF Pilot!Ids
    <2> QED
        BY <1>1, <1>2, <1>4, <2>1 DEF ProfitOK, MoneyOK
<1> QED
    BY <1>1, <1>4, <1>6 DEF ProfitOK, PricesOK, PaidOK

\* What a command sends is not negative.
LEMMA CommandPays ==
    ASSUME PilotTerms, PilotOK, ProfitOK,
           \/ Pilot!OpenSend \/ Pilot!SealCommit \/ Pilot!ExecuteMarks \/ Pilot!ExecuteSend
           \/ Pilot!SettleMarks \/ Pilot!SettleClose \/ Pilot!SettlePay \/ Pilot!CancelSend
    PROVE  ProfitOK'
<1>1. UNCHANGED <<fund, sharePrices>>
    BY DEF Pilot!OpenSend, Pilot!SealCommit, Pilot!ExecuteMarks, Pilot!ExecuteSend,
                Pilot!SettleMarks, Pilot!SettleClose,
       Pilot!SettlePay, Pilot!CancelSend, Pilot!Remote
<1>2. command # Pilot!NoCommand /\ command.step # "plan"
    BY DEF Pilot!NoCommand, Pilot!OpenSend, Pilot!SealCommit, Pilot!ExecuteMarks, Pilot!ExecuteSend, Pilot!SettleMarks,
       Pilot!SettleClose, Pilot!SettlePay, Pilot!CancelSend, Pilot!Step, Pilot!Settling
<1>3. Pilot!Id \in Pilot!Ids
    <2>1. Len(rounds) > 0
        BY <1>2 DEF PilotOK, CommandOK
    <2> QED
        BY <2>1, LastRound DEF PilotOK, RoundsOK, Pilot!Ids, PilotTerms
<1>4. fund.fee[Pilot!Id] \in Nat
    BY <1>3 DEF ProfitOK, MoneyOK
<1>5. \E call, at, next : \E paid \in Nat : Pilot!Send(Pilot!Tx(call, at, paid), next)
    <2>1. CASE Pilot!SettlePay
        <3>1. PICK paid \in {0, fund.fee[Pilot!Id]} : Pilot!Send(Pilot!Tx("payRewards", Pilot!Boundary, paid), "save")
            BY <2>1, Zenon DEF Pilot!SettlePay
        <3>2. paid \in Nat
            BY <1>4, <3>1
        <3> QED
            BY <3>1, <3>2
    <2>2. CASE ~Pilot!SettlePay
        <3>1. \E call, at, next : Pilot!Send(Pilot!Tx(call, at, 0), next)
            BY <2>2, Zenon DEF Pilot!OpenSend, Pilot!SealCommit, Pilot!ExecuteMarks, Pilot!ExecuteSend,
                Pilot!SettleMarks, Pilot!SettleClose,
               Pilot!CancelSend
        <3> QED
            BY <3>1
    <2> QED
        BY <2>1, <2>2
<1>6. PICK call, at, next, paid : paid \in Nat /\ Pilot!Send(Pilot!Tx(call, at, paid), next)
    BY <1>5
<1>7. PaidOK'
    <2>1. CASE UNCHANGED txs
        BY <2>1 DEF ProfitOK, PaidOK
    <2>2. CASE txs' = Append(txs, [tx |-> Pilot!Tx(call, at, paid), status |-> "sent"])
        <3>1. PICK row : row = [tx |-> Pilot!Tx(call, at, paid), status |-> "sent"]
            OBVIOUS
        <3>2. row.tx.paid = paid
            BY <3>1 DEF Pilot!Tx
        <3>3. IsLog(txs) /\ txs' = Append(txs, row)
            BY <2>2, <3>1 DEF PilotOK, TxsOK
        <3>4. Len(txs) \in Nat /\ Len(txs') = Len(txs) + 1 /\ BeginsWith(txs, txs') /\ txs'[Len(txs')] = row
            BY <3>3, LogGrows
        <3>5. ASSUME NEW k \in 1 .. Len(txs') PROVE txs'[k].tx.paid \in Nat
            BY <1>6, <3>2, <3>4 DEF BeginsWith, ProfitOK, PaidOK
        <3> QED
            BY <3>5 DEF PaidOK
    <2> QED
        BY <1>6, <2>1, <2>2 DEF Pilot!Send
<1> QED
    BY <1>1, <1>7, MoneyStays DEF ProfitOK

\* The other steps move no money and send nothing.
LEMMA NothingPaid ==
    ASSUME ProfitOK,
           \/ Pilot!Tick \/ Pilot!Stop \/ (\E p \in Providers : Pilot!Submit(p))
           \/ Pilot!StartOpen \/ Pilot!StartSeal \/ Pilot!StartExecute \/ Pilot!StartSettle \/ Pilot!StartCancel
           \/ Pilot!OpenPlan \/ Pilot!Seal \/ Pilot!SealFinality \/ Pilot!ExecuteMarket \/ Pilot!ExecuteSave
           \/ Pilot!SettleMarket \/ Pilot!SettleSave \/ Pilot!CancelSave
    PROVE  ProfitOK'
<1>1. UNCHANGED <<fund, sharePrices, txs>>
    BY Zenon DEF Pilot!Tick, Pilot!Stop, Pilot!Submit, Pilot!StartOpen, Pilot!StartSeal, Pilot!StartExecute, Pilot!StartSettle,
       Pilot!StartCancel, Pilot!Begin, Pilot!OpenPlan, Pilot!Seal, Pilot!SealFinality, Pilot!ExecuteMarket, Pilot!ExecuteSave,
       Pilot!SettleMarket, Pilot!SettleSave, Pilot!CancelSave, Pilot!Local
<1> QED
    BY <1>1, MoneyStays DEF ProfitOK, PaidOK

\* A step of the pilot keeps the invariant.
LEMMA PilotGoesOn ==
    ASSUME PilotTerms, PilotOK, [Pilot!Next]_(Pilot!vars)
    PROVE  PilotOK'
<1>1. CASE UNCHANGED Pilot!vars
    <2>1. UNCHANGED <<minute, rounds, fund, txs, command>>
        BY <1>1 DEF Pilot!vars
    <2>2. minute' \in Int
        BY <2>1 DEF PilotOK, RoundsOK
    <2> QED
        BY <2>1, <2>2, FilesStay, CommandStays DEF PilotOK
<1>2. CASE Pilot!Next
    BY <1>2, NothingFiled, FundMined, SignalSubmitted, EpochPlanned, CommandSends, EpochSealed, OutcomeSaved DEF Pilot!Next
<1> QED
    BY <1>1, <1>2

\* What the fund trades on was fixed before the epoch began, and includes every signal a
\* receipt was given for; and the file never claims more than the fund did, whatever steps of
\* which commands were lost (PilotFund.sol, commitEpoch and execute; scripts/pilot.mjs).
THEOREM PilotsCommitInAdvance ==
    ASSUME PilotTerms
    PROVE  Pilot!Init /\ [][Pilot!Next]_(Pilot!vars) => []Pilot!CommittedInAdvance
<1>1. Pilot!Init => PilotOK
    BY PilotStart
<1>2. PilotOK /\ [Pilot!Next]_(Pilot!vars) => PilotOK'
    BY PilotGoesOn
<1>3. PilotOK => Pilot!CommittedInAdvance
    <2> SUFFICES ASSUME PilotOK, NEW i \in DOMAIN rounds
                 PROVE  LET e == rounds[i]
                            phase == fund.phase[i]
                        IN  /\ phase \in Pilot!Phases.executed .. Pilot!Phases.paid =>
                                  fund.anchor[i] < e.startAt /\ fund.root[i] = e.receipts
                            /\ e.final => phase >= Pilot!Phases.committed
                            /\ e.status = "EXECUTED" => phase \in Pilot!Phases.executed .. Pilot!Phases.paid
                            /\ e.status = "SETTLED" => phase = Pilot!Phases.paid
                            /\ e.status = "CANCELLED" => phase = Pilot!Phases.cancelled
        BY Zenon DEF Pilot!CommittedInAdvance
    <2>1. /\ Pilot!Phases.committed = 2 /\ Pilot!Phases.executed = 3 /\ Pilot!Phases.paid = 5 /\ Pilot!Phases.cancelled = 6
        BY DEF Pilot!Phases
    <2>2. i \in 1 .. Len(rounds)
        BY LastRound DEF PilotOK
    <2>3. /\ RoundOK(rounds[i]) /\ ClaimsOK(rounds[i], fund.phase[i])
          /\ CommittedTo(rounds[i], fund.phase[i], fund.root[i], fund.anchor[i])
        BY <2>2 DEF PilotOK, RoundsOK, FundOK
    <2> QED
        BY <2>1, <2>3 DEF ClaimsOK, CommittedTo, Reached
<1> QED
    BY <1>1, <1>2, <1>3, PTL

\* Rewards are for new profit: a fee pool only fills when the fund's shares are worth more than
\* at the start and every settlement before, and investors never sink below such a price by it
\* (PilotFund.sol, closeEpoch and payRewards).
THEOREM PilotsRewardNewProfit ==
    ASSUME PilotTerms
    PROVE  Pilot!Init /\ [][Pilot!Next]_(Pilot!vars) => []Pilot!LossesFirst
<1>1. Pilot!Init => PilotOK /\ ProfitOK
    <2> SUFFICES ASSUME Pilot!Init PROVE ProfitOK
        BY PilotStart
    <2>1. /\ txs = <<>> /\ sharePrices = <<PilotScale>>
          /\ fund.cash = 0 /\ fund.shares = 0 /\ fund.highWater = PilotScale /\ fund.reserve = 0 /\ fund.active = 0
          /\ fund.fee = [i \in Pilot!Ids |-> 0] /\ fund.phase = [i \in Pilot!Ids |-> 0]
        BY DEF Pilot!Init
    <2>2. MoneyOK
        BY <2>1 DEF MoneyOK, PilotTerms, Pilot!Ids
    <2>3. <<PilotScale>> \in Seq({PilotScale}) /\ Len(<<PilotScale>>) = 1 /\ <<PilotScale>>[1] = PilotScale
        OBVIOUS
    <2>4. PricesOK
        <3>1. IsLog(sharePrices) /\ Len(sharePrices) = 1 /\ sharePrices[1] = PilotScale
            BY <2>1, <2>3, Zenon DEF IsLog
        <3>2. PilotScale \in Nat /\ PilotScale <= fund.highWater
            BY <2>1 DEF PilotTerms
        <3>3. \A k \in 1 .. Len(sharePrices) : k = 1
            BY <3>1
        <3> QED
            BY <3>1, <3>2, <3>3 DEF PricesOK
    <2>5. PaidOK
        BY <2>1 DEF PaidOK
    <2> QED
        BY <2>2, <2>4, <2>5 DEF ProfitOK
<1>2. PilotOK /\ ProfitOK /\ [Pilot!Next]_(Pilot!vars) => PilotOK' /\ ProfitOK'
    <2> SUFFICES ASSUME PilotOK, ProfitOK, [Pilot!Next]_(Pilot!vars)
                 PROVE  ProfitOK'
        BY PilotGoesOn
    <2>1. CASE UNCHANGED Pilot!vars
        BY <2>1, MoneyStays DEF Pilot!vars, ProfitOK, PaidOK
    <2>2. CASE Pilot!Next
        BY <2>2, InvestorsGo, CommandPays, MoneyMined, NothingPaid DEF Pilot!Next
    <2> QED
        BY <2>1, <2>2
<1>3. PilotOK /\ ProfitOK => Pilot!LossesFirst
    <2> SUFFICES ASSUME PilotOK, ProfitOK, NEW i \in DOMAIN rounds, fund.phase[i] = Pilot!Phases.closed, fund.fee[i] > 0,
                        NEW k \in DOMAIN sharePrices
                 PROVE  (fund.cash - fund.fee[i]) * PilotScale >= fund.shares * sharePrices[k]
        BY DEF Pilot!LossesFirst
    <2>1. i \in Pilot!Ids /\ fund.phase[i] = 4
        BY LastRound DEF Pilot!Phases, PilotOK, RoundsOK, Pilot!Ids, PilotTerms
    <2>2. (fund.cash - fund.fee[i]) * PilotScale >= fund.shares * fund.highWater
        BY <2>1 DEF ProfitOK, MoneyOK
    <2>3. sharePrices[k] \in Nat /\ sharePrices[k] <= fund.highWater
        BY DEF ProfitOK, PricesOK, IsLog
    <2>4. sharePrices[k] * fund.shares <= fund.highWater * fund.shares
        BY <2>3, ProductGrows DEF ProfitOK, MoneyOK
    <2>5. /\ fund.highWater \in Nat /\ fund.shares \in Nat /\ fund.cash \in Nat /\ fund.fee[i] \in Nat /\ PilotScale \in Nat
        BY <2>1 DEF ProfitOK, MoneyOK, PilotTerms
    <2> QED
        BY <2>2, <2>3, <2>4, <2>5
<1> QED
    BY <1>1, <1>2, <1>3, PTL

-------------------------------------------------------------------------------
(* The paper fund. *)

PaperFields == {"workspace", "now", "providers", "epochs", "book", "shadows"}
EpochFields == {"status", "cutoff", "start", "end", "weights", "signals", "root", "begin", "previous", "rows", "pnl"}

\* What was frozen is what was submitted, and nothing is submitted any more.
SealedOK(e) ==
    /\ DOMAIN e = EpochFields
    /\ e.root # Paper!NoRoot => /\ e.status # "open"
                                /\ \A p \in DOMAIN e.signals : p \in DOMAIN e.weights => e.root[p] = e.signals[p]
EpochsOK(epochs) == IsLog(epochs) /\ \A i \in 1 .. Len(epochs) : SealedOK(epochs[i])

\* A signal that was accepted stays, and is of the epoch's roster.
ReceiptOK(r, epochs) ==
    /\ r.epoch \in 1 .. Len(epochs)
    /\ r.provider \in DOMAIN epochs[r.epoch].weights /\ r.provider \in DOMAIN epochs[r.epoch].signals
    /\ epochs[r.epoch].signals[r.provider] = r.signal
PaperOK == DOMAIN paper = PaperFields /\ EpochsOK(paper.epochs) /\ \A r \in receipts : ReceiptOK(r, paper.epochs)

\* One list of epochs goes on as another.
GoesOn(e, f) ==
    /\ SealedOK(f) /\ f.weights = e.weights
    /\ \A p \in DOMAIN e.signals : p \in DOMAIN f.signals /\ f.signals[p] = e.signals[p]
Continue(before, after) ==
    /\ IsLog(after) /\ Len(before) \in Nat /\ Len(after) \in Nat /\ Len(before) <= Len(after)
    /\ \A i \in 1 .. Len(before) : GoesOn(before[i], after[i])

\* Receipts stay good.
LEMMA ReceiptsStay ==
    ASSUME NEW before, NEW after, Continue(before, after), NEW r, ReceiptOK(r, before)
    PROVE  ReceiptOK(r, after)
BY DEF Continue, ReceiptOK, GoesOn

\* The frozen epoch has what was submitted.
LEMMA FrozenEpoch ==
    ASSUME NEW e, SealedOK(e), NEW f, f = Paper!Frozen(e)
    PROVE  /\ DOMAIN f = EpochFields /\ f.weights = e.weights /\ f.signals = e.signals
           /\ \A p \in DOMAIN f.signals : p \in DOMAIN f.weights => f.root[p] = f.signals[p]
<1>1. PICK root : root = [p \in DOMAIN e.weights |-> IF p \in DOMAIN e.signals THEN e.signals[p] ELSE Paper!Missed]
    OBVIOUS
<1>2. f = [e EXCEPT !.root = root]
    BY <1>1, Zenon DEF Paper!Frozen
<1>3. /\ DOMAIN f = EpochFields /\ f.weights = e.weights /\ f.signals = e.signals /\ f.root = root
    BY <1>2 DEF SealedOK, EpochFields
<1> QED
    BY <1>1, <1>3

\* An epoch nobody sealed in time.
LEMMA EpochsExpire ==
    ASSUME NEW s, DOMAIN s = PaperFields, EpochsOK(s.epochs), NEW t, t = Paper!Expired(s)
    PROVE  DOMAIN t = PaperFields /\ EpochsOK(t.epochs) /\ Continue(s.epochs, t.epochs) /\ Len(t.epochs) = Len(s.epochs)
<1> DEFINE after(i) == IF s.epochs[i].status = "open" /\ s.now >= s.epochs[i].end
                       THEN [Paper!Frozen(s.epochs[i]) EXCEPT !.status = "expired"] ELSE s.epochs[i]
<1>1. PICK list : list = [i \in DOMAIN s.epochs |-> after(i)]
    OBVIOUS
<1>2. t = [s EXCEPT !.epochs = list]
    BY <1>1, Zenon DEF Paper!Expired
<1>3. DOMAIN t = PaperFields /\ t.epochs = list
    BY <1>2 DEF PaperFields
<1>4. IsLog(s.epochs) /\ DOMAIN s.epochs = 1 .. Len(s.epochs) /\ Len(s.epochs) \in Nat
    BY DEF EpochsOK, IsLog
<1>5. ASSUME NEW i \in 1 .. Len(s.epochs) PROVE SealedOK(after(i)) /\ GoesOn(s.epochs[i], after(i))
    <2>1. SealedOK(s.epochs[i])
        BY DEF EpochsOK
    <2>2. CASE s.epochs[i].status = "open" /\ s.now >= s.epochs[i].end
        <3>1. PICK f : f = Paper!Frozen(s.epochs[i])
            OBVIOUS
        <3>2. /\ DOMAIN f = EpochFields /\ f.weights = s.epochs[i].weights /\ f.signals = s.epochs[i].signals
              /\ \A p \in DOMAIN f.signals : p \in DOMAIN f.weights => f.root[p] = f.signals[p]
            BY <2>1, <3>1, FrozenEpoch
        <3>3. PICK g : g = [f EXCEPT !.status = "expired"]
            OBVIOUS
        <3>4. after(i) = g
            BY <2>2, <3>1, <3>3
        <3>5. DOMAIN g = EpochFields /\ g.status = "expired" /\ g.weights = f.weights /\ g.signals = f.signals /\ g.root = f.root
            BY <3>2, <3>3 DEF EpochFields
        <3>6. SealedOK(g) /\ GoesOn(s.epochs[i], g)
            BY <3>2, <3>5 DEF SealedOK, GoesOn
        <3> HIDE DEF after
        <3> QED BY <3>4, <3>6
    <2>3. CASE ~(s.epochs[i].status = "open" /\ s.now >= s.epochs[i].end)
        BY <2>1, <2>3 DEF GoesOn
    <2> QED BY <2>2, <2>3
<1> HIDE DEF after
<1>6. list \in Seq({after(i) : i \in 1 .. Len(s.epochs)}) /\ Len(list) = Len(s.epochs) /\ \A i \in 1 .. Len(s.epochs) : list[i] = after(i)
    BY <1>1, <1>4
<1>7. IsLog(list)
    BY <1>6 DEF IsLog
<1>8. \A i \in 1 .. Len(s.epochs) : SealedOK(list[i]) /\ GoesOn(s.epochs[i], list[i])
    BY <1>5, <1>6
<1> QED
    BY <1>3, <1>4, <1>6, <1>7, <1>8 DEF EpochsOK, Continue

\* One epoch goes on.
LEMMA EpochGoesOn ==
    ASSUME NEW epochs, EpochsOK(epochs), NEW i \in DOMAIN epochs, NEW f, GoesOn(epochs[i], f), NEW after,
           after = [epochs EXCEPT ![i] = f]
    PROVE  EpochsOK(after) /\ Continue(epochs, after) /\ Len(after) = Len(epochs) /\ after[i] = f
<1>1. PICK S : epochs \in Seq(S)
    BY DEF EpochsOK, IsLog
<1>2. /\ after \in Seq(S \cup {f}) /\ Len(after) = Len(epochs) /\ Len(epochs) \in Nat /\ DOMAIN epochs = 1 .. Len(epochs)
      /\ after[i] = f /\ \A j \in 1 .. Len(epochs) : j # i => after[j] = epochs[j]
    BY <1>1
<1>3. \A j \in 1 .. Len(epochs) : GoesOn(epochs[j], after[j])
    BY <1>2 DEF GoesOn, EpochsOK
<1>4. \A j \in 1 .. Len(epochs) : SealedOK(after[j])
    BY <1>3 DEF GoesOn
<1> QED
    BY <1>2, <1>3, <1>4 DEF EpochsOK, Continue, IsLog

\* The list as it is.
LEMMA EpochsStay == ASSUME NEW epochs, EpochsOK(epochs) PROVE Continue(epochs, epochs)
BY DEF EpochsOK, IsLog, Continue, GoesOn

\* A signal is accepted.
LEMMA SignalAccepted ==
    ASSUME PaperOK, NEW i \in Paper!Epochs, NEW p, NEW v, Paper!Submit(i, p, v)
    PROVE  PaperOK'
<1> DEFINE e == paper.epochs[i]
<1>1. p \in DOMAIN e.weights /\ Paper!Acceptable(e, p, v) /\ receipts' = receipts \cup {[epoch |-> i, provider |-> p, signal |-> v]}
    BY DEF Paper!Submit
<1>2. PICK offered : offered = [q \in DOMAIN e.signals \cup {p} |-> IF q = p THEN v ELSE e.signals[q]]
    OBVIOUS
<1>3. PICK f : f = [e EXCEPT !.signals = offered]
    OBVIOUS
<1>4. PICK list : list = [paper.epochs EXCEPT ![i] = f]
    OBVIOUS
<1>5. paper' = [paper EXCEPT !.epochs = list]
    BY <1>2, <1>3, <1>4, Zenon DEF Paper!Submit
<1>6. DOMAIN paper' = PaperFields /\ paper'.epochs = list
    BY <1>5 DEF PaperOK, PaperFields
<1>7. SealedOK(e) /\ i \in 1 .. Len(paper.epochs) /\ DOMAIN paper.epochs = 1 .. Len(paper.epochs)
    BY DEF PaperOK, EpochsOK, IsLog, Paper!Epochs
<1>8. DOMAIN f = EpochFields /\ f.weights = e.weights /\ f.signals = offered /\ f.root = e.root /\ f.status = e.status
    BY <1>3, <1>7 DEF SealedOK, EpochFields
<1>9. \A q \in DOMAIN e.signals : q \in DOMAIN offered /\ offered[q] = e.signals[q]
    BY <1>1, <1>2 DEF Paper!Acceptable
<1>10. SealedOK(f)
    <2>1. SUFFICES ASSUME f.root # Paper!NoRoot
                   PROVE  f.status # "open" /\ \A q \in DOMAIN f.signals : q \in DOMAIN f.weights => f.root[q] = f.signals[q]
        BY <1>8 DEF SealedOK
    <2>2. e.status # "open" /\ \A q \in DOMAIN e.signals : q \in DOMAIN e.weights => e.root[q] = e.signals[q]
        BY <1>7, <1>8, <2>1 DEF SealedOK
    <2>3. p \in DOMAIN e.signals
        BY <1>1, <2>2 DEF Paper!Acceptable
    <2> QED
        BY <1>2, <1>8, <1>9, <2>2, <2>3
<1>11. GoesOn(e, f)
    BY <1>8, <1>9, <1>10 DEF GoesOn
<1>12. EpochsOK(list) /\ Continue(paper.epochs, list) /\ Len(list) = Len(paper.epochs) /\ list[i] = f
    BY <1>4, <1>7, <1>11, EpochGoesOn DEF PaperOK
<1>13. ReceiptOK([epoch |-> i, provider |-> p, signal |-> v], list)
    BY <1>1, <1>2, <1>7, <1>8, <1>12 DEF ReceiptOK
<1> QED
    BY <1>1, <1>6, <1>12, <1>13, ReceiptsStay DEF PaperOK

\* A step that leaves the receipts, and goes on with the epochs.
LEMMA PaperGoesOn ==
    ASSUME PaperOK, UNCHANGED receipts, DOMAIN paper' = PaperFields, EpochsOK(paper'.epochs), Continue(paper.epochs, paper'.epochs)
    PROVE  PaperOK'
BY ReceiptsStay DEF PaperOK

\* A list goes on, and then on.
LEMMA GoesOnAgain ==
    ASSUME NEW a, NEW b, NEW c, Continue(a, b), Continue(b, c)
    PROVE  Continue(a, c)
BY DEF Continue, GoesOn

\* An epoch begins.
LEMMA EpochBegins ==
    ASSUME PaperOK, NEW window, Paper!CreateEpoch(window)
    PROVE  PaperOK'
<1>1. PICK s : s = Paper!Expired(paper)
    OBVIOUS
<1>2. DOMAIN s = PaperFields /\ EpochsOK(s.epochs) /\ Continue(paper.epochs, s.epochs)
    BY <1>1, EpochsExpire DEF PaperOK
<1>3. PICK e : /\ DOMAIN e = EpochFields /\ e.root = Paper!NoRoot /\ paper' = [s EXCEPT !.epochs = Append(s.epochs, e)]
    BY <1>1 DEF Paper!CreateEpoch, EpochFields
<1>4. PICK list : list = Append(s.epochs, e)
    OBVIOUS
<1>5. DOMAIN paper' = PaperFields /\ paper'.epochs = list
    BY <1>2, <1>3, <1>4 DEF PaperFields
<1>6. IsLog(s.epochs)
    BY <1>2 DEF EpochsOK
<1>7. IsLog(list) /\ Len(s.epochs) \in Nat /\ Len(list) = Len(s.epochs) + 1 /\ BeginsWith(s.epochs, list) /\ list[Len(list)] = e
    BY <1>4, <1>6, LogGrows
<1>8. SealedOK(e)
    BY <1>3 DEF SealedOK
<1>9. EpochsOK(list)
    BY <1>2, <1>7, <1>8 DEF EpochsOK, BeginsWith
<1>10. Continue(s.epochs, list)
    BY <1>2, <1>7 DEF Continue, GoesOn, EpochsOK, BeginsWith
<1>11. Continue(paper.epochs, list)
    BY <1>2, <1>10, GoesOnAgain
<1>12. UNCHANGED receipts
    BY DEF Paper!CreateEpoch
<1> QED
    BY <1>5, <1>9, <1>11, <1>12, PaperGoesOn

\* An epoch is frozen.
LEMMA FrozenGoesOn ==
    ASSUME NEW e, SealedOK(e), NEW f, DOMAIN f = EpochFields, f.weights = e.weights, f.signals = e.signals,
           f.status # "open", f.root = Paper!Frozen(e).root
    PROVE  GoesOn(e, f)
<1>1. PICK g : g = Paper!Frozen(e)
    OBVIOUS
<1>2. g.weights = e.weights /\ g.signals = e.signals /\ \A p \in DOMAIN g.signals : p \in DOMAIN g.weights => g.root[p] = g.signals[p]
    BY <1>1, FrozenEpoch
<1> QED
    BY <1>1, <1>2 DEF SealedOK, GoesOn

\* An epoch is sealed.
LEMMA PaperSealed ==
    ASSUME PaperOK, NEW i \in Paper!Epochs, NEW prices, Paper!Seal(i, prices)
    PROVE  PaperOK'
<1>1. PICK s : s = [paper EXCEPT !.now = IF Paper!Demo THEN Paper!Most(paper.now, paper.epochs[i].cutoff) ELSE paper.now]
    OBVIOUS
<1>2. DOMAIN s = PaperFields /\ s.epochs = paper.epochs
    BY <1>1 DEF PaperOK, PaperFields
<1>3. SealedOK(paper.epochs[i]) /\ i \in DOMAIN paper.epochs /\ EpochsOK(paper.epochs) /\ UNCHANGED receipts
    BY DEF PaperOK, EpochsOK, IsLog, Paper!Epochs, Paper!Seal
<1>4. PICK g : g = Paper!Frozen(paper.epochs[i])
    OBVIOUS
<1>5. DOMAIN g = EpochFields /\ g.weights = paper.epochs[i].weights /\ g.signals = paper.epochs[i].signals
    BY <1>3, <1>4, FrozenEpoch
<1>6. PICK capital : capital = Paper!Carried(s.book, prices)
    OBVIOUS
<1>7. PICK f : f = [g EXCEPT !.status = "awaiting", !.start = s.now, !.begin = prices,
                             !.previous = [nav |-> capital.nav, peak |-> capital.peak, worst |-> capital.worst, weights |-> capital.weights]]
    OBVIOUS
<1>8. DOMAIN f = EpochFields /\ f.weights = g.weights /\ f.signals = g.signals /\ f.root = g.root /\ f.status = "awaiting"
    BY <1>5, <1>7 DEF EpochFields
<1>9. GoesOn(paper.epochs[i], f)
    BY <1>3, <1>4, <1>5, <1>8, FrozenGoesOn
<1>10. PICK list : list = [paper.epochs EXCEPT ![i] = f]
    OBVIOUS
<1>11. EpochsOK(list) /\ Continue(paper.epochs, list)
    BY <1>3, <1>9, <1>10, EpochGoesOn
<1>12. paper' = Paper!Expired(s) \/ (DOMAIN paper' = PaperFields /\ paper'.epochs = list)
    <2>1. CASE s.now >= s.epochs[i].end
        BY <1>1, <2>1, Zenon DEF Paper!Seal
    <2>2. CASE ~(s.now >= s.epochs[i].end)
        <3>1. /\ DOMAIN paper' = DOMAIN s
              /\ paper'.epochs = [s.epochs EXCEPT ![i] = [Paper!Frozen(s.epochs[i]) EXCEPT
                    !.status = "awaiting", !.start = s.now, !.begin = prices,
                    !.previous = [nav |-> capital.nav, peak |-> capital.peak, worst |-> capital.worst, weights |-> capital.weights]]]
            BY <1>1, <1>2, <1>6, <2>2 DEF Paper!Seal, PaperFields
        <3> QED
            BY <1>2, <1>4, <1>7, <1>10, <3>1, Zenon
    <2> QED BY <2>1, <2>2
<1>13. CASE paper' = Paper!Expired(s)
    <2>1. DOMAIN paper' = PaperFields /\ EpochsOK(paper'.epochs) /\ Continue(s.epochs, paper'.epochs)
        BY <1>2, <1>3, <1>13, EpochsExpire
    <2> QED
        BY <1>2, <1>3, <2>1, PaperGoesOn
<1>14. CASE DOMAIN paper' = PaperFields /\ paper'.epochs = list
    BY <1>3, <1>11, <1>14, PaperGoesOn
<1> QED
    BY <1>12, <1>13, <1>14

\* An epoch is evaluated.
LEMMA PaperEvaluated ==
    ASSUME PaperOK, NEW i \in Paper!Epochs, NEW prices, Paper!Evaluate(i, prices)
    PROVE  PaperOK'
<1>1. /\ SealedOK(paper.epochs[i]) /\ i \in DOMAIN paper.epochs /\ EpochsOK(paper.epochs)
      /\ UNCHANGED receipts /\ paper.epochs[i].status = "awaiting"
    BY DEF PaperOK, EpochsOK, IsLog, Paper!Epochs, Paper!Evaluate
<1>2. PICK at, real, rows : paper' = Paper!Evaluated(at, i, prices, real, rows)
    BY Zenon DEF Paper!Evaluate
<1>3. PICK f : f = Paper!Rated(paper.epochs[i], real, rows)
    OBVIOUS
<1>4. PICK new : f = [paper.epochs[i] EXCEPT !.status = "evaluated", !.pnl = real.pnl, !.rows = new]
    BY <1>3, Zenon DEF Paper!Rated
<1>5. /\ DOMAIN f = EpochFields /\ f.weights = paper.epochs[i].weights /\ f.signals = paper.epochs[i].signals
      /\ f.root = paper.epochs[i].root /\ f.status = "evaluated"
    BY <1>1, <1>4 DEF SealedOK, EpochFields
<1>6. GoesOn(paper.epochs[i], f)
    BY <1>1, <1>5 DEF SealedOK, GoesOn
<1>7. PICK list : list = [paper.epochs EXCEPT ![i] = f]
    OBVIOUS
<1>8. EpochsOK(list) /\ Continue(paper.epochs, list)
    BY <1>1, <1>6, <1>7, EpochGoesOn
<1>9. DOMAIN paper' = PaperFields /\ paper'.epochs = list
    BY <1>2, <1>3, <1>7 DEF Paper!Evaluated, PaperOK, PaperFields
<1> QED
    BY <1>1, <1>8, <1>9, PaperGoesOn

\* Capital moves between epochs.
LEMMA CapitalMoves ==
    ASSUME PaperOK, NEW r, NEW sign, NEW amount, NEW shares, Paper!Flow(r, sign, amount, shares)
    PROVE  PaperOK'
<1>1. PICK s : s = Paper!Expired(paper)
    OBVIOUS
<1>2. DOMAIN s = PaperFields /\ EpochsOK(s.epochs) /\ Continue(paper.epochs, s.epochs)
    BY <1>1, EpochsExpire DEF PaperOK
<1>3. PICK capital : paper' = [s EXCEPT !.book = capital]
    BY <1>1, Zenon DEF Paper!Flow
<1>4. DOMAIN paper' = PaperFields /\ paper'.epochs = s.epochs
    BY <1>2, <1>3 DEF PaperFields
<1>5. UNCHANGED receipts
    BY DEF Paper!Flow
<1> QED
    BY <1>2, <1>4, <1>5, PaperGoesOn

\* What has nothing to do with the epochs' signals.
LEMMA PaperWaits ==
    ASSUME PaperOK, Paper!Read \/ Paper!Tick \/ \E p \in Raters : Paper!Register(p)
    PROVE  PaperOK'
<1>1. CASE Paper!Read
    <2>1. paper' = Paper!Expired(paper) /\ UNCHANGED receipts
        BY <1>1 DEF Paper!Read
    <2>2. DOMAIN paper' = PaperFields /\ EpochsOK(paper'.epochs) /\ Continue(paper.epochs, paper'.epochs)
        BY <2>1, EpochsExpire DEF PaperOK
    <2> QED
        BY <2>1, <2>2, PaperGoesOn
<1>2. CASE Paper!Tick
    BY <1>2, EpochsStay, PaperGoesOn DEF Paper!Tick, PaperOK, PaperFields
<1>3. CASE \E p \in Raters : Paper!Register(p)
    BY <1>3, EpochsStay, PaperGoesOn DEF Paper!Register, PaperOK, PaperFields
<1> QED
    BY <1>1, <1>2, <1>3

\* The workspace at its start.
LEMMA PaperStart == ASSUME Paper!Init PROVE PaperOK
<1>1. DOMAIN paper = PaperFields /\ paper.epochs = <<>> /\ receipts = {}
    BY DEF Paper!Init, PaperFields
<1>2. IsLog(<<>>) /\ Len(<<>>) = 0
    BY DEF IsLog
<1> QED
    BY <1>1, <1>2 DEF PaperOK, EpochsOK

\* Every step of the workspace.
LEMMA PaperStep == ASSUME PaperOK, [Paper!Next]_(Paper!vars) PROVE PaperOK'
<1>1. CASE \E p \in Raters : Paper!Register(p) \/ \E i \in Paper!Epochs, v \in Predictions : Paper!Submit(i, p, v)
    BY <1>1, PaperWaits, SignalAccepted
<1>2. CASE \E w \in Windows : Paper!CreateEpoch(w)
    BY <1>2, EpochBegins
<1>3. CASE \E i \in Paper!Epochs, prices \in Quotes : Paper!Seal(i, prices) \/ Paper!Evaluate(i, prices)
    BY <1>3, PaperSealed, PaperEvaluated
<1>4. CASE \E r \in Transfers : Paper!Deposit(r) \/ Paper!Withdraw(r)
    <2>1. \E r, sign, amount, shares : Paper!Flow(r, sign, amount, shares)
        BY <1>4, Zenon DEF Paper!Deposit, Paper!Withdraw
    <2> QED BY <2>1, CapitalMoves
<1>5. CASE Paper!Read \/ Paper!Tick
    BY <1>5, PaperWaits
<1>6. CASE UNCHANGED Paper!vars
    BY <1>6 DEF Paper!vars, PaperOK
<1> QED
    BY <1>1, <1>2, <1>3, <1>4, <1>5, <1>6, Zenon DEF Paper!Next

\* The invariant gives the property.
LEMMA PaperGives == ASSUME PaperOK PROVE Paper!ReceiptsAreSealed
BY DEF PaperOK, ReceiptOK, EpochsOK, SealedOK, Paper!ReceiptsAreSealed

\* What a provider was given a receipt for is what is sealed and rated for it: never a signal that
\* was replaced or came too late (service.js, submit, seal and freezeRoot).
THEOREM ReceiptsStaySealed == Paper!Init /\ [][Paper!Next]_(Paper!vars) => []Paper!ReceiptsAreSealed
BY PaperStart, PaperStep, PaperGives, PTL

-------------------------------------------------------------------------------
(* Each part in the composition. *)

\* A behaviour of the composition is one of its part, whatever the others are.
LEMMA PartIsTheSame ==
    ASSUME [ProtocolNext]_<<part, protocolVars>>
    PROVE  part' = part
BY DEF ProtocolNext

\* A behaviour of a cohort in the composition is one of its specification.
LEMMA CohortAlone ==
    ASSUME CohortTerms
    PROVE  ProtocolSpec => [](part = "cohort" => Cohort!ClosingOnlyReduces)
<1>1. ProtocolInit => (part = "cohort" => Cohort!Init)
    BY DEF ProtocolInit, InitCohort
<1>2. [ProtocolNext]_<<part, protocolVars>> => (part = "cohort" => [Cohort!Next]_(Cohort!vars))
    BY DEF ProtocolNext, protocolVars, cohortVars, Cohort!vars
<1>3. [ProtocolNext]_<<part, protocolVars>> => ((part = "cohort") <=> (part = "cohort")')
    BY PartIsTheSame
<1>4. Cohort!Init /\ [][Cohort!Next]_(Cohort!vars) => [](Cohort!ClosingOnlyReduces)
    BY ClosingCohortsOnlyReduce, PTL DEF Cohort!Spec
<1> QED
    BY <1>1, <1>2, <1>3, <1>4, PTL DEF ProtocolSpec

\* A behaviour of the confidential vault in the composition is one of its specification.
LEMMA ConfidentialAlone ==
    ASSUME ApprovalTerms
    PROVE  ProtocolSpec => [](part = "confidential" => Confidential!ExecutedIsKnown)
<1>1. ProtocolInit => (part = "confidential" => Confidential!Init)
    BY DEF ProtocolInit, InitConfidential
<1>2. [ProtocolNext]_<<part, protocolVars>> => (part = "confidential" => [Confidential!Next]_(Confidential!vars))
    BY DEF ProtocolNext, protocolVars, confidentialVars, Confidential!vars
<1>3. [ProtocolNext]_<<part, protocolVars>> => ((part = "confidential") <=> (part = "confidential")')
    BY PartIsTheSame
<1>4. Confidential!Init /\ [][Confidential!Next]_(Confidential!vars) => [](Confidential!ExecutedIsKnown)
    BY ApprovedIsKnown
<1> QED
    BY <1>1, <1>2, <1>3, <1>4, PTL DEF ProtocolSpec

\* A behaviour of the pilot in the composition is one of its specification.
LEMMA PilotAlone ==
    ASSUME PilotTerms
    PROVE  ProtocolSpec => [](part = "pilot" => Pilot!CommittedInAdvance /\ Pilot!LossesFirst)
<1>1. ProtocolInit => (part = "pilot" => Pilot!Init)
    BY DEF ProtocolInit, InitPilot
<1>2. [ProtocolNext]_<<part, protocolVars>> => (part = "pilot" => [Pilot!Next]_(Pilot!vars))
    BY DEF ProtocolNext, protocolVars, pilotVars, Pilot!vars
<1>3. [ProtocolNext]_<<part, protocolVars>> => ((part = "pilot") <=> (part = "pilot")')
    BY PartIsTheSame
<1>4. Pilot!Init /\ [][Pilot!Next]_(Pilot!vars) => [](Pilot!CommittedInAdvance /\ Pilot!LossesFirst)
    BY PilotsCommitInAdvance, PilotsRewardNewProfit, PTL
<1> QED
    BY <1>1, <1>2, <1>3, <1>4, PTL DEF ProtocolSpec

\* A behaviour of the paper fund in the composition is one of its specification.
LEMMA PaperAlone ==
    ProtocolSpec => [](part = "paper" => Paper!ReceiptsAreSealed)
<1>1. ProtocolInit => (part = "paper" => Paper!Init)
    BY DEF ProtocolInit, InitPaper
<1>2. [ProtocolNext]_<<part, protocolVars>> => (part = "paper" => [Paper!Next]_(Paper!vars))
    BY DEF ProtocolNext, protocolVars, paperVars, Paper!vars
<1>3. [ProtocolNext]_<<part, protocolVars>> => ((part = "paper") <=> (part = "paper")')
    BY PartIsTheSame
<1>4. Paper!Init /\ [][Paper!Next]_(Paper!vars) => [](Paper!ReceiptsAreSealed)
    BY ReceiptsStaySealed
<1> QED
    BY <1>1, <1>2, <1>3, <1>4, PTL DEF ProtocolSpec

\* What is done is what was decided before: the confidential vault carries out what its
\* coordinator holds, a cohort that closes only reduces, the pilot trades on what was committed
\* to before and rewards new profit only, and a paper receipt is for the signal that was sealed
\* (coordinator.js, recover; PerplCohortVault.sol, execute; PilotFund.sol, execute and
\* closeEpoch; service.js, submit).
THEOREM CommitmentsAreKept ==
    ASSUME ApprovalTerms, CohortTerms, PilotTerms
    PROVE  ProtocolSpec => []DoneAsCommitted
BY ConfidentialAlone, CohortAlone, PilotAlone, PaperAlone, PTL DEF DoneAsCommitted

===============================================================================
