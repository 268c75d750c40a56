------------------------- MODULE LedgerCheckpointProofs -------------------------
(***************************************************************************)
(* Proofs about the ledger's checkpoints, for any books, bounds and number *)
(* of crashes, failed proofs and unanswered transactions.                  *)
(*                                                                         *)
(* The argument: only one page is ever open, it is saved before anybody    *)
(* proves it, and it continues the ledger's root (PageOK), so the archive  *)
(* is one chain (ArchiveOK).  A proof is sent only when the ledger says    *)
(* that the one before it is on the chain, which the ledger learns last    *)
(* (ContractOK), so the contract finds every proof to be the next one.     *)
(* What was signed was accepted by the estimate, and still is when it is   *)
(* mined, because block times only go up (SentOK).  While the operator's   *)
(* clock only goes up as well, so do the dates of the proofs (DatesOK).    *)
(***************************************************************************)
EXTENDS LedgerCheckpoint, SequenceTheorems, SumTheorems, TLAPS

Link == [old : Nat, new : Nat, at : Nat]

Shape == TypeOK /\ contract \in [initialized : BOOLEAN, log : Seq(Link)]

\* The submitter's records agree with the chain, and nothing reverted.
RecordsOK ==
    /\ \A x \in StepIds :
          /\ record[x] \in Outcomes => mined[x] = record[x]
          /\ record[x] = "absent" => mined[x] = "no"
    /\ \A x, y \in InFlight : x = y
    /\ NothingReverts

\* The job fits the bound; the open page is its next one and continues the root.
PageOK ==
    /\ ledger.sequence + Len(ledger.todo) <= MaxSequence
    /\ ~ledger.job => ledger.todo = <<>>
    /\ ledger.root <= salts
    /\ ledger.page # NoPage =>
          /\ ledger.page.seq = ledger.sequence + 1 /\ ledger.page.event = Head(ledger.todo)
          /\ ledger.page.old = ledger.root /\ ledger.root < ledger.page.new
          /\ ledger.page.new <= salts /\ ledger.page.at = ledger.at

\* One chain of blinded roots, the proof of the open page at most one beyond.
ArchiveOK ==
    /\ \A k \in ProofNumbers :
          /\ k <= ledger.sequence => Archived(k)
          /\ Archived(k) =>
                /\ archive[k].seq = k
                /\ archive[k].old = IF k = 1 THEN GenesisRoot ELSE archive[k - 1].new
                /\ archive[k].old < archive[k].new /\ archive[k].new <= salts
                /\ k > ledger.sequence =>
                      /\ k = ledger.sequence + 1
                      /\ ledger.page # NoPage /\ SameSignals(archive[k], ledger.page)
                      /\ archive[k].event = ledger.page.event
    /\ ledger.root = IF ledger.sequence = 0 THEN GenesisRoot ELSE archive[ledger.sequence].new

\* The contract has a prefix of the archive, and was sent at most the next proof.
ContractOK ==
    /\ contract.initialized <=> mined[0] = "ok"
    /\ ledger.registryInitialized => contract.initialized
    /\ Len(contract.log) <= ledger.sequence
    /\ \A k \in 1 .. Len(contract.log) : contract.log[k] = Transition(k)
    /\ \A k \in ProofNumbers :
          /\ mined[k] = "ok" <=> k <= Len(contract.log)
          /\ record[k] # "absent" =>
                contract.initialized /\ k <= Len(contract.log) + 1 /\ k <= ledger.sequence
    /\ AnchoredIsOnchain

\* What is on its way is what the contract accepts.
SentOK == \A k \in ProofNumbers : record[k] = "signed" /\ mined[k] = "no" => Accepted(k)

\* As long as the operator's clock was not set back, the dates of the proofs do not
\* fall back either, and the next one is not before them.
BeforeFreeze == pc = "freeze" \/ (pc \in AnchorLocations /\ after = "freeze")
NotAfter(t) == \A k \in ProofNumbers : Archived(k) => archive[k].at <= t
DatesOK ==
    trouble["clock"] = 0 =>
        /\ ledger.job => ledger.at <= clock /\ NotAfter(ledger.at)
        /\ NotAfter(clock)
        /\ BeforeFreeze => now <= clock /\ NotAfter(now)
        /\ \A k \in ProofNumbers : ~DateFallsBack(k)

\* Where the tick is.
TickOK ==
    /\ pc \in {"prove", "advance"} => page = ledger.page
    /\ pc = "advance" => Archived(page.seq)
    /\ pc \in {"submit", "await", "mark", "marked"} /\ cur # 0 =>
          /\ ledger.registryInitialized
          /\ cur = ledger.anchored + 1 /\ cur <= ledger.sequence
    /\ pc = "await" => record[cur] # "absent"
    /\ pc \in {"mark", "marked"} => record[cur] = "ok"
    /\ pc = "mark" => cur # 0

IInv == Shape /\ RecordsOK /\ PageOK /\ ArchiveOK /\ ContractOK /\ TickOK

--------------------------------------------------------------------------------
(* Steps that leave the proofs, the records and the contract alone. *)

\* What the invariants read of the ledger.
SameProofs ==
    /\ UNCHANGED <<record, mined, archive, contract, salts>>
    /\ ledger'.job = ledger.job /\ ledger'.todo = ledger.todo /\ ledger'.page = ledger.page
    /\ ledger'.at = ledger.at /\ ledger'.root = ledger.root /\ ledger'.sequence = ledger.sequence
    /\ ledger'.anchored = ledger.anchored
    /\ ledger'.registryInitialized = ledger.registryInitialized

\* A step that leaves the proofs, the archive and the contract alone keeps what is said of them.
LEMMA SameProofsKept ==
    ASSUME IInv, SameProofs
    PROVE  RecordsOK' /\ PageOK' /\ ArchiveOK' /\ ContractOK'
<1> USE DEF IInv, SameProofs
<1>1. RecordsOK'
    BY DEF RecordsOK, InFlight, NothingReverts
<1>2. PageOK'
    BY DEF PageOK
<1>3. ArchiveOK'
    BY DEF ArchiveOK, Archived, SameSignals
<1>4. ContractOK'
    BY DEF ContractOK, AnchoredIsOnchain, Transition, Archived
<1>5. QED BY <1>1, <1>2, <1>3, <1>4

\* The invariant holds in the beginning.
LEMMA InitIInv == ASSUME Init PROVE IInv
<1>1. /\ <<>> \in Seq(Link) /\ <<>> \in Seq(Event) /\ Len(<<>>) = 0
    OBVIOUS
<1>2. ledger \in Ledger
    BY <1>1, BooksAssumption DEF Init, Ledger, Blank, GenesisRoot
<1>3. TypeOK
    BY <1>1, <1>2, BoundsAssumption, BooksAssumption, NothingAssumption
       DEF Init, TypeOK, StepsInit, StepsTypeOK, Outcomes, Locations, AnchorLocations, TroubleKinds, Link
<1>4. contract \in [initialized : BOOLEAN, log : Seq(Link)]
    BY <1>1 DEF Init
<1>5. RecordsOK /\ TickOK
    BY DEF Init, StepsInit, RecordsOK, TickOK, InFlight, Outcomes, NothingReverts
<1>6. PageOK
    BY <1>1, BoundsAssumption DEF Init, PageOK, GenesisRoot
<1>7. ArchiveOK
    BY DEF Init, ArchiveOK, Archived, ProofNumbers, GenesisRoot
<1>8. ContractOK
    <2>1. 0 \in StepIds /\ \A k \in ProofNumbers : k \in StepIds /\ k > 0
        BY BoundsAssumption DEF StepIds, ProofNumbers
    <2>2. /\ contract.initialized = FALSE /\ Len(contract.log) = 0
          /\ ledger.registryInitialized = FALSE /\ ledger.sequence = 0 /\ ledger.anchored = 0
        BY <1>1 DEF Init
    <2>3. \A x \in StepIds : mined[x] = "no" /\ record[x] = "absent"
        BY DEF Init, StepsInit
    <2>4. \A k \in ProofNumbers : ~Archived(k)
        BY DEF Init, Archived
    <2>5. QED BY <2>1, <2>2, <2>3, <2>4 DEF ContractOK, AnchoredIsOnchain, ProofNumbers
<1>9. QED BY <1>3, <1>4, <1>5, <1>6, <1>7, <1>8 DEF IInv, Shape

\* A transition that is recorded, a checkpoint that is asked for, and the clocks.
LEMMA OutsideIInv ==
    ASSUME IInv,
           (\E b \in Books : Record(b)) \/ RequestCheckpoint \/ ClockTicks \/ BlockTicks \/ ClockSetBack
    PROVE  IInv'
<1> USE DEF Record, RequestCheckpoint, ClockTicks, BlockTicks, ClockSetBack
<1>0. /\ ledger \in Ledger /\ recorded \in [Books -> Nat] /\ requests \in Nat
      /\ clock \in 0 .. MaxTime /\ blockTime \in 0 .. MaxTime /\ trouble \in [TroubleKinds -> Nat]
    BY DEF IInv, Shape, TypeOK
<1>1. /\ UNCHANGED <<record, mined, archive, contract, salts, deployed, pc, after, page, cur, now>>
      /\ ledger' = ledger \/ ledger' = [ledger EXCEPT !.force = TRUE]
    BY DEF tickVars, submitterVars, clockVars
<1>2. SameProofs /\ ledger' \in Ledger
    BY <1>0, <1>1 DEF SameProofs, Ledger
<1>3. recorded' \in [Books -> Nat] /\ requests' \in Nat
    BY <1>0 DEF clockVars
<1>4. clock' \in 0 .. MaxTime /\ blockTime' \in 0 .. MaxTime
    BY <1>0, BoundsAssumption DEF clockVars
<1>5. trouble' \in [TroubleKinds -> Nat]
    BY <1>0 DEF Happens
<1>6. Shape'
    BY <1>1, <1>2, <1>3, <1>4, <1>5 DEF IInv, Shape, TypeOK, StepsTypeOK, SameProofs
<1>7. TickOK'
    BY <1>1, <1>2 DEF IInv, TickOK, SameProofs, Archived
<1>8. QED BY <1>2, <1>6, <1>7, SameProofsKept DEF IInv

\* A crash, a failure and an error end the tick and change nothing else.
LEMMA EndTickIInv ==
    ASSUME IInv, EndTick, UNCHANGED <<record, mined, recorded, ledger, archive, contract, salts, clock, blockTime, requests>>,
           deployed' \in BOOLEAN, trouble' \in [TroubleKinds -> Nat]
    PROVE  IInv'
<1>1. SameProofs
    BY DEF SameProofs
<1>2. Shape'
    BY BoundsAssumption DEF IInv, Shape, TypeOK, StepsTypeOK, EndTick, Locations, AnchorLocations
<1>3. TickOK'
    BY DEF TickOK, EndTick
<1>4. QED BY <1>1, <1>2, <1>3, SameProofsKept DEF IInv

\* A crash, a failure or a transaction given up ends the tick.
LEMMA TroubleIInv ==
    ASSUME IInv, Crash \/ Fails \/ GivesUp
    PROVE  IInv'
<1>1. trouble' \in [TroubleKinds -> Nat]
    <2>1. trouble \in [TroubleKinds -> Nat]
        BY DEF IInv, Shape, TypeOK
    <2>2. PICK kind \in TroubleKinds : trouble' = [trouble EXCEPT ![kind] = @ + 1]
        BY DEF Crash, Fails, GivesUp, Happens, TroubleKinds
    <2>3. QED BY <2>1, <2>2
<1>2. deployed' \in BOOLEAN
    BY DEF Crash, Fails, GivesUp, IInv, Shape, TypeOK
<1>3. /\ EndTick
      /\ UNCHANGED <<record, mined, recorded, ledger, archive, contract, salts, clock, blockTime, requests>>
    BY DEF Crash, Fails, GivesUp, submitterVars, clockVars
<1>4. QED BY <1>1, <1>2, <1>3, EndTickIInv

\* The tick goes on: nothing but its position changes.
LEMMA GotoIInv ==
    ASSUME IInv, UNCHANGED <<record, mined, archive, contract, salts, ledger>>, UNCHANGED outside,
           \/ TickBegin \/ ResumePage \/ AnchorNothing \/ AnchorProof \/ SubmitKnown \/ SubmitRefused
           \/ ReuseProof
    PROVE  IInv'
<1>1. SameProofs
    BY DEF SameProofs
<1>2. CASE EndTick
    BY <1>2, EndTickIInv DEF outside, IInv, Shape, TypeOK
<1>3. CASE TickBegin
    <2>1. Shape' /\ TickOK'
        BY <1>3 DEF TickBegin, IInv, Shape, TypeOK, StepsTypeOK, Locations, AnchorLocations, outside, TickOK
    <2>2. QED BY <1>1, <2>1, SameProofsKept DEF IInv
<1>4. CASE ResumePage
    <2>1. Shape'
        BY <1>4 DEF ResumePage, IInv, Shape, TypeOK, StepsTypeOK, Locations, AnchorLocations, outside, Ledger
    <2>2. TickOK'
        BY <1>4 DEF ResumePage, TickOK
    <2>3. QED BY <1>1, <2>1, <2>2, SameProofsKept DEF IInv
<1>5. CASE AnchorNothing
    <2>1. pc' \in {"freeze", "prepare"} /\ UNCHANGED <<after, page, cur, now>>
        BY <1>5 DEF AnchorNothing, Goto, IInv, Shape, TypeOK
    <2>2. Shape' /\ TickOK'
        BY <2>1 DEF IInv, Shape, TypeOK, StepsTypeOK, Locations, AnchorLocations, outside, TickOK
    <2>3. QED BY <1>1, <2>2, SameProofsKept DEF IInv
<1>6. CASE AnchorProof /\ ~EndTick
    <2>1. /\ cur' = ledger.anchored + 1 /\ ToAnchor /\ ledger.registryInitialized
          /\ pc' = IF record[cur'] = "ok" THEN "mark" ELSE "submit"
          /\ after' = after /\ page' = page /\ now' = now
        BY <1>6 DEF AnchorProof, NextToAnchor
    <2>2. cur' \in StepIds /\ cur' # 0 /\ cur' <= ledger.sequence
        <3>1. /\ ledger.anchored \in Nat /\ ledger.sequence \in Nat /\ Len(ledger.todo) \in Nat
              /\ ledger.sequence + Len(ledger.todo) <= MaxSequence
            BY DEF IInv, Shape, TypeOK, Ledger, PageOK
        <3>2. QED BY <2>1, <3>1, BoundsAssumption DEF ToAnchor, StepIds
    <2>3. Shape'
        BY <2>1, <2>2, NothingAssumption
           DEF IInv, Shape, TypeOK, StepsTypeOK, Locations, AnchorLocations, outside
    <2>4. TickOK'
        BY <2>1, <2>2 DEF TickOK
    <2>5. QED BY <1>1, <2>3, <2>4, SameProofsKept DEF IInv
<1>7. CASE SubmitKnown /\ ~EndTick
    <2>1. /\ pc = "submit" /\ record[cur] = "ok" /\ UNCHANGED <<after, page, cur, now>>
          /\ pc' = IF cur = 0 THEN "marked" ELSE "mark"
        BY <1>7 DEF SubmitKnown, Submitted
    <2>2. Shape'
        BY <2>1 DEF IInv, Shape, TypeOK, StepsTypeOK, Locations, AnchorLocations, outside
    <2>3. TickOK'
        BY <2>1 DEF IInv, TickOK
    <2>4. QED BY <1>1, <2>2, <2>3, SameProofsKept DEF IInv
<1>8. CASE ReuseProof /\ ~EndTick
    <2>1. /\ pc = "prove" /\ Archived(page.seq) /\ pc' = "advance" /\ UNCHANGED <<after, page, cur, now>>
        BY <1>8 DEF ReuseProof, Goto
    <2>2. Shape'
        BY <2>1 DEF IInv, Shape, TypeOK, StepsTypeOK, Locations, AnchorLocations, outside
    <2>3. TickOK'
        BY <2>1 DEF IInv, TickOK, Archived
    <2>4. QED BY <1>1, <2>2, <2>3, SameProofsKept DEF IInv
<1>9. QED BY <1>2, <1>3, <1>4, <1>5, <1>6, <1>7, <1>8 DEF SubmitRefused

--------------------------------------------------------------------------------
(* Steps of the job. *)

\* A freeze fills the empty job with events that fit the bound.
LEMMA FreezeIInv ==
    ASSUME IInv, Freeze, JobEvents \in Seq(Event)
    PROVE  IInv'
<1>1. ledger \in Ledger /\ recorded \in [Books -> Nat]
    BY DEF IInv, Shape, TypeOK
<1>2. /\ pc = "freeze" /\ pc' = "validate" /\ UNCHANGED <<after, page, cur>> /\ now' = 0
      /\ UNCHANGED <<record, mined, archive, contract, salts>> /\ UNCHANGED outside
      /\ 0 \in 0 .. MaxTime
    BY BoundsAssumption DEF Freeze, submitterVars
<1>3. CASE ledger' = ledger
    <2>1. SameProofs
        BY <1>2, <1>3 DEF SameProofs
    <2>2. Shape' /\ TickOK'
        BY <1>2, <1>3 DEF IInv, Shape, TypeOK, StepsTypeOK, Locations, AnchorLocations, TickOK, outside
    <2>3. QED BY <2>1, <2>2, SameProofsKept DEF IInv
<1>4. CASE ledger' # ledger
    <2>1. /\ ~ledger.job /\ ledger.sequence + Len(JobEvents) <= MaxSequence
          /\ ledger' = [ledger EXCEPT
                 !.job = TRUE, !.at = now, !.todo = JobEvents, !.validated = FALSE, !.frozen = Taken,
                 !.indexed = {b \in Books : Exists(b)},
                 !.next = IF ledger.force THEN @ ELSE now + Interval, !.force = FALSE]
        BY <1>4 DEF Freeze, CheckpointDue
    <2>2. ledger.page = NoPage
        BY <2>1 DEF IInv, Shape, TypeOK
    <2>3. /\ Taken \in [Books -> Nat] /\ {b \in Books : Exists(b)} \in SUBSET Books
          /\ now \in Nat /\ now + Interval \in Nat
        BY <1>1, BoundsAssumption DEF Taken, IInv, Shape, TypeOK
    <2>4. /\ ledger' \in Ledger /\ ledger'.todo = JobEvents /\ ledger'.job = TRUE /\ ledger'.page = NoPage
          /\ ledger'.root = ledger.root /\ ledger'.sequence = ledger.sequence
          /\ ledger'.anchored = ledger.anchored
          /\ ledger'.registryInitialized = ledger.registryInitialized
        BY <1>1, <2>1, <2>2, <2>3 DEF Ledger
    <2>5. Shape'
        BY <1>2, <2>4 DEF IInv, Shape, TypeOK, StepsTypeOK, Locations, AnchorLocations, outside
    <2>6. TickOK'
        BY <1>2 DEF TickOK
    <2>7. RecordsOK'
        BY <1>2 DEF IInv, RecordsOK, InFlight, NothingReverts
    <2>8. PageOK'
        BY <1>2, <2>1, <2>2, <2>4 DEF IInv, PageOK
    <2>9. ArchiveOK'
        BY <1>2, <2>2, <2>4 DEF IInv, ArchiveOK, Archived, SameSignals
    <2>10. ContractOK'
        BY <1>2, <2>4 DEF IInv, ContractOK, AnchoredIsOnchain, Transition, Archived
    <2>11. QED BY <2>5, <2>6, <2>7, <2>8, <2>9, <2>10 DEF IInv
<1>5. QED BY <1>3, <1>4

\* validateJob().
LEMMA ValidateIInv ==
    ASSUME IInv, Validate
    PROVE  IInv'
<1>1. CASE EndTick
    <2>1. UNCHANGED ledger
        BY <1>1 DEF Validate, Goto, EndTick
    <2>2. UNCHANGED <<record, mined, archive, contract, salts>> /\ UNCHANGED outside
        BY DEF Validate, submitterVars
    <2>3. deployed' \in BOOLEAN /\ trouble' \in [TroubleKinds -> Nat]
        BY <2>2 DEF outside, IInv, Shape, TypeOK
    <2>4. QED BY <1>1, <2>1, <2>2, <2>3, EndTickIInv DEF outside
<1>2. CASE Goto("prepare")
    <2>1. ledger \in Ledger
        BY DEF IInv, Shape, TypeOK
    <2>2. /\ ledger' = ledger \/ ledger' = [ledger EXCEPT !.validated = TRUE]
          /\ UNCHANGED <<record, mined, archive, contract, salts>> /\ UNCHANGED outside
          /\ pc' = "prepare" /\ UNCHANGED <<after, page, cur, now>>
        BY <1>2 DEF Validate, submitterVars, Goto
    <2>3. SameProofs /\ ledger' \in Ledger
        BY <2>1, <2>2 DEF SameProofs, Ledger
    <2>4. Shape' /\ TickOK'
        <3>1. Shape'
            BY <2>2, <2>3 DEF IInv, Shape, TypeOK, StepsTypeOK, Locations, AnchorLocations, outside, SameProofs
        <3>2. QED BY <2>2, <3>1 DEF TickOK
    <2>5. QED BY <2>3, <2>4, SameProofsKept DEF IInv
<1>3. QED BY <1>1, <1>2 DEF Validate

\* The new page continues the root with a salt nobody has used.
LEMMA PreparePageIInv ==
    ASSUME IInv, PreparePage
    PROVE  IInv'
<1> DEFINE p == PageFor(Head(ledger.todo))
<1>1. /\ ledger \in Ledger /\ salts \in Nat /\ ledger.todo \in Seq(Event) /\ ledger.todo # <<>>
      /\ ledger.page = NoPage /\ ledger.root \in Nat /\ ledger.sequence \in Nat /\ ledger.root <= salts
    BY DEF PreparePage, IInv, Shape, TypeOK, Ledger, PageOK
<1>2. Head(ledger.todo) \in Event
    BY <1>1, HeadTailProperties
<1>3. /\ p \in Page /\ p.seq = ledger.sequence + 1 /\ p.event = Head(ledger.todo)
      /\ p.old = ledger.root /\ p.new = salts + 1 /\ p.at = ledger.at /\ p # NoPage
    BY <1>1, <1>2, NothingAssumption DEF PageFor, Page, Ledger
<1>4. /\ salts' = salts + 1 /\ page' = p /\ ledger' = [ledger EXCEPT !.page = p]
      /\ pc' = "prove" /\ UNCHANGED <<after, cur, now, record, mined, archive, contract>> /\ UNCHANGED outside
      /\ ledger.job
    BY DEF PreparePage, SavedPage, submitterVars
<1> HIDE DEF p
<1>5. /\ ledger' \in Ledger /\ ledger'.page = p
      /\ ledger'.job = ledger.job /\ ledger'.todo = ledger.todo /\ ledger'.at = ledger.at
      /\ ledger'.root = ledger.root /\ ledger'.sequence = ledger.sequence
      /\ ledger'.anchored = ledger.anchored
      /\ ledger'.registryInitialized = ledger.registryInitialized
    BY <1>1, <1>3, <1>4 DEF Ledger
<1>6. Shape'
    BY <1>1, <1>3, <1>4, <1>5 DEF IInv, Shape, TypeOK, StepsTypeOK, Locations, AnchorLocations, outside
<1>7. TickOK'
    BY <1>4, <1>5 DEF TickOK
<1>8. RecordsOK'
    BY <1>4 DEF IInv, RecordsOK, InFlight, NothingReverts
<1>9. PageOK'
    BY <1>1, <1>3, <1>4, <1>5 DEF IInv, PageOK
<1>10. ArchiveOK'
    <2>1. \A k \in ProofNumbers : Archived(k) => archive[k] \in Proof
        BY DEF IInv, Shape, TypeOK, Archived
    <2>2. QED BY <1>1, <1>4, <1>5, <2>1 DEF IInv, ArchiveOK, Archived, Proof
<1>11. ContractOK'
    BY <1>4, <1>5 DEF IInv, ContractOK, AnchoredIsOnchain, Transition, Archived
<1>12. QED BY <1>6, <1>7, <1>8, <1>9, <1>10, <1>11 DEF IInv

\* A job whose pages are all archived is over.
LEMMA CompleteJobIInv ==
    ASSUME IInv, CompleteJob
    PROVE  IInv'
<1>1. CASE ledger' = ledger
    BY <1>1, EndTickIInv DEF CompleteJob, submitterVars, outside, IInv, Shape, TypeOK
<1>2. CASE ledger' # ledger
    <2>1. /\ ledger.page = NoPage /\ ledger.todo = <<>> /\ ledger \in Ledger
          /\ ledger' = [ledger EXCEPT !.job = FALSE, !.completed = ledger.sequence]
          /\ EndTick /\ UNCHANGED <<record, mined, archive, contract, salts>> /\ UNCHANGED outside
        BY <1>2 DEF CompleteJob, submitterVars, IInv, Shape, TypeOK
    <2>2. /\ ledger' \in Ledger /\ ledger'.page = NoPage /\ ledger'.todo = <<>>
          /\ ledger'.root = ledger.root /\ ledger'.sequence = ledger.sequence
          /\ ledger'.anchored = ledger.anchored
          /\ ledger'.registryInitialized = ledger.registryInitialized
        BY <2>1 DEF Ledger
    <2>3. Shape'
        BY <2>1, <2>2, BoundsAssumption
           DEF IInv, Shape, TypeOK, StepsTypeOK, Locations, AnchorLocations, outside, EndTick
    <2>4. TickOK'
        BY <2>1 DEF TickOK, EndTick
    <2>5. RecordsOK'
        BY <2>1 DEF IInv, RecordsOK, InFlight, NothingReverts
    <2>6. PageOK'
        BY <2>1, <2>2 DEF IInv, PageOK
    <2>7. ArchiveOK'
        BY <2>1, <2>2 DEF IInv, ArchiveOK, Archived, SameSignals
    <2>8. ContractOK'
        BY <2>1, <2>2 DEF IInv, ContractOK, AnchoredIsOnchain, Transition, Archived
    <2>9. QED BY <2>3, <2>4, <2>5, <2>6, <2>7, <2>8 DEF IInv
<1>3. QED BY <1>1, <1>2

\* The archive gets the proof of the open page, one beyond the ledger.
LEMMA ProveIInv ==
    ASSUME IInv, Prove
    PROVE  IInv'
<1> DEFINE n == ledger.sequence + 1
           p == ledger.page
           q == ProofOf(p)
<1>1. /\ page = p /\ p \in Page /\ p # NoPage /\ ledger \in Ledger /\ ledger.todo # <<>>
    BY DEF Prove, IInv, TickOK, Shape, TypeOK, Ledger
<1>2. /\ p.seq = n /\ p.old = ledger.root /\ p.old < p.new /\ p.new <= salts
      /\ p.new \in Nat /\ p.old \in Nat /\ ledger.sequence \in Nat /\ p.event \in Event
      /\ p.at = ledger.at
    BY <1>1 DEF IInv, PageOK, Page, Ledger
<1>3. n \in ProofNumbers
    <2>1. Len(ledger.todo) \in Nat \ {0}
        BY <1>1, EmptySeq DEF Ledger
    <2>2. QED BY <1>2, <2>1, BoundsAssumption DEF IInv, PageOK, ProofNumbers
<1>4. /\ q \in Proof /\ q # NoProof /\ q.seq = n /\ q.event = p.event /\ q.old = p.old /\ q.new = p.new
      /\ q.at = p.at /\ q.anchored = FALSE
    <2> HIDE DEF p
    <2>1. q \in Proof
        BY <1>1 DEF ProofOf, Proof, Page
    <2>2. q.seq = p.seq /\ q.event = p.event /\ q.old = p.old /\ q.new = p.new /\ q.at = p.at
          /\ q.anchored = FALSE
        BY DEF ProofOf
    <2> HIDE DEF q
    <2>3. QED BY <1>2, <2>1, <2>2, NothingAssumption
<1>5. /\ archive[n] = NoProof /\ archive' = [archive EXCEPT ![n] = q]
      /\ pc = "prove" /\ pc' = "advance" /\ UNCHANGED <<after, page, cur, now, record, mined, ledger, contract, salts>>
      /\ UNCHANGED outside
    BY <1>1, <1>2 DEF Prove, Goto, submitterVars, Archived
<1>6. archive \in [ProofNumbers -> Proof \cup {NoProof}]
    BY DEF IInv, Shape, TypeOK
<1> HIDE DEF q
<1>7. /\ archive'[n] = q /\ \A k \in ProofNumbers : k # n => archive'[k] = archive[k]
      /\ archive' \in [ProofNumbers -> Proof \cup {NoProof}]
    BY <1>3, <1>4, <1>5, <1>6
<1>8. Shape'
    BY <1>5, <1>7 DEF IInv, Shape, TypeOK, StepsTypeOK, Locations, AnchorLocations, outside
<1>9. TickOK'
    BY <1>1, <1>2, <1>4, <1>5, <1>7 DEF IInv, TickOK, Archived
<1>10. RecordsOK' /\ PageOK'
    BY <1>5 DEF IInv, RecordsOK, InFlight, NothingReverts, PageOK
<1>11. ArchiveOK'
    <2>1. \A k \in ProofNumbers : k \in Nat /\ k >= 1
        BY BoundsAssumption DEF ProofNumbers
    <2>2. ledger.root = IF ledger.sequence = 0 THEN GenesisRoot ELSE archive[ledger.sequence].new
        BY DEF IInv, ArchiveOK
    <2>3. /\ q.old = IF n = 1 THEN GenesisRoot ELSE archive'[n - 1].new
          /\ ledger.root = IF ledger.sequence = 0 THEN GenesisRoot ELSE archive'[ledger.sequence].new
        <3>1. CASE ledger.sequence = 0
            BY <1>2, <1>4, <2>2, <3>1
        <3>2. CASE ledger.sequence # 0
            <4>1. ledger.sequence \in ProofNumbers /\ ledger.sequence # n
                BY <1>2, <1>3, <3>2, BoundsAssumption DEF ProofNumbers
            <4>2. QED BY <1>2, <1>4, <1>7, <2>2, <3>2, <4>1
        <3>3. QED BY <3>1, <3>2
    <2>4. \A k \in ProofNumbers : k # n /\ Archived(k) => k <= ledger.sequence
        BY <1>2, <2>1 DEF IInv, ArchiveOK
    <2>5. ASSUME NEW k \in ProofNumbers, archive'[k] # NoProof
          PROVE  /\ archive'[k].seq = k
                 /\ archive'[k].old = IF k = 1 THEN GenesisRoot ELSE archive'[k - 1].new
                 /\ archive'[k].old < archive'[k].new /\ archive'[k].new <= salts
                 /\ k > ledger.sequence =>
                      /\ k = n /\ SameSignals(archive'[k], p) /\ archive'[k].event = p.event
        <3>1. CASE k = n
            BY <1>2, <1>4, <1>7, <2>3, <3>1 DEF SameSignals
        <3>2. CASE k # n
            <4>1. archive'[k] = archive[k] /\ Archived(k) /\ k <= ledger.sequence
                BY <1>7, <2>4, <2>5, <3>2 DEF Archived
            <4>2. k # 1 => k - 1 \in ProofNumbers /\ k - 1 # n
                BY <1>2, <2>1, <4>1, BoundsAssumption DEF ProofNumbers
            <4>3. k # 1 => archive'[k - 1] = archive[k - 1]
                BY <1>7, <4>2
            <4>4. QED BY <1>2, <2>1, <4>1, <4>3 DEF IInv, ArchiveOK
        <3>3. QED BY <3>1, <3>2
    <2>6. \A k \in ProofNumbers : k <= ledger.sequence => archive'[k] # NoProof
        BY <1>2, <1>7, <2>1 DEF IInv, ArchiveOK, Archived
    <2>7. QED BY <1>1, <1>5, <2>3, <2>5, <2>6 DEF ArchiveOK, Archived
<1>12. ContractOK'
    <2>1. \A k \in 1 .. Len(contract.log) : k \in ProofNumbers /\ k # n
        <3>1. Len(contract.log) \in Nat /\ Len(contract.log) <= ledger.sequence
            BY DEF IInv, Shape, ContractOK
        <3>2. QED BY <1>2, <1>3, <3>1, BoundsAssumption DEF ProofNumbers
    <2>2. \A k \in 1 .. Len(contract.log) : Transition(k)' = Transition(k)
        BY <1>7, <2>1 DEF Transition
    <2>3. AnchoredIsOnchain'
        BY <1>4, <1>5, <1>7 DEF IInv, ContractOK, AnchoredIsOnchain, Archived
    <2>4. QED BY <1>5, <2>2, <2>3 DEF IInv, ContractOK
<1>13. QED BY <1>8, <1>9, <1>10, <1>11, <1>12 DEF IInv

\* The ledger advances over the proof of the open page.
LEMMA AdvanceIInv ==
    ASSUME IInv, Advance
    PROVE  IInv'
<1> DEFINE p == ledger.page
           n == ledger.sequence + 1
<1>1. /\ page = p /\ p \in Page /\ p # NoPage /\ ledger \in Ledger /\ ledger.todo # <<>>
      /\ ledger.todo \in Seq(Event) /\ pc = "advance" /\ Archived(p.seq) /\ ledger.job
    BY DEF Advance, IInv, TickOK, Shape, TypeOK, Ledger
<1>2. /\ p.seq = n /\ p.old = ledger.root /\ p.old < p.new /\ p.new <= salts
      /\ p.new \in Nat /\ p.old \in Nat /\ ledger.sequence \in Nat /\ p.event \in Event
      /\ p.event = Head(ledger.todo)
    BY <1>1 DEF IInv, PageOK, Page, Ledger
<1>3. /\ Tail(ledger.todo) \in Seq(Event) /\ Len(ledger.todo) \in Nat \ {0}
      /\ Len(Tail(ledger.todo)) = Len(ledger.todo) - 1
    BY <1>1, HeadTailProperties, EmptySeq
<1>4. n \in ProofNumbers
    BY <1>2, <1>3, BoundsAssumption DEF IInv, PageOK, ProofNumbers
<1>5. /\ ledger' = Advanced(p) /\ pc' = "anchor" /\ after' = "prepare" /\ page' = NoPage /\ cur' = cur /\ now' = now
      /\ UNCHANGED <<record, mined, archive, contract, salts>> /\ UNCHANGED outside
    BY <1>1, <1>2 DEF Advance, submitterVars
<1>6. Replayed(ledger.proved, p.event) \in [Books -> Nat \cup {Blank}]
    <2>1. ledger.proved \in [Books -> Nat \cup {Blank}] /\ p.event.n \in Nat
        BY <1>1, <1>2 DEF Ledger, Event
    <2>2. QED BY <2>1 DEF Replayed
<1>7. /\ ledger' \in Ledger /\ ledger'.job = ledger.job /\ ledger'.todo = Tail(ledger.todo)
      /\ ledger'.page = NoPage /\ ledger'.root = p.new /\ ledger'.sequence = n
      /\ ledger'.anchored = ledger.anchored
      /\ ledger'.registryInitialized = ledger.registryInitialized
      /\ ledger'.frozen = ledger.frozen /\ ledger'.indexed = ledger.indexed
    <2> DEFINE r == Replayed(ledger.proved, p.event)
               t == Tail(ledger.todo)
    <2>1. ledger' = [ledger EXCEPT !.proved = r, !.root = p.new, !.sequence = p.seq, !.todo = t, !.page = NoPage]
        BY <1>1, <1>5 DEF Advanced, Ledger
    <2>2. r \in [Books -> Nat \cup {Blank}] /\ t \in Seq(Event) /\ p.seq \in Nat
        BY <1>2, <1>3, <1>6
    <2> HIDE DEF r
    <2>3. QED BY <1>1, <1>2, <2>1, <2>2 DEF Ledger
<1>8. Shape'
    BY <1>5, <1>7 DEF IInv, Shape, TypeOK, StepsTypeOK, Locations, AnchorLocations, outside
<1>9. TickOK'
    BY <1>5 DEF TickOK
<1>10. RecordsOK'
    BY <1>5 DEF IInv, RecordsOK, InFlight, NothingReverts
<1>11. PageOK'
    <2>1. ledger.sequence + Len(ledger.todo) <= MaxSequence
        BY DEF IInv, PageOK
    <2>2. ledger'.sequence + Len(ledger'.todo) = ledger.sequence + Len(ledger.todo)
        <3>1. ledger'.sequence = ledger.sequence + 1 /\ Len(ledger'.todo) = Len(ledger.todo) - 1
            BY <1>3, <1>7, Zenon
        <3>2. ledger.sequence \in Nat /\ Len(ledger.todo) \in Nat
            BY <1>2, <1>3
        <3> HIDE DEF n
        <3>3. QED BY <3>1, <3>2
    <2>3. QED BY <1>1, <1>2, <1>5, <1>7, <2>1, <2>2 DEF PageOK
<1>12. ArchiveOK'
    <2>0. \A k \in ProofNumbers : k \in Nat /\ k >= 1
        BY BoundsAssumption DEF ProofNumbers
    <2>1. archive[n].new = p.new
        BY <1>1, <1>2, <1>4 DEF IInv, ArchiveOK, SameSignals
    <2>2. \A k \in ProofNumbers : Archived(k) => k <= n
        BY <1>2, <2>0 DEF IInv, ArchiveOK
    <2>3. \A k \in ProofNumbers : k <= n => Archived(k)
        BY <1>1, <1>2, <2>0 DEF IInv, ArchiveOK
    <2>4. \A k \in ProofNumbers : Archived(k) =>
            /\ archive[k].seq = k
            /\ archive[k].old = IF k = 1 THEN GenesisRoot ELSE archive[k - 1].new
            /\ archive[k].old < archive[k].new /\ archive[k].new <= salts
        BY DEF IInv, ArchiveOK
    <2>5. n # 0
        BY <1>2
    <2> HIDE DEF n, p
    <2>6. \A k \in ProofNumbers : Archived(k) /\ k > n => FALSE
        BY <1>4, <2>0, <2>2
    <2>7. QED BY <1>5, <1>7, <2>1, <2>3, <2>4, <2>5, <2>6 DEF ArchiveOK, Archived
<1>13. ContractOK'
    <2>1. Len(contract.log) \in Nat
        BY DEF IInv, Shape
    <2>2. QED BY <1>2, <1>5, <1>7, <2>1, BoundsAssumption
              DEF IInv, ContractOK, AnchoredIsOnchain, Transition, Archived, ProofNumbers
<1>14. QED BY <1>8, <1>9, <1>10, <1>11, <1>12, <1>13 DEF IInv

--------------------------------------------------------------------------------
(* Steps of anchor(), the submitter and the contract. *)

\* A transaction that is learned succeeded.
LEMMA LearnKeeps ==
    ASSUME IInv, NEW x \in StepIds, Learn(x)
    PROVE  /\ mined[x] = "ok" /\ record' = [record EXCEPT ![x] = "ok"] /\ mined' = mined
           /\ record \in [StepIds -> {"absent", "signed"} \cup Outcomes]
           /\ record' \in [StepIds -> {"absent", "signed"} \cup Outcomes]
           /\ record[x] = "signed"
<1>1. mined[x] = "ok" /\ record \in [StepIds -> {"absent", "signed"} \cup Outcomes]
    BY DEF Learn, Outcomes, IInv, RecordsOK, NothingReverts, Shape, TypeOK, StepsTypeOK
<1>2. QED BY <1>1 DEF Learn, Outcomes

\* What learning leaves of the other invariants.
LEMMA LearnedKeeps ==
    ASSUME IInv, NEW x \in StepIds, Learn(x), UNCHANGED <<archive, contract, salts, ledger>>
    PROVE  RecordsOK' /\ PageOK' /\ ArchiveOK' /\ ContractOK'
<1>1. /\ mined[x] = "ok" /\ record' = [record EXCEPT ![x] = "ok"] /\ mined' = mined
      /\ record \in [StepIds -> {"absent", "signed"} \cup Outcomes] /\ record[x] = "signed"
    BY LearnKeeps
<1>2. \A y \in StepIds : record'[y] = IF y = x THEN "ok" ELSE record[y]
    BY <1>1
<1>3. RecordsOK'
    BY <1>1, <1>2 DEF IInv, RecordsOK, InFlight, NothingReverts, Outcomes
<1>4. PageOK' /\ ArchiveOK'
    BY DEF IInv, PageOK, ArchiveOK, Archived, SameSignals
<1>5. ContractOK'
    <2>1. \A k \in ProofNumbers : k \in StepIds
        BY BoundsAssumption DEF ProofNumbers, StepIds
    <2>2. \A k \in ProofNumbers : record'[k] # "absent" => record[k] # "absent"
        BY <1>1, <1>2, <2>1
    <2>3. QED BY <1>1, <2>2 DEF IInv, ContractOK, AnchoredIsOnchain, Transition, Archived
<1>6. QED BY <1>3, <1>4, <1>5

\* The submitter learns the outcome of a transaction.
LEMMA LearnIInv ==
    ASSUME IInv, NEW x \in StepIds, LearnedElsewhere(x) \/ SubmitSync(x) \/ (SubmitAnswered /\ x = cur)
    PROVE  IInv'
<1>1. Learn(x) /\ UNCHANGED <<archive, contract, salts, ledger>> /\ UNCHANGED outside
    BY DEF LearnedElsewhere, SubmitSync, SubmitAnswered
<1>2. /\ mined[x] = "ok" /\ record' = [record EXCEPT ![x] = "ok"] /\ mined' = mined
      /\ record \in [StepIds -> {"absent", "signed"} \cup Outcomes]
      /\ record' \in [StepIds -> {"absent", "signed"} \cup Outcomes]
    BY <1>1, LearnKeeps
<1>3. \A y \in StepIds : record'[y] = IF y = x THEN "ok" ELSE record[y]
    BY <1>2
<1>4. CASE UNCHANGED tickVars
    <2>1. Shape'
        BY <1>1, <1>2, <1>4 DEF IInv, Shape, TypeOK, StepsTypeOK, outside, tickVars
    <2>2. TickOK'
        <3>1. pc \in {"await", "mark", "marked"} => cur \in StepIds
            BY DEF IInv, Shape, TypeOK
        <3>2. QED BY <1>1, <1>3, <1>4, <3>1 DEF IInv, TickOK, tickVars, Archived
    <2>3. QED BY <1>1, <2>1, <2>2, LearnedKeeps DEF IInv
<1>5. CASE SubmitAnswered /\ x = cur
    <2>1. pc = "await" /\ pc' = (IF cur = 0 THEN "marked" ELSE "mark") /\ UNCHANGED <<after, page, cur, now>>
        BY <1>2, <1>5 DEF SubmitAnswered, Submitted
    <2>2. Shape'
        BY <1>1, <1>2, <2>1 DEF IInv, Shape, TypeOK, StepsTypeOK, outside, Locations, AnchorLocations
    <2>3. TickOK'
        BY <1>1, <1>3, <1>5, <2>1 DEF IInv, TickOK
    <2>4. QED BY <1>1, <2>2, <2>3, LearnedKeeps DEF IInv
<1>6. CASE LearnedElsewhere(x) \/ SubmitSync(x)
    <2>1. UNCHANGED tickVars
        BY <1>2, <1>6 DEF LearnedElsewhere, SubmitSync
    <2>2. QED BY <1>4, <2>1
<1>7. QED BY <1>5, <1>6

\* The contract's first root is seen, or about to be sent.
LEMMA AnchorGenesisIInv ==
    ASSUME IInv, AnchorGenesis
    PROVE  IInv'
<1>1. UNCHANGED <<record, mined, archive, contract, salts>> /\ UNCHANGED outside /\ ledger \in Ledger
    BY DEF AnchorGenesis, submitterVars, IInv, Shape, TypeOK
<1>2. CASE contract.initialized
    <2>1. ledger' = [ledger EXCEPT !.registryInitialized = TRUE] /\ UNCHANGED tickVars /\ pc = "anchor"
        BY <1>2 DEF AnchorGenesis
    <2>2. /\ ledger' \in Ledger /\ ledger'.job = ledger.job /\ ledger'.todo = ledger.todo
          /\ ledger'.page = ledger.page /\ ledger'.root = ledger.root /\ ledger'.at = ledger.at
          /\ ledger'.sequence = ledger.sequence /\ ledger'.anchored = ledger.anchored
        BY <1>1, <2>1 DEF Ledger
    <2>3. Shape'
        BY <1>1, <2>1, <2>2 DEF IInv, Shape, TypeOK, StepsTypeOK, outside, tickVars
    <2>4. TickOK'
        BY <2>1 DEF TickOK, tickVars
    <2>5. RecordsOK'
        BY <1>1 DEF IInv, RecordsOK, InFlight, NothingReverts
    <2>6. PageOK' /\ ArchiveOK'
        BY <1>1, <2>2 DEF IInv, PageOK, ArchiveOK, Archived, SameSignals
    <2>7. ContractOK'
        BY <1>1, <1>2, <2>2 DEF IInv, ContractOK, AnchoredIsOnchain, Transition, Archived
    <2>8. QED BY <2>3, <2>4, <2>5, <2>6, <2>7 DEF IInv
<1>3. CASE ~contract.initialized
    <2>1. ledger' = ledger /\ pc' = "submit" /\ cur' = 0 /\ UNCHANGED <<after, page, now>>
        BY <1>3 DEF AnchorGenesis
    <2>2. SameProofs
        BY <1>1, <2>1 DEF SameProofs
    <2>3. 0 \in StepIds
        BY BoundsAssumption DEF StepIds
    <2>4. Shape' /\ TickOK'
        <3>1. Shape'
            BY <1>1, <2>1, <2>3, NothingAssumption
               DEF IInv, Shape, TypeOK, StepsTypeOK, outside, Locations, AnchorLocations
        <3>2. QED BY <2>1, <3>1 DEF TickOK
    <2>5. QED BY <2>2, <2>4, SameProofsKept DEF IInv
<1>4. QED BY <1>2, <1>3

\* What is signed is the first root, or the proof after those on the chain.
LEMMA SubmitSignIInv ==
    ASSUME IInv, SubmitSign
    PROVE  IInv'
<1>1. /\ pc = "submit" /\ InFlight = {} /\ record[cur] = "absent"
      /\ record' = [record EXCEPT ![cur] = "signed"] /\ mined' = mined
      /\ pc' = "await" /\ UNCHANGED <<after, page, cur, now, ledger, archive, contract, salts>> /\ UNCHANGED outside
    BY DEF SubmitSign, Sign, Goto
<1>2. /\ record \in [StepIds -> {"absent", "signed"} \cup Outcomes]
      /\ mined \in [StepIds -> {"no"} \cup Outcomes] /\ cur \in StepIds
    BY <1>1 DEF IInv, Shape, TypeOK, StepsTypeOK
<1>3. /\ \A x \in StepIds : record'[x] = IF x = cur THEN "signed" ELSE record[x]
      /\ record' \in [StepIds -> {"absent", "signed"} \cup Outcomes]
    BY <1>1, <1>2
<1>4. Shape'
    BY <1>1, <1>2, <1>3 DEF IInv, Shape, TypeOK, StepsTypeOK, outside, Locations, AnchorLocations
<1>5. TickOK'
    BY <1>1, <1>2, <1>3 DEF IInv, TickOK
<1>6. RecordsOK'
    BY <1>1, <1>2, <1>3 DEF IInv, RecordsOK, InFlight, NothingReverts, Outcomes
<1>7. PageOK' /\ ArchiveOK'
    BY <1>1 DEF IInv, PageOK, ArchiveOK, Archived, SameSignals
<1>8. ContractOK'
    <2>1. \A k \in ProofNumbers : k \in StepIds /\ k # 0
        BY BoundsAssumption DEF ProofNumbers, StepIds
    <2>2. cur # 0 => /\ ledger.registryInitialized /\ contract.initialized
                     /\ cur = ledger.anchored + 1 /\ cur <= ledger.sequence
                     /\ ledger.anchored <= Len(contract.log)
        BY <1>1 DEF IInv, TickOK, ContractOK, AnchoredIsOnchain
    <2>3. ledger.anchored \in Nat /\ Len(contract.log) \in Nat
        BY DEF IInv, Shape, TypeOK, Ledger
    <2>4. \A k \in ProofNumbers : record'[k] # "absent" =>
                contract.initialized /\ k <= Len(contract.log) + 1 /\ k <= ledger.sequence
        BY <1>3, <2>1, <2>2, <2>3 DEF IInv, ContractOK
    <2>5. QED BY <1>1, <2>4 DEF IInv, ContractOK, AnchoredIsOnchain, Transition, Archived
<1>9. QED BY <1>4, <1>5, <1>6, <1>7, <1>8 DEF IInv

\* The proof file is told of its transaction, then the sealed file.
LEMMA MarkProofIInv ==
    ASSUME IInv, MarkProof
    PROVE  IInv'
<1>1. /\ pc = "mark" /\ pc' = "marked" /\ archive' = [archive EXCEPT ![cur].anchored = TRUE]
      /\ UNCHANGED <<after, page, cur, now, record, mined, ledger, contract, salts>> /\ UNCHANGED outside
    BY DEF MarkProof, Goto, submitterVars
<1>2. /\ cur \in StepIds /\ cur # 0 /\ record[cur] = "ok" /\ cur <= ledger.sequence
      /\ archive \in [ProofNumbers -> Proof \cup {NoProof}]
    BY <1>1 DEF IInv, Shape, TypeOK, TickOK
<1>3. /\ cur \in ProofNumbers /\ cur <= Len(contract.log) /\ archive[cur] # NoProof
    <2>1. cur \in ProofNumbers
        BY <1>2, BoundsAssumption DEF StepIds, ProofNumbers
    <2>2. mined[cur] = "ok"
        BY <1>2 DEF IInv, RecordsOK, Outcomes
    <2>3. QED BY <1>2, <2>1, <2>2 DEF IInv, ContractOK, ArchiveOK, Archived
<1> DEFINE q == [archive[cur] EXCEPT !.anchored = TRUE]
<1>4. /\ q \in Proof /\ q # NoProof /\ q.seq = archive[cur].seq /\ q.event = archive[cur].event
      /\ q.old = archive[cur].old /\ q.new = archive[cur].new /\ q.at = archive[cur].at
    <2>1. archive[cur] \in Proof
        BY <1>2, <1>3
    <2>2. QED BY <2>1, NothingAssumption DEF Proof
<1>5. /\ archive'[cur] = q /\ \A k \in ProofNumbers : k # cur => archive'[k] = archive[k]
      /\ archive' \in [ProofNumbers -> Proof \cup {NoProof}]
    <2>1. archive' = [archive EXCEPT ![cur] = q]
        BY <1>1
    <2> HIDE DEF q
    <2>2. QED BY <1>2, <1>3, <1>4, <2>1
<1> HIDE DEF q
<1>6. \A k \in ProofNumbers : /\ (archive'[k] # NoProof) <=> (archive[k] # NoProof)
                              /\ archive'[k].seq = archive[k].seq /\ archive'[k].event = archive[k].event
                              /\ archive'[k].old = archive[k].old /\ archive'[k].new = archive[k].new
                              /\ archive'[k].at = archive[k].at
    BY <1>3, <1>4, <1>5
<1>7. Shape'
    BY <1>1, <1>5 DEF IInv, Shape, TypeOK, StepsTypeOK, outside, Locations, AnchorLocations
<1>8. TickOK'
    BY <1>1 DEF IInv, TickOK
<1>9. RecordsOK' /\ PageOK'
    BY <1>1 DEF IInv, RecordsOK, InFlight, NothingReverts, PageOK
<1>10. ArchiveOK'
    <2>1. \A k \in ProofNumbers : k # 1 => k - 1 \in ProofNumbers
        BY BoundsAssumption DEF ProofNumbers
    <2>2. ledger.sequence # 0 => ledger.sequence \in ProofNumbers
        BY BoundsAssumption DEF IInv, PageOK, ProofNumbers, Shape, TypeOK, Ledger
    <2>3. QED BY <1>1, <1>6, <2>1, <2>2 DEF IInv, ArchiveOK, Archived, SameSignals
<1>11. ContractOK'
    <2>1. \A k \in 1 .. Len(contract.log) : k \in ProofNumbers
        BY BoundsAssumption DEF IInv, ContractOK, PageOK, ProofNumbers, Shape, TypeOK, Ledger
    <2>2. \A k \in 1 .. Len(contract.log) : Transition(k)' = Transition(k)
        BY <1>6, <2>1 DEF Transition
    <2>3. AnchoredIsOnchain'
        BY <1>1, <1>3, <1>5, <1>6 DEF IInv, ContractOK, AnchoredIsOnchain, Archived
    <2>4. QED BY <1>1, <2>2, <2>3 DEF IInv, ContractOK
<1>12. QED BY <1>7, <1>8, <1>9, <1>10, <1>11 DEF IInv

\* A confirmed proof is marked as anchored.
LEMMA MarkAnchoredIInv ==
    ASSUME IInv, MarkAnchored
    PROVE  IInv'
<1>1. /\ pc = "marked" /\ cur' = NoStep /\ pc' \in {"anchor", "freeze", "prepare"}
      /\ UNCHANGED <<after, page, now, record, mined, archive, contract, salts>> /\ UNCHANGED outside
      /\ ledger' = IF cur = 0 THEN [ledger EXCEPT !.registryInitialized = TRUE]
                   ELSE [ledger EXCEPT !.anchored = cur]
    BY DEF MarkAnchored, submitterVars, IInv, Shape, TypeOK
<1>2. /\ cur \in StepIds /\ record[cur] = "ok" /\ mined[cur] = "ok" /\ ledger \in Ledger /\ cur \in Nat
    BY <1>1, BoundsAssumption DEF IInv, Shape, TypeOK, TickOK, RecordsOK, Outcomes, StepIds
<1>3. /\ ledger' \in Ledger /\ ledger'.job = ledger.job /\ ledger'.todo = ledger.todo
      /\ ledger'.page = ledger.page /\ ledger'.root = ledger.root /\ ledger'.at = ledger.at
      /\ ledger'.sequence = ledger.sequence
      /\ ledger'.registryInitialized = (ledger.registryInitialized \/ cur = 0)
      /\ ledger'.anchored = IF cur = 0 THEN ledger.anchored ELSE cur
    BY <1>1, <1>2 DEF Ledger
<1>4. Shape'
    BY <1>1, <1>3 DEF IInv, Shape, TypeOK, StepsTypeOK, outside, Locations, AnchorLocations
<1>5. TickOK'
    BY <1>1 DEF TickOK
<1>6. RecordsOK'
    BY <1>1 DEF IInv, RecordsOK, InFlight, NothingReverts
<1>7. PageOK' /\ ArchiveOK'
    BY <1>1, <1>3 DEF IInv, PageOK, ArchiveOK, Archived, SameSignals
<1>8. ContractOK'
    <2>1. cur = 0 => contract.initialized
        BY <1>2 DEF IInv, ContractOK
    <2>2. cur # 0 => cur \in ProofNumbers /\ cur <= Len(contract.log)
        BY <1>2, BoundsAssumption DEF IInv, ContractOK, ProofNumbers, StepIds
    <2>3. QED BY <1>1, <1>3, <2>1, <2>2 DEF IInv, ContractOK, AnchoredIsOnchain, Transition, Archived
<1>9. QED BY <1>4, <1>5, <1>6, <1>7, <1>8 DEF IInv

\* The contract takes its first root: nobody else could have set it.
LEMMA MineGenesisIInv ==
    ASSUME IInv, MineGenesis
    PROVE  IInv'
<1>1. /\ 0 \in StepIds /\ \A k \in ProofNumbers : k # 0 /\ k \in StepIds
    BY BoundsAssumption DEF StepIds, ProofNumbers
<1>2. /\ record[0] = "signed" /\ mined[0] = "no" /\ contract.initialized = FALSE
      /\ mined \in [StepIds -> {"no"} \cup Outcomes]
      /\ contract \in [initialized : BOOLEAN, log : Seq(Link)]
    BY DEF MineGenesis, Mine, IInv, ContractOK, Shape, TypeOK, StepsTypeOK
<1>3. /\ contract' = [contract EXCEPT !.initialized = TRUE] /\ record' = record
      /\ mined' = [mined EXCEPT ![0] = "ok"]
      /\ UNCHANGED <<ledger, archive, salts>> /\ UNCHANGED outside /\ UNCHANGED tickVars
    <2>1. PICK outcome \in Outcomes : mined' = [mined EXCEPT ![0] = outcome]
        BY DEF MineGenesis, Mine
    <2>2. outcome = "ok"
        BY <1>1, <1>2, <2>1 DEF MineGenesis
    <2>3. QED BY <2>1, <2>2 DEF MineGenesis, Mine
<1>4. /\ contract' \in [initialized : BOOLEAN, log : Seq(Link)] /\ contract'.log = contract.log
      /\ contract'.initialized = TRUE
      /\ mined' \in [StepIds -> {"no"} \cup Outcomes] /\ mined'[0] = "ok"
      /\ \A x \in StepIds : x # 0 => mined'[x] = mined[x]
    BY <1>1, <1>2, <1>3 DEF Outcomes
<1>5. Shape'
    BY <1>3, <1>4 DEF IInv, Shape, TypeOK, StepsTypeOK, outside, tickVars
<1>6. TickOK'
    BY <1>3 DEF IInv, TickOK, tickVars, Archived
<1>7. RecordsOK'
    BY <1>1, <1>2, <1>3, <1>4 DEF IInv, RecordsOK, InFlight, NothingReverts, Outcomes
<1>8. PageOK' /\ ArchiveOK'
    BY <1>3 DEF IInv, PageOK, ArchiveOK, Archived, SameSignals
<1>9. ContractOK'
    BY <1>1, <1>3, <1>4 DEF IInv, ContractOK, AnchoredIsOnchain, Transition, Archived
<1>10. QED BY <1>5, <1>6, <1>7, <1>8, <1>9 DEF IInv

\* The contract finds every proof it is sent to be the next one.
LEMMA MineAppendIInv ==
    ASSUME IInv, SentOK, NEW k \in ProofNumbers, MineAppend(k)
    PROVE  IInv'
<1> DEFINE L == Len(contract.log)
<1>1. /\ k \in StepIds /\ k # 0 /\ \A j \in ProofNumbers : j \in StepIds /\ j # 0 /\ j \in Nat
    BY BoundsAssumption DEF StepIds, ProofNumbers
<1>2. /\ record[k] = "signed" /\ mined[k] = "no" /\ L \in Nat /\ contract.log \in Seq(Link)
      /\ mined \in [StepIds -> {"no"} \cup Outcomes]
      /\ contract \in [initialized : BOOLEAN, log : Seq(Link)]
    BY DEF MineAppend, Mine, IInv, ContractOK, Shape, TypeOK, StepsTypeOK
<1>3. contract.initialized /\ k = L + 1 /\ k <= ledger.sequence /\ Archived(k)
    <2>1. ~(k <= L) /\ contract.initialized /\ k <= L + 1 /\ k <= ledger.sequence
        BY <1>2 DEF IInv, ContractOK
    <2>2. QED BY <1>1, <1>2, <2>1 DEF IInv, ArchiveOK
<1>4. archive[k] \in Proof /\ archive[k].old < archive[k].new
      /\ archive[k].old = IF k = 1 THEN GenesisRoot ELSE archive[k - 1].new
    BY <1>3 DEF IInv, Shape, TypeOK, Archived, ArchiveOK
<1>6. Accepted(k)
    BY <1>2 DEF SentOK
<1>7. /\ contract' = [contract EXCEPT !.log = Append(@, Transition(k))] /\ record' = record
      /\ mined' = [mined EXCEPT ![k] = "ok"]
      /\ UNCHANGED <<ledger, archive, salts>> /\ UNCHANGED outside /\ UNCHANGED tickVars
    <2>1. PICK outcome \in Outcomes : mined' = [mined EXCEPT ![k] = outcome]
        BY DEF MineAppend, Mine
    <2>2. outcome = "ok"
        BY <1>1, <1>2, <1>6, <2>1 DEF MineAppend
    <2>3. QED BY <1>6, <2>1, <2>2 DEF MineAppend, Mine
<1>8. Transition(k) \in Link
    BY <1>4 DEF Transition, Link, Proof
<1>9. /\ contract'.log = Append(contract.log, Transition(k)) /\ contract'.log \in Seq(Link)
      /\ contract' \in [initialized : BOOLEAN, log : Seq(Link)]
      /\ contract'.initialized = contract.initialized
      /\ Len(contract'.log) = L + 1
      /\ \A j \in 1 .. L : contract'.log[j] = contract.log[j]
      /\ contract'.log[L + 1] = Transition(k)
    <2>1. contract'.log = Append(contract.log, Transition(k)) /\ contract'.initialized = contract.initialized
          /\ Append(contract.log, Transition(k)) \in Seq(Link)
        BY <1>2, <1>7, <1>8
    <2>2. contract' \in [initialized : BOOLEAN, log : Seq(Link)]
        BY <1>2, <1>7, <2>1
    <2>3. QED BY <1>2, <1>8, <2>1, <2>2
<1>10. /\ mined' \in [StepIds -> {"no"} \cup Outcomes] /\ mined'[k] = "ok"
       /\ \A x \in StepIds : x # k => mined'[x] = mined[x]
    BY <1>1, <1>2, <1>7 DEF Outcomes
<1>11. Shape'
    BY <1>7, <1>9, <1>10 DEF IInv, Shape, TypeOK, StepsTypeOK, outside, tickVars, Link
<1>12. TickOK'
    BY <1>7 DEF IInv, TickOK, tickVars, Archived
<1>13. RecordsOK'
    BY <1>1, <1>2, <1>7, <1>10 DEF IInv, RecordsOK, InFlight, NothingReverts, Outcomes
<1>14. PageOK' /\ ArchiveOK'
    BY <1>7 DEF IInv, PageOK, ArchiveOK, Archived, SameSignals
<1>15. ContractOK'
    <2>1. \A j \in 1 .. Len(contract'.log) : contract'.log[j] = Transition(j)'
        <3>1. \A j \in 1 .. L + 1 : Transition(j)' = Transition(j) /\ (j \in 1 .. L \/ j = L + 1)
            BY <1>2, <1>7 DEF Transition
        <3>2. QED BY <1>3, <1>9, <3>1 DEF IInv, ContractOK
    <2>2. \A j \in ProofNumbers : mined'[j] = "ok" <=> j <= L + 1
        BY <1>1, <1>2, <1>3, <1>10 DEF IInv, ContractOK
    <2>3. \A j \in ProofNumbers : record[j] # "absent" =>
                contract.initialized /\ j <= L + 1 + 1 /\ j <= ledger.sequence
        BY <1>1, <1>2 DEF IInv, ContractOK
    <2>4. ledger.anchored <= L + 1 /\ \A j \in ProofNumbers : Archived(j) /\ archive[j].anchored => j <= L + 1
        BY <1>1, <1>2 DEF IInv, ContractOK, AnchoredIsOnchain, Shape, TypeOK, Ledger
    <2>5. mined'[0] = mined[0]
        BY <1>1, <1>10, BoundsAssumption DEF StepIds
    <2> HIDE DEF L
    <2>6. QED BY <1>3, <1>7, <1>9, <2>1, <2>2, <2>3, <2>4, <2>5 DEF IInv, ContractOK, AnchoredIsOnchain, Archived
<1>16. QED BY <1>11, <1>12, <1>13, <1>14, <1>15 DEF IInv

--------------------------------------------------------------------------------
(* A sequence of sequences, one after the other: what the job is made of. *)

\* FlattenSeq adds the sequences one by one.
LEMMA FlattenUnfolds ==
    ASSUME NEW ss, ss # <<>>, Len(ss) \in Nat \ {0}
    PROVE  \E g : /\ FlattenSeq(ss) = g[Len(ss)]
                  /\ \A i \in 1 .. Len(ss) : g[i] = IF i = 1 THEN ss[i] ELSE g[i - 1] \o ss[i]
<1> DEFINE Next1(g, i) == IF i = 1 THEN ss[i] ELSE g[i - 1] \o ss[i]
           T == {n \in Nat : \E g : g = [i \in 1 .. n |-> Next1(g, i)]}
<1>1. 0 \in T
    <2> DEFINE g == [i \in 1 .. 0 |-> 0]
    <2>1. g = [i \in 1 .. 0 |-> Next1(g, i)]
        OBVIOUS
    <2>2. QED BY <2>1
<1>2. ASSUME NEW n \in T PROVE n + 1 \in T
    <2>1. PICK g : g = [i \in 1 .. n |-> Next1(g, i)]
        OBVIOUS
    <2> DEFINE h == [i \in 1 .. n + 1 |-> IF i = n + 1 THEN Next1(g, i) ELSE g[i]]
    <2>2. \A i \in 1 .. n : g[i] = Next1(g, i)
        BY <2>1
    <2>3. \A i \in 1 .. n + 1 : h[i] = Next1(h, i)
        <3> SUFFICES ASSUME NEW i \in 1 .. n + 1 PROVE h[i] = Next1(h, i)
            OBVIOUS
        <3>1. i # 1 => i - 1 \in 1 .. n /\ h[i - 1] = g[i - 1]
            OBVIOUS
        <3>2. Next1(h, i) = Next1(g, i)
            BY <3>1
        <3>3. h[i] = Next1(g, i)
            BY <2>2
        <3>4. QED BY <3>2, <3>3
    <2>4. h = [i \in 1 .. n + 1 |-> h[i]]
        OBVIOUS
    <2> HIDE DEF h
    <2>5. h = [i \in 1 .. n + 1 |-> Next1(h, i)]
        BY <2>3, <2>4
    <2> HIDE DEF Next1
    <2>6. \E w : w = [i \in 1 .. n + 1 |-> Next1(w, i)]
        BY ONLY <2>5
    <2>7. n + 1 \in Nat
        OBVIOUS
    <2>8. QED BY <2>6, <2>7
<1>3. T = Nat
    <2>1. T \in SUBSET Nat /\ \A n \in T : n + 1 \in T
        BY <1>2
    <2> HIDE DEF T
    <2>2. QED BY <1>1, <2>1, InductionOnNaturals
<1> DEFINE f == CHOOSE g : g = [i \in 1 .. Len(ss) |-> Next1(g, i)]
<1>4. f = [i \in 1 .. Len(ss) |-> Next1(f, i)]
    <2>1. \E g : g = [i \in 1 .. Len(ss) |-> Next1(g, i)]
        BY <1>3
    <2> HIDE DEF Next1
    <2>2. QED BY <2>1
<1>5. FlattenSeq(ss) = f[Len(ss)]
    BY DEF FlattenSeq
<1> HIDE DEF f
<1>6. \A i \in 1 .. Len(ss) : f[i] = IF i = 1 THEN ss[i] ELSE f[i - 1] \o ss[i]
    BY <1>4
<1>7. QED BY <1>5, <1>6

\* Sequence t consists of the first n sequences of ss, in this order.
Lists(t, ss, n) ==
    /\ \A i \in 1 .. n : \A j \in 1 .. Len(ss[i]) : \E k \in 1 .. Len(t) : t[k] = ss[i][j]
    /\ \A k \in 1 .. Len(t) : \E i \in 1 .. n : \E j \in 1 .. Len(ss[i]) : t[k] = ss[i][j]
    /\ \A k, l \in 1 .. Len(t) : k < l =>
          \E i, m \in 1 .. n : \E j \in 1 .. Len(ss[i]), q \in 1 .. Len(ss[m]) :
              /\ t[k] = ss[i][j] /\ t[l] = ss[m][q]
              /\ i < m \/ (i = m /\ j < q)

\* One sequence more.
LEMMA ListsMore ==
    ASSUME NEW S, NEW ss \in Seq(Seq(S)), NEW n \in Nat, n + 1 \in 1 .. Len(ss),
           NEW t \in Seq(S), Lists(t, ss, n)
    PROVE  t \o ss[n + 1] \in Seq(S) /\ Lists(t \o ss[n + 1], ss, n + 1)
<1> DEFINE u == ss[n + 1]
           v == t \o u
<1>1. u \in Seq(S)
    BY ElementOfSeq
<1>2. /\ v \in Seq(S) /\ Len(v) = Len(t) + Len(u) /\ Len(t) \in Nat /\ Len(u) \in Nat
      /\ \A k \in 1 .. Len(t) + Len(u) : v[k] = IF k <= Len(t) THEN t[k] ELSE u[k - Len(t)]
    BY <1>1, ConcatProperties
<1>3. \A k \in 1 .. Len(t) : k \in 1 .. Len(v) /\ v[k] = t[k]
    BY <1>2
<1>4. \A j \in 1 .. Len(u) : Len(t) + j \in 1 .. Len(v) /\ v[Len(t) + j] = u[j]
    BY <1>2
<1>5. \A k \in 1 .. Len(v) : k > Len(t) => k - Len(t) \in 1 .. Len(u) /\ v[k] = u[k - Len(t)]
    BY <1>2
<1> HIDE DEF v
<1>6. \A i \in 1 .. n + 1 : \A j \in 1 .. Len(ss[i]) : \E k \in 1 .. Len(v) : v[k] = ss[i][j]
    <2> SUFFICES ASSUME NEW i \in 1 .. n + 1, NEW j \in 1 .. Len(ss[i])
                 PROVE  \E k \in 1 .. Len(v) : v[k] = ss[i][j]
        OBVIOUS
    <2>1. CASE i = n + 1
        BY <1>4, <2>1
    <2>2. CASE i \in 1 .. n
        <3>1. PICK k \in 1 .. Len(t) : t[k] = ss[i][j]
            BY <2>2 DEF Lists
        <3>2. QED BY <1>3, <3>1
    <2>3. QED BY <2>1, <2>2
<1>7. \A k \in 1 .. Len(v) : \E i \in 1 .. n + 1 : \E j \in 1 .. Len(ss[i]) : v[k] = ss[i][j]
    <2> SUFFICES ASSUME NEW k \in 1 .. Len(v)
                 PROVE  \E i \in 1 .. n + 1 : \E j \in 1 .. Len(ss[i]) : v[k] = ss[i][j]
        OBVIOUS
    <2>1. CASE k > Len(t)
        <3>1. n + 1 \in 1 .. n + 1
            OBVIOUS
        <3>2. k - Len(t) \in 1 .. Len(ss[n + 1]) /\ v[k] = ss[n + 1][k - Len(t)]
            BY <1>5, <2>1
        <3>3. QED BY <3>1, <3>2
    <2>2. CASE k <= Len(t)
        <3>1. k \in 1 .. Len(t)
            BY <1>2, <2>2
        <3>2. PICK i \in 1 .. n : \E j \in 1 .. Len(ss[i]) : t[k] = ss[i][j]
            BY <3>1 DEF Lists
        <3>3. PICK j \in 1 .. Len(ss[i]) : t[k] = ss[i][j]
            BY <3>2
        <3>4. i \in 1 .. n + 1 /\ v[k] = ss[i][j]
            BY <1>3, <3>1, <3>3
        <3>5. QED BY <3>4
    <2>3. QED BY <1>2, <2>1, <2>2
<1>8. ASSUME NEW k \in 1 .. Len(v), NEW l \in 1 .. Len(v), k < l
      PROVE  \E i, m \in 1 .. n + 1 : \E j \in 1 .. Len(ss[i]), q \in 1 .. Len(ss[m]) :
                 /\ v[k] = ss[i][j] /\ v[l] = ss[m][q]
                 /\ i < m \/ (i = m /\ j < q)
    <2>1. CASE l <= Len(t)
        <3>1. k \in 1 .. Len(t) /\ l \in 1 .. Len(t)
            BY <1>2, <1>8, <2>1
        <3>2. PICK i \in 1 .. n, m \in 1 .. n :
                 \E j \in 1 .. Len(ss[i]), q \in 1 .. Len(ss[m]) :
                     /\ t[k] = ss[i][j] /\ t[l] = ss[m][q]
                     /\ i < m \/ (i = m /\ j < q)
            BY <1>8, <3>1 DEF Lists
        <3>3. v[k] = t[k] /\ v[l] = t[l]
            BY <1>3, <3>1
        <3>4. i \in 1 .. n + 1 /\ m \in 1 .. n + 1
            OBVIOUS
        <3>5. QED BY <3>2, <3>3, <3>4
    <2>2. CASE k <= Len(t) /\ l > Len(t)
        <3>1. k \in 1 .. Len(t)
            BY <1>2, <2>2
        <3>2. PICK i \in 1 .. n : \E j \in 1 .. Len(ss[i]) : t[k] = ss[i][j]
            BY <3>1 DEF Lists
        <3>3. i \in 1 .. n + 1 /\ v[k] = t[k] /\ i < n + 1
            BY <1>3, <3>1
        <3>4. l - Len(t) \in 1 .. Len(ss[n + 1]) /\ v[l] = ss[n + 1][l - Len(t)]
            BY <1>5, <2>2
        <3>5. n + 1 \in 1 .. n + 1
            OBVIOUS
        <3>6. QED BY <3>2, <3>3, <3>4, <3>5
    <2>3. CASE k > Len(t) /\ l > Len(t)
        <3>1. n + 1 \in 1 .. n + 1
            OBVIOUS
        <3>2. /\ k - Len(t) \in 1 .. Len(ss[n + 1]) /\ v[k] = ss[n + 1][k - Len(t)]
              /\ l - Len(t) \in 1 .. Len(ss[n + 1]) /\ v[l] = ss[n + 1][l - Len(t)]
              /\ k - Len(t) < l - Len(t)
            BY <1>2, <1>5, <1>8, <2>3
        <3>3. QED BY <3>1, <3>2
    <2>4. QED BY <1>2, <1>8, <2>1, <2>2, <2>3
<1>9. Lists(v, ss, n + 1)
    BY <1>6, <1>7, <1>8 DEF Lists
<1>10. QED BY <1>2, <1>9 DEF v

\* The flattened sequence has every element of every part, part by part.
LEMMA FlattenLists ==
    ASSUME NEW S, NEW ss \in Seq(Seq(S))
    PROVE  FlattenSeq(ss) \in Seq(S) /\ Lists(FlattenSeq(ss), ss, Len(ss))
<1>1. CASE ss = <<>>
    BY <1>1 DEF FlattenSeq, Lists
<1>2. CASE ss # <<>>
    <2>1. Len(ss) \in Nat \ {0}
        BY <1>2, EmptySeq
    <2>2. PICK g : /\ FlattenSeq(ss) = g[Len(ss)]
                   /\ \A i \in 1 .. Len(ss) : g[i] = IF i = 1 THEN ss[i] ELSE g[i - 1] \o ss[i]
        BY <1>2, <2>1, FlattenUnfolds
    <2> DEFINE T == {n \in Nat : n \in 1 .. Len(ss) => g[n] \in Seq(S) /\ Lists(g[n], ss, n)}
    <2>3. 0 \in T
        OBVIOUS
    <2>4. ASSUME NEW n \in T, n + 1 \in 1 .. Len(ss)
          PROVE  g[n + 1] \in Seq(S) /\ Lists(g[n + 1], ss, n + 1)
        <3>1. CASE n = 0
            <4>1. g[1] = ss[1] /\ 1 \in 1 .. Len(ss) /\ ss[1] \in Seq(S)
                BY <2>1, <2>2, ElementOfSeq
            <4>2. Lists(ss[1], ss, 1)
                <5>1. Len(ss[1]) \in Nat /\ 1 .. 1 = {1}
                    BY <4>1
                <5>2. QED BY <5>1 DEF Lists
            <4>3. QED BY <3>1, <4>1, <4>2
        <3>2. CASE n # 0
            <4>1. n \in 1 .. Len(ss) /\ n + 1 # 1 /\ (n + 1) - 1 = n
                BY <2>1, <2>4, <3>2
            <4>2. g[n] \in Seq(S) /\ Lists(g[n], ss, n)
                BY <4>1
            <4>3. g[n + 1] = g[n] \o ss[n + 1]
                BY <2>2, <2>4, <4>1
            <4>4. g[n] \o ss[n + 1] \in Seq(S) /\ Lists(g[n] \o ss[n + 1], ss, n + 1)
                BY <2>4, <4>2, ListsMore
            <4>5. QED BY <4>3, <4>4
        <3>3. QED BY <3>1, <3>2
    <2>5. T = Nat
        <3>1. ASSUME NEW n \in T PROVE n + 1 \in T
            <4>1. n + 1 \in 1 .. Len(ss) => g[n + 1] \in Seq(S) /\ Lists(g[n + 1], ss, n + 1)
                BY <2>4
            <4>2. n + 1 \in Nat
                OBVIOUS
            <4>3. QED BY <4>1, <4>2
        <3> HIDE DEF T
        <3>2. T \in SUBSET Nat
            BY DEF T
        <3>3. QED BY <2>3, <3>1, <3>2, InductionOnNaturals
    <2>6. Len(ss) \in T /\ Len(ss) \in 1 .. Len(ss)
        BY <2>1, <2>5
    <2>7. QED BY <2>2, <2>6
<1>3. QED BY <1>1, <1>2

--------------------------------------------------------------------------------
(* The transitions in the archive and the job. *)

\* What the checkpoints know of the books lags behind them.
LagsBehind ==
    \A b \in Books :
        /\ ledger.frozen[b] <= recorded[b]
        /\ b \in ledger.indexed => Exists(b)
        /\ b \notin ledger.indexed => ledger.frozen[b] = 0 /\ b \notin GenesisBooks

\* The numbers a freeze takes of a book.
News(b) == {m \in Nat : /\ Exists(b)
                        /\ \/ b \notin ledger.indexed /\ m = 0
                           \/ ledger.frozen[b] < m /\ m <= recorded[b]}

Ascending(t) ==
    \A k, l \in 1 .. Len(t) : k < l /\ t[k].book = t[l].book /\ t[k] # Heartbeat => t[k].n < t[l].n

\* What a freeze takes from one book: its new transitions, each once, in their order.
LEMMA EventsOfBook ==
    ASSUME NEW b \in Books, ledger \in Ledger, recorded \in [Books -> Nat], LagsBehind
    PROVE  /\ EventsOf(b) \in Seq(Event)
           /\ \A j \in 1 .. Len(EventsOf(b)) : EventsOf(b)[j].book = b /\ EventsOf(b)[j].n \in News(b)
           /\ \A m \in News(b) : \E j \in 1 .. Len(EventsOf(b)) : EventsOf(b)[j].n = m
           /\ \A j, l \in 1 .. Len(EventsOf(b)) : j < l => EventsOf(b)[j].n < EventsOf(b)[l].n
<1> DEFINE f == ledger.frozen[b]
           r == recorded[b]
           head == IF b \in ledger.indexed THEN <<>> ELSE <<[book |-> b, n |-> 0]>>
           rest == [i \in 1 .. r - f |-> [book |-> b, n |-> f + i]]
           h == Len(head)
<1>1. f \in Nat /\ r \in Nat /\ f <= r
    BY DEF Ledger, LagsBehind
<1>2. rest \in Seq(Event) /\ Len(rest) = r - f /\ \A i \in 1 .. r - f : rest[i] = [book |-> b, n |-> f + i]
    <2>1. r - f \in Nat
        BY <1>1
    <2>2. \A i \in 1 .. r - f : [book |-> b, n |-> f + i] \in Event
        BY <1>1 DEF Event
    <2> HIDE DEF r, f
    <2>3. QED BY <2>1, <2>2
<1>3. /\ head \in Seq(Event) /\ h = (IF b \in ledger.indexed THEN 0 ELSE 1)
      /\ h = 1 => head[1] = [book |-> b, n |-> 0]
    <2>1. [book |-> b, n |-> 0] \in Event
        BY DEF Event
    <2>2. QED BY <2>1
<1>4. CASE ~Exists(b)
    <2>1. EventsOf(b) = <<>> /\ News(b) = {}
        BY <1>4 DEF EventsOf, News
    <2>2. QED BY <2>1
<1>5. CASE Exists(b)
    <2> DEFINE e == EventsOf(b)
    <2>1. e = head \o rest
        BY <1>5 DEF EventsOf
    <2>2. h \in {0, 1} /\ (h = 1 <=> b \notin ledger.indexed)
        BY <1>3
    <2> HIDE DEF head, rest, e
    <2>3. /\ e \in Seq(Event) /\ Len(e) = h + (r - f)
          /\ \A j \in 1 .. h + (r - f) : e[j] = IF j <= h THEN head[j] ELSE rest[j - h]
        <3>1. head \in Seq(Event) /\ rest \in Seq(Event)
            BY <1>2, <1>3
        <3>2. /\ e \in Seq(Event) /\ Len(e) = h + Len(rest)
              /\ \A j \in 1 .. h + Len(rest) : e[j] = IF j <= h THEN head[j] ELSE rest[j - h]
            BY ONLY <2>1, <3>1, ConcatProperties
        <3>3. QED BY <1>2, <3>2
    <2> HIDE DEF h, f, r
    <2>4. \A j \in 1 .. Len(e) : e[j].book = b /\ e[j].n = IF j <= h THEN 0 ELSE f + (j - h)
        <3> SUFFICES ASSUME NEW j \in 1 .. Len(e)
                     PROVE  e[j].book = b /\ e[j].n = IF j <= h THEN 0 ELSE f + (j - h)
            OBVIOUS
        <3>1. CASE j <= h
            <4>1. j = 1 /\ h = 1
                BY <2>2, <3>1
            <4>2. QED BY <1>3, <2>3, <3>1, <4>1
        <3>2. CASE ~(j <= h)
            <4>1. j - h \in 1 .. r - f
                BY <1>1, <2>2, <2>3, <3>2
            <4>2. QED BY <1>2, <2>3, <3>2, <4>1
        <3>3. QED BY <3>1, <3>2
    <2>5. \A j \in 1 .. Len(e) : e[j].book = b /\ e[j].n \in News(b)
        <3> SUFFICES ASSUME NEW j \in 1 .. Len(e) PROVE e[j].book = b /\ e[j].n \in News(b)
            OBVIOUS
        <3>1. CASE j <= h
            <4>1. e[j].n = 0 /\ b \notin ledger.indexed
                BY <2>2, <2>4, <3>1
            <4>2. QED BY <1>5, <2>4, <4>1 DEF News, f, r
        <3>2. CASE ~(j <= h)
            <4>1. e[j].n = f + (j - h) /\ f < f + (j - h) /\ f + (j - h) <= r /\ f + (j - h) \in Nat
                BY <1>1, <2>2, <2>3, <2>4, <3>2
            <4>2. QED BY <1>5, <2>4, <4>1 DEF News, f, r
        <3>3. QED BY <3>1, <3>2
    <2>6. \A m \in News(b) : \E j \in 1 .. Len(e) : e[j].n = m
        <3> SUFFICES ASSUME NEW m \in News(b) PROVE \E j \in 1 .. Len(e) : e[j].n = m
            OBVIOUS
        <3>1. m \in Nat /\ ((b \notin ledger.indexed /\ m = 0) \/ (f < m /\ m <= r))
            BY DEF News, f, r
        <3>2. CASE b \notin ledger.indexed /\ m = 0
            <4>1. 1 \in 1 .. Len(e) /\ 1 <= h
                BY <1>1, <2>2, <2>3, <3>2
            <4>2. QED BY <2>4, <3>2, <4>1
        <3>3. CASE f < m /\ m <= r
            <4>1. /\ h + (m - f) \in 1 .. Len(e) /\ ~(h + (m - f) <= h)
                  /\ f + ((h + (m - f)) - h) = m
                BY <1>1, <2>2, <2>3, <3>1, <3>3
            <4>2. QED BY <2>4, <4>1
        <3>4. QED BY <3>1, <3>2, <3>3
    <2>7. ASSUME NEW j \in 1 .. Len(e), NEW l \in 1 .. Len(e), j < l
          PROVE  e[j].n < e[l].n
        <3>1. e[j].n = (IF j <= h THEN 0 ELSE f + (j - h)) /\ e[l].n = IF l <= h THEN 0 ELSE f + (l - h)
            BY <2>4
        <3>2. Len(e) \in Nat /\ ~(l <= h)
            BY <2>2, <2>3, <2>7
        <3>3. QED BY <1>1, <2>2, <2>7, <3>1, <3>2
    <2>8. QED BY <2>3, <2>5, <2>6, <2>7 DEF e
<1>6. QED BY <1>4, <1>5

\* A job has the news of every book, in order, or is a heartbeat.
LEMMA JobHasTheNews ==
    ASSUME ledger \in Ledger, recorded \in [Books -> Nat], LagsBehind
    PROVE  /\ JobEvents \in Seq(Event)
           /\ \A k \in 1 .. Len(JobEvents) :
                 \/ JobEvents[k] = Heartbeat
                 \/ JobEvents[k].book \in Books /\ JobEvents[k].n \in News(JobEvents[k].book)
           /\ \A b \in Books : \A m \in News(b) :
                 \E k \in 1 .. Len(JobEvents) : JobEvents[k].book = b /\ JobEvents[k].n = m
           /\ Ascending(JobEvents)
<1> DEFINE ss == [i \in DOMAIN BookOrder |-> EventsOf(BookOrder[i])]
<1>1. /\ \A i \in DOMAIN BookOrder : BookOrder[i] \in Books
      /\ DOMAIN BookOrder = 1 .. Len(BookOrder) /\ Len(BookOrder) \in Nat
      /\ \A b \in Books : \E i \in DOMAIN BookOrder : BookOrder[i] = b
      /\ \A i, m \in DOMAIN BookOrder : BookOrder[i] = BookOrder[m] => i = m
    BY OrderAssumption DEF ToSet, IsInjective
<1>2. \A i \in DOMAIN BookOrder : EventsOf(BookOrder[i]) \in Seq(Event)
    BY <1>1, EventsOfBook
<1>3. ss \in Seq(Seq(Event)) /\ Len(ss) = Len(BookOrder)
    <2> HIDE DEF ss
    <2>1. ss = [i \in 1 .. Len(BookOrder) |-> EventsOf(BookOrder[i])]
        BY <1>1 DEF ss
    <2>2. QED BY <1>1, <1>2, <2>1
<1>4. \A i \in 1 .. Len(ss) : i \in DOMAIN BookOrder /\ ss[i] = EventsOf(BookOrder[i]) /\ BookOrder[i] \in Books
    BY <1>1, <1>3
<1>5. AllEvents = FlattenSeq(ss)
    BY DEF AllEvents
<1> HIDE DEF ss
<1> DEFINE t == AllEvents
<1>6. t \in Seq(Event) /\ Lists(t, ss, Len(ss))
    BY <1>3, <1>5, FlattenLists
<1> HIDE DEF t
<1>7. \A i \in 1 .. Len(ss) :
          /\ \A j \in 1 .. Len(ss[i]) : ss[i][j].book = BookOrder[i] /\ ss[i][j].n \in News(BookOrder[i])
          /\ \A m \in News(BookOrder[i]) : \E j \in 1 .. Len(ss[i]) : ss[i][j].n = m
          /\ \A j, q \in 1 .. Len(ss[i]) : j < q => ss[i][j].n < ss[i][q].n
    BY <1>4, EventsOfBook
<1>8. \A k \in 1 .. Len(t) : t[k].book \in Books /\ t[k].n \in News(t[k].book)
    <2> SUFFICES ASSUME NEW k \in 1 .. Len(t) PROVE t[k].book \in Books /\ t[k].n \in News(t[k].book)
        OBVIOUS
    <2>1. PICK i \in 1 .. Len(ss) : \E j \in 1 .. Len(ss[i]) : t[k] = ss[i][j]
        BY <1>6 DEF Lists
    <2>2. QED BY <1>4, <1>7, <2>1
<1>9. \A b \in Books : \A m \in News(b) : \E k \in 1 .. Len(t) : t[k].book = b /\ t[k].n = m
    <2> SUFFICES ASSUME NEW b \in Books, NEW m \in News(b)
                 PROVE  \E k \in 1 .. Len(t) : t[k].book = b /\ t[k].n = m
        OBVIOUS
    <2>1. PICK i \in 1 .. Len(ss) : BookOrder[i] = b
        BY <1>1, <1>3
    <2>2. PICK j \in 1 .. Len(ss[i]) : ss[i][j].n = m
        BY <1>7, <2>1
    <2>3. ss[i][j].book = b
        BY <1>7, <2>1
    <2>4. PICK k \in 1 .. Len(t) : t[k] = ss[i][j]
        BY <1>6 DEF Lists
    <2>5. QED BY <2>2, <2>3, <2>4
<1>10. \A k, l \in 1 .. Len(t) : k < l /\ t[k].book = t[l].book => t[k].n < t[l].n
    <2> SUFFICES ASSUME NEW k \in 1 .. Len(t), NEW l \in 1 .. Len(t), k < l, t[k].book = t[l].book
                 PROVE  t[k].n < t[l].n
        OBVIOUS
    <2>1. PICK i \in 1 .. Len(ss), m \in 1 .. Len(ss) :
              \E j \in 1 .. Len(ss[i]), q \in 1 .. Len(ss[m]) :
                  /\ t[k] = ss[i][j] /\ t[l] = ss[m][q]
                  /\ i < m \/ (i = m /\ j < q)
        BY <1>6 DEF Lists
    <2>2. PICK j \in 1 .. Len(ss[i]) : \E q \in 1 .. Len(ss[m]) :
                  /\ t[k] = ss[i][j] /\ t[l] = ss[m][q]
                  /\ i < m \/ (i = m /\ j < q)
        BY <2>1
    <2>3. PICK q \in 1 .. Len(ss[m]) :
                  /\ t[k] = ss[i][j] /\ t[l] = ss[m][q]
                  /\ i < m \/ (i = m /\ j < q)
        BY <2>2
    <2>4. i = m
        <3>1. BookOrder[i] = BookOrder[m]
            <4>1. t[k].book = BookOrder[i] /\ t[l].book = BookOrder[m]
                BY <1>7, <2>3
            <4>2. QED BY <4>1
        <3>2. QED BY <1>1, <1>4, <3>1
    <2>5. j < q
        BY <2>3, <2>4
    <2>6. QED BY <1>7, <2>3, <2>4, <2>5
<1>11. CASE t = <<>>
    <2>1. JobEvents = <<Heartbeat>> /\ Heartbeat \in Event
        BY <1>11 DEF JobEvents, t, Heartbeat, Event
    <2>2. \A b \in Books : News(b) = {}
        <3> SUFFICES ASSUME NEW b \in Books, NEW m \in News(b) PROVE FALSE
            OBVIOUS
        <3>1. \E k \in 1 .. Len(t) : t[k].book = b /\ t[k].n = m
            BY <1>9
        <3>2. QED BY <1>11, <3>1
    <2>3. JobEvents \in Seq(Event) /\ Len(JobEvents) = 1 /\ JobEvents[1] = Heartbeat
        BY <2>1
    <2>4. QED BY <2>2, <2>3 DEF Ascending
<1>12. CASE t # <<>>
    <2>1. JobEvents = t
        BY <1>12 DEF JobEvents, t
    <2>2. QED BY <1>6, <1>8, <1>9, <1>10, <2>1 DEF Ascending
<1>13. QED BY <1>11, <1>12

\* What is archived and in the job is what the checkpoints took of the books.
HistoryOK ==
    /\ LagsBehind
    /\ \A k \in 1 .. Len(Transitions) :
          \/ Transitions[k] = Heartbeat
          \/ /\ Transitions[k].book \in ledger.indexed
             /\ Transitions[k].n \in First(Transitions[k].book) .. ledger.frozen[Transitions[k].book]
    /\ \A b \in ledger.indexed : \A m \in First(b) .. ledger.frozen[b] :
          \E k \in 1 .. Len(Transitions) : Transitions[k].book = b /\ Transitions[k].n = m
    /\ Ascending(Transitions)

\* A sequence after the events of the first n proofs.
LEMMA AfterEvents ==
    ASSUME NEW S, NEW n \in Nat, NEW A, \A k \in 1 .. n : A[k].event \in S, NEW t \in Seq(S),
           NEW u, u = [k \in 1 .. n |-> A[k].event] \o t
    PROVE  /\ u \in Seq(S) /\ Len(u) = n + Len(t)
           /\ \A k \in 1 .. n : k \in 1 .. Len(u) /\ u[k] = A[k].event
           /\ \A k \in 1 .. Len(t) : n + k \in 1 .. Len(u) /\ u[n + k] = t[k]
<1> DEFINE h == [k \in 1 .. n |-> A[k].event]
<1>1. h \in Seq(S) /\ Len(h) = n /\ \A k \in 1 .. n : h[k] = A[k].event
    OBVIOUS
<1> HIDE DEF h
<1>2. /\ u \in Seq(S) /\ Len(u) = n + Len(t) /\ Len(t) \in Nat
      /\ \A k \in 1 .. n + Len(t) : u[k] = IF k <= n THEN h[k] ELSE t[k - n]
    <2>1. u = h \o t
        BY DEF h
    <2>2. t \in Seq(S) /\ Len(t) \in Nat
        OBVIOUS
    <2>3. /\ h \o t \in Seq(S) /\ Len(h \o t) = Len(h) + Len(t)
          /\ \A k \in 1 .. Len(h) + Len(t) : (h \o t)[k] = IF k <= Len(h) THEN h[k] ELSE t[k - Len(h)]
        BY ONLY <1>1, <2>2, ConcatProperties
    <2>4. QED BY <1>1, <2>1, <2>2, <2>3
<1>3. QED BY <1>1, <1>2

\* The types behind the list of archived and frozen transitions.
LEMMA ArchivedEvents ==
    ASSUME IInv
    PROVE  /\ ledger.sequence \in Nat /\ ledger.todo \in Seq(Event)
           /\ \A k \in 1 .. ledger.sequence : k \in ProofNumbers /\ archive[k].event \in Event
<1>1. ledger \in Ledger /\ archive \in [ProofNumbers -> Proof \cup {NoProof}]
    BY DEF IInv, Shape, TypeOK
<1>2. ledger.sequence \in Nat /\ ledger.todo \in Seq(Event) /\ Len(ledger.todo) \in Nat
    BY <1>1 DEF Ledger
<1>3. \A k \in 1 .. ledger.sequence : k \in ProofNumbers
    BY <1>2, BoundsAssumption DEF IInv, PageOK, ProofNumbers
<1>4. \A k \in 1 .. ledger.sequence : archive[k] \in Proof
    BY <1>1, <1>2, <1>3 DEF IInv, ArchiveOK, Archived
<1>5. QED BY <1>2, <1>3, <1>4 DEF Proof

\* Most steps leave the transitions where they are.
LEMMA SameTransitions ==
    ASSUME ledger'.sequence = ledger.sequence, ledger'.todo = ledger.todo,
           \A k \in 1 .. ledger.sequence : archive'[k].event = archive[k].event
    PROVE  Transitions' = Transitions
<1>1. [k \in 1 .. ledger'.sequence |-> archive'[k].event] = [k \in 1 .. ledger.sequence |-> archive[k].event]
    OBVIOUS
<1>2. QED BY <1>1 DEF Transitions

\* A step that neither freezes nor archives keeps the history; books may record more.
LEMMA HistoryKept ==
    ASSUME IInv, HistoryOK, Transitions' = Transitions,
           ledger'.frozen = ledger.frozen, ledger'.indexed = ledger.indexed,
           recorded' \in [Books -> Nat], \A b \in Books : recorded[b] <= recorded'[b]
    PROVE  HistoryOK'
<1>1. ledger.frozen \in [Books -> Nat] /\ recorded \in [Books -> Nat]
    BY DEF IInv, Shape, TypeOK, Ledger
<1>2. LagsBehind'
    BY <1>1 DEF HistoryOK, LagsBehind, Exists
<1>3. QED BY <1>2 DEF HistoryOK, Ascending

\* The journals of the books go to the end of the transitions.
LEMMA FreezeHistory ==
    ASSUME IInv, HistoryOK, Freeze
    PROVE  JobEvents \in Seq(Event) /\ HistoryOK'
<1>1. ledger \in Ledger /\ recorded \in [Books -> Nat]
    BY DEF IInv, Shape, TypeOK
<1>2. LagsBehind
    BY DEF HistoryOK
<1>3. /\ JobEvents \in Seq(Event)
      /\ \A k \in 1 .. Len(JobEvents) :
            \/ JobEvents[k] = Heartbeat
            \/ JobEvents[k].book \in Books /\ JobEvents[k].n \in News(JobEvents[k].book)
      /\ \A b \in Books : \A m \in News(b) :
            \E k \in 1 .. Len(JobEvents) : JobEvents[k].book = b /\ JobEvents[k].n = m
      /\ Ascending(JobEvents)
    BY <1>1, <1>2, JobHasTheNews
<1>4. archive' = archive /\ recorded' = recorded
    BY DEF Freeze, outside
<1>5. CASE ledger' = ledger
    <2>1. Transitions' = Transitions
        BY <1>4, <1>5, SameTransitions
    <2>2. QED BY <1>1, <1>3, <1>4, <1>5, <2>1, HistoryKept
<1>6. CASE ledger' # ledger
    <2> DEFINE s == ledger.sequence
               f == ledger.frozen
               T == Transitions
               U == Transitions'
               J == JobEvents
    <2>1. /\ ~ledger.job
          /\ ledger' = [ledger EXCEPT
                 !.job = TRUE, !.at = now, !.todo = JobEvents, !.validated = FALSE, !.frozen = Taken,
                 !.indexed = {b \in Books : Exists(b)},
                 !.next = IF ledger.force THEN @ ELSE now + Interval, !.force = FALSE]
        BY <1>6 DEF Freeze, CheckpointDue
    <2>2. /\ ledger'.todo = J /\ ledger'.sequence = s /\ ledger'.frozen = recorded
          /\ ledger'.indexed = {b \in Books : Exists(b)}
        <3>1. Taken = recorded
            BY <1>1 DEF Taken
        <3>2. QED BY <1>1, <2>1, <3>1 DEF Ledger
    <2>3. ledger.todo = <<>> /\ Len(ledger.todo) = 0
        BY <2>1 DEF IInv, PageOK
    <2>4. /\ T \in Seq(Event) /\ Len(T) = s /\ s \in Nat
          /\ \A k \in 1 .. s : T[k] = archive[k].event
        <3>1. /\ s \in Nat /\ ledger.todo \in Seq(Event)
              /\ \A k \in 1 .. s : archive[k].event \in Event
            BY ArchivedEvents
        <3>2. T = [k \in 1 .. s |-> archive[k].event] \o ledger.todo
            BY DEF Transitions
        <3> HIDE DEF T, s
        <3>3. /\ T \in Seq(Event) /\ Len(T) = s + Len(ledger.todo)
              /\ \A k \in 1 .. s : T[k] = archive[k].event
            BY <3>1, <3>2, AfterEvents
        <3>4. QED BY <2>3, <3>1, <3>3
    <2>5. /\ U \in Seq(Event) /\ Len(U) = s + Len(J) /\ Len(J) \in Nat
          /\ \A k \in 1 .. s : k \in 1 .. Len(U) /\ U[k] = T[k]
          /\ \A k \in 1 .. Len(J) : s + k \in 1 .. Len(U) /\ U[s + k] = J[k]
        <3>1. /\ s \in Nat /\ \A k \in 1 .. s : archive[k].event \in Event
            BY ArchivedEvents
        <3>2. U = [k \in 1 .. s |-> archive[k].event] \o J
            BY <1>4, <2>2 DEF Transitions
        <3> HIDE DEF U, s, T, J
        <3>3. J \in Seq(Event)
            BY <1>3 DEF J
        <3>4. /\ U \in Seq(Event) /\ Len(U) = s + Len(J)
              /\ \A k \in 1 .. s : k \in 1 .. Len(U) /\ U[k] = archive[k].event
              /\ \A k \in 1 .. Len(J) : s + k \in 1 .. Len(U) /\ U[s + k] = J[k]
            BY <3>1, <3>2, <3>3, AfterEvents
        <3>5. QED BY <2>4, <3>3, <3>4
    <2>6. \A k \in 1 .. Len(U) : k \in 1 .. s \/ (k - s \in 1 .. Len(J) /\ U[k] = J[k - s])
        <3> HIDE DEF U, s, T, J
        <3> SUFFICES ASSUME NEW k \in 1 .. Len(U), k \notin 1 .. s
                     PROVE  k - s \in 1 .. Len(J) /\ U[k] = J[k - s]
            OBVIOUS
        <3>1. k - s \in 1 .. Len(J) /\ s + (k - s) = k
            BY <2>4, <2>5
        <3>2. QED BY <2>5, <3>1
    <2>7. /\ \A k \in 1 .. s :
                \/ T[k] = Heartbeat
                \/ T[k].book \in ledger.indexed /\ T[k].n \in First(T[k].book) .. f[T[k].book]
          /\ \A b \in ledger.indexed : \A m \in First(b) .. f[b] :
                \E k \in 1 .. s : T[k].book = b /\ T[k].n = m
          /\ Ascending(T)
        <3> HIDE DEF s
        <3>1. QED BY <2>4 DEF HistoryOK
    <2>8. \A b \in Books : /\ f[b] \in Nat /\ recorded[b] \in Nat /\ f[b] <= recorded[b]
                           /\ b \in ledger.indexed => Exists(b)
                           /\ b \notin ledger.indexed => f[b] = 0 /\ First(b) = 0
                           /\ First(b) \in {0, 1}
        BY <1>1, <1>2 DEF LagsBehind, Ledger, First
    <2>9. \A b \in Books : \A m \in News(b) :
              /\ Exists(b) /\ m \in First(b) .. recorded[b]
              /\ b \in ledger.indexed => f[b] < m
        BY <2>8 DEF News
    <2>10. ledger.indexed \in SUBSET Books /\ Heartbeat.book \notin Books
        BY <1>1, BooksAssumption DEF Ledger, Heartbeat
    <2>11. \A b \in Books : Exists(b)' <=> Exists(b)
        BY <1>4 DEF Exists
    <2> HIDE DEF s, f, T, U, J
    <2>12. LagsBehind'
        BY <1>4, <2>2, <2>8, <2>11, <1>1 DEF LagsBehind, Exists
    <2>13. ASSUME NEW k \in 1 .. Len(U)
           PROVE  \/ U[k] = Heartbeat
                  \/ U[k].book \in ledger'.indexed /\ U[k].n \in First(U[k].book) .. ledger'.frozen[U[k].book]
        <3>1. CASE k \in 1 .. s
            <4>1. U[k] = T[k]
                BY <2>5, <3>1
            <4>2. CASE T[k] = Heartbeat
                BY <4>1, <4>2
            <4>3. CASE T[k].book \in ledger.indexed /\ T[k].n \in First(T[k].book) .. f[T[k].book]
                <5>1. T[k].book \in Books /\ Exists(T[k].book)
                    BY <2>8, <2>10, <4>3
                <5>2. T[k].n \in First(T[k].book) .. recorded[T[k].book]
                    BY <2>8, <4>3, <5>1
                <5>3. QED BY <2>2, <4>1, <5>1, <5>2
            <4>4. QED BY <2>7, <3>1, <4>2, <4>3
        <3>2. CASE k - s \in 1 .. Len(J) /\ U[k] = J[k - s]
            BY <1>3, <2>2, <2>9, <3>2 DEF J
        <3>3. QED BY <2>6, <3>1, <3>2
    <2>14. ASSUME NEW b \in ledger'.indexed, NEW m \in First(b) .. ledger'.frozen[b]
           PROVE  \E k \in 1 .. Len(U) : U[k].book = b /\ U[k].n = m
        <3>1. b \in Books /\ Exists(b) /\ m \in First(b) .. recorded[b]
            BY <2>2
        <3>2. CASE b \in ledger.indexed /\ m <= f[b]
            <4>1. m \in First(b) .. f[b]
                BY <2>8, <3>1, <3>2
            <4>2. QED BY <2>5, <2>7, <3>2, <4>1
        <3>3. CASE ~(b \in ledger.indexed /\ m <= f[b])
            <4>1. m \in News(b)
                BY <2>8, <3>1, <3>3 DEF News, f
            <4>2. QED BY <1>3, <2>5, <3>1, <4>1 DEF J
        <3>4. QED BY <3>2, <3>3
    <2>15. ASSUME NEW k \in 1 .. Len(U), NEW l \in 1 .. Len(U),
                  k < l, U[k].book = U[l].book, U[k] # Heartbeat
           PROVE  U[k].n < U[l].n
        <3>1. CASE l \in 1 .. s
            <4>1. k \in 1 .. s
                BY <2>4, <2>5, <2>15, <3>1
            <4>2. U[k] = T[k] /\ U[l] = T[l]
                BY <2>5, <3>1, <4>1
            <4>3. k \in 1 .. Len(T) /\ l \in 1 .. Len(T)
                BY <2>4, <3>1, <4>1
            <4>4. QED BY <2>7, <2>15, <4>2, <4>3 DEF Ascending
        <3>2. CASE k \in 1 .. s /\ l - s \in 1 .. Len(J) /\ U[l] = J[l - s]
            <4>1. /\ U[k] = T[k] /\ T[k].book \in ledger.indexed /\ T[k].book \in Books
                  /\ T[k].n \in First(T[k].book) .. f[T[k].book]
                BY <2>5, <2>7, <2>10, <2>15, <3>2
            <4>2. J[l - s].book \in Books /\ J[l - s].n \in News(J[l - s].book)
                BY <1>3, <2>10, <2>15, <3>2, <4>1 DEF J
            <4>3. f[T[k].book] < U[l].n /\ U[l].n \in Nat
                BY <2>9, <2>15, <3>2, <4>1, <4>2 DEF News
            <4>4. QED BY <2>8, <4>1, <4>3
        <3>3. CASE k - s \in 1 .. Len(J) /\ U[k] = J[k - s] /\ l - s \in 1 .. Len(J) /\ U[l] = J[l - s]
            <4>1. k - s < l - s
                BY <2>4, <2>5, <2>15
            <4>2. QED BY <1>3, <2>15, <3>3, <4>1 DEF Ascending, J
        <3>4. k \in 1 .. s \/ (k - s \in 1 .. Len(J) /\ U[k] = J[k - s])
            BY <2>6
        <3>5. l \in 1 .. s \/ (l - s \in 1 .. Len(J) /\ U[l] = J[l - s])
            BY <2>6
        <3>6. QED BY <3>1, <3>2, <3>3, <3>4, <3>5
    <2>16. Ascending(U)
        BY <2>15 DEF Ascending
    <2>17. HistoryOK'
        BY <2>12, <2>13, <2>14, <2>16 DEF HistoryOK, U, First, Ascending
    <2>18. QED BY <1>3, <2>17
<1>7. QED BY <1>5, <1>6

\* What a step leaves alone of what the transitions depend on.
SameHistory ==
    /\ ledger'.sequence = ledger.sequence /\ ledger'.todo = ledger.todo
    /\ ledger'.frozen = ledger.frozen /\ ledger'.indexed = ledger.indexed
    /\ recorded' \in [Books -> Nat] /\ \A b \in Books : recorded[b] <= recorded'[b]
    /\ \A k \in 1 .. ledger.sequence : archive'[k].event = archive[k].event

\* A step that touches neither the proofs nor the books keeps the history.
LEMMA SameHistoryKept == ASSUME IInv, HistoryOK, SameHistory PROVE HistoryOK'
<1>1. Transitions' = Transitions
    BY SameTransitions DEF SameHistory
<1>2. QED BY <1>1, HistoryKept DEF SameHistory

\* Steps that change the ledger, if at all, in other respects.
LEMMA OtherStepHistory ==
    ASSUME IInv, archive' = archive,
           \/ ledger' = ledger
           \/ ledger' = [ledger EXCEPT !.force = TRUE]
           \/ ledger' = [ledger EXCEPT !.validated = TRUE]
           \/ \E p : ledger' = [ledger EXCEPT !.page = p]
           \/ ledger' = [ledger EXCEPT !.job = FALSE, !.completed = ledger.sequence]
           \/ ledger' = [ledger EXCEPT !.registryInitialized = TRUE]
           \/ \E k : ledger' = [ledger EXCEPT !.anchored = k],
           recorded' = recorded \/ \E b \in Books : recorded' = [recorded EXCEPT ![b] = @ + 1]
    PROVE  SameHistory
<1>1. ledger \in Ledger /\ recorded \in [Books -> Nat]
    BY DEF IInv, Shape, TypeOK
<1>2. /\ ledger'.sequence = ledger.sequence /\ ledger'.todo = ledger.todo
      /\ ledger'.frozen = ledger.frozen /\ ledger'.indexed = ledger.indexed
    BY <1>1 DEF Ledger
<1>3. recorded' \in [Books -> Nat] /\ \A b \in Books : recorded[b] <= recorded'[b]
    <2>1. CASE recorded' = recorded
        BY <1>1, <2>1
    <2>2. ASSUME NEW b \in Books, recorded' = [recorded EXCEPT ![b] = @ + 1]
          PROVE  recorded' \in [Books -> Nat] /\ \A c \in Books : recorded[c] <= recorded'[c]
        BY <1>1, <2>2
    <2>3. QED BY <2>1, <2>2
<1>4. QED BY <1>2, <1>3 DEF SameHistory

\* The transition of the open page moves from the job into the archive.
LEMMA AdvanceHistory == ASSUME IInv, HistoryOK, Advance PROVE HistoryOK'
<1>1. ledger \in Ledger /\ recorded \in [Books -> Nat]
    BY DEF IInv, Shape, TypeOK
<1>2. archive' = archive /\ recorded' = recorded
    BY DEF Advance, outside
<1>3. CASE ledger' = ledger
    BY <1>2, <1>3, OtherStepHistory, SameHistoryKept
<1>4. CASE ledger' # ledger
    <2> DEFINE s == ledger.sequence
               todo == ledger.todo
               T == Transitions
               U == Transitions'
    <2>1. ledger' = Advanced(page) /\ pc = "advance" /\ page = ledger.page /\ page # NoPage
        BY <1>4 DEF Advance, IInv, TickOK, Shape, TypeOK
    <2>2. /\ page.seq = s + 1 /\ page.event = Head(todo) /\ todo # <<>>
          /\ Archived(s + 1) /\ s \in Nat /\ todo \in Seq(Event)
        BY <1>1, <2>1 DEF IInv, PageOK, TickOK, Shape, TypeOK, Ledger
    <2>3. /\ ledger'.sequence = s + 1 /\ ledger'.todo = Tail(todo)
          /\ ledger'.frozen = ledger.frozen /\ ledger'.indexed = ledger.indexed
        BY <1>1, <2>1, <2>2 DEF Advanced, Ledger
    <2>4. /\ s + 1 \in ProofNumbers
          /\ Len(todo) \in Nat \ {0} /\ Tail(todo) \in Seq(Event) /\ Len(Tail(todo)) = Len(todo) - 1
          /\ Head(todo) = todo[1] /\ Head(todo) \in Event
          /\ \A k \in 1 .. Len(todo) - 1 : Tail(todo)[k] = todo[k + 1]
        <3>1. /\ Len(todo) \in Nat \ {0} /\ Tail(todo) \in Seq(Event) /\ Len(Tail(todo)) = Len(todo) - 1
              /\ Head(todo) = todo[1] /\ Head(todo) \in Event
              /\ \A k \in 1 .. Len(todo) - 1 : Tail(todo)[k] = todo[k + 1]
            BY <2>2, HeadTailProperties, EmptySeq
        <3>2. s + Len(todo) <= MaxSequence
            BY DEF IInv, PageOK
        <3>3. QED BY <2>2, <3>1, <3>2, BoundsAssumption DEF ProofNumbers
    <2>5. archive[s + 1].event = todo[1]
        <3>1. s + 1 > s
            BY <2>2
        <3>2. archive[s + 1].event = ledger.page.event
            BY <2>2, <2>4, <3>1 DEF IInv, ArchiveOK
        <3>3. QED BY <2>1, <2>2, <2>4, <3>2
    <2>6. /\ T \in Seq(Event) /\ Len(T) = s + Len(todo)
          /\ \A k \in 1 .. s : T[k] = archive[k].event
          /\ \A k \in 1 .. Len(todo) : T[s + k] = todo[k]
        <3>1. \A k \in 1 .. s : archive[k].event \in Event
            BY ArchivedEvents
        <3>2. T = [k \in 1 .. s |-> archive[k].event] \o todo
            BY DEF Transitions
        <3> HIDE DEF T, s, todo
        <3>3. QED BY <2>2, <3>1, <3>2, AfterEvents
    <2>7. /\ U \in Seq(Event) /\ Len(U) = (s + 1) + (Len(todo) - 1)
          /\ \A k \in 1 .. s + 1 : U[k] = archive[k].event
          /\ \A k \in 1 .. Len(todo) - 1 : U[(s + 1) + k] = todo[k + 1]
        <3>1. \A k \in 1 .. s : archive[k].event \in Event
            BY ArchivedEvents
        <3>2. U = [k \in 1 .. s + 1 |-> archive[k].event] \o Tail(todo)
            BY <1>2, <2>3 DEF Transitions
        <3>3. \A k \in 1 .. s + 1 : archive[k].event \in Event
            BY <2>2, <2>4, <2>5, <3>1
        <3>4. s + 1 \in Nat
            BY <2>2
        <3> HIDE DEF U, s, todo
        <3>5. /\ U \in Seq(Event) /\ Len(U) = (s + 1) + Len(Tail(todo))
              /\ \A k \in 1 .. s + 1 : U[k] = archive[k].event
              /\ \A k \in 1 .. Len(Tail(todo)) : U[(s + 1) + k] = Tail(todo)[k]
            <4> DEFINE m == s + 1
                       rest == Tail(todo)
            <4>1. rest \in Seq(Event) /\ m \in Nat /\ \A k \in 1 .. m : archive[k].event \in Event
                BY <2>4, <3>3, <3>4
            <4>2. U = [k \in 1 .. m |-> archive[k].event] \o rest
                BY <3>2
            <4> HIDE DEF m, rest
            <4>3. /\ U \in Seq(Event) /\ Len(U) = m + Len(rest)
                  /\ \A k \in 1 .. m : U[k] = archive[k].event
                  /\ \A k \in 1 .. Len(rest) : U[m + k] = rest[k]
                BY ONLY <4>1, <4>2, AfterEvents
            <4>4. QED BY <4>3 DEF m, rest
        <3>6. QED BY <2>4, <3>5
    <2> HIDE DEF s, todo, T, U
    <2>8. Len(U) = Len(T) /\ Len(T) \in Nat
        BY <2>2, <2>4, <2>6, <2>7
    <2>9. \A k \in 1 .. Len(T) : U[k] = T[k]
        <3> SUFFICES ASSUME NEW k \in 1 .. Len(T) PROVE U[k] = T[k]
            OBVIOUS
        <3>1. CASE k <= s
            <4>1. k \in 1 .. s /\ k \in 1 .. s + 1
                BY <2>2, <2>6, <3>1
            <4>2. QED BY <2>6, <2>7, <4>1
        <3>2. CASE k = s + 1
            <4>1. k \in 1 .. s + 1 /\ 1 \in 1 .. Len(todo) /\ k = s + 1
                BY <2>2, <2>4, <3>2
            <4>2. QED BY <2>5, <2>6, <2>7, <4>1
        <3>3. CASE k > s + 1
            <4>1. /\ k - (s + 1) \in 1 .. Len(todo) - 1 /\ (s + 1) + (k - (s + 1)) = k
                  /\ k - s \in 1 .. Len(todo) /\ s + (k - s) = k /\ (k - (s + 1)) + 1 = k - s
                BY <2>2, <2>4, <2>6, <3>3
            <4>2. U[k] = todo[k - s] /\ T[k] = todo[k - s]
                BY <2>6, <2>7, <4>1
            <4>3. QED BY <4>2
        <3>4. QED BY <2>2, <3>1, <3>2, <3>3
    <2>10. U = T
        BY <2>6, <2>7, <2>8, <2>9, SeqEqual
    <2>11. \A b \in Books : recorded[b] <= recorded[b]
        BY <1>1
    <2>12. QED BY <1>1, <1>2, <2>3, <2>10, <2>11, HistoryKept DEF T, U
<1>5. QED BY <1>3, <1>4

\* The archive gets the proof of the open page, or is told of a transaction.
LEMMA ArchiveHistory == ASSUME IInv, HistoryOK, Prove \/ MarkProof PROVE HistoryOK'
<1>1. /\ ledger' = ledger /\ recorded' = recorded /\ recorded \in [Books -> Nat]
      /\ archive \in [ProofNumbers -> Proof \cup {NoProof}] /\ ledger \in Ledger
    BY DEF Prove, MarkProof, outside, IInv, Shape, TypeOK
<1>2. \A k \in 1 .. ledger.sequence : archive'[k].event = archive[k].event
    <2> SUFFICES ASSUME NEW k \in 1 .. ledger.sequence PROVE archive'[k].event = archive[k].event
        OBVIOUS
    <2>1. k \in ProofNumbers /\ ledger.sequence \in Nat
        BY ArchivedEvents
    <2>2. CASE Prove
        <3>1. page = ledger.page /\ page # NoPage /\ archive' = [archive EXCEPT ![page.seq] = ProofOf(page)]
            BY <2>2 DEF Prove, IInv, TickOK, Shape, TypeOK
        <3>2. page.seq = ledger.sequence + 1
            BY <3>1 DEF IInv, PageOK
        <3>3. k # page.seq
            BY <2>1, <3>2
        <3>4. QED BY <1>1, <2>1, <3>1, <3>3
    <2>3. CASE MarkProof
        <3>1. archive' = [archive EXCEPT ![cur].anchored = TRUE]
            BY <2>3 DEF MarkProof
        <3>2. archive[k] \in Proof
            BY <1>1, <2>1 DEF IInv, ArchiveOK, Archived
        <3>3. archive'[k] = archive[k] \/ archive'[k] = [archive[k] EXCEPT !.anchored = TRUE]
            BY <1>1, <2>1, <3>1
        <3>4. QED BY <3>2, <3>3 DEF Proof
    <2>4. QED BY <2>2, <2>3
<1>3. \A b \in Books : recorded[b] <= recorded'[b]
    BY <1>1
<1>4. SameHistory
    BY <1>1, <1>2, <1>3 DEF SameHistory
<1>5. QED BY <1>4, SameHistoryKept

--------------------------------------------------------------------------------
(* The invariant and what follows from it. *)

\* Every step keeps both invariants.
LEMMA StepKeeps ==
    ASSUME IInv /\ SentOK /\ HistoryOK, [Next]_vars
    PROVE  (IInv /\ HistoryOK)'
<1>1. ASSUME NEW b \in Books, Record(b) PROVE (IInv /\ HistoryOK)'
    <2>1. SameHistory
        BY <1>1, OtherStepHistory DEF Record
    <2>2. QED BY <1>1, <2>1, OutsideIInv, SameHistoryKept
<1>2. CASE RequestCheckpoint \/ ClockTicks \/ BlockTicks \/ ClockSetBack
    <2>1. SameHistory
        BY <1>2, OtherStepHistory DEF RequestCheckpoint, ClockTicks, BlockTicks, ClockSetBack, outside
    <2>2. QED BY <1>2, <2>1, OutsideIInv, SameHistoryKept
<1>3. CASE Crash \/ Fails \/ GivesUp
    <2>1. SameHistory
        BY <1>3, OtherStepHistory DEF Crash, Fails, GivesUp
    <2>2. QED BY <1>3, <2>1, TroubleIInv, SameHistoryKept
<1>4. CASE \/ TickBegin \/ ResumePage \/ AnchorNothing \/ AnchorProof \/ SubmitKnown \/ SubmitRefused
           \/ ReuseProof
    <2>1. /\ UNCHANGED <<record, mined, archive, contract, salts, ledger>> /\ UNCHANGED outside
          /\ recorded' = recorded
        BY <1>4 DEF TickBegin, ResumePage, AnchorNothing, AnchorProof, SubmitKnown, SubmitRefused, ReuseProof,
                    submitterVars, outside
    <2>2. SameHistory
        BY <2>1, OtherStepHistory
    <2>3. QED BY <1>4, <2>1, <2>2, GotoIInv, SameHistoryKept
<1>5. CASE Freeze
    BY <1>5, FreezeHistory, FreezeIInv
<1>6. CASE Validate
    <2>1. SameHistory
        BY <1>6, OtherStepHistory DEF Validate, outside
    <2>2. QED BY <1>6, <2>1, ValidateIInv, SameHistoryKept
<1>7. CASE PreparePage
    <2>1. SameHistory
        BY <1>7, OtherStepHistory DEF PreparePage, outside
    <2>2. QED BY <1>7, <2>1, PreparePageIInv, SameHistoryKept
<1>8. CASE CompleteJob
    <2>1. SameHistory
        BY <1>8, OtherStepHistory DEF CompleteJob, outside
    <2>2. QED BY <1>8, <2>1, CompleteJobIInv, SameHistoryKept
<1>9. CASE Prove \/ MarkProof
    BY <1>9, ProveIInv, MarkProofIInv, ArchiveHistory
<1>10. CASE Advance
    BY <1>10, AdvanceIInv, AdvanceHistory
<1>11. CASE AnchorGenesis
    <2>1. SameHistory
        BY <1>11, OtherStepHistory DEF AnchorGenesis, outside
    <2>2. QED BY <1>11, <2>1, AnchorGenesisIInv, SameHistoryKept
<1>12. CASE SubmitSign
    <2>1. SameHistory
        BY <1>12, OtherStepHistory DEF SubmitSign, outside
    <2>2. QED BY <1>12, <2>1, SubmitSignIInv, SameHistoryKept
<1>13. CASE MarkAnchored
    <2>1. SameHistory
        BY <1>13, OtherStepHistory DEF MarkAnchored, outside
    <2>2. QED BY <1>13, <2>1, MarkAnchoredIInv, SameHistoryKept
<1>14. CASE SubmitAnswered
    <2>1. SameHistory
        BY <1>14, OtherStepHistory DEF SubmitAnswered, outside
    <2>2. cur \in StepIds
        BY <1>14, NothingAssumption DEF SubmitAnswered, IInv, Shape, TypeOK
    <2>3. QED BY <1>14, <2>1, <2>2, LearnIInv, SameHistoryKept
<1>15. ASSUME NEW x \in StepIds, SubmitSync(x) \/ LearnedElsewhere(x) PROVE (IInv /\ HistoryOK)'
    <2>1. SameHistory
        BY <1>15, OtherStepHistory DEF SubmitSync, LearnedElsewhere, outside
    <2>2. QED BY <1>15, <2>1, LearnIInv, SameHistoryKept
<1>16. CASE MineGenesis
    <2>1. SameHistory
        BY <1>16, OtherStepHistory DEF MineGenesis, outside
    <2>2. QED BY <1>16, <2>1, MineGenesisIInv, SameHistoryKept
<1>17. ASSUME NEW k \in ProofNumbers, MineAppend(k) PROVE (IInv /\ HistoryOK)'
    <2>1. SameHistory
        BY <1>17, OtherStepHistory DEF MineAppend, outside
    <2>2. QED BY <1>17, <2>1, MineAppendIInv, SameHistoryKept
<1>18. CASE UNCHANGED vars
    <2>1. SameHistory
        BY <1>18, OtherStepHistory DEF vars
    <2>2. SameProofs /\ Shape' /\ TickOK'
        BY <1>18 DEF vars, SameProofs, IInv, Shape, TypeOK, StepsTypeOK, TickOK, Archived
    <2>3. QED BY <2>1, <2>2, SameProofsKept, SameHistoryKept DEF IInv
<1>19. QED BY <1>1, <1>2, <1>3, <1>4, <1>5, <1>6, <1>7, <1>8, <1>9, <1>10, <1>11, <1>12, <1>13,
             <1>14, <1>15, <1>16, <1>17, <1>18 DEF Next, Tick, Anchoring, Mining, Environment

--------------------------------------------------------------------------------
(* What is on its way stays acceptable, and the dates only fall back with the clock. *)

\* A step that neither signs nor is mined, and lets blocks get older, keeps what was sent
\* acceptable.
LEMMA SentSame ==
    ASSUME IInv, SentOK, contract' = contract, mined' = mined, blockTime' \in Nat, blockTime' >= blockTime,
           \A k \in ProofNumbers :
              record'[k] = "signed" =>
                 /\ record[k] = "signed"
                 /\ archive'[k].old = archive[k].old /\ archive'[k].new = archive[k].new
                 /\ archive'[k].at = archive[k].at
    PROVE  SentOK'
<1> SUFFICES ASSUME NEW k \in ProofNumbers, record'[k] = "signed", mined'[k] = "no"
             PROVE  Accepted(k)'
    BY DEF SentOK
<1>1. Accepted(k)
    BY DEF SentOK
<1>2. archive[k].at \in Nat /\ blockTime \in Nat
    <2>1. k \in StepIds /\ record[k] # "absent"
        BY BoundsAssumption DEF ProofNumbers, StepIds
    <2>2. k <= ledger.sequence
        BY <2>1 DEF IInv, ContractOK
    <2>3. archive[k] \in Proof
        BY <2>2 DEF IInv, ArchiveOK, Archived, Shape, TypeOK
    <2>4. QED BY <2>3, BoundsAssumption DEF Proof, IInv, Shape, TypeOK
<1>3. Root' = Root /\ CheckpointAt' = CheckpointAt
    BY DEF Root, CheckpointAt
<1>4. QED BY <1>1, <1>2, <1>3 DEF Accepted

\* What is signed was accepted by the estimate; what is mined is no longer on its way;
\* there is only one, and its proof stays as it is.
LEMMA SentKept ==
    ASSUME IInv /\ SentOK, [Next]_vars
    PROVE  SentOK'
<1> DEFINE Older == blockTime' \in Nat /\ blockTime' >= blockTime
<1>0. /\ blockTime \in Nat /\ \A k \in ProofNumbers : k \in StepIds /\ k # 0
      /\ record \in [StepIds -> {"absent", "signed"} \cup Outcomes]
      /\ mined \in [StepIds -> {"no"} \cup Outcomes]
    BY BoundsAssumption DEF ProofNumbers, StepIds, IInv, Shape, TypeOK, StepsTypeOK
<1>1. CASE UNCHANGED <<record, mined, archive, contract>> /\ Older
    BY <1>1, SentSame
<1>2. CASE BlockTicks
    BY <1>0, <1>1, <1>2 DEF BlockTicks, submitterVars
<1>3. CASE \/ \E b \in Books : Record(b)
           \/ RequestCheckpoint \/ ClockTicks \/ ClockSetBack \/ Crash \/ Fails \/ GivesUp
    <2>1. UNCHANGED <<record, mined, archive, contract, blockTime>>
        BY <1>3 DEF Record, RequestCheckpoint, ClockTicks, ClockSetBack, Crash, Fails, GivesUp,
                    submitterVars, clockVars
    <2>2. QED BY <1>0, <1>1, <2>1
<1>4. CASE \/ TickBegin \/ Freeze \/ Validate \/ PreparePage \/ ResumePage \/ CompleteJob
           \/ ReuseProof \/ Advance \/ AnchorNothing \/ AnchorGenesis \/ AnchorProof \/ SubmitKnown
           \/ SubmitRefused \/ MarkAnchored
    <2>1. UNCHANGED <<record, mined, archive, contract, blockTime>>
        BY <1>4 DEF TickBegin, Freeze, Validate, PreparePage, ResumePage, CompleteJob, ReuseProof, Advance,
                    AnchorNothing, AnchorGenesis, AnchorProof, SubmitKnown, SubmitRefused, MarkAnchored,
                    submitterVars, outside
    <2>2. QED BY <1>0, <1>1, <2>1
<1>5. CASE Prove
    <2>1. /\ archive' = [archive EXCEPT ![ledger.sequence + 1] = ProofOf(page)]
          /\ UNCHANGED <<record, mined, contract, blockTime>>
        BY <1>5 DEF Prove, submitterVars, outside, IInv, TickOK, PageOK, Shape, TypeOK
    <2>2. \A k \in ProofNumbers : record[k] = "signed" => k <= ledger.sequence
        BY DEF IInv, ContractOK
    <2>3. ledger.sequence \in Nat /\ \A k \in ProofNumbers : k \in Nat
        BY BoundsAssumption DEF IInv, Shape, TypeOK, Ledger, ProofNumbers
    <2>4. archive \in [ProofNumbers -> Proof \cup {NoProof}]
        BY DEF IInv, Shape, TypeOK
    <2>5. \A k \in ProofNumbers : record[k] = "signed" => archive'[k] = archive[k]
        BY <2>1, <2>2, <2>3, <2>4
    <2>6. QED BY <1>0, <2>1, <2>5, SentSame
<1>6. CASE MarkProof
    <2>1. archive' = [archive EXCEPT ![cur].anchored = TRUE] /\ UNCHANGED <<record, mined, contract, blockTime>>
        BY <1>6 DEF MarkProof, submitterVars, outside
    <2>2. archive \in [ProofNumbers -> Proof \cup {NoProof}]
        BY DEF IInv, Shape, TypeOK
    <2>3. \A k \in ProofNumbers : record[k] = "signed" => archive[k] \in Proof
        BY <2>2 DEF IInv, ContractOK, ArchiveOK, Archived
    <2>4. \A k \in ProofNumbers : record[k] = "signed" =>
              /\ archive'[k].old = archive[k].old /\ archive'[k].new = archive[k].new
              /\ archive'[k].at = archive[k].at
        BY <2>1, <2>2, <2>3 DEF Proof
    <2>5. QED BY <1>0, <2>1, <2>4, SentSame
<1>7. ASSUME NEW x \in StepIds, Learn(x), UNCHANGED <<archive, contract, blockTime>> PROVE SentOK'
    <2>1. mined' = mined /\ record' = [record EXCEPT ![x] = "ok"]
        BY <1>7, LearnKeeps
    <2>2. \A k \in ProofNumbers : record'[k] = "signed" => record[k] = "signed"
        BY <1>0, <2>1
    <2>3. QED BY <1>0, <1>7, <2>1, <2>2, SentSame
<1>8. CASE SubmitAnswered
    <2>1. cur \in StepIds
        BY <1>8, NothingAssumption DEF SubmitAnswered, IInv, Shape, TypeOK
    <2>2. QED BY <1>7, <1>8, <2>1 DEF SubmitAnswered, outside
<1>9. ASSUME NEW x \in StepIds, SubmitSync(x) \/ LearnedElsewhere(x) PROVE SentOK'
    BY <1>7, <1>9 DEF SubmitSync, LearnedElsewhere, outside
<1>10. CASE SubmitSign
    <2>1. /\ record' = [record EXCEPT ![cur] = "signed"] /\ InFlight = {} /\ Estimated(cur)
          /\ UNCHANGED <<archive, contract, blockTime, mined>>
        BY <1>10 DEF SubmitSign, Sign, outside
    <2>2. \A k \in ProofNumbers : record[k] # "signed"
        BY <1>0, <2>1 DEF InFlight
    <2>3. \A k \in ProofNumbers : record'[k] = "signed" => k = cur
        BY <1>0, <2>1, <2>2
    <2>4. \A k \in ProofNumbers : k = cur => Accepted(k)
        BY <1>0, <2>1 DEF Estimated
    <2>5. \A k \in ProofNumbers : Accepted(k) => Accepted(k)'
        BY <2>1 DEF Accepted, Root, CheckpointAt
    <2>6. QED BY <2>3, <2>4, <2>5 DEF SentOK
<1>11. CASE MineGenesis
    <2>1. /\ contract' = [contract EXCEPT !.initialized = TRUE] /\ record' = record
          /\ UNCHANGED <<archive, blockTime>>
          /\ \E outcome \in Outcomes : mined' = [mined EXCEPT ![0] = outcome]
        BY <1>11 DEF MineGenesis, Mine, outside
    <2>2. contract'.initialized = TRUE /\ contract'.log = contract.log
        BY <2>1 DEF IInv, Shape
    <2>3. \A k \in ProofNumbers : mined'[k] = mined[k]
        BY <1>0, <2>1
    <2>4. \A k \in ProofNumbers : Accepted(k) => Accepted(k)'
        BY <2>1, <2>2 DEF Accepted, Root, CheckpointAt
    <2>5. QED BY <2>1, <2>3, <2>4 DEF SentOK
<1>12. ASSUME NEW k \in ProofNumbers, MineAppend(k) PROVE SentOK'
    <2>1. /\ record' = record /\ record[k] = "signed"
          /\ \E outcome \in Outcomes : mined' = [mined EXCEPT ![k] = outcome]
        BY <1>12 DEF MineAppend, Mine
    <2>2. mined'[k] # "no"
        BY <1>0, <2>1 DEF Outcomes
    <2>3. \A j \in ProofNumbers : record[j] = "signed" => j = k
        BY <1>0, <2>1 DEF IInv, RecordsOK, InFlight
    <2>4. QED BY <2>1, <2>2, <2>3 DEF SentOK
<1>13. CASE UNCHANGED vars
    BY <1>0, <1>1, <1>13 DEF vars
<1>14. QED BY <1>2, <1>3, <1>4, <1>5, <1>6, <1>8, <1>9, <1>10, <1>11, <1>12, <1>13
           DEF Next, Tick, Anchoring, Mining, Environment

\* A step that archives nothing, dates no job and does not set the clock back.
DatesStay ==
    /\ ledger'.job => ledger.job /\ ledger'.at = ledger.at
    /\ clock' \in Nat /\ clock' >= clock
    /\ BeforeFreeze' => BeforeFreeze /\ now' = now
    /\ trouble'["clock"] = trouble["clock"]

\* Such a step keeps the order of the dates.
LEMMA DatesSame ==
    ASSUME IInv, DatesOK, DatesStay,
           \A k \in ProofNumbers : (Archived(k)' <=> Archived(k)) /\ archive'[k].at = archive[k].at
    PROVE  DatesOK'
<1> SUFFICES ASSUME trouble'["clock"] = 0 PROVE DatesOK'
    BY DEF DatesOK
<1>1. trouble["clock"] = 0
    BY DEF DatesStay
<1>2. clock \in Nat /\ now \in Nat /\ ledger.at \in Nat
    BY BoundsAssumption DEF IInv, Shape, TypeOK, Ledger
<1>3. \A k \in ProofNumbers : Archived(k) => archive[k].at \in Nat
    BY DEF IInv, Shape, TypeOK, Archived, Proof
<1>4. \A t : NotAfter(t) => \A k \in ProofNumbers : Archived(k)' => archive'[k].at <= t
    BY DEF NotAfter
<1>5. ledger'.job => ledger'.at <= clock' /\ NotAfter(ledger.at)
    BY <1>1, <1>2 DEF DatesStay, DatesOK
<1>6. NotAfter(clock)
    BY <1>1 DEF DatesOK
<1>7. \A k \in ProofNumbers : Archived(k)' => archive'[k].at <= clock'
    BY <1>2, <1>3, <1>6 DEF NotAfter, DatesStay
<1>8. BeforeFreeze' => now' = now /\ now <= clock' /\ NotAfter(now)
    BY <1>1, <1>2 DEF DatesStay, DatesOK
<1>9. \A k \in ProofNumbers : ~DateFallsBack(k)'
    <2>1. \A k \in ProofNumbers : k > 1 => k - 1 \in ProofNumbers
        BY BoundsAssumption DEF ProofNumbers
    <2>2. QED BY <1>1, <2>1 DEF DatesOK, DateFallsBack
<1>10. ledger'.job => ledger'.at = ledger.at
    BY DEF DatesStay
<1>11. QED BY <1>4, <1>5, <1>7, <1>8, <1>9, <1>10 DEF DatesOK, NotAfter

\* A checkpoint is dated by the clock its tick has read, and the next one later: dates
\* fall back only after the clock was set back.
LEMMA DatesKept ==
    ASSUME IInv /\ DatesOK, [Next]_vars
    PROVE  DatesOK'
<1>0. /\ clock \in Nat /\ now \in Nat /\ ledger.at \in Nat /\ ledger \in Ledger
      /\ trouble \in [TroubleKinds -> Nat] /\ "clock" \in TroubleKinds
      /\ \A k \in ProofNumbers : Archived(k) => archive[k].at \in Nat
    BY BoundsAssumption DEF IInv, Shape, TypeOK, Ledger, TroubleKinds, Archived, Proof
<1>1. CASE archive' = archive /\ DatesStay
    <2>1. \A k \in ProofNumbers : (Archived(k)' <=> Archived(k)) /\ archive'[k].at = archive[k].at
        BY <1>1 DEF Archived
    <2>2. QED BY <1>1, <2>1, DatesSame
<1>2. CASE \/ \E b \in Books : Record(b)
           \/ RequestCheckpoint \/ ClockTicks \/ BlockTicks
    <2>1. /\ archive' = archive /\ trouble' = trouble /\ UNCHANGED <<pc, after, now>>
          /\ clock' = clock \/ clock' = clock + 1
          /\ ledger' = ledger \/ ledger' = [ledger EXCEPT !.force = TRUE]
        BY <1>2 DEF Record, RequestCheckpoint, ClockTicks, BlockTicks, clockVars, tickVars
    <2>2. ledger'.job = ledger.job /\ ledger'.at = ledger.at
        BY <1>0, <2>1 DEF Ledger
    <2>3. DatesStay
        BY <1>0, <2>1, <2>2 DEF DatesStay, BeforeFreeze
    <2>4. QED BY <1>1, <2>1, <2>3
<1>3. CASE Crash \/ Fails \/ GivesUp
    <2>1. /\ UNCHANGED <<archive, ledger, clock>> /\ pc' = "idle"
          /\ trouble'["clock"] = trouble["clock"]
        BY <1>0, <1>3 DEF Crash, Fails, GivesUp, Happens, clockVars, EndTick
    <2>2. DatesStay
        BY <1>0, <2>1 DEF DatesStay, BeforeFreeze, AnchorLocations
    <2>3. QED BY <1>1, <2>1, <2>2
<1>4. CASE ClockSetBack
    <2>1. trouble'["clock"] = trouble["clock"] + 1
        BY <1>0, <1>4 DEF ClockSetBack, Happens
    <2>2. QED BY <1>0, <2>1 DEF DatesOK
<1>5. CASE \/ Validate \/ PreparePage \/ ResumePage \/ ReuseProof \/ Advance
           \/ AnchorNothing \/ AnchorGenesis \/ AnchorProof \/ SubmitKnown \/ SubmitRefused \/ SubmitAnswered
           \/ SubmitSign \/ MarkAnchored \/ \E x \in StepIds : SubmitSync(x) \/ LearnedElsewhere(x)
    <2>1. archive' = archive /\ clock' = clock /\ trouble' = trouble
        BY <1>5 DEF Validate, PreparePage, ResumePage, ReuseProof, Advance, AnchorNothing, AnchorGenesis,
                    AnchorProof, SubmitKnown, SubmitRefused, SubmitAnswered, SubmitSign, MarkAnchored, SubmitSync,
                    LearnedElsewhere, outside
    <2>2. ledger'.job = ledger.job /\ ledger'.at = ledger.at
        BY <1>0, <1>5 DEF Validate, PreparePage, ResumePage, ReuseProof, Advance, Advanced, AnchorNothing,
                    AnchorGenesis, AnchorProof, SubmitKnown, SubmitRefused, SubmitAnswered, SubmitSign,
                    MarkAnchored, SubmitSync, LearnedElsewhere, Ledger
    <2>3. BeforeFreeze' => BeforeFreeze /\ now' = now
        BY <1>5 DEF Validate, PreparePage, ResumePage, ReuseProof, Advance, AnchorNothing,
                    AnchorGenesis, AnchorProof, SubmitKnown, SubmitRefused, SubmitAnswered, SubmitSign,
                    MarkAnchored, SubmitSync, LearnedElsewhere, Submitted, Goto, EndTick, tickVars, BeforeFreeze,
                    AnchorLocations
    <2>4. QED BY <1>0, <1>1, <2>1, <2>2, <2>3 DEF DatesStay
<1>6. CASE CompleteJob
    <2>1. /\ archive' = archive /\ clock' = clock /\ trouble' = trouble /\ pc' = "idle"
          /\ ledger' = ledger \/ ledger' = [ledger EXCEPT !.job = FALSE, !.completed = ledger.sequence]
        BY <1>6 DEF CompleteJob, EndTick, outside
    <2>2. ledger' = ledger \/ ledger'.job = FALSE
        BY <1>0, <2>1 DEF Ledger
    <2>3. QED BY <1>0, <1>1, <2>1, <2>2 DEF DatesStay, BeforeFreeze, AnchorLocations
<1>7. CASE TickBegin
    <2>1. UNCHANGED <<archive, ledger, clock, trouble>> /\ now' = clock
        BY <1>7 DEF TickBegin, outside
    <2>2. \A t : NotAfter(t) <=> \A k \in ProofNumbers : Archived(k)' => archive'[k].at <= t
        BY <2>1 DEF NotAfter, Archived
    <2>3. \A k \in ProofNumbers : DateFallsBack(k)' <=> DateFallsBack(k)
        BY <2>1 DEF DateFallsBack, Archived
    <2>4. QED BY <1>0, <2>1, <2>2, <2>3 DEF DatesOK, NotAfter
<1>8. CASE Freeze
    <2>1. UNCHANGED <<archive, clock, trouble>> /\ pc = "freeze" /\ pc' = "validate"
        BY <1>8 DEF Freeze, outside
    <2>2. BeforeFreeze /\ ~BeforeFreeze'
        BY <2>1 DEF BeforeFreeze, AnchorLocations
    <2>3. CASE ledger' = ledger
        BY <1>0, <1>1, <2>1, <2>2, <2>3 DEF DatesStay
    <2>4. CASE ledger' # ledger
        <3>1. ledger'.at = now
            BY <1>0, <1>8, <2>4 DEF Freeze, Ledger
        <3>2. \A t : NotAfter(t) <=> \A k \in ProofNumbers : Archived(k)' => archive'[k].at <= t
            BY <2>1 DEF NotAfter, Archived
        <3>3. \A k \in ProofNumbers : DateFallsBack(k)' <=> DateFallsBack(k)
            BY <2>1 DEF DateFallsBack, Archived
        <3>4. QED BY <2>1, <2>2, <3>1, <3>2, <3>3 DEF DatesOK, NotAfter
    <2>5. QED BY <2>3, <2>4
<1>9. CASE MarkProof
    <2>1. /\ archive' = [archive EXCEPT ![cur].anchored = TRUE] /\ UNCHANGED <<ledger, clock, trouble, after, now>>
          /\ pc = "mark" /\ pc' = "marked" /\ cur # 0 /\ cur \in StepIds
        BY <1>9 DEF MarkProof, Goto, outside, IInv, TickOK, Shape, TypeOK
    <2>2. cur \in ProofNumbers /\ cur <= ledger.sequence
        BY <2>1, BoundsAssumption DEF StepIds, ProofNumbers, IInv, TickOK
    <2>3. archive \in [ProofNumbers -> Proof \cup {NoProof}] /\ archive[cur] \in Proof
        BY <2>2 DEF IInv, Shape, TypeOK, ArchiveOK, Archived
    <2> DEFINE q == [archive[cur] EXCEPT !.anchored = TRUE]
    <2>4. q \in Proof /\ q.at = archive[cur].at /\ archive' = [archive EXCEPT ![cur] = q]
        BY <2>1, <2>3 DEF Proof
    <2> HIDE DEF q
    <2>5. \A k \in ProofNumbers : (Archived(k)' <=> Archived(k)) /\ archive'[k].at = archive[k].at
        BY <2>2, <2>3, <2>4, NothingAssumption DEF Archived
    <2>6. DatesStay
        BY <1>0, <2>1 DEF DatesStay, BeforeFreeze, AnchorLocations
    <2>7. QED BY <2>5, <2>6, DatesSame
<1>10. CASE Prove
    <2> DEFINE n == ledger.sequence + 1
               q == ProofOf(page)
    <2>1. /\ page = ledger.page /\ ledger.page # NoPage /\ ledger.job /\ page.seq = n /\ page.at = ledger.at
          /\ pc = "prove" /\ pc' = "advance" /\ UNCHANGED <<ledger, clock, trouble>>
        BY <1>10 DEF Prove, Goto, outside, IInv, TickOK, PageOK, Shape, TypeOK
    <2>2. archive' = [archive EXCEPT ![n] = q] /\ q.at = ledger.at
        BY <1>10, <2>1 DEF Prove, ProofOf
    <2>3. archive \in [ProofNumbers -> Proof \cup {NoProof}] /\ ledger.sequence \in Nat
        BY DEF IInv, Shape, TypeOK, Ledger
    <2> HIDE DEF q
    <2>4. \A k \in ProofNumbers : archive'[k] = IF k = n THEN q ELSE archive[k]
        BY <2>2, <2>3
    <2>5. \A k \in ProofNumbers : Archived(k) => k <= n
        BY <2>3, BoundsAssumption DEF IInv, ArchiveOK, ProofNumbers
    <2> HIDE DEF n
    <2>6. SUFFICES ASSUME trouble["clock"] = 0 PROVE DatesOK'
        BY <2>1 DEF DatesOK
    <2>7. ledger.at <= clock /\ NotAfter(ledger.at) /\ \A k \in ProofNumbers : ~DateFallsBack(k)
        BY <2>1, <2>6 DEF DatesOK
    <2>8. \A k \in ProofNumbers : Archived(k)' => archive'[k].at <= ledger.at
        BY <1>0, <2>2, <2>4, <2>7 DEF NotAfter, Archived
    <2>9. \A k \in ProofNumbers : ~DateFallsBack(k)'
        <3> SUFFICES ASSUME NEW k \in ProofNumbers, k > 1, Archived(k)', archive'[k].at < archive'[k - 1].at
                     PROVE  FALSE
            BY DEF DateFallsBack
        <3>1. k \in Nat /\ n \in Nat /\ k - 1 \in ProofNumbers
            BY <2>3, BoundsAssumption DEF ProofNumbers, n
        <3>2. CASE k = n
            <4>1. archive'[k].at = ledger.at /\ archive'[k - 1] = archive[k - 1]
                BY <2>2, <2>4, <3>1, <3>2
            <4>2. Archived(k - 1)
                BY <2>3, <3>1, <3>2 DEF IInv, ArchiveOK, n
            <4>3. archive[k - 1].at <= ledger.at /\ archive[k - 1].at \in Nat
                BY <1>0, <2>7, <3>1, <4>2 DEF NotAfter
            <4>4. QED BY <1>0, <4>1, <4>3
        <3>3. CASE k # n
            <4>1. archive'[k] = archive[k] /\ Archived(k) /\ k <= n
                BY <2>4, <2>5, <3>3 DEF Archived
            <4>2. archive'[k - 1] = archive[k - 1]
                BY <2>4, <3>1, <3>3, <4>1
            <4>3. QED BY <2>7, <4>1, <4>2 DEF DateFallsBack
        <3>4. QED BY <3>2, <3>3
    <2>10. \A k \in ProofNumbers : Archived(k)' => archive'[k].at <= clock
        <3>1. \A k \in ProofNumbers : Archived(k)' => archive'[k].at \in Nat
            BY <1>0, <2>2, <2>4 DEF Archived
        <3>2. QED BY <1>0, <2>7, <2>8, <3>1
    <2>11. ~BeforeFreeze'
        BY <2>1 DEF BeforeFreeze, AnchorLocations
    <2>12. QED BY <2>1, <2>7, <2>8, <2>9, <2>10, <2>11 DEF DatesOK, NotAfter
<1>11. CASE UNCHANGED vars
    BY <1>0, <1>1, <1>11 DEF vars, DatesStay, BeforeFreeze
<1>12. CASE MineGenesis \/ \E k \in ProofNumbers : MineAppend(k)
    <2>1. UNCHANGED <<archive, ledger, clock, trouble, pc, after, now>>
        BY <1>12 DEF MineGenesis, MineAppend, outside, tickVars
    <2>2. QED BY <1>0, <1>1, <2>1 DEF DatesStay, BeforeFreeze
<1>13. QED BY <1>2, <1>3, <1>4, <1>5, <1>6, <1>7, <1>8, <1>9, <1>10, <1>11, <1>12
           DEF Next, Tick, Anchoring, Mining, Environment

\* Nothing was recorded in the beginning.
LEMMA InitHistory == ASSUME Init PROVE HistoryOK
<1>1. /\ ledger.sequence = 0 /\ ledger.todo = <<>> /\ ledger.indexed = GenesisBooks
      /\ ledger.frozen = [b \in Books |-> 0] /\ recorded = [b \in Books |-> 0]
    BY DEF Init
<1>2. LagsBehind
    BY <1>1 DEF LagsBehind, Exists
<1>3. Transitions = <<>>
    BY <1>1 DEF Transitions
<1>4. \A b \in ledger.indexed : First(b) .. ledger.frozen[b] = {}
    BY <1>1, BooksAssumption DEF First
<1>5. QED BY <1>2, <1>3, <1>4 DEF HistoryOK, Ascending

\* Nothing was sent or archived in the beginning.
LEMMA InitSent == ASSUME Init PROVE SentOK /\ DatesOK
<1>1. \A k \in ProofNumbers : ~Archived(k) /\ ~DateFallsBack(k)
    BY DEF Init, Archived, DateFallsBack
<1>2. \A k \in ProofNumbers : record[k] # "signed"
    BY BoundsAssumption DEF Init, StepsInit, ProofNumbers, StepIds
<1>3. ~ledger.job /\ ~BeforeFreeze
    BY DEF Init, BeforeFreeze, AnchorLocations
<1>4. QED BY <1>1, <1>2, <1>3 DEF SentOK, DatesOK, NotAfter

\* The invariants hold at every step of every execution.
LEMMA InvariantHolds == Spec => [](IInv /\ SentOK /\ HistoryOK /\ DatesOK)
<1>1. Init => IInv /\ SentOK /\ HistoryOK /\ DatesOK
    BY InitIInv, InitHistory, InitSent
<1>2. (IInv /\ SentOK /\ HistoryOK) /\ [Next]_vars => (IInv /\ HistoryOK)'
    BY StepKeeps
<1>3. (IInv /\ SentOK) /\ [Next]_vars => SentOK'
    BY SentKept
<1>4. (IInv /\ DatesOK) /\ [Next]_vars => DatesOK'
    BY DatesKept
<1>5. QED BY <1>1, <1>2, <1>3, <1>4, PTL DEF Spec

\* Every variable of the checkpoints keeps its type; a page is open only in a job that
\* has a transition for it.
THEOREM TypeCorrect == Spec => []TypeOK
<1>1. IInv => TypeOK
    BY DEF IInv, Shape
<1>2. QED BY <1>1, InvariantHolds, PTL

\* The archived proofs are one chain of blinded roots from the genesis to the ledger's
\* root, at most the proof of the open page beyond it, and the contract has verified a
\* part of it from the start (ledger-proofs.mjs archives before it advances and anchors
\* in sequence).  The dates of the proofs fall back only after the clock was set back.
THEOREM ArchiveIsOneChain == Spec => []ArchiveIsChain
<1>1. IInv /\ DatesOK => ArchiveIsChain
    <2> SUFFICES ASSUME IInv, DatesOK PROVE ArchiveIsChain
        OBVIOUS
    <2>0. (\E k \in ProofNumbers : DateFallsBack(k)) => trouble["clock"] > 0
        BY DEF DatesOK, IInv, Shape, TypeOK, TroubleKinds
    <2>1. /\ contract.log \in Seq(Link) /\ DOMAIN contract.log = 1 .. Len(contract.log)
          /\ Len(contract.log) \in Nat /\ ledger.sequence \in Nat
        BY DEF IInv, Shape, TypeOK, Link, Ledger
    <2>2. \A k \in DOMAIN contract.log : k <= ledger.sequence /\ contract.log[k] = Transition(k)
        BY <2>1 DEF IInv, ContractOK
    <2>3. QED BY <2>0, <2>2 DEF IInv, ArchiveOK, ArchiveIsChain
<1>2. QED BY <1>1, InvariantHolds, PTL

\* PlatformLedgerCheckpoint.sol accepts every transaction the operator sends it, its
\* comparison of the checkpoint's date with the block's included, wherever the two
\* clocks are: the chain of proofs never ends in a transaction that reverted and cannot
\* be sent again.
THEOREM NothingEverReverts == Spec => []NothingReverts
<1>1. IInv => NothingReverts
    BY DEF IInv, RecordsOK
<1>2. QED BY <1>1, InvariantHolds, PTL

\* Neither the ledger's status nor a proof file calls a proof anchored that is not on
\* the chain.
THEOREM AnchoredMeansOnchain == Spec => []AnchoredIsOnchain
<1>1. IInv => AnchoredIsOnchain
    BY DEF IInv, ContractOK
<1>2. QED BY <1>1, InvariantHolds, PTL

\* Every transition a checkpoint took is proved or waits in the job exactly once and in
\* the order it was recorded, its book's registration first: no freeze, crash or retry
\* of a proof loses or repeats one.
THEOREM EachTransitionOnce == Spec => []EveryTransitionOnce
<1>1. IInv /\ HistoryOK => EveryTransitionOnce
    <2> SUFFICES ASSUME IInv, HistoryOK PROVE EveryTransitionOnce
        OBVIOUS
    <2> DEFINE T == Transitions
    <2>1. /\ ledger.sequence \in Nat /\ ledger.todo \in Seq(Event)
          /\ \A k \in 1 .. ledger.sequence : archive[k].event \in Event
        BY ArchivedEvents
    <2>2. T \in Seq(Event)
        BY <2>1, AfterEvents DEF Transitions
    <2>3. DOMAIN T = 1 .. Len(T)
        BY <2>2
    <2>4. ledger.indexed \in SUBSET Books /\ Heartbeat.book \notin Books
        BY BooksAssumption DEF IInv, Shape, TypeOK, Ledger, Heartbeat
    <2>5. /\ \A k \in 1 .. Len(T) :
                \/ T[k] = Heartbeat
                \/ T[k].book \in ledger.indexed /\ T[k].n \in First(T[k].book) .. ledger.frozen[T[k].book]
          /\ \A b \in ledger.indexed : \A m \in First(b) .. ledger.frozen[b] :
                \E k \in 1 .. Len(T) : T[k].book = b /\ T[k].n = m
          /\ \A k, l \in 1 .. Len(T) : k < l /\ T[k].book = T[l].book /\ T[k] # Heartbeat => T[k].n < T[l].n
        BY DEF HistoryOK, Ascending
    <2> HIDE DEF T
    <2>6. ASSUME NEW b \in Books
          PROVE  {T[k].n : k \in {k \in DOMAIN T : T[k].book = b}}
                     = IF b \in ledger.indexed THEN First(b) .. ledger.frozen[b] ELSE {}
        <3>1. \A k \in DOMAIN T : T[k].book = b => b \in ledger.indexed /\ T[k].n \in First(b) .. ledger.frozen[b]
            BY <2>3, <2>4, <2>5
        <3>2. b \in ledger.indexed => \A m \in First(b) .. ledger.frozen[b] :
                  \E k \in DOMAIN T : T[k].book = b /\ T[k].n = m
            BY <2>3, <2>5
        <3>3. QED BY <3>1, <3>2
    <2>7. QED BY <2>3, <2>5, <2>6 DEF EveryTransitionOnce, T
<1>2. QED BY <1>1, InvariantHolds, PTL
================================================================================
