---------------------------- MODULE LedgerCheckpoint ----------------------------
(***************************************************************************)
(* Proofs of the platform's books (deploy/tee/operator/ledger-proofs.mjs)  *)
(* and the contract that takes them, PlatformLedgerCheckpoint.sol.  At a   *)
(* checkpoint the transitions the books have recorded are frozen into a    *)
(* job; then, one page per transition, a witness with a fresh salt is      *)
(* prepared and saved, proved, archived, and the local root advances.      *)
(* Archived proofs are appended to the contract one by one, as steps of    *)
(* the durable submitter (ExecutionSteps).                                 *)
(*                                                                         *)
(* A root is the number of the salt that blinds it: two roots are equal    *)
(* exactly when they come from the same saved page.  The n-th transition   *)
(* of a book is the number n, its registration 0.  There are two clocks:   *)
(* the operator's, which dates a checkpoint and can be set back, and the   *)
(* blocks', which the contract compares that date with.                    *)
(***************************************************************************)
EXTENDS Integers, SequencesExt

CONSTANTS
    Books, NoBook,
    GenesisBooks,       \* those that existed when the proofs were introduced
    BookOrder,
    MaxSequence,        \* bound of proofs
    RecordLimit,        \* bound of transitions per book
    RequestLimit,       \* bound of checkpoints that are asked for
    Interval,           \* time between checkpoints
    MaxTime,            \* bound of both clocks
    Limits,             \* how often each kind of trouble may happen
    TroubleLimit,       \* and all of them
    NoStep, NoPage, NoProof

TroubleKinds == {"crash", "rpc", "giveUp", "clock"}

ASSUME BooksAssumption == GenesisBooks \subseteq Books /\ NoBook \notin Books
\* The books in the order a freeze visits them (the keys of an object).
ASSUME OrderAssumption ==
    BookOrder \in Seq(Books) /\ ToSet(BookOrder) = Books /\ IsInjective(BookOrder)
ASSUME BoundsAssumption ==
    /\ MaxSequence \in Nat /\ RecordLimit \in Nat /\ RequestLimit \in Nat
    /\ Interval \in Nat /\ MaxTime \in Nat
    /\ Limits \in [TroubleKinds -> Nat] /\ TroubleLimit \in Nat

\* Step 0 sets the contract's first root, step k appends proof k.
StepIds == 0 .. MaxSequence
ProofNumbers == 1 .. MaxSequence
GenesisRoot == 0

\* A heartbeat (event NONE) belongs to no book.
Event == [book : Books \cup {NoBook}, n : Nat]
Heartbeat == [book |-> NoBook, n |-> 0]
\* at: the date of the checkpoint, one of the public signals.
Page == [seq : Nat, event : Event, old : Nat, new : Nat, at : Nat]
Proof == [seq : Nat, event : Event, old : Nat, new : Nat, at : Nat, anchored : BOOLEAN]

ASSUME NothingAssumption == NoStep \notin StepIds /\ NoPage \notin Page /\ NoProof \notin Proof

\* proved: the transitions in the mirror; Blank when the book is not in it yet.
\* at: the job's checkpointAt; next: nextCheckpointAt.
Blank == -1
Ledger == [frozen : [Books -> Nat], indexed : SUBSET Books, proved : [Books -> Nat \cup {Blank}],
           job : BOOLEAN, at : Nat, todo : Seq(Event), validated : BOOLEAN, next : Nat,
           page : Page \cup {NoPage}, root : Nat, sequence : Nat, anchored : Nat,
           registryInitialized : BOOLEAN, force : BOOLEAN, completed : Nat]

VARIABLES
    record, mined,  \* ExecutionSteps
    recorded,       \* transitions recorded by each book (saved with it)
    ledger,         \* ledgerProofs in the sealed investments file
    archive,        \* the public proof files
    contract,       \* transitions the contract has verified, and its first root
    deployed,       \* the manifest names the contract
    salts,          \* how many salts were drawn
    clock,          \* the operator's clock
    blockTime,      \* the time of the latest block
    requests,       \* checkpoints that were asked for
    pc, after, page, cur, now,  \* the tick under way; where anchor() returns to
    trouble

INSTANCE ExecutionSteps

vars == <<record, mined, recorded, ledger, archive, contract, deployed, salts, clock, blockTime,
          requests, pc, after, page, cur, now, trouble>>
submitterVars == <<record, mined>>
clockVars == <<clock, blockTime>>
tickVars == <<pc, after, page, cur, now>>
outside == <<recorded, deployed, clock, blockTime, requests, trouble>>

Init ==
    /\ StepsInit
    /\ recorded = [b \in Books |-> 0]
    /\ ledger = [frozen |-> [b \in Books |-> 0], indexed |-> GenesisBooks,
                 proved |-> [b \in Books |-> IF b \in GenesisBooks THEN 0 ELSE Blank],
                 job |-> FALSE, at |-> 0, todo |-> <<>>, validated |-> FALSE, next |-> 0,
                 page |-> NoPage, root |-> GenesisRoot, sequence |-> 0, anchored |-> 0,
                 registryInitialized |-> FALSE, force |-> FALSE, completed |-> 0]
    /\ archive = [k \in ProofNumbers |-> NoProof]
    /\ contract = [initialized |-> FALSE, log |-> <<>>]
    /\ deployed \in BOOLEAN
    /\ salts = 0 /\ clock = 0 /\ blockTime = 0 /\ requests = 0
    /\ pc = "idle" /\ after = "freeze" /\ page = NoPage /\ cur = NoStep /\ now = 0
    /\ trouble = [k \in TroubleKinds |-> 0]

May(kind) ==
    /\ trouble[kind] < Limits[kind]
    /\ FoldFunction(+, 0, trouble) < TroubleLimit
Happens(kind) == trouble' = [trouble EXCEPT ![kind] = @ + 1]

\* anchor() waits for its transaction inside the queue everybody else waits for.
AnchorLocations == {"anchor", "submit", "await", "mark", "marked"}
QueueIsFree == pc \notin AnchorLocations

Goto(location) == pc' = location /\ UNCHANGED <<after, page, cur, now>>
\* The tick ends, because it is done or because of an error.
EndTick == pc' = "idle" /\ page' = NoPage /\ cur' = NoStep /\ now' = 0 /\ UNCHANGED after

--------------------------------------------------------------------------------
(* The books, and what asks for a checkpoint. *)

\* ledgerEvent(): a transition is saved together with what it does to the book.
Record(b) ==
    /\ QueueIsFree /\ recorded[b] < RecordLimit
    /\ recorded' = [recorded EXCEPT ![b] = @ + 1]
    /\ UNCHANGED <<submitterVars, ledger, archive, contract, deployed, salts, clockVars, requests, tickVars, trouble>>

RequestCheckpoint ==
    /\ QueueIsFree /\ requests < RequestLimit
    /\ ledger' = [ledger EXCEPT !.force = TRUE]
    /\ requests' = requests + 1
    /\ UNCHANGED <<submitterVars, recorded, archive, contract, deployed, salts, clockVars, tickVars, trouble>>

\* The operator reads its clock when a tick begins, so the clock moves in between.
ClockTicks ==
    /\ pc = "idle" /\ clock < MaxTime /\ clock' = clock + 1
    /\ UNCHANGED <<submitterVars, recorded, ledger, archive, contract, deployed, salts, blockTime, requests, tickVars, trouble>>

\* Blocks are dated by the chain, ahead of the operator's clock or behind it.
BlockTicks ==
    /\ blockTime < MaxTime /\ blockTime' = blockTime + 1
    /\ UNCHANGED <<submitterVars, recorded, ledger, archive, contract, deployed, salts, clock, requests, tickVars, trouble>>

--------------------------------------------------------------------------------
(* freeze(), validateJob(), preparePage(), provePage(). *)

\* tick() reads the clock once.
TickBegin ==
    /\ pc = "idle"
    /\ pc' = "anchor" /\ after' = "freeze" /\ now' = clock /\ UNCHANGED <<page, cur>>
    /\ UNCHANGED <<submitterVars, ledger, archive, contract, salts, outside>>

\* A book comes into being with its first transition.
Exists(b) == b \in GenesisBooks \/ recorded[b] > 0

\* What a book adds to a job: its registration, if the proofs do not know it, and
\* what it has recorded since the last checkpoint.
EventsOf(b) ==
    IF ~Exists(b) THEN <<>>
    ELSE (IF b \in ledger.indexed THEN <<>> ELSE <<[book |-> b, n |-> 0]>>)
           \o [i \in 1 .. recorded[b] - ledger.frozen[b] |->
                 [book |-> b, n |-> ledger.frozen[b] + i]]
AllEvents == FlattenSeq([i \in DOMAIN BookOrder |-> EventsOf(BookOrder[i])])
JobEvents == IF AllEvents = <<>> THEN <<Heartbeat>> ELSE AllEvents

\* Fault variant: the journals are not emptied.
Taken_Kept == ledger.frozen
\* The journals after a freeze.
Taken == [b \in Books |-> recorded[b]]

\* A checkpoint is due or was asked for, and within the bound.
CheckpointDue ==
    /\ ~ledger.job /\ (ledger.force \/ now >= ledger.next)
    /\ ledger.sequence + Len(JobEvents) <= MaxSequence

Freeze ==
    /\ pc = "freeze"
    /\ ledger' = IF ~CheckpointDue THEN ledger
                 ELSE [ledger EXCEPT
                        !.job = TRUE, !.at = now, !.todo = JobEvents, !.validated = FALSE, !.frozen = Taken,
                        !.indexed = {b \in Books : Exists(b)},
                        !.next = IF ledger.force THEN @ ELSE now + Interval, !.force = FALSE]
    /\ pc' = "validate" /\ now' = 0 /\ UNCHANGED <<after, page, cur>>
    /\ UNCHANGED <<submitterVars, archive, contract, salts, outside>>

\* A transition fits the mirror when it is the book's next one.
Fits(proved, event) == event = Heartbeat \/ event.n = proved[event.book] + 1
Replayed(proved, event) ==
    IF event = Heartbeat THEN proved ELSE [proved EXCEPT ![event.book] = event.n]

\* The job replays to the frozen state of the books.
Matches ==
    LET mirror[i \in 0 .. Len(ledger.todo)] ==
            IF i = 0 THEN ledger.proved ELSE Replayed(mirror[i - 1], ledger.todo[i])
    IN  /\ \A i \in DOMAIN ledger.todo : Fits(mirror[i - 1], ledger.todo[i])
        /\ \A b \in ledger.indexed : mirror[Len(ledger.todo)][b] = ledger.frozen[b]

Validate ==
    /\ pc = "validate"
    /\ IF ~ledger.job \/ ledger.validated THEN Goto("prepare") /\ UNCHANGED ledger
       ELSE IF Matches THEN Goto("prepare") /\ ledger' = [ledger EXCEPT !.validated = TRUE]
       ELSE EndTick /\ UNCHANGED ledger
    /\ UNCHANGED <<submitterVars, archive, contract, salts, outside>>

PageFor(event) ==
    [seq |-> ledger.sequence + 1, event |-> event, old |-> ledger.root, new |-> salts + 1,
     at |-> ledger.at]

\* Fault variant: the page is kept in memory only.
SavedPage_No(p) == NoPage
\* The page is saved before anybody proves it.
SavedPage(p) == p

PreparePage ==
    /\ pc = "prepare" /\ ledger.job
    /\ ledger.page = NoPage /\ ledger.todo # <<>>
    /\ salts' = salts + 1
    /\ page' = PageFor(Head(ledger.todo))
    /\ ledger' = [ledger EXCEPT !.page = SavedPage(PageFor(Head(ledger.todo)))]
    /\ pc' = "prove" /\ UNCHANGED <<after, cur, now>>
    /\ UNCHANGED <<submitterVars, archive, contract, outside>>

ResumePage ==
    /\ pc = "prepare" /\ ledger.job /\ ledger.page # NoPage
    /\ page' = ledger.page
    /\ pc' = "prove" /\ UNCHANGED <<after, cur, now>>
    /\ UNCHANGED <<submitterVars, ledger, archive, contract, salts, outside>>

CompleteJob ==
    /\ pc = "prepare"
    /\ ledger.job => ledger.page = NoPage /\ ledger.todo = <<>>
    /\ ledger' = IF ledger.job
                 THEN [ledger EXCEPT !.job = FALSE, !.completed = ledger.sequence] ELSE ledger
    /\ EndTick
    /\ UNCHANGED <<submitterVars, archive, contract, salts, outside>>

ProofOf(p) ==
    [seq |-> p.seq, event |-> p.event, old |-> p.old, new |-> p.new, at |-> p.at, anchored |-> FALSE]

\* The same public signals: sequence, date and roots.
SameSignals(proof, p) ==
    proof.seq = p.seq /\ proof.at = p.at /\ proof.old = p.old /\ proof.new = p.new

Archived(k) == archive[k] # NoProof

Prove ==
    /\ pc = "prove" /\ ~Archived(page.seq)
    /\ archive' = [archive EXCEPT ![page.seq] = ProofOf(page)]
    /\ Goto("advance")
    /\ UNCHANGED <<submitterVars, ledger, contract, salts, outside>>

\* Fault variant: an archived proof of the same number is an error.
ReuseProof_Refuses ==
    /\ pc = "prove" /\ Archived(page.seq)
    /\ EndTick
    /\ UNCHANGED <<submitterVars, ledger, archive, contract, salts, outside>>

\* A proof that was archived before a crash is used again, if it is of this page.
ReuseProof ==
    /\ pc = "prove" /\ Archived(page.seq)
    /\ IF SameSignals(archive[page.seq], page) THEN Goto("advance") ELSE EndTick
    /\ UNCHANGED <<submitterVars, ledger, archive, contract, salts, outside>>

\* Fault variant: the page stays.
Advanced_KeepsPage(p) ==
    [ledger EXCEPT !.proved = Replayed(@, p.event), !.root = p.new, !.sequence = p.seq,
                   !.todo = Tail(@)]
Advanced(p) ==
    [ledger EXCEPT !.proved = Replayed(@, p.event), !.root = p.new, !.sequence = p.seq,
                   !.todo = Tail(@), !.page = NoPage]

Advance ==
    /\ pc = "advance"
    /\ IF ledger.sequence + 1 # page.seq \/ ledger.root # page.old
       THEN EndTick /\ UNCHANGED ledger
       ELSE /\ ledger' = Advanced(page)
            /\ pc' = "anchor" /\ after' = "prepare" /\ page' = NoPage /\ UNCHANGED <<cur, now>>
    /\ UNCHANGED <<submitterVars, archive, contract, salts, outside>>

--------------------------------------------------------------------------------
(* anchor(). *)

ToAnchor == ledger.anchored < ledger.sequence
NextToAnchor == ledger.anchored + 1

AnchorNothing ==
    /\ pc = "anchor"
    /\ ~deployed \/ (ledger.registryInitialized /\ ~ToAnchor)
    /\ Goto(after)
    /\ UNCHANGED <<submitterVars, ledger, archive, contract, outside, salts>>

\* The first root: there already, or to be set.
AnchorGenesis ==
    /\ pc = "anchor" /\ deployed /\ ~ledger.registryInitialized
    /\ IF contract.initialized
       THEN ledger' = [ledger EXCEPT !.registryInitialized = TRUE] /\ UNCHANGED tickVars
       ELSE pc' = "submit" /\ cur' = 0 /\ UNCHANGED <<ledger, after, page, now>>
    /\ UNCHANGED <<submitterVars, archive, contract, outside, salts>>

\* Fault variant: a proof that was sent before is left alone.
AnchorProof_OnlyNew ==
    /\ pc = "anchor" /\ deployed /\ ledger.registryInitialized
    /\ ToAnchor
    /\ IF record[NextToAnchor] # "absent" THEN EndTick
       ELSE pc' = "submit" /\ cur' = NextToAnchor /\ UNCHANGED <<after, page, now>>
    /\ UNCHANGED <<submitterVars, ledger, archive, contract, outside, salts>>

\* One proof per call, in sequence, if it is not on the chain already.
AnchorProof ==
    /\ pc = "anchor" /\ deployed /\ ledger.registryInitialized
    /\ ToAnchor
    /\ IF ~Archived(NextToAnchor) THEN EndTick
       ELSE /\ pc' = IF record[NextToAnchor] = "ok" THEN "mark" ELSE "submit"
            /\ cur' = NextToAnchor /\ UNCHANGED <<after, page, now>>
    /\ UNCHANGED <<submitterVars, ledger, archive, contract, outside, salts>>

Submitted == pc' = (IF cur = 0 THEN "marked" ELSE "mark") /\ UNCHANGED <<after, page, cur, now>>

\* submit(): settle what is in flight, look the id up, sign, wait.
SubmitSync(x) ==
    /\ pc = "submit" /\ Learn(x)
    /\ IF mined[x] = "ok" THEN UNCHANGED tickVars ELSE EndTick
    /\ UNCHANGED <<ledger, archive, contract, outside, salts>>

SubmitKnown ==
    /\ pc = "submit" /\ InFlight = {} /\ record[cur] \in Outcomes
    /\ IF record[cur] = "ok" THEN Submitted ELSE EndTick
    /\ UNCHANGED <<submitterVars, ledger, archive, contract, outside, salts>>

Root == IF contract.log = <<>> THEN GenesisRoot ELSE Last(contract.log).new
CheckpointAt == IF contract.log = <<>> THEN 0 ELSE Last(contract.log).at
Transition(k) == [old |-> archive[k].old, new |-> archive[k].new, at |-> archive[k].at]

\* append()'s requirements, for the calldata of an archived proof.
Accepted(k) ==
    /\ contract.initialized
    /\ k = Len(contract.log) + 1 /\ archive[k].old = Root
    /\ archive[k].at >= CheckpointAt /\ archive[k].at <= blockTime /\ archive[k].new # Root

\* Fault variant: a fixed gas limit instead of an estimate.
Estimated_Fixed(x) == TRUE
\* estimateGas(): the call succeeds in the latest block.
Estimated(x) == IF x = 0 THEN ~contract.initialized ELSE Accepted(x)

SubmitSign ==
    /\ pc = "submit" /\ Sign(cur) /\ Estimated(cur)
    /\ Goto("await")
    /\ UNCHANGED <<ledger, archive, contract, outside, salts>>

SubmitRefused ==
    /\ pc = "submit" /\ InFlight = {} /\ record[cur] = "absent" /\ ~Estimated(cur)
    /\ EndTick
    /\ UNCHANGED <<submitterVars, ledger, archive, contract, outside, salts>>

SubmitAnswered ==
    /\ pc = "await" /\ Learn(cur)
    /\ IF mined[cur] = "ok" THEN Submitted ELSE EndTick
    /\ UNCHANGED <<ledger, archive, contract, outside, salts>>

\* The proof file gets the transaction; then the sealed file knows.
MarkProof ==
    /\ pc = "mark"
    /\ archive' = [archive EXCEPT ![cur].anchored = TRUE]
    /\ Goto("marked")
    /\ UNCHANGED <<submitterVars, ledger, contract, outside, salts>>

MarkAnchored ==
    /\ pc = "marked"
    /\ ledger' = IF cur = 0 THEN [ledger EXCEPT !.registryInitialized = TRUE]
                 ELSE [ledger EXCEPT !.anchored = cur]
    /\ pc' = IF cur = 0 THEN "anchor" ELSE after
    /\ cur' = NoStep /\ UNCHANGED <<after, page, now>>
    /\ UNCHANGED <<submitterVars, archive, contract, outside, salts>>

--------------------------------------------------------------------------------
(* The contract. *)

\* initializeRoot().
MineGenesis ==
    /\ Mine(0)
    /\ mined'[0] = IF contract.initialized THEN "reverted" ELSE "ok"
    /\ contract' = [contract EXCEPT !.initialized = TRUE]
    /\ UNCHANGED <<ledger, archive, outside, salts, tickVars>>

MineAppend(k) ==
    /\ k \in ProofNumbers /\ Mine(k)
    /\ mined'[k] = IF Accepted(k) THEN "ok" ELSE "reverted"
    /\ contract' = IF Accepted(k) THEN [contract EXCEPT !.log = Append(@, Transition(k))] ELSE contract
    /\ UNCHANGED <<ledger, archive, outside, salts, tickVars>>

\* The strategy operator's tick finds a receipt in between.
LearnedElsewhere(x) ==
    /\ QueueIsFree /\ Learn(x)
    /\ UNCHANGED <<ledger, archive, contract, outside, salts, tickVars>>

--------------------------------------------------------------------------------
(* Troubles. *)

\* The process dies; the next one may be the first whose manifest has the contract.
Crash ==
    /\ May("crash") /\ Happens("crash")
    /\ EndTick
    /\ deployed' \in {deployed, TRUE}
    /\ UNCHANGED <<submitterVars, recorded, ledger, archive, contract, salts, clockVars, requests>>

\* The prover fails or takes too long, or the RPC or the operator's gas does.
Fails ==
    /\ pc \in {"anchor", "submit", "prove"} /\ May("rpc") /\ Happens("rpc")
    /\ pc = "anchor" => deployed
    /\ EndTick
    /\ UNCHANGED <<submitterVars, recorded, ledger, archive, contract, deployed, salts, clockVars, requests>>

\* maxPolls pass without a receipt.
GivesUp ==
    /\ pc \in {"submit", "await"} /\ InFlight # {} /\ May("giveUp") /\ Happens("giveUp")
    /\ EndTick
    /\ UNCHANGED <<submitterVars, recorded, ledger, archive, contract, deployed, salts, clockVars, requests>>

\* The host's clock is set back.
ClockSetBack ==
    /\ pc = "idle" /\ May("clock") /\ Happens("clock")
    /\ clock' \in 0 .. clock - 1
    /\ UNCHANGED <<submitterVars, recorded, ledger, archive, contract, deployed, salts, blockTime, requests, tickVars>>

Anchoring ==
    \/ AnchorNothing \/ AnchorGenesis \/ AnchorProof
    \/ SubmitKnown \/ SubmitSign \/ SubmitRefused \/ SubmitAnswered \/ MarkProof \/ MarkAnchored
    \/ \E x \in StepIds : SubmitSync(x)

Tick ==
    \/ TickBegin \/ Anchoring \/ Freeze \/ Validate
    \/ PreparePage \/ ResumePage \/ CompleteJob \/ Prove \/ ReuseProof \/ Advance

Mining == MineGenesis \/ \E k \in ProofNumbers : MineAppend(k)

Environment ==
    \/ \E b \in Books : Record(b)
    \/ RequestCheckpoint \/ ClockTicks
    \/ \E x \in StepIds : LearnedElsewhere(x)
    \/ Crash \/ Fails \/ GivesUp \/ ClockSetBack

Next == Tick \/ Mining \/ BlockTicks \/ Environment

Spec == Init /\ [][Next]_vars

\* The server starts a tick every five seconds; the chain takes what is sent, and its
\* time goes on.
FairSpec == Spec /\ WF_vars(Tick) /\ WF_vars(Mining) /\ WF_vars(BlockTicks)

--------------------------------------------------------------------------------
(* Properties. *)

Locations == {"idle", "freeze", "validate", "prepare", "prove", "advance"} \cup AnchorLocations

TypeOK ==
    /\ StepsTypeOK
    /\ recorded \in [Books -> Nat] /\ ledger \in Ledger
    /\ archive \in [ProofNumbers -> Proof \cup {NoProof}]
    /\ contract.initialized \in BOOLEAN /\ contract.log \in Seq([old : Nat, new : Nat, at : Nat])
    /\ deployed \in BOOLEAN /\ salts \in Nat /\ requests \in Nat
    /\ clock \in 0 .. MaxTime /\ blockTime \in 0 .. MaxTime /\ now \in 0 .. MaxTime
    /\ pc \in Locations /\ after \in {"freeze", "prepare"}
    /\ page \in Page \cup {NoPage} /\ cur \in StepIds \cup {NoStep}
    /\ pc \in {"prove", "advance"} => page # NoPage
    /\ pc \in {"submit", "await", "mark", "marked"} => cur # NoStep
    /\ ledger.page # NoPage => ledger.job /\ ledger.todo # <<>>
    /\ trouble \in [TroubleKinds -> Nat]

\* The transitions that are archived, then those that wait in the job.
Transitions == [k \in 1 .. ledger.sequence |-> archive[k].event] \o ledger.todo
First(b) == IF b \in GenesisBooks THEN 1 ELSE 0

\* Every transition a book recorded before the last checkpoint is proved or waits in
\* the job exactly once, in the order it was recorded, after the registration of its
\* book: freezing, crashing and proving again lose and repeat nothing.
EveryTransitionOnce ==
    /\ \A b \in Books :
          {Transitions[k].n : k \in {k \in DOMAIN Transitions : Transitions[k].book = b}}
              = IF b \in ledger.indexed THEN First(b) .. ledger.frozen[b] ELSE {}
    /\ \A k, l \in DOMAIN Transitions :
          k < l /\ Transitions[k].book = Transitions[l].book /\ Transitions[k] # Heartbeat
              => Transitions[k].n < Transitions[l].n

\* The archived proofs are one chain of roots from the genesis to the ledger's root;
\* beyond it there is at most the proof of the page that is saved ("persist public
\* proof before advancing local root", README.md).  What the contract has verified is
\* what the archive publishes, number by number.  The dates of the proofs fall back
\* only if the operator's clock was set back.
DateFallsBack(k) == k > 1 /\ Archived(k) /\ archive[k].at < archive[k - 1].at
ArchiveIsChain ==
    /\ \A k \in ProofNumbers :
          /\ k <= ledger.sequence => Archived(k)
          /\ Archived(k) =>
                /\ archive[k].seq = k
                /\ archive[k].old = IF k = 1 THEN GenesisRoot ELSE archive[k - 1].new
                /\ k > ledger.sequence =>
                      /\ k = ledger.sequence + 1
                      /\ ledger.page # NoPage /\ SameSignals(archive[k], ledger.page)
    /\ ledger.root = IF ledger.sequence = 0 THEN GenesisRoot ELSE archive[ledger.sequence].new
    /\ \A k \in DOMAIN contract.log : k <= ledger.sequence /\ contract.log[k] = Transition(k)
    /\ (\E k \in ProofNumbers : DateFallsBack(k)) => trouble["clock"] > 0

\* The contract accepts everything the operator sends it, with both clocks wherever they
\* are: what its block dates would refuse is refused by the estimate and not signed.  A
\* transaction that reverted could never be sent again, and the chain of proofs would
\* end there.
NothingReverts == \A x \in StepIds : mined[x] # "reverted"

\* What is called anchored, in the ledger's status or in a proof file, is on the chain.
AnchoredIsOnchain ==
    /\ ledger.anchored <= Len(contract.log)
    /\ \A k \in ProofNumbers : Archived(k) /\ archive[k].anchored => k <= Len(contract.log)

\* Every proof is anchored in the end when there is a contract, also those made
\* before there was one, unless the date of one of them falls behind the date before it:
\* the contract never takes that proof, and the archive never makes it again.
ProofsAreAnchored ==
    \A k \in ProofNumbers :
        (deployed /\ ledger.sequence >= k)
            ~> Len(contract.log) >= k \/ \E j \in 1 .. k : DateFallsBack(j)
================================================================================
