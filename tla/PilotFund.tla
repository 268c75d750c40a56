------------------------------- MODULE PilotFund -------------------------------
(***************************************************************************)
(* The pilot: providers send signed signals to a coordinator               *)
(* (src/pilot/coordinator.js), which seals them at a cutoff; a fund        *)
(* (contracts/pilot/PilotFund.sol) is committed to them, trades on them,   *)
(* closes and pays rewards out of profit.  Operator commands               *)
(* (scripts/pilot.mjs, src/pilot/runner.js) drive both.  A command may     *)
(* stop at any step, by an error or a crash, and is then run again: the    *)
(* coordinator's file and the journal of transactions (src/pilot/chain.js: *)
(* a tag is signed once) say how far it came.  One clock for the chain,    *)
(* the coordinator and the market; the command lock is given back by hand  *)
(* when its process was killed.                                            *)
(***************************************************************************)
EXTENDS Integers, FiniteSets, Sequences

CONSTANTS
    Providers, MinSubmitted,    \* signers, and how many must submit
    Amount,                     \* what an investor deposits
    Gains, Losses,              \* what trading an epoch may gain or lose
    PriceScale,
    MaxMarkAge,
    LastTime, EpochLimit,       \* bounds of the clock, the epochs, the deposits
    DepositLimit, StopLimit        \* and the interruptions

VARIABLES
    now,
    epochs,     \* the coordinator's file
    fund,       \* the contract
    journal,    \* the operator's transactions and their outcomes
    command,    \* the command that runs and its next step
    settled,    \* history: the share price at the start and at every settlement
    used        \* how many deposits and interruptions there were (bound)

vars == <<now, epochs, fund, journal, command, settled, used>>

Ids == 1 .. EpochLimit
Results == Gains \cup {-loss : loss \in Losses}
None == -1
NoCommand == [name |-> "none", step |-> "none"]
Phases == [unopened |-> 0, open |-> 1, committed |-> 2, executed |-> 3, closed |-> 4, paid |-> 5, cancelled |-> 6]

Init ==
    /\ now = 0 /\ epochs = <<>> /\ journal = <<>> /\ command = NoCommand /\ settled = <<PriceScale>>
    /\ used = [deposits |-> 0, stops |-> 0]
    /\ fund = [cash |-> 0, shares |-> 0, highWater |-> PriceScale, reserve |-> 0, active |-> 0, observed |-> 0,
               phase |-> [i \in Ids |-> 0], root |-> [i \in Ids |-> {}], anchor |-> [i \in Ids |-> None],
               fee |-> [i \in Ids |-> 0]]

--------------------------------------------------------------------------------
(* The fund. *)

MoreDeposits == used.deposits < DepositLimit /\ used' = [used EXCEPT !.deposits = @ + 1]
Nav == fund.cash - fund.reserve
Deposit ==
    LET shares == (Amount * (fund.shares + 1)) \div (Nav + 1) IN
    /\ fund.active = 0 /\ shares > 0 /\ MoreDeposits
    /\ fund' = [fund EXCEPT !.shares = @ + shares, !.cash = @ + Amount]
    /\ UNCHANGED <<now, epochs, journal, command, settled>>
\* Half of the shares leave, at most once for every deposit.
Redeem ==
    LET shares == fund.shares \div 2 IN
    /\ fund.active = 0 /\ fund.shares >= Amount
    /\ fund' = [fund EXCEPT !.shares = @ - shares, !.cash = @ - (shares * (Nav + 1)) \div (fund.shares + 1)]
    /\ UNCHANGED <<now, epochs, journal, command, settled, used>>

Entry == epochs[Len(epochs)]
Id == Len(epochs)
Active == epochs # <<>> /\ Entry.status \notin {"SETTLED", "CANCELLED"}
InPhase(i, name) == fund.active = i /\ fund.phase[i] = Phases[name]
FreshMarks == fund.observed > 0 /\ now - fund.observed <= MaxMarkAge
StartAt(i) == epochs[i].startAt
CutoffAt(i) == StartAt(i) - 1
EndAt(i) == StartAt(i) + 1

\* When the contract accepts a transaction tx = [id, call, at, paid].
Accepts(tx) ==
    LET i == tx.id IN
    CASE tx.call = "openEpoch" -> fund.active = 0 /\ fund.shares > 0 /\ fund.phase[i] = 0 /\ now < CutoffAt(i)
      [] tx.call = "commit" -> InPhase(i, "open") /\ now >= CutoffAt(i) /\ now < StartAt(i)
      [] tx.call = "setMarks" -> tx.at <= now /\ now - tx.at <= MaxMarkAge /\ tx.at >= fund.observed
      [] tx.call = "execute" ->
            InPhase(i, "committed") /\ now >= StartAt(i) /\ now < EndAt(i) /\ fund.observed >= StartAt(i) /\ FreshMarks
      [] tx.call = "closeEpoch" -> InPhase(i, "executed") /\ fund.observed >= EndAt(i) /\ FreshMarks
      [] tx.call = "payRewards" -> InPhase(i, "closed") /\ tx.paid <= fund.fee[i]
      [] tx.call = "cancelUnexecuted" -> (InPhase(i, "open") \/ InPhase(i, "committed")) /\ now >= StartAt(i)

\* closeEpoch(): a tenth of what is above the high-water mark becomes the fee pool.
Threshold == (fund.shares * fund.highWater) \div PriceScale
Closed(i, nav) ==
    LET fee == IF nav > Threshold THEN ((nav - Threshold) * 1000) \div 10000 ELSE 0 IN
    [fund EXCEPT !.cash = nav, !.reserve = fee, !.fee[i] = fee, !.phase[i] = Phases.closed]
\* payRewards(): the mark only rises.
PriceAfter(paid) == ((fund.cash - paid) * PriceScale) \div fund.shares
\* Fault variant: the mark is the last settled price.
Raised_Last(mark, price) == price
Raised(mark, price) == IF price > mark THEN price ELSE mark
PaidOut(i, paid) ==
    [fund EXCEPT !.cash = @ - paid, !.reserve = 0, !.active = 0, !.phase[i] = Phases.paid,
                 !.highWater = Raised(@, PriceAfter(paid))]
\* The states an accepted transaction may leave; trading ends in any of the results.
Effects(tx) ==
    LET i == tx.id IN
    CASE tx.call = "openEpoch" -> {[fund EXCEPT !.phase[i] = Phases.open, !.active = i]}
      [] tx.call = "commit" -> {[fund EXCEPT !.phase[i] = Phases.committed, !.root[i] = epochs[i].sealed, !.anchor[i] = now]}
      [] tx.call = "setMarks" -> {[fund EXCEPT !.observed = tx.at]}
      [] tx.call = "execute" -> {[fund EXCEPT !.phase[i] = Phases.executed]}
      [] tx.call = "closeEpoch" -> {Closed(i, fund.cash + r) : r \in {r \in Results : fund.cash + r >= 0}}
      [] tx.call = "payRewards" -> {PaidOut(i, tx.paid)}
      [] tx.call = "cancelUnexecuted" -> {[fund EXCEPT !.phase[i] = Phases.cancelled, !.active = 0]}

--------------------------------------------------------------------------------
(* Providers.  The coordinator's file changes under a lock, one writer at a time. *)

\* submit(): each key once, before the cutoff; the answer is a receipt.
Submit(p) ==
    /\ Active /\ Entry.status = "OPEN" /\ now < CutoffAt(Id) /\ p \notin Entry.receipts
    /\ epochs' = [epochs EXCEPT ![Id].receipts = @ \cup {p}]
    /\ UNCHANGED <<now, fund, journal, command, settled, used>>

--------------------------------------------------------------------------------
(* Commands.  Step(n, s) is the running command at a step, Goto the next one. *)

Step(name, step) == command = [name |-> name, step |-> step]
Finish == command' = NoCommand
Goto(step) == IF step = "done" THEN Finish ELSE command' = [command EXCEPT !.step = step]
Record(change(_)) == epochs' = [epochs EXCEPT ![Id] = change(@)]

\* send(): a transaction is journaled before it is sent, if the node's estimate accepts
\* it, and never signed again: a retry waits for the outcome of the first one.
Tx(call, at, paid) == [id |-> Id, call |-> call, at |-> at, paid |-> paid]
Rows(tx) == {k \in DOMAIN journal : [journal[k].tx EXCEPT !.paid = 0] = [tx EXCEPT !.paid = 0]}
\* Fault variant: any receipt will do.
Succeeded_Any(k) == journal[k].status # "sent"
Succeeded(k) == journal[k].status = "mined"
Send(tx, next) ==
    \/ Rows(tx) = {} /\ Accepts(tx) /\ journal' = Append(journal, [tx |-> tx, status |-> "sent"]) /\ UNCHANGED command
    \/ (\E k \in Rows(tx) : Succeeded(k)) /\ Goto(next) /\ UNCHANGED journal
\* The chain takes them in order, some time later: they may be refused by then.
Mine ==
    /\ \E k \in DOMAIN journal :
          LET tx == journal[k].tx IN
          /\ journal[k].status = "sent" /\ \A j \in 1 .. k - 1 : journal[j].status # "sent"
          /\ IF Accepts(tx)
             THEN /\ fund' \in Effects(tx) /\ journal' = [journal EXCEPT ![k].status = "mined"]
                  /\ settled' = IF tx.call = "payRewards" THEN Append(settled, PriceAfter(tx.paid)) ELSE settled
             ELSE journal' = [journal EXCEPT ![k].status = "reverted"] /\ UNCHANGED <<fund, settled>>
    /\ UNCHANGED <<now, epochs, command, used>>

Begin(name, step) ==
    /\ command = NoCommand /\ command' = [name |-> name, step |-> step]
    /\ UNCHANGED <<now, epochs, fund, journal, settled, used>>
StartOpen == (Active \/ Id < EpochLimit) /\ Begin("open", "plan")
StartSeal == Active /\ Entry.status \in {"OPEN", "SEALED"} /\ Begin("seal", "seal")
StartExecute == Active /\ Entry.status = "SEALED" /\ Entry.final /\ Begin("execute", "market")
StartSettle == Active /\ Entry.status = "EXECUTED" /\ \E name \in {"settle", "recovery"} : Begin(name, "market")
StartCancel == Active /\ Begin("cancel", "send")

\* A command stops where it is: an error, a refused estimate, or the process is killed.
Stop ==
    /\ command # NoCommand /\ used.stops < StopLimit /\ used' = [used EXCEPT !.stops = @ + 1]
    /\ Finish /\ UNCHANGED <<now, epochs, fund, journal, settled>>

\* A step that only reads and writes the coordinator's file.
Local == UNCHANGED <<now, fund, journal, settled, used>>
\* A step that sends a transaction.
Remote == UNCHANGED <<now, epochs, fund, settled, used>>

OpenPlan ==
    /\ Step("open", "plan") /\ Goto("send") /\ Local
    /\ IF Active THEN UNCHANGED epochs
       ELSE epochs' = Append(epochs,
                [status |-> "OPEN", startAt |-> now + 2, receipts |-> {}, sealed |-> {}, final |-> FALSE,
                 begin |-> FALSE, end |-> FALSE, recovery |-> None])
OpenSend == Step("open", "send") /\ Send(Tx("openEpoch", None, 0), "done") /\ Remote

\* seal(): freezes what was submitted; again if it is sealed already.
Seal ==
    /\ Step("seal", "seal") /\ Goto("commit") /\ Local
    /\ \/ Entry.status = "SEALED" /\ UNCHANGED epochs
       \/ /\ Entry.status = "OPEN" /\ now >= CutoffAt(Id) /\ now < StartAt(Id)
          /\ Cardinality(Entry.receipts) >= MinSubmitted
          /\ Record(LAMBDA e : [e EXCEPT !.status = "SEALED", !.sealed = e.receipts])
SealCommit == Step("seal", "commit") /\ Send(Tx("commit", None, 0), "finality") /\ Remote
\* The anchor is final, and in time: a late one is never used.
SealFinality ==
    /\ Step("seal", "finality") /\ now < StartAt(Id) /\ Finish /\ Local
    /\ Record(LAMBDA e : [e EXCEPT !.final = TRUE])

\* The market at the start is saved once and used by every retry.
ExecuteMarket ==
    /\ Step("execute", "market") /\ Goto("marks") /\ Local
    /\ Entry.begin \/ (now >= StartAt(Id) /\ now - StartAt(Id) <= MaxMarkAge)
    /\ Record(LAMBDA e : [e EXCEPT !.begin = TRUE])
ExecuteMarks == Step("execute", "marks") /\ Send(Tx("setMarks", StartAt(Id), 0), "execute") /\ Remote
ExecuteSend == Step("execute", "execute") /\ Send(Tx("execute", None, 0), "save") /\ Remote
ExecuteSave ==
    /\ Step("execute", "save") /\ Finish /\ Local
    /\ Record(LAMBDA e : [e EXCEPT !.status = "EXECUTED"])

\* Settlement uses the market at the planned end, recovery the last whole candle; both
\* are saved once.  Their transactions have tags of their own.
Settling(step) == command.name \in {"settle", "recovery"} /\ command.step = step
Boundary == IF command.name = "settle" THEN EndAt(Id) ELSE Entry.recovery
SettleMarket ==
    /\ Settling("market") /\ Goto("marks") /\ Local
    /\ IF command.name = "settle"
       THEN /\ Entry.end \/ (now >= EndAt(Id) /\ now - EndAt(Id) <= MaxMarkAge)
            /\ Record(LAMBDA e : [e EXCEPT !.end = TRUE])
       ELSE /\ Entry.recovery # None \/ now - 1 >= EndAt(Id)
            /\ Record(LAMBDA e : [e EXCEPT !.recovery = IF @ = None THEN now - 1 ELSE @])
SettleMarks == Settling("marks") /\ Send(Tx("setMarks", Boundary, 0), "close") /\ Remote
SettleClose == Settling("close") /\ Send(Tx("closeEpoch", Boundary, 0), "pay") /\ Remote
\* The whole pool at most; nothing for a recovered epoch.
SettlePay ==
    /\ Settling("pay") /\ Remote
    /\ \E paid \in IF Boundary # EndAt(Id) THEN {0} ELSE {0, fund.fee[Id]} : Send(Tx("payRewards", Boundary, paid), "save")
SettleSave ==
    /\ Settling("save") /\ Finish /\ Local
    /\ Record(LAMBDA e : [e EXCEPT !.status = "SETTLED"])

CancelSend == Step("cancel", "send") /\ Send(Tx("cancelUnexecuted", None, 0), "save") /\ Remote
CancelSave ==
    /\ Step("cancel", "save") /\ Finish /\ Local
    /\ Record(LAMBDA e : [e EXCEPT !.status = "CANCELLED"])

Tick == now < LastTime /\ now' = now + 1 /\ UNCHANGED <<epochs, fund, journal, command, settled, used>>

Next ==
    \/ Deposit \/ Redeem \/ Tick \/ Stop \/ Mine \/ \E p \in Providers : Submit(p)
    \/ StartOpen \/ StartSeal \/ StartExecute \/ StartSettle \/ StartCancel
    \/ OpenPlan \/ OpenSend \/ Seal \/ SealCommit \/ SealFinality
    \/ ExecuteMarket \/ ExecuteMarks \/ ExecuteSend \/ ExecuteSave
    \/ SettleMarket \/ SettleMarks \/ SettleClose \/ SettlePay \/ SettleSave
    \/ CancelSend \/ CancelSave

Spec == Init /\ [][Next]_vars

--------------------------------------------------------------------------------
(* Properties. *)

\* What the fund trades on was fixed before the epoch began, and includes every signal a
\* receipt was given for; and the coordinator's file never claims more than the fund did,
\* whatever steps of which commands were lost.
CommittedInAdvance ==
    \A i \in DOMAIN epochs :
        LET e == epochs[i]
            phase == fund.phase[i]
        IN  /\ phase \in Phases.executed .. Phases.paid =>
                  fund.anchor[i] < e.startAt /\ fund.root[i] = e.receipts
            /\ e.final => phase >= Phases.committed
            /\ e.status = "EXECUTED" => phase \in Phases.executed .. Phases.paid
            /\ e.status = "SETTLED" => phase = Phases.paid
            /\ e.status = "CANCELLED" => phase = Phases.cancelled

\* Rewards are for new profit: a fee pool only fills when the fund's shares are worth more
\* than at the start and every settlement before, and investors never sink below such a price by it.
LossesFirst ==
    \A i \in DOMAIN epochs :
        fund.phase[i] = Phases.closed /\ fund.fee[i] > 0 =>
            \A k \in DOMAIN settled : (fund.cash - fund.fee[i]) * PriceScale >= fund.shares * settled[k]
================================================================================
