--------------------------- MODULE ConfidentialVault ---------------------------
(***************************************************************************)
(* The enclave that approves what an on-chain vault may do                 *)
(* (src/integration/coordinator.js) and the vault that checks its          *)
(* signatures (contracts/integration/ApprovedVault.sol).  The coordinator  *)
(* signs one approval at a time and saves it before the client gets it;    *)
(* anybody may submit it before its deadline.  It reads finalized blocks   *)
(* only, so that the vault may be ahead of what it sees.                   *)
(*                                                                         *)
(* A checkpoint is the sequence of applied approvals it is the hash of; a  *)
(* client id stands for an actor and nonce.                                *)
(***************************************************************************)
EXTENDS Integers, Sequences, FiniteSets, Functions

CONSTANTS
    Actors, Strategies, Ids,    \* investors, strategies, client ids
    Owner,                      \* whose id it is
    DepositAmount,              \* what each deposit brings
    Ttl,                        \* how long an approval is valid at most
    RefundDelay,
    LastTime,                   \* bound of the clock
    RollbackLimit               \* how often the host restores an older sealed file

Nothing == "nothing"
Blank == [sequence |-> 0, request |-> Nothing]

VARIABLES
    vault, final,   \* the contract, and its state at the last finalized block
    now,
    memory, disk,   \* the coordinator's state and its sealed file
    phase,          \* down, idle, or ready: recovered, a command comes next
    released,       \* the approvals that clients hold
    kept,           \* a sealed file the host kept
    rollbacks

vars == <<vault, final, now, memory, disk, phase, released, kept, rollbacks>>
chainVars == <<vault, final, now>>
enclaveVars == <<memory, disk, phase, released>>
hostVars == <<kept, rollbacks>>

NoDeposit == [state |-> "none", time |-> 0]
NewVault == [log |-> <<>>, cash |-> 0, asset |-> 0, balance |-> 0, deposits |-> [i \in Ids |-> NoDeposit]]
NewStrategy == [cash |-> 0, asset |-> 0, units |-> 0, investors |-> [a \in Actors |-> 0]]
NewState == [log |-> <<>>, strategies |-> [s \in Strategies |-> NewStrategy], used |-> {}, pending |-> Blank]

Init ==
    /\ vault = NewVault /\ final = [vault |-> NewVault, time |-> 0] /\ now = 0
    /\ memory = NewState /\ disk = NewState /\ phase = "down"
    /\ released = {} /\ kept = NewState /\ rollbacks = 0

TotalOf(f, S) == FoldFunctionOnSet(LAMBDA a, b : a + b, 0, f, S)

--------------------------------------------------------------------------------
(* The vault.  Time only passes between its blocks, and not with each of them. *)

Deposit(i) ==
    /\ vault.deposits[i].state = "none"
    /\ vault' = [vault EXCEPT !.deposits[i] = [state |-> "held", time |-> now], !.balance = @ + DepositAmount]
    /\ UNCHANGED <<final, now, enclaveVars, hostVars>>

RefundUncredited(i) ==
    /\ vault.deposits[i].state = "held" /\ now >= vault.deposits[i].time + RefundDelay
    /\ vault' = [vault EXCEPT !.deposits[i].state = "refunded", !.balance = @ - DepositAmount]
    /\ UNCHANGED <<final, now, enclaveVars, hostVars>>

\* executeApproved(): one approval after the other, each once, before its deadline.
Follows(a) == a.sequence = Len(vault.log) + 1 /\ a.previous = vault.log
Fresh(a) == \A k \in DOMAIN vault.log : vault.log[k].request # a.request
Accepted(a) == Follows(a) /\ Fresh(a) /\ now <= a.deadline

Credit(a) ==
    /\ a.kind = "credit" /\ vault.deposits[a.request].state = "held"
    /\ vault' = [vault EXCEPT !.deposits[a.request].state = "credited", !.cash = @ + a.amount,
                              !.log = Append(@, [request |-> a.request, approval |-> a, out |-> a.amount])]
\* The router pays at least what was asked.
Swap(a) ==
    /\ a.kind = "swap" /\ a.amount <= IF a.buy THEN vault.cash ELSE vault.asset
    /\ \E out \in a.minOut .. a.quote :
          LET log == Append(vault.log, [request |-> a.request, approval |-> a, out |-> out])
          IN  vault' = IF a.buy THEN [vault EXCEPT !.cash = @ - a.amount, !.balance = @ - a.amount,
                                                   !.asset = @ + out, !.log = log]
                       ELSE [vault EXCEPT !.asset = @ - a.amount, !.cash = @ + out, !.balance = @ + out, !.log = log]
Withdraw(a) ==
    /\ a.kind = "withdraw" /\ a.amount <= vault.cash
    /\ vault' = [vault EXCEPT !.cash = @ - a.amount, !.balance = @ - a.amount,
                              !.log = Append(@, [request |-> a.request, approval |-> a, out |-> a.amount])]
ExecuteApproved(a) ==
    /\ Accepted(a)
    /\ Credit(a) \/ Swap(a) \/ Withdraw(a)
    /\ UNCHANGED <<final, now, enclaveVars, hostVars>>

Finalize ==
    /\ final' = [vault |-> vault, time |-> now] /\ final' # final
    /\ UNCHANGED <<vault, now, enclaveVars, hostVars>>
TimePasses ==
    /\ now < LastTime /\ now' = now + 1
    /\ UNCHANGED <<vault, final, enclaveVars, hostVars>>

--------------------------------------------------------------------------------
(* The coordinator. *)

Save(state) == memory' = state /\ disk' = state

\* Fault variant: an approval is given up at its deadline already.
Expired_AtDeadline(p) == final.time >= p.deadline
Expired(p) == final.time > p.deadline
Pending == memory.pending # Blank

Reconciled(state) ==
    /\ TotalOf([s \in Strategies |-> state.strategies[s].cash], Strategies) = final.vault.cash
    /\ TotalOf([s \in Strategies |-> state.strategies[s].asset], Strategies) = final.vault.asset

\* recover(): the books agree with the finalized vault; a pending approval that can no
\* longer be carried out is dropped.
RecoverCurrent ==
    /\ phase = "idle" /\ memory.log = final.vault.log
    /\ Reconciled(memory)
    /\ phase' = "ready"
    /\ IF Pending /\ Expired(memory.pending) THEN Save([memory EXCEPT !.pending = Blank]) ELSE UNCHANGED <<memory, disk>>
    /\ UNCHANGED <<chainVars, released, hostVars>>

\* The books after the approval was carried out.
Credited(st, p, out) ==
    CASE p.kind = "credit" -> [st EXCEPT !.cash = @ + p.amount, !.units = @ + p.units, !.investors[p.actor] = @ + p.units]
      [] p.kind = "swap" /\ p.buy -> [st EXCEPT !.cash = @ - p.amount, !.asset = @ + out]
      [] p.kind = "swap" -> [st EXCEPT !.cash = @ + out, !.asset = @ - p.amount]
      [] p.kind = "withdraw" -> [st EXCEPT !.cash = @ - p.amount, !.units = @ - p.units, !.investors[p.actor] = 0]

\* The event of exactly the approval that is pending.
\* Fault variant: any event with its sequence number.
Receipt_Any(entry) == entry.approval.sequence = memory.pending.sequence
Receipt(entry) == entry.approval = memory.pending

RecoverApplied ==
    /\ phase = "idle" /\ Pending /\ Len(final.vault.log) = Len(memory.log) + 1
    /\ LET entry == final.vault.log[Len(final.vault.log)]
           p == memory.pending
       IN  /\ Receipt(entry)
           /\ LET state == [memory EXCEPT !.log = final.vault.log, !.used = @ \cup {p.request}, !.pending = Blank,
                                          !.strategies[p.strategy] = Credited(@, p, entry.out)]
              IN  Reconciled(state) /\ Save(state)
    /\ phase' = "ready" /\ UNCHANGED <<chainVars, released, hostVars>>

\* Any other sequence or event is a rollback, a competing instance or a foreign receipt:
\* recovery fails, and so does every request, until the enclave is started again.

\* A client that asks again gets the approval again.
AskAgain(i) ==
    /\ phase = "ready" /\ memory.pending.request = i
    /\ released' = released \cup {memory.pending} /\ phase' = "idle"
    /\ UNCHANGED <<chainVars, memory, disk, hostVars>>

\* command(): sign, save, answer.
Command(i, s, kind, buy, amount, quote, minOut, units) ==
    LET a == [sequence |-> Len(memory.log) + 1, previous |-> memory.log, request |-> i, kind |-> kind,
              buy |-> buy, amount |-> amount, quote |-> quote, minOut |-> minOut, units |-> units,
              actor |-> Owner[i], strategy |-> s, deadline |-> final.time + Ttl]
    IN  /\ phase = "ready" /\ i \notin memory.used /\ ~Pending
        /\ amount > 0
        /\ Save([memory EXCEPT !.pending = a])
        /\ released' = released \cup {a} /\ phase' = "idle"
        /\ UNCHANGED <<chainVars, hostVars>>

Allocate(i, s) ==
    LET st == memory.strategies[s]
        units == IF st.units = 0 THEN DepositAmount ELSE (DepositAmount * st.units) \div st.cash
    IN  /\ st.asset = 0 /\ (st.units = 0 \/ st.cash > 0) /\ final.vault.deposits[i].state = "held" /\ units > 0
        /\ Command(i, s, "credit", FALSE, DepositAmount, DepositAmount, 0, units)

\* The provider buys for a quarter of the cash, or sells everything; the price moves.
AtLeast(quote) == (quote * 99) \div 100
Target(i, s, price) ==
    LET st == memory.strategies[s]
        buy == st.asset = 0
        amount == IF buy THEN st.cash \div 4 ELSE st.asset
        quote == IF buy THEN amount ELSE amount * price
    IN  /\ AtLeast(quote) > 0
        /\ Command(i, s, "swap", buy, amount, quote, AtLeast(quote), 0)

Redeem(i, s) ==
    LET st == memory.strategies[s]
        units == st.investors[Owner[i]]
    IN  /\ st.asset = 0 /\ units > 0
        /\ Command(i, s, "withdraw", FALSE, (st.cash * units) \div st.units, 0, 0, units)

Restart == phase = "down" /\ memory' = disk /\ phase' = "idle" /\ UNCHANGED <<chainVars, disk, released, hostVars>>
Crash ==
    /\ phase # "down" /\ phase' = "down" /\ memory' = NewState
    /\ kept' \in IF rollbacks < RollbackLimit THEN {kept, disk} ELSE {kept}
    /\ UNCHANGED <<chainVars, disk, released, rollbacks>>
\* The host starts the enclave with a file of the past.
Rollback ==
    /\ phase = "down" /\ rollbacks < RollbackLimit /\ rollbacks' = rollbacks + 1
    /\ kept # disk /\ disk' = kept
    /\ UNCHANGED <<chainVars, memory, phase, released, kept>>

Next ==
    \/ \E i \in Ids : Deposit(i) \/ RefundUncredited(i) \/ AskAgain(i)
    \/ \E a \in released : ExecuteApproved(a)
    \/ Finalize \/ TimePasses
    \/ RecoverCurrent \/ RecoverApplied
    \/ \E i \in Ids, s \in Strategies : Allocate(i, s) \/ Redeem(i, s)
    \/ \E i \in Ids, s \in Strategies, price \in {1, 2} : Target(i, s, price)
    \/ Restart \/ Crash \/ Rollback

Spec == Init /\ [][Next]_vars

--------------------------------------------------------------------------------
(* Properties. *)

\* What the vault carried out is never a surprise: as long as nobody restores an older
\* file, the vault is at most one approval ahead of the sealed file, and it is the one
\* the file holds, even when that was given up as expired or the process died.
ExecutedIsKnown ==
    rollbacks = 0 =>
        \/ vault.log = disk.log
        \/ Len(vault.log) = Len(disk.log) + 1 /\ vault.log[Len(vault.log)].approval = disk.pending

\* Whatever happened to its file, books the coordinator has at the vault's checkpoint are
\* those the vault's approvals add up to, strategy by strategy (the vault knows only the
\* sums), and the vault holds them besides the deposits it may have to give back.
BooksMatchVault ==
    LET Of(s) == {k \in DOMAIN vault.log : vault.log[k].approval.strategy = s}
        CashIn(e) == CASE e.approval.kind = "credit" -> e.out
                       [] e.approval.kind = "swap" -> IF e.approval.buy THEN -e.approval.amount ELSE e.out
                       [] e.approval.kind = "withdraw" -> -e.out
        CashOf(s) == TotalOf([k \in Of(s) |-> CashIn(vault.log[k])], Of(s))
    IN  /\ memory.log = vault.log => \A s \in Strategies : memory.strategies[s].cash = CashOf(s)
        /\ vault.balance = vault.cash + DepositAmount * Cardinality({i \in Ids : vault.deposits[i].state = "held"})
================================================================================
