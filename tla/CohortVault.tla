------------------------------ MODULE CohortVault ------------------------------
(***************************************************************************)
(* A cohort: two investors who subscribe together, one strategy at an      *)
(* exchange, one settlement (contracts/perpl/PerplCohortVault.sol over     *)
(* PerplMvpAccount.sol).  The manager signs targets; the operator          *)
(* (deploy/tee/operator/engine.mjs) reads the chain, proves the target and *)
(* sends it, and what it read may have changed when it is mined.  One      *)
(* transaction of the operator is on its way at a time (DurableSubmitter). *)
(***************************************************************************)
EXTENDS Integers, FiniteSets

CONSTANTS
    Amounts,                    \* what an investor subscribes
    Targets,                    \* the manager's targets, in lots
    Returns,                    \* what closing a position may bring
    FeeBps, Bps,                \* the manager's part of a profit
    Ttl,
    LastTime, IntentLimit, RotationLimit, CashLimit    \* bounds

VARIABLES
    now,
    vault,      \* the vault contract and the tokens it has
    account,    \* its account: nonce, position, money at the exchange, key
    intents,    \* what the manager signed
    work,       \* the operator: a target it has checked and proved, or Idle
    sent,       \* the transaction on its way, or Idle
    journal,    \* outcomes the operator knows: intent -> mined or reverted
    closing,    \* history: the position when closing began
    traded      \* history: the key an intent was signed for and the one it was mined under

vars == <<now, vault, account, intents, work, sent, journal, closing, traded>>

Investors == {0, 1}
Idle == [seq |-> -1]
Phases == [funding |-> 0, live |-> 1, closing |-> 2, recovered |-> 3, settled |-> 4]
Size(n) == IF n < 0 THEN -n ELSE n

Init ==
    /\ now = 0 /\ intents = {} /\ work = Idle /\ sent = Idle /\ journal = <<>> /\ closing = 0 /\ traded = {}
    /\ vault = [phase |-> 0, paused |-> FALSE, deposits |-> [i \in Investors |-> 0], claims |-> [i \in Investors |-> 0],
                fee |-> 0, recovered |-> 0, epoch |-> 0, cash |-> 0]
    /\ account = [nonce |-> 0, qty |-> 0, free |-> 0, key |-> 0]

Total == vault.deposits[0] + vault.deposits[1]
In(name) == vault.phase = Phases[name]
Trading == In("live") \/ In("closing")
Chain == <<now, intents, work, sent, journal>>

--------------------------------------------------------------------------------
(* The vault. *)

Subscribe(i, amount) ==
    /\ In("funding") /\ ~vault.paused /\ Total + amount <= CashLimit
    /\ vault' = [vault EXCEPT !.deposits[i] = @ + amount, !.cash = @ + amount]
    /\ UNCHANGED <<account, closing, traded, Chain>>
CancelSubscription(i) ==
    /\ In("funding") /\ vault.deposits[i] > 0
    /\ vault' = [vault EXCEPT !.deposits[i] = 0, !.cash = @ - vault.deposits[i]]
    /\ UNCHANGED <<account, closing, traded, Chain>>
Activate ==
    /\ In("funding") /\ ~vault.paused /\ \A i \in Investors : vault.deposits[i] > 0
    /\ vault' = [vault EXCEPT !.phase = Phases.live, !.cash = @ - Total]
    /\ account' = [account EXCEPT !.free = Total]
    /\ UNCHANGED <<closing, traded, Chain>>
\* An investor asks for the money, or the controller ends it; both may come again.
Close ==
    /\ In("live")
    /\ vault' = [vault EXCEPT !.phase = Phases.closing] /\ closing' = Size(account.qty)
    /\ UNCHANGED <<account, traded, Chain>>
Pause(value) ==
    /\ vault.paused # value /\ vault' = [vault EXCEPT !.paused = value]
    /\ UNCHANGED <<account, closing, traded, Chain>>
\* To the operator's key of the next epoch, or to one it does not have.
RotateKey(key) ==
    /\ Trading /\ vault.epoch < RotationLimit
    /\ vault' = [vault EXCEPT !.epoch = @ + 1] /\ account' = [account EXCEPT !.key = key]
    /\ UNCHANGED <<closing, traded, Chain>>
Recover ==
    /\ In("closing") /\ account.qty = 0
    /\ vault' = [vault EXCEPT !.phase = Phases.recovered, !.recovered = account.free, !.cash = @ + account.free]
    /\ account' = [account EXCEPT !.free = 0]
    /\ UNCHANGED <<closing, traded, Chain>>

\* settleCohort(): by what was subscribed, a fee on profit only.
\* Fault variant: a fee on everything above nothing.
Profit_Gross(gross, deposit) == gross
Profit(gross, deposit) == IF gross > deposit THEN gross - deposit ELSE 0
Settlement ==
    LET first == (vault.recovered * vault.deposits[0]) \div Total
        gross == [i \in Investors |-> IF i = 0 THEN first ELSE vault.recovered - first]
        fees == [i \in Investors |-> (Profit(gross[i], vault.deposits[i]) * FeeBps) \div Bps]
    IN  [claims |-> [i \in Investors |-> gross[i] - fees[i]], fee |-> fees[0] + fees[1]]

\* perpl-cohort-ledger.circom: the claims and the fee there is a witness for.
CohortLedger(claims, fee) ==
    \E first \in 0 .. vault.recovered :
        LET gross == [i \in Investors |-> IF i = 0 THEN first ELSE vault.recovered - first]
            charged(i) == gross[i] - claims[i]
            profit(i) == IF vault.deposits[i] < gross[i] THEN gross[i] - vault.deposits[i] ELSE 0
        IN  /\ vault.recovered * vault.deposits[0] - first * Total \in 0 .. Total - 1
            /\ \A i \in Investors : charged(i) >= 0 /\ profit(i) * FeeBps - charged(i) * Bps \in 0 .. Bps - 1
            /\ fee = charged(0) + charged(1) /\ claims[0] + claims[1] + fee = vault.recovered
Settle ==
    /\ In("recovered") /\ CohortLedger(Settlement.claims, Settlement.fee)
    /\ vault.cash >= vault.recovered
    /\ vault' = [vault EXCEPT !.phase = Phases.settled, !.claims = Settlement.claims, !.fee = Settlement.fee]
    /\ UNCHANGED <<account, closing, traded, Chain>>
Claim(i) ==
    /\ In("settled") /\ vault.claims[i] > 0
    /\ vault' = [vault EXCEPT !.claims[i] = 0, !.cash = @ - vault.claims[i]]
    /\ UNCHANGED <<account, closing, traded, Chain>>
ClaimFee ==
    /\ In("settled") /\ vault.fee > 0
    /\ vault' = [vault EXCEPT !.fee = 0, !.cash = @ - vault.fee]
    /\ UNCHANGED <<account, closing, traded, Chain>>

--------------------------------------------------------------------------------
(* The operator. *)

Sign(target) ==
    /\ Trading /\ Cardinality(intents) < IntentLimit
    /\ intents' = intents \cup {[target |-> target, seq |-> account.nonce, epoch |-> vault.epoch, deadline |-> now + Ttl]}
    /\ UNCHANGED <<now, vault, account, work, sent, journal, closing, traded>>

\* execute(): an intent that has an outcome is answered with it.  Any other is checked
\* against the chain as it is now, and proved for the position and the key there.
Check(x) ==
    /\ work = Idle /\ sent = Idle /\ x \notin DOMAIN journal
    /\ x.epoch = vault.epoch /\ x.seq = account.nonce /\ x.deadline > now /\ Trading
    /\ (In("closing") \/ vault.paused) => x.target = 0
    /\ account.key = vault.epoch
    /\ work' = [seq |-> x.seq, intent |-> x, qty |-> account.qty, key |-> account.key]
    /\ UNCHANGED <<now, vault, account, intents, sent, journal, closing, traded>>
Send ==
    /\ work # Idle /\ sent' = work /\ work' = Idle
    /\ UNCHANGED <<now, vault, account, intents, journal, closing, traded>>
\* A crash loses what was not sent.
Crash ==
    /\ work # Idle /\ work' = Idle
    /\ UNCHANGED <<now, vault, account, intents, sent, journal, closing, traded>>

\* The vault's execute() and the account's.
\* Fault variant: the vault trusts the operator to have asked for the phase.
MayTrade_Operator(x) == Trading
MayTrade(x) == Trading /\ ((In("live") /\ ~vault.paused) \/ x.target = 0)
Accepted(tx) ==
    LET x == tx.intent IN
    /\ MayTrade(x) /\ x.seq = account.nonce /\ now < x.deadline
    /\ tx.qty = account.qty /\ tx.key = account.key
    /\ account.qty = 0 \/ x.target = 0 \/ (account.qty > 0) = (x.target > 0)
    /\ x.target # account.qty
\* An order is filled as far as the exchange can.
Fills(target) ==
    IF target > account.qty THEN account.qty .. target ELSE target .. account.qty
Outcome(x, status) == [y \in DOMAIN journal \cup {x} |-> IF y = x THEN status ELSE journal[y]]
Mine ==
    /\ sent # Idle /\ Accepted(sent)
    /\ \E qty \in Fills(sent.intent.target), gain \in Returns \cup {0} :
          /\ gain # 0 => Size(qty) < Size(account.qty)
          /\ account.free + gain \in 0 .. CashLimit + 1
          /\ account' = [account EXCEPT !.nonce = @ + 1, !.qty = qty, !.free = @ + gain]
    /\ traded' = traded \cup {[intent |-> sent.intent, epoch |-> vault.epoch, key |-> sent.key]}
    /\ journal' = Outcome(sent.intent, "mined") /\ sent' = Idle
    /\ UNCHANGED <<now, vault, intents, work, closing>>
\* The exchange may also refuse the order.
Revert ==
    /\ sent # Idle
    /\ journal' = Outcome(sent.intent, "reverted") /\ sent' = Idle
    /\ UNCHANGED <<now, vault, account, intents, work, closing, traded>>
\* The exchange closes a position that lost its margin.
Liquidate ==
    /\ account.qty # 0 /\ account' = [account EXCEPT !.qty = 0, !.free = 0]
    /\ UNCHANGED <<vault, closing, traded, Chain>>

Tick == now < LastTime /\ now' = now + 1 /\ UNCHANGED <<vault, account, intents, work, sent, journal, closing, traded>>

Next ==
    \/ \E i \in Investors : CancelSubscription(i) \/ Claim(i) \/ \E a \in Amounts : Subscribe(i, a)
    \/ Activate \/ Close \/ Recover \/ Settle \/ ClaimFee
    \/ \E value \in BOOLEAN : Pause(value)
    \/ \E key \in {vault.epoch + 1, -1} : RotateKey(key)
    \/ \E t \in Targets : Sign(t) \/ \E x \in intents : Check(x)
    \/ Send \/ Crash \/ Mine \/ Revert \/ Liquidate \/ Tick

Spec == Init /\ [][Next]_vars

--------------------------------------------------------------------------------
(* Properties. *)

\* What came back can be settled, and only as subscribed: whatever trading made of the
\* money, the operator's settlement has a proof, and no other has; nobody pays a fee on a
\* loss, and the vault can pay all that is claimed.
SettlementIsFair ==
    /\ In("recovered") =>
          \A c \in 0 .. vault.recovered, f \in 0 .. vault.recovered :
              c + f <= vault.recovered =>
                  (CohortLedger([i \in Investors |-> IF i = 0 THEN c ELSE vault.recovered - c - f], f)
                       <=> (Settlement.claims[0] = c /\ Settlement.fee = f))
    /\ In("settled") =>
          /\ vault.cash >= vault.claims[0] + vault.claims[1] + vault.fee
          /\ vault.recovered <= Total => vault.fee = 0
    /\ In("funding") => vault.cash = Total

\* Once the cohort closes, its position only shrinks, also by orders that were checked
\* before; and a target is only traded under the key of the epoch it was signed for.
ClosingOnlyReduces ==
    /\ vault.phase >= Phases.closing => Size(account.qty) <= closing
    /\ \A t \in traded : t.intent.epoch = t.epoch /\ t.key = t.epoch
================================================================================
