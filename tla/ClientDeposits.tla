---------------------------- MODULE ClientDeposits ----------------------------
(***************************************************************************)
(* How one account adds funds from its browser (PlatformContext.jsx,       *)
(* addFunds, complete and resumeDeposit): the enclave prepares a deposit,  *)
(* the wallet pays it on chain, its transaction is kept in local storage   *)
(* and given to the enclave, which credits it once.  The tab may be        *)
(* reloaded and the account signed out between any two steps.              *)
(***************************************************************************)
EXTENDS Naturals, FiniteSets

CONSTANTS
    None,         \* no deposit
    DepositLimit  \* bound: deposits prepared

VARIABLES
    account,   \* [signed, loaded]: a session is stored; the account's record was read (refreshAccount)
    saved,     \* localStorage of the account's deposit: None or [deposit, hash]
    pending,   \* the same in the page's memory
    tab,       \* the run in progress: [at, deposit, same: the session is still the one it began with]
    prepared,  \* how many deposits the enclave has prepared: 1 .. prepared
    chain,     \* deposit -> "none", "sent" or "paid"
    asked,     \* deposits whose COMPLETE_TOPUP is on its way to the enclave
    credited,  \* deposits the enclave has credited
    gaps       \* deposits whose run was cut after the wallet was asked, or whose record was written over
               \* by a page that had not read it

vars == <<account, saved, pending, tab, prepared, chain, asked, credited, gaps>>

Idle == [at |-> "idle", deposit |-> None, same |-> TRUE]
Deposits == 1..DepositLimit

Init ==
    /\ account = [signed |-> TRUE, loaded |-> TRUE]
    /\ saved = None /\ pending = None /\ tab = Idle
    /\ prepared = 0 /\ chain = [d \in Deposits |-> "none"]
    /\ asked = {} /\ credited = {} /\ gaps = {}

HasHash(record) == record # None /\ record.hash
Record(deposit, hash) == [deposit |-> deposit, hash |-> hash]

--------------------------------------------------------------------------------
(* addFunds.  Any of its steps may fail or be refused: GiveUp.               *)

MayAdd_Always == TRUE
\* "Finish confirming your previous deposit first."
MayAdd == ~HasHash(pending)

AddFunds ==
    /\ account.signed /\ tab.at = "idle" /\ MayAdd
    /\ tab' = [Idle EXCEPT !.at = "prepare"]
    /\ UNCHANGED <<account, saved, pending, prepared, chain, asked, credited, gaps>>

\* PREPARE_TOPUP is answered, to the session that asked; the answer replaces the record.
Prepare ==
    /\ tab.at = "prepare" /\ tab.same /\ prepared < DepositLimit
    /\ prepared' = prepared + 1
    /\ pending' = Record(prepared', FALSE)
    /\ saved' = Record(prepared', FALSE)
    /\ tab' = [tab EXCEPT !.at = "approve", !.deposit = prepared']
    /\ gaps' = IF HasHash(saved) /\ ~account.loaded THEN gaps \cup {saved.deposit} ELSE gaps
    /\ UNCHANGED <<account, chain, asked, credited>>

\* Once the token is approved the session is compared, and the wallet is asked.
AskWallet ==
    /\ tab.at = "approve" /\ tab.same
    /\ tab' = [tab EXCEPT !.at = "wallet"]
    /\ UNCHANGED <<account, saved, pending, prepared, chain, asked, credited, gaps>>

\* The wallet sends the transaction; the page has not heard of it.
WalletSends ==
    /\ tab.at = "wallet" /\ chain[tab.deposit] = "none"
    /\ chain' = [chain EXCEPT ![tab.deposit] = "sent"]
    /\ UNCHANGED <<account, saved, pending, tab, prepared, asked, credited, gaps>>

\* The hash is saved for the account that is signed in now, under no name when none is.
SaveHash ==
    /\ tab.at = "wallet" /\ chain[tab.deposit] # "none"
    /\ pending' = Record(tab.deposit, TRUE)
    /\ saved' = IF account.signed THEN Record(tab.deposit, TRUE) ELSE saved
    /\ tab' = [tab EXCEPT !.at = "mine"]
    /\ UNCHANGED <<account, prepared, chain, asked, credited, gaps>>

Mined(d) ==
    /\ chain[d] = "sent" /\ chain' = [chain EXCEPT ![d] = "paid"]
    /\ UNCHANGED <<account, saved, pending, tab, prepared, asked, credited, gaps>>

\* complete, after tx.wait() or from resumeDeposit; it needs a session.
Complete ==
    /\ tab.at = "mine" /\ chain[tab.deposit] = "paid" /\ account.signed
    /\ asked' = asked \cup {tab.deposit}
    /\ tab' = [tab EXCEPT !.at = "complete"]
    /\ UNCHANGED <<account, saved, pending, prepared, chain, credited, gaps>>

Resume ==
    /\ account.signed /\ tab.at = "idle" /\ HasHash(pending)
    /\ asked' = asked \cup {pending.deposit}
    /\ tab' = [Idle EXCEPT !.at = "complete", !.deposit = pending.deposit]
    /\ UNCHANGED <<account, saved, pending, prepared, chain, credited, gaps>>

\* The answer is used by the session that asked; the account is read again.
Finished ==
    /\ tab.at = "complete" /\ tab.same /\ tab.deposit \in credited
    /\ saved' = None /\ pending' = None
    /\ account' = [account EXCEPT !.loaded = TRUE]
    /\ tab' = Idle
    /\ UNCHANGED <<prepared, chain, asked, credited, gaps>>

\* An error, a refusal in the wallet or no answer ends the run.
GiveUp ==
    /\ tab.at # "idle"
    /\ tab.at = "wallet" => chain[tab.deposit] = "none"
    /\ tab' = Idle
    /\ UNCHANGED <<account, saved, pending, prepared, chain, asked, credited, gaps>>

--------------------------------------------------------------------------------
(* The session: it ends when the user signs out or a request answers 401,    *)
(* whatever runs; a login waits for the run.  The page may be reloaded, and  *)
(* then reads the account, or fails to.                                      *)

Cut == IF tab.at = "wallet" THEN gaps \cup {tab.deposit} ELSE gaps

Logout ==
    /\ account.signed
    /\ account' = [signed |-> FALSE, loaded |-> FALSE]
    /\ pending' = None
    /\ tab' = [tab EXCEPT !.same = tab.at = "idle"]
    /\ gaps' = Cut
    /\ UNCHANGED <<saved, prepared, chain, asked, credited>>

Login ==
    /\ ~account.signed /\ tab.at = "idle"
    /\ account' = [signed |-> TRUE, loaded |-> TRUE]
    /\ pending' = saved
    /\ UNCHANGED <<saved, tab, prepared, chain, asked, credited, gaps>>

Reload(read) ==
    /\ tab' = Idle
    /\ account' = [account EXCEPT !.loaded = read /\ account.signed]
    /\ pending' = IF read /\ account.signed THEN saved ELSE None
    /\ gaps' = Cut
    /\ UNCHANGED <<saved, prepared, chain, asked, credited>>

--------------------------------------------------------------------------------
(* The enclave.                                                              *)

Credit(d) ==
    /\ d \in asked /\ chain[d] = "paid"
    /\ asked' = asked \ {d} /\ credited' = credited \cup {d}
    /\ UNCHANGED <<account, saved, pending, tab, prepared, chain, gaps>>

\* Lost, or refused since the receipt is not there yet.
Refuse(d) ==
    /\ d \in asked /\ asked' = asked \ {d}
    /\ UNCHANGED <<account, saved, pending, tab, prepared, chain, credited, gaps>>

Next ==
    \/ AddFunds \/ Prepare \/ AskWallet \/ WalletSends \/ SaveHash \/ Complete \/ Resume \/ Finished \/ GiveUp
    \/ Logout \/ Login
    \/ \E read \in BOOLEAN: Reload(read)
    \/ \E d \in Deposits: Mined(d) \/ Credit(d) \/ Refuse(d)

--------------------------------------------------------------------------------
\* A deposit that was sent from the wallet and is not credited can be completed: its
\* hash is saved, or the run that will save it is open.  The exceptions are a run cut
\* while the wallet had the transaction, and a record that a page wrote over without
\* having read it (PlatformContext.jsx, addFunds).
SentCanComplete ==
    \A d \in Deposits:
        chain[d] # "none" =>
            \/ d \in credited \/ d \in gaps
            \/ saved = Record(d, TRUE)
            \/ tab.at = "wallet" /\ tab.deposit = d
================================================================================
