---------------------------- MODULE VaultRetirement ----------------------------
(***************************************************************************)
(* Replacing the platform's vault by an empty one: the enclave pauses the  *)
(* vault (execution.mjs, pauseForRetirement), finds it empty               *)
(* (vault-retirement.js) and adopts the next one (investments.mjs, pin),   *)
(* each inside its serial queue but with the chain going on: investors pay *)
(* deposits they prepared whenever they like (PlatformOmnibusVault.sol).   *)
(* A deposit is one unit; what happens inside an execution account is one  *)
(* number, and its book follows it.                                        *)
(***************************************************************************)
EXTENDS Integers, FiniteSets

CONSTANTS
    DepositLimit,  \* bound: deposits prepared
    VaultLimit,    \* bound: vaults deployed
    Gains          \* what an execution account may gain or lose in a step

VARIABLES
    vaults,    \* vault -> [paused, cash, account: what its execution accounts hold]
    config,    \* state.config: the vault in use
    intents,   \* deposit -> [status, vault it was prepared for, paid: its Deposit event]
    book,      \* state.books: [pending, equity]
    job,       \* what holds the serial queue: [kind, seen: whether the vault was found retirable]
    retired    \* state.retiredVaults

vars == <<vaults, config, intents, book, job, retired>>

Deposits == 1..DepositLimit
Vaults == 1..VaultLimit
Free == [kind |-> "none", seen |-> FALSE]

Init ==
    /\ vaults = [v \in Vaults |-> [paused |-> FALSE, cash |-> 0, account |-> 0]]
    /\ config = 1
    /\ intents = [d \in Deposits |-> [status |-> "none", vault |-> 1, paid |-> FALSE]]
    /\ book = [pending |-> 0, equity |-> 0]
    /\ job = Free
    /\ retired = {}

\* assertInvestmentStateEmpty.
StateEmpty == book.pending = 0 /\ book.equity = 0
\* The pause is not asked for.
VaultRetirable_Open(v) == vaults[v].cash = 0 /\ vaults[v].account = 0
\* assertVaultRetirable with requirePaused; every read is of one block.
VaultRetirable(v) == vaults[v].paused /\ vaults[v].cash = 0 /\ vaults[v].account = 0

--------------------------------------------------------------------------------
(* Investors.                                                                *)

Prepare(d) ==
    /\ job = Free /\ intents[d].status = "none"
    /\ intents' = [intents EXCEPT ![d] = [status |-> "PREPARED", vault |-> config, paid |-> FALSE]]
    /\ UNCHANGED <<vaults, config, book, job, retired>>

\* On chain, at any time; a paused vault reverts.
Pay(d) ==
    LET v == intents[d].vault IN
    /\ intents[d].status # "none" /\ ~intents[d].paid
    /\ ~vaults[v].paused
    /\ vaults' = [vaults EXCEPT ![v].cash = @ + 1]
    /\ intents' = [intents EXCEPT ![d].paid = TRUE]
    /\ UNCHANGED <<config, book, job, retired>>

\* DEPOSIT_RETIRED, or a receipt of another vault, is refused.
Confirm(d) ==
    /\ job = Free /\ intents[d].status = "PREPARED"
    /\ intents[d].paid /\ intents[d].vault = config
    /\ intents' = [intents EXCEPT ![d].status = "CONFIRMED"]
    /\ book' = [book EXCEPT !.pending = @ + 1]
    /\ UNCHANGED <<vaults, config, job, retired>>

--------------------------------------------------------------------------------
(* The operator's steps, each a job of the same queue.                       *)

\* A pending deposit is activated and moved to an execution account.
Fund ==
    /\ job = Free /\ book.pending > 0 /\ ~vaults[config].paused
    /\ vaults' = [vaults EXCEPT ![config].cash = @ - 1, ![config].account = @ + 1]
    /\ book' = [pending |-> book.pending - 1, equity |-> book.equity + 1]
    /\ UNCHANGED <<config, intents, job, retired>>

Trade(gain) ==
    /\ vaults[config].account > 0 /\ vaults[config].account + gain \in 0..DepositLimit
    /\ vaults' = [vaults EXCEPT ![config].account = @ + gain]
    /\ book' = [book EXCEPT !.equity = @ + gain]
    /\ UNCHANGED <<config, intents, job, retired>>

\* A redemption: recovered from the account, and paid.
Redeem ==
    /\ job = Free /\ book.equity > 0 /\ vaults[config].account > 0
    /\ vaults' = [vaults EXCEPT ![config].account = @ - 1]
    /\ book' = [book EXCEPT !.equity = @ - 1]
    /\ UNCHANGED <<config, intents, job, retired>>

\* A pending deposit is returned.
Return ==
    /\ job = Free /\ book.pending > 0
    /\ vaults' = [vaults EXCEPT ![config].cash = @ - 1]
    /\ book' = [book EXCEPT !.pending = @ - 1]
    /\ UNCHANGED <<config, intents, job, retired>>

--------------------------------------------------------------------------------
(* The retirement.                                                           *)

\* pauseForRetirement: the vault must look empty, paused or not.
BeginPause ==
    /\ job = Free /\ StateEmpty /\ vaults[config].cash = 0 /\ vaults[config].account = 0
    /\ job' = [kind |-> "pause", seen |-> TRUE]
    /\ UNCHANGED <<vaults, config, intents, book, retired>>

\* Its transaction is mined; then the vault is looked at again, and only the answer says
\* that a deposit came first.  Nothing lifts the pause.
EndPause ==
    /\ job.kind = "pause"
    /\ vaults' = [vaults EXCEPT ![config].paused = TRUE]
    /\ job' = Free
    /\ UNCHANGED <<config, intents, book, retired>>

\* pin reads the vault in use at one block,
BeginPin ==
    /\ job = Free /\ config < VaultLimit /\ StateEmpty
    /\ job' = [kind |-> "pin", seen |-> VaultRetirable(config)]
    /\ UNCHANGED <<vaults, config, intents, book, retired>>

\* and adopts the next one: deposits that were only prepared are retired.
EndPin ==
    /\ job.kind = "pin" /\ job' = Free
    /\ IF job.seen
       THEN /\ intents' = [d \in Deposits |-> IF intents[d].status = "PREPARED"
                                              THEN [intents[d] EXCEPT !.status = "RETIRED"] ELSE intents[d]]
            /\ retired' = retired \cup {config}
            /\ config' = config + 1
       ELSE UNCHANGED <<intents, retired, config>>
    /\ UNCHANGED <<vaults, book>>

Next ==
    \/ \E d \in Deposits: Prepare(d) \/ Pay(d) \/ Confirm(d)
    \/ Fund \/ Redeem \/ Return
    \/ \E gain \in Gains: Trade(gain)
    \/ BeginPause \/ EndPause \/ BeginPin \/ EndPin

--------------------------------------------------------------------------------
\* A deposit that was retired was not paid and never will be, and nothing is left in a
\* vault that was replaced (investments.mjs, pin: OLD_VAULT_MUST_BE_PAUSED).
NothingIsLeftBehind ==
    /\ \A d \in Deposits: intents[d].status = "RETIRED" => ~intents[d].paid
    /\ \A v \in retired: vaults[v].cash = 0 /\ vaults[v].account = 0

\* What the vault in use holds is what the books owe and the paid deposits nobody has
\* completed (assertInvestmentStateEmpty with assertVaultRetirable).
VaultIsExplained ==
    LET unclaimed == {d \in Deposits: intents[d].paid /\ intents[d].status = "PREPARED"} IN
    vaults[config].cash + vaults[config].account = book.pending + book.equity + Cardinality(unclaimed)
================================================================================
