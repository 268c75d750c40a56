# Veilvest: formal models of the execution operator

Veilvest runs strategies that investors fund without seeing them. An operator
inside a trusted execution environment keeps the private books, turns a
strategist's targets into exchange trades through a vault contract, pays
redemptions, and publishes zero-knowledge proofs of its books to a contract.
This directory holds TLA+ models of that operator, TLC runs over small instances
and TLAPS proofs for all instances.

Paths below are relative to the repository; `operator/` is `deploy/tee/operator/`.

## 1. Inventory

### 1.1 The current product

| Component | Code | State it keeps | Operations | Talks to |
|---|---|---|---|---|
| Durable submitter | `protocol/cohort/durable-submitter.mjs` | journal: next nonce; per id the signed transaction, status, fee | `sync`, `submit`, `reconcile`, `lookup` | RPC node; sealed store |
| Sealed store | `src/integration/sealed.js` | one encrypted file per journal or state | `write` (temporary file, fsync, rename), `read` | host file system, which may lose or restore files |
| Execution steps | `operator/execution.mjs` `step` | `job.steps[id]`: request, `applied` | save the request, submit it, apply its effect with the mark | submitter; whoever owns the effect |
| Customer cash accounts | `operator/investments.mjs`, `operator/cash-ledger.mjs` | cash book (`pending`), intents, withdrawals, idempotency records | `PREPARE_TOPUP`, `COMPLETE_TOPUP`, `ALLOCATE`, `WITHDRAW`, `CANCEL`; payment in the tick | vault, submitter, strategy books |
| Investor ledger | `operator/ledger.mjs`, `ledger-journal.mjs`, `ledger-witness.mjs` | per strategy: investors with pending cash, units, reserved units, high watermark; cash, equity, fees; the event journal | deposit, mark, activate, request/cancel/burn a withdrawal, crystallize and pay fees; replay of the journal | execution, ledger proofs |
| Strategy execution | `operator/execution.mjs` | requests, strategy status, risk job, settlement, fee payout | `tick`: `accept`, `execute`, `riskExit`, `settle`, `payFees` | submitter, shared accounts, ledger |
| Shared execution accounts | `operator/shared-accounts.mjs`, `contracts/platform/PlatformSharedExecutionAccount.sol` | claims (equity, lots) per strategy, checkpoint of the account, allocations | `checkpoint`, `refresh`, `allocate`, `trade`, `recover`, `applyEffect` | exchange, vault |
| Ledger proofs | `operator/ledger-proofs.mjs`, `ledger-prover.mjs`, `contracts/platform/PlatformLedgerCheckpoint.sol` | frozen sequence numbers, job, page, local root, anchored count; public archive; contract root | `freeze`, `validateJob`, `preparePage`, `provePage`, `advance`, `anchor`, `requestCheckpoint` | prover process, submitter, contract |
| Omnibus vault | `contracts/platform/PlatformOmnibusVault.sol` | deposits by id, balance, slots, accounts, pause | `deposit`, `withdraw`, `fundSlot`, `recoverSlot`, `createSlots`, `createSharedAccounts`, `setPaused` | customers, operator wallet |
| Private investments API | `operator/investments.mjs` | everything above is one sealed file, one queue (`serial`) | session and signed-message endpoints, `pin` of configurations, portfolio reads | platform API, all ticks |
| Operator server | `operator/server.mjs` | two timers, running flags | execution tick and proof tick every five seconds; HTTP | all of the above |
| TEE migration agent | `operator/migration.mjs` | paused flag, marker file, target files | `pauseOperator`, `restoreSnapshot`, `runAgent` | source and target hosts |
| Vault retirement | `operator/vault-retirement.js`, `pin` in `investments.mjs` | pinned vault configuration | check that the old vault is empty, switch | vault |
| Platform API | `src/platform/service.js` | SQL tables: accounts, sessions, bound wallets, policies, metrics | sessions, `bindWallet`, `proposePolicy`, `publishMetrics` | operator, web application |
| Strategy policy | `src/platform/policy.js` | none | `validatePolicy`, `validateTargets`, `nextSettlement`, `targetLots` | execution |

### 1.2 Earlier prototypes and other parts

| Component | Code | What it does |
|---|---|---|
| Cohort operator | `operator/engine.mjs`, `contracts/perpl/` | one cohort of investors, one strategy, one settlement; it shares the submitter |
| Approved vault | `src/integration/coordinator.js`, `contracts/integration/ApprovedVault.sol` | an enclave signs approvals with deadlines, a vault carries them out |
| Book vault with proofs | `src/zk/book.js`, `circuits/book-transition.circom`, `contracts/integration/ZkBookVault.sol` | two hidden books in one vault |
| Encrypted relay, attestation | `src/tee/`, `src/web/attestedTee.js` | which enclave a request is encrypted for |
| Sleeves | `src/sleeves/`, `contracts/sleeves/OmnibusVault.sol` | several strategies in one vault, one pending plan |
| Pilot fund | `src/pilot/`, `contracts/pilot/PilotFund.sol` | sealed signals, a fund, an auditor, rewards |
| Paper fund | `src/core/engine.js`, `src/server/service.js` | signals and a book on paper |
| Circuits and provers | `circuits/`, `protocol/platform/` | transitions of the ledger |
| Reference protocol | `protocol/reference`, `protocol/ts` | encodings and arithmetic, written twice |
| Web application | `src/web/` | what the browser keeps, repeats and sends |
| Scripts, research, evidence | `scripts/`, `research/` | the trading bot, enrolment of releases, experiments |

`PROJECT.json` lists every one with its status and reason.

### 1.3 How the parts interact

All operator state except the submitter's journal is **one sealed file**. Account
requests, and the sections of the execution tick (one per strategy, one per cash book),
take turns in **one queue**. Inside a turn the code awaits the chain, the exchange or
the submitter; at each await a block may be mined, the price may move, the process may
die. The tick works on a copy of the state: it saves at fixed points, and its error
exit saves whatever the copy holds by then. The submitter's journal is a **second**
file, written at other moments: the two are never written together, so every
money movement is a step with a fixed id that is saved before it is submitted, and whose
effect is saved with the mark `applied`. The proof tick runs beside the execution tick
and takes the queue only to freeze, save and anchor; proving runs outside it.

### 1.4 What is hard, and what makes each part correct

* **Two files, one chain.** A crash between any two of: saving the request, signing,
  saving the journal, broadcast, mining, learning the receipt, applying the effect.
  Correct: each movement happens once on the chain and counts once in the books.
* **Ambiguous transactions.** Polling gives up while the transaction is still in the
  pool; later sections run on. Correct: nothing is replaced, reported as finished or
  forgotten while its transaction may still count.
* **Restored files.** The host may present an older journal. Correct: detected before a
  new request is signed; an id is never mined twice even so.
* **One account, several owners.** A change of the account's equity has to be attributed
  to one strategy. Correct: a claim changes by its own lots, transfers and trades only.
* **Prices move between reads.** Payouts are fixed at one price and paid after another.
  Correct: what is signed is covered; every redemption is paid in the end, or is in one
  of three named cases in which the code has nothing that would pay it.
* **Customers act between sections.** Cancel against payment, allocation against a
  reserved balance, a repeated request. Correct: no cancelled payment, no debit twice.
* **Proofs against recording.** Books go on while a job is proved, the process dies
  between archive and root, and the contract compares the operator's clock with the
  blocks'. Correct: every transition is proved once and in order, the contract never
  refuses a proof and follows the archive.

The concrete places are the `hazards` of `PROJECT.json`, each with its line and with
the properties that cover it. Four more are known and not covered: a request begun before a
risk exit and retried after it (`operator/execution.mjs:257`); `hasFill`, set in memory after
the step was saved (`operator/shared-accounts.mjs:254`); a step whose transaction reverted
keeps its id and is never signed again (`operator/execution.mjs:209`); and an effect that
cannot be applied ends the tick on every attempt (`operator/execution.mjs:449`, the second half
of finding 2). Two hazards of the list have no property, and say why.


## 2. Modules

```
EffectLog              what a submitter promises, nothing else
  ^ implemented by
DurableSubmitter       journal, sealed file, node, chain     <- DurableSubmitterProofs
  | implements (sound store)
  v
ExecutionSteps         per id: one record, one outcome
  ^ used by
CashAccounts           customers' balances and payments      <- CashAccountsProofs
StrategySteps          shared account, operator state, step(), chain
  ^ StrategyJobs (orders, settlement)  <- StrategyExecution (the tick)
        <- StrategyExecutionProofs
LedgerCheckpoint       proofs of the books and their contract <- LedgerCheckpointProofs

LedgerWitness          what a transition does to the mirror, and its circuit
  ^ InvestorLedger     units, lots, fees, redemptions; every event is replayed
        <- InvestorLedgerProofs

Protocols              parts that share no state with the tick, one at a time
        <- ProtocolProofs, FundProofs
  web application      ClientRequests ClientDeposits StrategyTargets StrategyForms AttestedChannel
  platform API         PlatformAccounts PolicyChanges
  operator, elsewhere  TargetRequests VaultRetirement OperatorMigration
  earlier products     CohortVault ConfidentialVault PilotFund PaperFund
MCComponents           EXTENDS Protocols; the parts that are only checked
  operator, elsewhere  SharedPools
  earlier products     ZkBooks SleeveVault PilotTrading PilotRewards
  reference protocol   ReferenceVectors ReferenceSlots

SumTheorems            sums over finite sets and the inductions the proofs use
MC*                    small instances for TLC
```

The code's layers are the model's layers. `DurableSubmitter` has every await of the
submitter; the jobs above it see it through `ExecutionSteps` (`record` is
`submitter.lookup(id)`, `mined` the chain's outcome), and the run `submitter_settles`
checks that the submitter implements that interface when its file can be written and is
not rolled back. The upper models therefore have no failed saves and no restored files.

An operator whose name extends another's (`SyncEnd_IgnoresCount` before `SyncEnd`) is a
fault variant: a plausible mistake in that piece of code. It is part of no
specification; `PROJECT.json` names for each property the variant that must break it,
which shows that the property depends on the code.

### 2.1 DurableSubmitter

State: `mem` and `disk` are the journal in memory and in the sealed file, `snapshots`
all files there ever were; `pool`, `sent` and `chain` are the node and the chain (position
*n*+1 has nonce *n*); `pc`, `call`, `cur`, `fresh` are where the call under way is.
Actions follow the awaits: `SyncRecord`, `Lookup`, `Broadcast`, `PollFound`,
`PollExpired`, `RecordReceipt` are `reconcile` (lines 9-29), `Sync`/`SyncEnd` are `sync`
(30-34), `KnownId`, `NewId`, the quote and signing actions are `submit` (35-54).
`Mine`, `Forget`, `Reappear`, `Crash` and `Rollback` are the environment; `Fault` limits
them. Left out: encryption, gas estimation beyond the fee ceiling, the chain id.

### 2.2 ExecutionSteps and EffectLog

`EffectLog` is an append-only log in which an id occurs at most once, and answers that
are given for logged effects only. `DurableSubmitter` implements it with the chain as
the log, under every fault. `ExecutionSteps` is what the jobs use: `Sign`, `Learn`,
`Mine`, one transaction in flight. A `reverted` record is final: `submit()` throws
`MINED_REVERT` for it for ever.

### 2.3 CashAccounts

`saved` is the part of the sealed file that belongs to cash accounts. `Prepare`,
`AccountRequest` (complete, allocate, withdraw, cancel with their idempotency record)
are `accountRequest` of `investments.mjs`; `TickBegin` ... `CloseBook` are the cash
section of the tick (`settleCash` and the recovery of steps before it), with
`SubmitSync`, `SubmitKnown`, `SubmitSign`, `SubmitAnswered` and `SubmitThrows` for the
one payment step; `Interrupt` is a crash at any await. What strategies do with allocated
money is one number here (`allocated`).

### 2.4 The strategy operator

`StrategySteps` begins with the pure parts of `shared-accounts.mjs`: `Attributed` and
`Explained` are the checkpoint (every claim moves with its own lots, the remainder goes
to the actor, and without an actor a remainder is an error), `Free`, `Funding`, `Moved`.
Then it has the state and what the jobs share: `Observed` and `Refreshed` (read
the account, value the strategy, decide a risk exit), `CallStep` to `ApplyStep` (the
durable step), `Throw` (the error exits of requests and of the tick), and the chain
(`MineOk` executes the transfer or trade, `PriceMoves`). The locations `pc` name the
await the section is at.

`StrategyJobs` has two parts. The orders are `accept` (`Restart` is its RESUME, which gives a
halted strategy its orders back), `execute` (plan, flatten, take collateral back or fund,
trade, check) and `riskExit`; the settlement is
`requestWithdrawal`, `cancelWithdrawal`, `settle` (open, job and deadline, close, cost, collect, price, pay)
and `payFees`. `StrategyExecution` is `tick`: sync, then per strategy recover saved
effects, requests, mark, risk, settlement, fees; plus crashes, read errors and deadlines.

Abstractions: one market, long positions, leverage one, one shared account, integer
prices; a lot costs its price and a trade `TradeCost`. Left out: the older slot mode (one
exchange account per strategy) and the clean-up of finished requests; redemptions of
pending deposits (they are `InvestorLedger`'s); maximum drawdown (the stop loss is the
risk limit that is modelled); the venue's funding payments and the code's tolerance for
dust (a difference of one unit stands for more than the tolerance).

`SharedPools` has what `StrategySteps` leaves out: several accounts and markets, opposite
directions, leverage and collateral, `allocate` with its ranking of accounts, interrupted
creations; there prices stand still and a transaction is mined where it is signed.

### 2.5 The ledger and its proofs

`LedgerCheckpoint`: `ledger` is `ledgerProofs` in the sealed file, `archive` the public
proof files, `contract` the checkpoint contract. `Record` is `ledgerEvent`; `Freeze`,
`Validate`, `PreparePage`/`ResumePage`, `Prove`/`ReuseProof`, `Advance`, `CompleteJob` are
the job, `AnchorGenesis`, `AnchorProof`, `MarkProof`, `MarkAnchored` are `anchor`,
`MineGenesis` and `MineAppend` the contract's `initialize` and `append`. A root is the
number of the salt that blinds it, so two roots are equal exactly when they come from the
same saved page. There are two clocks, the operator's (`clock`) and the blocks' (`blockTime`): a job
takes its date from the first, the contract compares it with the date before it and with the
second. `ClockTicks`, `BlockTicks` and `ClockSetBack` move them; `Estimated` is the call that is
simulated before it is signed, so that what the contract would refuse is `SubmitRefused` and
not a transaction. Left out: the merging of marks, paging inside one proof and artifacts.
Transitions are numbered; what they compute is the next model.

`InvestorLedger` is one strategy's book (`ledger.mjs`, `cash-ledger.mjs` and the places in
`execution.mjs` that move its money): allocation, activation into lots, marks, fees per lot
with the burning of units, requests, settlement, payout, policy change. An operation that
throws leaves what it changed, because its caller saves the book. Each operation records
its events as `ledger-journal.mjs` does; `Replay` gives them to `LedgerWitness`
(`applyEvent`, `checkBounds`, `assertMatches`), whose first half, the equations of
`platform-ledger-transition.circom` over integers, says whether the transition has a proof. The
witness has room for so many investors and lots (`Capacities`: wide or narrow, chosen at the
start), and refuses the rest with the code's errors (`verdict`). `overcharged` remembers that a
fee took more units from a lot than it had; the books are followed until then.

### 2.6 The parts of Protocols and MCComponents

`Protocols` puts fourteen parts together that have variables and constants of their own: a
behaviour of `ProtocolSpec` belongs to one of them, `part`, and the others keep the value
they have. `MCComponents` adds seven parts as small instances, which use the variables `w1` to
`w6` in turn.

| Module | Code | State and actions |
|---|---|---|
| `ClientRequests` | `src/web/PlatformContext.jsx` `privateRequest`, `operator/investments.mjs` `accountRequest` | local-storage outbox, the tab, the enclave's queue; click, retry, logout, reload, late and lost copies |
| `ClientDeposits` | `PlatformContext.jsx` `addFunds`, `resumeDeposit` | stored pending deposit, wallet, chain, enclave; reload and logout anywhere |
| `StrategyTargets` | `src/web/ManagerConsole.jsx` `StrategyWorkspace`, `execution.mjs` `accept` | dialog opened over polls, status read and submission, programs with API keys |
| `StrategyForms` | `ManagerConsole.jsx` profile, registration, conditions; `service.js` handlers | forms that are edited and left while a request is on its way |
| `AttestedChannel` | `src/web/attestedTee.js`, `src/platform/tee-attestation.js`, `src/integration/tdx-quote.js`, `scripts/enroll-platform-tee.mjs` | cached quotes, pins, releases; one login's messages |
| `PlatformAccounts` | `src/platform/service.js`, `db/migrations/008_account_login.sql` | rows of users, wallets, strategists, keys; requests that read first and write later |
| `PolicyChanges` | `service.js` `proposePolicy`, `publishMetrics`; `execution.mjs` policy part | announced, adopted and public terms, a second change after the first; redemptions asked for before, between and after; metrics lost, late, repeated |
| `SharedPools` | `operator/shared-accounts.mjs` | see 2.4 |
| `TargetRequests` | `scripts/mean-reversion.mjs`, `execution.mjs` `accept` | the daily program with its state file, the dashboard, the enclave |
| `VaultRetirement` | `src/platform/vault-retirement.js`, `execution.mjs` `pauseForRetirement`, `investments.mjs` `pin` | two vaults, deposits paid at any time, pause, check and switch in separate blocks |
| `OperatorMigration` | `operator/migration.mjs`, `identity.mjs` | source, target, packets, file-by-file import, marker; restarts of either machine, RESUME behind the export; `stray` is what a source that was started again has written since |
| `ConfidentialVault` | `src/integration/coordinator.js`, `ApprovedVault.sol` | one approval at a time, deadlines, finalized blocks, recovery, one restored file |
| `ZkBooks` | `src/zk/book.js`, `circuits/book-transition.circom`, `ZkBookVault.sol` | commitments to books, orders, proofs made from older books |
| `CohortVault` | `operator/engine.mjs`, `PerplCohortVault.sol`, `PerplMvpAccount.sol` | subscription to claim, targets read before they are mined |
| `SleeveVault` | `src/sleeves/ledger.js`, `runtime.js`, `OmnibusVault.sol` | saved plan, journal, ledger; several strategies in one custody; what `reconcile` refuses, solvency included |
| `PilotFund`, `PilotTrading`, `PilotRewards` | `src/pilot/`, `PilotFund.sol`, `scripts/pilot.mjs` | commands that stop anywhere; exchange and auditor; weights, contributions, rewards; cancelled epochs, late approvals; what `verify.js` refuses |
| `PaperFund` | `src/server/service.js`, `src/core/engine.js` | two workspaces, windows, seals, flows; the arithmetic in whole units |
| `ReferenceVectors`, `ReferenceSlots` | `protocol/reference/src`, `protocol/ts` | both programs, each translated from its own source, on the same vectors, canonical or loose; the slot policy, which only the tests call |

Definitions marked external in `PROJECT.json` stand for code that is not in the repository:
the node and its pool, the exchange, wallets, browser storage, the SQL server's locking,
the people who follow a runbook.

## 3. Runs

| Run | Instance | Shows |
|---|---|---|
| `submitter_faults` | 2 ids, 2 requests, 2 fees, budget 3; one crash, forgotten transaction, failed save and restored file | no id twice, answers and journals true, budget kept, stale journal detected, implements `EffectLog` |
| `submitter_settles` | 2 ids, 2 requests; 2 crashes, RPC error, forgotten transaction; sound store; fairness | persisted before sent, nothing replaced, implements `ExecutionSteps`, everything signed is settled |
| `submitter_failed_save` | one failed save | *violation*: a transaction is sent that no sealed file has |
| `cash_accounts` | 2 customers, 4 keys, 1 deposit, amounts 1 and 2, two interruptions; fairness | balances match history, reservations covered, cancelled never paid, payments committed, every withdrawal completes |
| `strategy_orders` | 1 strategy that invests and leaves, a redemption, fees, RESUME after a halt; a second strategy's money in the same vault; any 2 troubles | the books account for the vault and the claims for the account (`BooksReconcile` = `VaultReconciles` and `ClaimsAddUp`), finished means settled, nothing forgotten, a signed payout is awaited and, unless a transaction stayed unanswered, covered by cash |
| `strategy_shared` | 2 strategies that invest in one account, a redemption of two units; a crash and a price move; fairness | a claim only changes by its strategy's own money; a due redemption is paid unless its settlement runs short, a risk exit overtakes it or its costs eat it up |
| `strategy_attribution` | 2 strategies, one unanswered transaction | *violation*: one strategy's funding is credited to the other |
| `strategy_stale_trade` | 2 strategies, 3 requests, a redemption of four units, one refused signature | *violation*: a sale that is tried again sells the neighbour's lots |
| `ledger_checkpoint` | 2 books (one new), 3 proofs, a checkpoint asked for; two clocks; any 2 of a crash, a failure, an unanswered transaction and a clock set back; fairness | every transition proved once and in order, archive and contract agree, nothing reverts, proofs are anchored unless their date fell back |
| `investor_ledger` | 2 investors, 2 redemptions, amounts 15, scale 10, closing costs 2 or gains 160, room for 1 or 2 investors and lots | every event replays to the saved book; it has a proof unless a capacity is exceeded or a lot is overcharged; until a lot is overcharged shares add up, stayers keep their value and what is shown is backed |
| `ledger_transfers` | the same with 1 lot slot | *violation*: a redemption that pays nothing has a debit without a credit |
| `components` | the 21 parts of 2.6, each on a small instance of its own (`MCComponents`, which EXTENDS `Protocols`) | the properties of 3.3 |

### 3.1 Bounds and why they are enough

* *Two of everything that competes*: two ids for one nonce, two requests for one id, two
  customers (sums of different owners do not mix), two strategies in one account (an
  actor and a bystander), two books (one registered at genesis, one later). A third
  would play one of the two roles again.
* *Faults once, or two in combination.* A fault moves the system into a state that
  outlives it (a stale file, a saved step that is not applied, an overdue job); the
  interesting cases are what the code does there and one more fault on the way. The
  proofs of section 5 have no bound on faults.
* *Prices 1 to 3 around 2* with eight units of money and a stop loss of 30 percent:
  half of the money buys two lots, one step down triggers the risk exit, one step up
  breaks the payout that was fixed before.
* *Scale 10 and amounts of 15* make every division of `InvestorLedger` leave a remainder:
  fees burn fractions of units, payouts differ by rounding, reserved units are scaled down.
  A deposit too small for one unit after another was minted (`halfMinted`) is in the model
  but does not occur in this instance. A gain of 160 on closing overcharges a lot when
  one investor redeems all of it and does not when two share it, so both cases occur.
* *Targets*: weights 2 and 3 against a limit of 2 or 3 (one side of every comparison),
  two sequence numbers, two dialogs, one click each. *Forms*: two names, two periods with
  their default cutoffs, three clicks. *Policies*: a period of four with a cutoff and a
  period of one without, so that the second change of a redemption's terms comes before it
  is due. *Reference vectors*, canonical and loose, use the smallest widths in which
  a quantity is less than half of the field and the field less than a 32-byte word.
* `Tries` bounds jobs that are begun again; `MaxSequence`, `RecordLimit`, `MaxTime` and the `...Limit` constants bound histories that otherwise grow for
  ever. All are in the guards of the actions concerned.
* Symmetry is used for safety runs only.

Some runs turn deadlock checking off: the customers' requests and the bounded counters
run out and the model, not the program, then has nothing left to do.

### 3.2 Fairness

`server.mjs` (32-38) starts the execution tick and the proof tick every five seconds,
each unless it is still running, and logs an error instead of stopping: so each
tick has weak fairness, as a whole. A started call ends because polling gives up after
`maxPolls`. That the chain mines what it has, and that the time of its blocks goes on, is
assumed of the environment.
`cash_accounts` also assumes that provider errors and an empty operator wallet do not
occur at every single attempt (strong fairness of signing and of learning a receipt).
No fairness is assumed of customers, of faults or of the operator's clock; of the deadlines
only that those of a job pass whose transaction has reverted (`Overdue`), which can do
nothing but wait for it.
`strategy_shared` has no unanswered transactions: after one, progress depends on
deadlines passing, which is not something the model may assume to happen in time.

### 3.3 What `components` checks

| Property | Parts | Says |
|---|---|---|
| `VaultsSettle` | sleeves, confidential, zk, cohort | a mined transaction can be booked unless a deposit came in that nobody asked for or another strategy has outgrown its capital, and is paid by its owner; the coordinator's books are the vault's; traded books can be settled; a cohort pays what it promised |
| `FundsAddUp` | trading, rewards, paper | the auditor finds the books again and refuses an honest settlement in exactly the named cases (4.1); rewards and weights follow the commitments; capital is flows plus results |
| `DoneAsCommitted` | confidential, cohort, pilot, paper | only approvals the coordinator holds are carried out; a closing cohort only reduces; trades follow earlier commitments and rewards come from new profit; a receipt is for the signal that was rated |
| `TermsAreKept` | policy, forms | public terms follow the book; a redemption settles under changed terms only if it is due after the time they were shown for and was asked for after the first change was announced; what is published is what the form showed |
| `AccountsOwnTheirMoney` | accounts | deposits and rows belong to the account the wallet is linked to |
| `NothingIsLost` | migration, retirement | whoever operates has every change but those a source has written that was started again behind the export; without such a start only one operates; an import is whole once marked; a retired vault is empty |
| `PoolsKeepSidesApart` | pools | opposite sides never share an account, claims add up, moved collateral is preserved |
| `RequestsApplyOnce` | bot, browser, wallet, channel, hand | asked once, done once; what was done becomes known; sent to the pinned enclave; targets replace the ones that were read |
| `ReferencesAgree` | vectors, slots | both programs answer every canonical vector alike; of a loose one Rust refuses everything and TypeScript answers the arithmetic; commitments bind, rounding is against the customer |

## 4. Findings

Each is a run whose property the code violates; `PROJECT.json` quotes the sentences.

1. **A failed save does not stop the transaction** (`submitter_failed_save`). `submit`
   puts the record into the journal in memory, then saves. When the save throws, the
   record stays and the next `sync` broadcasts it. "Signed bytes are durably persisted
   BEFORE sending" does not hold then.
2. **A late confirmation is credited to the neighbour** (`strategy_attribution`). A
   section refreshes before an unanswered transaction of another strategy is confirmed
   and submits after `sync` found its receipt; the remainder goes to the acting strategy.
   The other strategy's effect can then no longer be applied, and the tick stops there
   on every attempt.
3. **A redemption that pays nothing has half a transfer** (`ledger_transfers`).
   `redeemToCash` marks the debit, `transferCredit` records no credit for zero, and
   `assertCashTransfers` then refuses every later checkpoint.
4. **A stale trade sells a neighbour's lots** (`strategy_stale_trade`). A trade step keeps the
   `ownedBefore` it was planned with. When its signature is refused for lack of gas the
   request stays `EXECUTING` (`operator/execution.mjs:461`) and the step is tried again as
   it was saved. Meanwhile a redemption may have sold lots of the same strategy and another
   strategy may have bought as many, so that the account has the total the contract compares
   (`before`) again. The retried sale takes the neighbour's lots, although a strategy does
   "not take quantities or capital of other strategies" (`docs/shared-account-rollout.md:21`);
   the claims no longer add up to the position, and `SHARED_ACCOUNT_POSITION_MISMATCH` ends
   the tick on every attempt.

### 4.1 Observations without a run

Met while reading the code for the models; the models stay on the side of them that is
said here.

* *Terms.* "Changes apply after existing redemptions settle" (`ManagerConsole.jsx:1097`,
  `Platform.jsx:694`) is not kept for two kinds of redemptions, because `execution.mjs:480`
  waits for none that is due after the time that was shown: one asked for between the
  announcement and the change, and one that exists when a second change is announced, if
  the first made the period shorter. `RedemptionsKeepTheirTerms` says what is left of the promise;
  the instance has both kinds.
* *Accounts.* A wallet sign-in between `PREPARE_TOPUP` and `COMPLETE_TOPUP` links the wallet to
  another user, and the paid deposit can be completed by nobody. `upsertStrategist` and
  `createStrategy` read the wallet before `bindWallet` and write after it: the row keeps
  no wallet. Legacy deposits without a user id are not modelled.
* *Shared accounts.* The index is saved before the account is created
  (`shared-accounts.mjs:180`); an interrupted creation can make an opposite strategy fail
  with `SHARED_ACCOUNT_DIRECTION_CONFLICT`. The sides stay apart because `trade()` checks again.
* *Redemptions that wait.* `RedemptionsComplete` names three cases in which nothing would pay a
  due redemption for sure: its payouts were fixed and the price fell before the collateral
  came back, so that the cash is short and nothing collects more (`Short`,
  `operator/execution.mjs:351` and `:399`); a risk exit has sold what its settlement meant
  to keep, whose trade now buys (`Overtaken`); and its units are worth less than what their
  exit has cost (`Overcharged`, `:394`). All three occur in the instance.
* *A settlement of no units.* Fees can scale the units of a settlement to nothing
  (`:383`); an attempt that stops after that at a division by the book's own units (`:391`) or at
  `WITHDRAWAL_COST_EXCEEDS_VALUE` leaves them so, and every later tick divides by them. The
  model of the ledger follows these attempts and stops there.
* *A redemption that gains.* The cost of closing positions is a difference of two
  equities (`operator/execution.mjs:371`) and is negative when the position is closed above
  its mark. `crystallizeFees` takes it off the gain as it is (`operator/ledger.mjs:104`), so a
  gain that is several times the lot charges a fee of more than the lot and leaves it with
  negative units. `InvestorLedger` has such costs (`overcharged`); its properties and theorems
  are stated until one occurs, and `OnlyGainsOvercharge` says that nothing else brings it about.
* *A date that falls back.* A clock that is set back between two proofs gives the second an
  earlier date than the first. The contract never takes it (`PlatformLedgerCheckpoint.sol:30`), the
  archive never makes it again, and anchoring ends there, although nothing reverts: the
  estimate refuses it at every tick. A date ahead of the blocks only waits for them.
* *Payouts out of cash that is on its way.* When polling gives up on a funding
  (`fund` of a request), the section goes on to the redemptions, and `settle` prices and pays
  one out of the strategy's cash, which the funding has not left yet in the books
  (`operator/execution.mjs:209` throws inside the request's own catch). With other strategies'
  money in the vault both transactions can be mined. Applied in the one order the book's
  cash is negative for a moment; in the other, which a crash after the payout is mined
  brings about, `burnWithdrawal` fails its assertion `WITHDRAWAL_ACCOUNTING`
  (`operator/ledger.mjs:151`) and the tick ends there at every attempt. This is why the
  cash part of `SignedPayoutIsCovered` has the condition that no transaction stayed
  unanswered. The cause is that of finding 2.
* *Pilot.* `verify.js` refuses honest evidence in four cases: an outcome that was recovered
  late (`:83`), a target of zero (`:99`), and an epoch that was cancelled or an actor that
  was approved since the settlement before (`:113`). They are in the models, and
  `SettlementsAreAccepted` and `AuditAgrees` say that it refuses in these cases only. Lock files
  survive a kill; an opening that is late is neither opened nor cancellable.
* *Web.* Two tabs share one outbox entry and one pending deposit and can remove or overwrite each
  other's; a refused retry removes the entry of a copy that may still be applied; a
  logout while the wallet is open saves the hash under no account; dialogs survive a
  logout. `ClientRequests` and `ClientDeposits` have one tab and one account.
* *Migration.* A crash between the marker and the deletion makes the retry skip the standby
  (`migration.mjs:132`). A reboot of the source starts the paused operator again
  (`docs/phala-account-migration.md:18`), and RESUME does not look at the destination
  (`migration.mjs:84`): what the source then writes behind the export is lost (`stray`), and when
  the destination is started both operate. Both are in the model.
* *Sleeves.* A reverted order stays pending for ever, and so does a redemption of nothing. A
  strategy whose debt has outgrown its assets makes `reconcile` refuse the bookings of all of
  them until the price recovers, and so does a deposit nobody asked for; `MinedIsBookable`
  names both. *Paper.* An evaluation overwrites the book with the snapshot of the seal.
  *Cohort.* A reverted intent is never sent again.
* *Reference vectors.* Numbers that are not in canonical form ("01", "", a JSON number) are refused
  by Rust; the TypeScript runner reads those of the arithmetic by `BigInt()`, and of a
  position its first four cells (`vector-runner.mts:15`), and answers.


## 5. Proofs

TLAPS (tlapm 1.4.5, Z3, Zenon and LS4) proves the theorems below for every value of the
constants. What each rests on is the named assumptions beside the constants: types, "none"
values that are no members of the sets they stand beside, finite sets of strategies and
redemptions, positive prices, one order of the strategies without repetition. Fault
budgets may be any natural number. TLC evaluates the assumptions on the instances.
`Protocols` has the constants of fourteen components; what a theorem of `ProtocolProofs` or
`FundProofs` assumes of them is a named hypothesis of that theorem (5.6).

An invariant `IInv` was checked by TLC on a run's instance before it was proved. The proof
that a step keeps it has one lemma per action; `Next` then only collects them.

### 5.1 DurableSubmitterProofs

`IInv` is needed because `AtMostOnce` says nothing of files. The argument: *every journal
that ever existed is a truthful prefix of the chain with at most one unsettled
transaction, at its end* (`JournalOn`), and *a transaction is only signed for an id that
does not occur on the chain below its nonce* (`FreshOn`). A block takes only the
transaction whose nonce is the chain's length, so the id of a mined transaction is new.
A restored file is just another snapshot, so a rollback changes nothing in the argument.

Theorems: `InvariantHolds`, `TypeCorrect`, `MinedAtMostOnce`, `AnswersAreMined`,
`JournalsAreTruthful`, `RollbackIsDetected`, and `SubmitterKeepsPromise` (the refinement
of `EffectLog`); `SentWasPersisted` when no save fails, and `AmbiguousNeverReplaced`
when additionally no file is rolled back. Finding 1 shows that the first of these
conditions cannot be dropped. `BudgetIsKept`: what was paid for gas and what a signed
transaction may still cost stay within the lifetime budget. `submit` compares the sum
over its own journal; the invariant (`BudgetInv`) says it of every sealed file there ever was
and of every transaction that was ever sent, so a restored file or a resent transaction
changes nothing. `SumTheorems` carries the sum over every step.

`SubmitterKeepsSteps` is the refinement of `ExecutionSteps`, under the same two conditions: a
signature maps to `Sign`, a receipt to `Learn`, a block to `Mine`, everything else to a
stutter. It rests on `NoLossInv` (memory and file are the same, and the file has all
that was sent) and on the outcome of an id being a function of the chain (`OutcomeGrows`).
It is what lets the models above see the submitter as two functions, and it makes
their theorems theorems about the submitter underneath.

### 5.2 CashAccountsProofs

`InvariantHolds`, `TypeCorrect`, `CancelledNeverPaid`, `PaidWereMined`, `SignedWereSaved` and
`PaymentsCommitted`. The invariant ties the four places a payment shows in - status, step,
submitter record, chain - together (`WithdrawalOK`), and says which withdrawals the
section under way may still touch (`SectionOK`): without it nothing rules out that a
withdrawal is cancelled between the moment it is marked and the moment it is signed.

`BalancesMatchHistory` and `ReservesAreCovered` are about sums over a customer's deposits and
withdrawals. `MoneyIsKept` is their invariant: balance, credits, allocations, payments and
reservations of each customer at once. Each action changes at most one summand, and
another customer's sums not at all because a key has one owner.

### 5.3 SumTheorems

The sums of the models are the community modules' `SumFunctionOnSet`, a fold. Its laws need
induction over finite sets, and the library's induction theorems take an operator, which
cannot be instantiated here. They are proved without: a set of counterexamples that is not
empty has a least element (`LeastNatural`, `LeastSubset`, from the well-foundedness of the
natural numbers), and the recursion behind the fold is unfolded once there. The theorems
`SumEmpty`, `SumTake`, `SumAdd`, `SumChange`, `SumShrinks`, `SumExtends`, `SumCarried` are
what the other modules cite. The same step (`InductionOnNaturals`) carries the inductions
over sequences of 5.4.

### 5.4 LedgerCheckpointProofs

`ArchiveIsOneChain`, `NothingEverReverts` and `AnchoredMeansOnchain` from `IInv`: *the archive
is at most one proof ahead of the ledger, begins with what the ledger counts, and the
contract's log is a prefix of it* (`ArchiveOK`, `ContractOK`), and *a step that was sent is
for exactly the first proof the contract does not have* (`RecordsOK`, `TickOK`). Without the
second nothing rules out a transaction for a root that the contract has moved on from. A step
that was signed passed the estimate, and neither the contract's last date nor the time of the
blocks falls behind it afterwards. `DatesOK` says that dates do not fall back as long as the
operator's clock is not set back.

`EachTransitionOnce` is about the content of jobs. A job is the concatenation of the
strategies' waiting transitions, so `HistoryOK` says of the flattened sequence that it lists
each transition between what is proved and what was frozen once and in order
(`Ascending`, `Lists`); that concatenating lists does that is shown by induction.

### 5.5 StrategyExecutionProofs

One invariant for the whole tick, in parts that are stated of a file, the submitter's
records and the chain (a file that a section is still changing has to satisfy them too):

| Part | Says |
|---|---|
| `RecordsOK` | one transaction in flight; records agree with the chain; only a saved step has a record, only a confirmed one is applied |
| `RequestsOK`, `SettlementOK`, `UnitsOK` | one open request per strategy; a settlement lists its own strategy's redemptions; open redemptions do not ask for more units than there are |
| `FinishedOK`, `ForgottenOK`, `PayOK`, `FeeOK` | what `FinishedIsSettled`, `NothingForgotten` and the payouts say, on the file; fee payments are one after the other |
| `VaultOK`, `NumbersOK` | the vault's balance by sums over the strategies and over mined steps that are not applied; what is divided by is not zero, lots stay above it |
| `ChainOK`, `OthersOK` | types of the chain and of the environment; a receipt that is still to be applied has a price |
| `ControlOK` | the place in the tick: which strategies come later and have nothing in flight (`SectionOK`), what the step at hand is for (`CallOK`), what a section has reached |

`SectionOK` is the part the others need most: a section starts only when its strategy has
nothing unsettled, except a step of a request that was given up in this very section. From
it follows that a request that is declared finished, a settlement that is closed and a fee
that is begun again leave no transaction behind.

`Invariance` is the theorem; `TypeCorrect`, `FinishedRequestsAreSettled`, `NoStepIsForgotten`
and `PayoutsAreAwaited` follow. `ClaimsInvariance` adds that the claims of the shared account
add up to its equity (`CheckpointedClaims`: the remainder of an attribution goes to the actor,
or there is none), and `BooksAlwaysReconcile` is the vault and the claims together.

### 5.6 ProtocolProofs, FundProofs

First one theorem about each component of `Protocols` and its own specification: those of the
platform in `ProtocolProofs`, those of the vaults and funds in `FundProofs`.

| Theorem | Component | Assumes | Invariant |
|---|---|---|---|
| `MovedOperatorIsLatest` | `OperatorMigration` | "none" is no snapshot | `MigrationOK`: as long as the new operator does not run, the old one's files are all changes; what was agreed on, and then the new operator's files, lack what the old one wrote since that export, which is nothing unless it was started again; an import marks only what it has moved completely |
| `NothingIsLeftInTheVault` | `VaultRetirement` | bounds are numbers | `RetirementOK`: the vault in use holds the pending deposits and those that were paid and not completed, its account the equity; what `pin()` found at one block is still so when it switches |
| `PublicTermsAreKept` | `PolicyChanges` | terms have a positive period | `PolicyOK`: every version but the first was announced, at most one is pending and the database waits one settlement for it; metrics are of the book's version or an earlier one; an open redemption's terms are the book's, or their successor was announced when it was asked for; every version a redemption outlives was shown for a time before it is due |
| `FormsAreCurrent` | `StrategyForms` | "none" is no request | `FormsOK`: a request on the wire belongs to the run that waits for it as long as every answer came, and then the conditions on the page are those in force |
| `AccountsKeepWhatIsTheirs` | `PlatformAccounts` | "none" is nobody | `AccountsOK`: the wallet a request has read is its account's or none, also after the await; a completion is of a deposit of its own account |
| `SentDepositsComplete` | `ClientDeposits` | "none" is no record | `DepositsOK`: what is in memory is what is stored or nothing; the open run has its record stored, with the hash once there is one, unless the session it began in has ended |
| `AskedIsDoneOnce` | `ClientRequests` | "none" is no number | `BrowserOK`: every copy carries the id of its click; the enclave has recorded exactly what it answered; what left the outbox is confirmed or was refused |
| `PrivateRequestsReachThePinned` | `AttestedChannel` | times are numbers | `ChannelOK`: a cached verification was asked for, quoted and judged in that order, within `Patience + Ttl` |
| `DecisionsAreMadeOnce` | `TargetRequests` | "none" is no number | `BotOK`: a request stands at the sequence it was made for; what the program made and does not wait for is finished; the basis of a decision is the executed request before it |
| `TargetsReplaceWhatWasRead` | `StrategyTargets` | "none" is no page state | `DialogsOK`: the requests of a dialog that were accepted or are on the wire are at most its unanswered ones, and one more once it was sent |
| `ClosingCohortsOnlyReduce` | `CohortVault` | targets are integers | `CohortOK`: an order that was checked was checked under the epoch of its intent |
| `ApprovedIsKnown` | `ConfidentialVault` | approvals last a number of hours | `ApprovalsOK`, as long as no older file is restored: the vault has carried out the file's log or one approval more, which the file holds; every other approval that is out is older than the file or expired before the last final block |
| `PilotsCommitInAdvance`, `PilotsRewardNewProfit` | `PilotFund` | amounts are numbers, gains and losses integers | `PilotOK`: a transaction and the step a command is at belong to the phase the fund has reached, and what was committed to was sealed; `ProfitOK`: the reserve is what is above the high water mark, which no settled price exceeds |
| `ReceiptsStaySealed` | `PaperFund` | nothing | `PaperOK`: a signal that was accepted stays, and what is sealed is what was submitted |

None of these invariants follows from its property: the property speaks of two ends (what
was clicked and what was done, what was paid and what is owed), and the invariant of every
place between them, the copies on the wire, the file, the run that was cut. The hypotheses
hold of the instances TLC checks.

Then the composition. A behaviour of `ProtocolSpec` that belongs to a component is, on the
variables of this component, a behaviour of its specification (one lemma per component,
`MigrationAlone` to `PaperAlone`, from the fact that `part` never changes). So
`NothingIsEverLost`, `PublishedTermsAreKept`, `MoneyStaysWithItsAccount`,
`RequestsAreAppliedOnce` and `CommitmentsAreKept` state, for every value of the constants, five
properties the run `components` checks.

### 5.7 InvestorLedgerProofs

`SharesAddUp` and `ShownIsBacked` for any number of investors, redemptions and lots, any
scale, rates and amounts. Neither is inductive: fees and redemptions round, several lots
at a time, and what keeps the sums right is where each operation puts the
remainder. The invariant has three parts.

| Part | Says |
|---|---|
| `BookOK` | the numbers of the book and their signs; lots make up an investor's units and investors the book's; open requests ask for no more than there is; fees are due or paid; the settlement lists redemptions that are being settled |
| `Backed` | all units at the NAV are worth no more than the equity, unless a redemption is under way or an activation failed half-way |
| `PayoutsBacked` | what a priced redemption still owes is covered by the equity, and by the cash and the venue |

During a redemption the NAV is kept up for those who stay, and the equity need not
cover all units at it: `Backed` can only be said again when everybody is paid, and
`PayoutsBacked` is what makes each payout leave an equity that is not negative until then.
The argument is by operation:

* *Activation* mints with the floor of amount over NAV, so new units are worth at most what
  came in (`SharesFor_Up` is the mistake that breaks it).
* *Fees* burn, lot by lot, the floor of the fee over the NAV and charge the floor of what that is
  worth: what is burned is worth at least what is charged, and no more than the lot, unless
  closing has gained (`CostsOverchargeNothing`).
* *Scaling* the open requests by the floor of new over old units keeps their sum within the
  investor's units (`SumScaled`: a sum of floors is at most the floor of the sum).
* *Redemption* burns proportionally and then from the first lot, and takes exactly the
  requested units (`FromTheFirst` is shown to take what is left, by induction over the lots).
* *Payouts* are floors with the rest for the last one, so they add up to what was priced, and
  each leaves a NAV that is the floor of equity over units.

`BooksStayInOrder`, `SharesAlwaysAddUp` and `ShownIsAlwaysBacked` are the theorems. The invariant
is `InOrder`, these three parts, until a lot is overcharged, and costs may be of either sign:
`OnlyGainsOvercharge` shows that a lot is overcharged only where the closings of a settlement
have gained. Books in which they always cost are in order for ever.

### 5.8 Model-checked only

* *Liveness under fairness* and everything with `ENABLED`: `SignedIsSettled`,
  `WithdrawalsComplete`, `RedemptionsComplete`, `ProofsAreAnchored`.
* *`OwnMoneyOnly`*: it is not true for every value of the constants, finding 2 refutes it. It holds
  of the instance of `strategy_shared`, which has no unanswered transaction. `OwnLotsOnly` is
  refuted by finding 4. What is always true, that the claims add up, is part of
  `BooksAlwaysReconcile`.
* *The cash part of `SignedPayoutIsCovered`*, because of the payouts out of cash that is on its
  way (4.1). The other part is `PayoutsAreAwaited`.
* *`ReplayMatches`, `EventsAreProvable`*: both fold `ApplyEvent` over a journal of any
  length, and what a fold computes needs induction over the journal with the fold's
  operator as a parameter. *`StayersKeepTheirValue`* bounds an error that each payout may add to.
* *`VaultsSettle`*, *`FundsAddUp`* and *`PoolsKeepSidesApart`*: roundings, ratios and folds over positions, which TLC goes
  through with small numbers.
* *`ReferencesAgree`*: an evaluation of two programs on given vectors, and no protocol.

## 6. Not modelled

* *Layout, styling and routing* of the web application; only what it keeps, repeats and sends
  is in the client modules.
* *Research, backtests, demonstrations and evidence scripts*: they read the system, or replay
  the paths the modelled tests already take.
* *Vendored code* (`vendor/`, the exchange's interfaces) and generated circuits and verifiers.
  The exchange is modelled by what the operator asks of it.
* *The old platform routes*, which answer 410 (`operator/server.mjs:75`), the older signed
  interface and the older slot mode of execution (one exchange account per strategy).
* *The SQL schema* beyond the constraints the handlers lean on; HTTP, rate limits, encryption.
* *Attestation of hardware*: a quote is genuine or not; certificates are not taken apart.
* Inside modelled parts: see the sentences that begin with "Left out" in section 2.

## 7. What is left

1. `OwnMoneyOnly` and `OwnLotsOnly` as theorems of an operator that plans a step again
   instead of keeping it when it was not signed, without unanswered transactions.
2. A theorem about the pools where they are about order and not about rounding
   (`SharedPools`, `SidesApart`).
3. `StayersKeepTheirValue` of `InvestorLedger`, with the rounding of every payout in the invariant.
4. The redemption of pending deposits and several request ids in the same tick; the clean-up
   of finished requests.

## 8. Using it

```
tlc -config strategy_orders.cfg MCStrategyExecution     # one run
tlapm StrategyExecutionProofs.tla                       # one module's proofs
```

`PROJECT.json` lists components, runs, fault variants, the lines every definition stands
for, findings, hazards and theorems.
