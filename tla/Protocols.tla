------------------------------- MODULE Protocols -------------------------------
(***************************************************************************)
(* The protocols beside the operator's tick that share no state with each  *)
(* other, put together: a behaviour belongs to one of them, part, and the  *)
(* variables of the others stay as they are.  ProtocolProofs proves the    *)
(* properties for every value of the constants; MCComponents gives the     *)
(* constants small values.                                                 *)
(***************************************************************************)
EXTENDS Integers, Sequences

CONSTANTS
    Null,                                                                \* of several parts
    Files, Own, ChangeLimit, ResumeLimit,                                \* migration
    DepositLimit, VaultLimit, Gains,                                     \* retirement, wallet
    Policies, First, Redeemers, MaxAge, LastTime, VersionLimit,          \* policy
    ClickLimit, AttemptLimit,                                            \* browser
    Amounts, Targets, Returns, FeeBps, Bps, Ttl, CohortEnd, IntentLimit, RotationLimit, CashLimit,    \* cohort
    Users, Wallets, Names, ReadLimit, RowLimit,                          \* accounts
    Releases, FirstRelease, Margin, Patience, ChannelEnd, RolloutLimit, LoginLimit, WaitLimit,        \* channel
    Holdings, LastDay, RequestLimit, CopyLimit,                          \* bot
    Grosses, Limit, DraftLimits, SequenceLimit, DialogLimit, ConfirmLimit,                            \* hand
    PublicNames, FirstName, Cutoffs, DefaultCutoff, FirstPolicy, FormLimit,                           \* forms
    Signers, Desks, Tickets, SignerOf, Stake, ApprovalTtl, RefundDelay, VaultEnd, RollbackLimit,      \* confidential
    Providers, MinSubmitted, Investment, Earnings, Losses, PilotScale, MarkAge, PilotEnd, RoundLimit,
    InvestLimit, StopLimit,                                                                           \* pilot
    Coins, PaperBps, ProviderCap, CoinCap, GrossCap, MinProviders, TradeBps, Raters, Predictions, Quotes,
    FirstQuotes, PaperSeed, Transfers, TransferAmount, Workspaces, Windows, CreditPool, PaperEnd,
    PaperEpochs                                                                                       \* paper

VARIABLES
    part,
    source, target, standby, agent, packets, agreed, worker, changes, stray, resumed,   \* migration
    vaults, config, intents, owed, job, retired,                                  \* retirement
    now, database, history, draft, book, catalog, withdrawals, metrics,           \* policy
    account, saved, pending, tab, prepared, chain, asked, credited, gaps,         \* wallet
    signed, outbox, win, poll, clicks, attempts, queue, done,                     \* browser
    sec, vault, margins, signals, work, sent, journal, closing, traded,           \* cohort
    accounts, owner, strategists, strategies, keys, reads, refills, named,        \* accounts
    clk, remote, expect, pins, enroll, answers, server, cli, records,             \* channel
    day, made, asks, file, bot, page,                                             \* bot
    desk, run, kept, wire, opens,                                                 \* hand
    form, profile, act, stored, post, log,                                        \* forms
    safe, finalized, hour, memory, disk, enclave, released, oldFile, rollbacks,     \* confidential
    minute, rounds, fund, txs, command, sharePrices, spent,                       \* pilot
    paper, receipts                                                               \* paper

Unused == "unused"

Migration == INSTANCE OperatorMigration WITH None <- Null
Retirement == INSTANCE VaultRetirement WITH book <- owed
Policy == INSTANCE PolicyChanges WITH Investors <- Redeemers
Wallet == INSTANCE ClientDeposits WITH None <- Null
Browser == INSTANCE ClientRequests WITH tab <- win, None <- Null
Cohort == INSTANCE CohortVault WITH now <- sec, account <- margins, intents <- signals, LastTime <- CohortEnd
Accounts == INSTANCE PlatformAccounts WITH intents <- refills, None <- Null
Channel == INSTANCE AttestedChannel WITH
    now <- clk, worker <- remote, policy <- expect, tab <- cli, history <- records,
    First <- FirstRelease, LastTime <- ChannelEnd
Bot == INSTANCE TargetRequests WITH book <- asks, None <- Null
Hand == INSTANCE StrategyTargets WITH
    page <- desk, book <- kept, asked <- opens, None <- Null, Weights <- Grosses, ClickLimit <- ConfirmLimit
Forms == INSTANCE StrategyForms WITH
    page <- form, account <- profile, run <- act, server <- stored, wire <- post,
    None <- Null, Names <- PublicNames, ClickLimit <- FormLimit
Confidential == INSTANCE ConfidentialVault WITH
    vault <- safe, final <- finalized, now <- hour, phase <- enclave, kept <- oldFile, Actors <- Signers, Strategies <- Desks,
    Ids <- Tickets, Owner <- SignerOf, DepositAmount <- Stake, Ttl <- ApprovalTtl, LastTime <- VaultEnd
Pilot == INSTANCE PilotFund WITH
    now <- minute, epochs <- rounds, journal <- txs, settled <- sharePrices, used <- spent,
    Amount <- Investment, Gains <- Earnings, PriceScale <- PilotScale, MaxMarkAge <- MarkAge,
    LastTime <- PilotEnd, EpochLimit <- RoundLimit, DepositLimit <- InvestLimit
Paper == INSTANCE PaperFund WITH
    state <- paper, Assets <- Coins, Bps <- PaperBps, AssetCap <- CoinCap, CostBps <- TradeBps, Providers <- Raters,
    Signals <- Predictions, Prices <- Quotes, FirstPrices <- FirstQuotes, Seed <- PaperSeed, Requests <- Transfers,
    Amount <- TransferAmount, Pool <- CreditPool, LastTime <- PaperEnd, EpochLimit <- PaperEpochs

--------------------------------------------------------------------------------
\* The variables of each protocol.
Protocols == {"migration", "retirement", "policy", "wallet", "browser", "cohort", "accounts", "channel", "bot",
              "hand", "forms", "confidential", "pilot", "paper"}
migrationVars == <<source, target, standby, agent, packets, agreed, worker, changes, stray, resumed>>
retirementVars == <<vaults, config, intents, owed, job, retired>>
policyVars == <<now, database, history, draft, book, catalog, withdrawals, metrics>>
walletVars == <<account, saved, pending, tab, prepared, chain, asked, credited, gaps>>
browserVars == <<signed, outbox, win, poll, clicks, attempts, queue, done>>
cohortVars == <<sec, vault, margins, signals, work, sent, journal, closing, traded>>
accountsVars == <<accounts, owner, strategists, strategies, keys, reads, refills, named>>
channelVars == <<clk, remote, expect, pins, enroll, answers, server, cli, records>>
botVars == <<day, made, asks, file, bot, page>>
handVars == <<desk, run, kept, wire, opens>>
formsVars == <<form, profile, act, stored, post, log>>
confidentialVars == <<safe, finalized, hour, memory, disk, enclave, released, oldFile, rollbacks>>
pilotVars == <<minute, rounds, fund, txs, command, sharePrices, spent>>
paperVars == <<paper, receipts>>
protocolVars == <<migrationVars, retirementVars, policyVars, walletVars, browserVars, cohortVars, accountsVars,
             channelVars, botVars, handVars, formsVars, confidentialVars, pilotVars, paperVars>>

\* A protocol begins as it begins alone, and its variables are unused if it is not its behaviour.
InitMigration ==
    IF part = "migration" THEN Migration!Init
    ELSE /\ source = Unused /\ target = Unused /\ standby = Unused /\ agent = Unused /\ packets = Unused
         /\ agreed = Unused /\ worker = Unused /\ changes = Unused /\ stray = Unused /\ resumed = Unused
InitRetirement ==
    IF part = "retirement" THEN Retirement!Init
    ELSE /\ vaults = Unused /\ config = Unused /\ intents = Unused /\ owed = Unused /\ job = Unused
         /\ retired = Unused
InitPolicy ==
    IF part = "policy" THEN Policy!Init
    ELSE /\ now = Unused /\ database = Unused /\ history = Unused /\ draft = Unused /\ book = Unused
         /\ catalog = Unused /\ withdrawals = Unused /\ metrics = Unused
InitWallet ==
    IF part = "wallet" THEN Wallet!Init
    ELSE /\ account = Unused /\ saved = Unused /\ pending = Unused /\ tab = Unused /\ prepared = Unused
         /\ chain = Unused /\ asked = Unused /\ credited = Unused /\ gaps = Unused
InitBrowser ==
    IF part = "browser" THEN Browser!Init
    ELSE /\ signed = Unused /\ outbox = Unused /\ win = Unused /\ poll = Unused /\ clicks = Unused
         /\ attempts = Unused /\ queue = Unused /\ done = Unused
InitCohort ==
    IF part = "cohort" THEN Cohort!Init
    ELSE /\ sec = Unused /\ vault = Unused /\ margins = Unused /\ signals = Unused /\ work = Unused
         /\ sent = Unused /\ journal = Unused /\ closing = Unused /\ traded = Unused
InitAccounts ==
    IF part = "accounts" THEN Accounts!Init
    ELSE /\ accounts = Unused /\ owner = Unused /\ strategists = Unused /\ strategies = Unused
         /\ keys = Unused /\ reads = Unused /\ refills = Unused /\ named = Unused
InitChannel ==
    IF part = "channel" THEN Channel!Init
    ELSE /\ clk = Unused /\ remote = Unused /\ expect = Unused /\ pins = Unused /\ enroll = Unused
         /\ answers = Unused /\ server = Unused /\ cli = Unused /\ records = Unused
InitBot ==
    IF part = "bot" THEN Bot!Init
    ELSE /\ day = Unused /\ made = Unused /\ asks = Unused /\ file = Unused /\ bot = Unused /\ page = Unused
InitHand ==
    IF part = "hand" THEN Hand!Init
    ELSE /\ desk = Unused /\ run = Unused /\ kept = Unused /\ wire = Unused /\ opens = Unused
InitForms ==
    IF part = "forms" THEN Forms!Init
    ELSE /\ form = Unused /\ profile = Unused /\ act = Unused /\ stored = Unused /\ post = Unused
         /\ log = Unused
InitConfidential ==
    IF part = "confidential" THEN Confidential!Init
    ELSE /\ safe = Unused /\ finalized = Unused /\ hour = Unused /\ memory = Unused /\ disk = Unused
         /\ enclave = Unused /\ released = Unused /\ oldFile = Unused /\ rollbacks = Unused
InitPilot ==
    IF part = "pilot" THEN Pilot!Init
    ELSE /\ minute = Unused /\ rounds = Unused /\ fund = Unused /\ txs = Unused /\ command = Unused
         /\ sharePrices = Unused /\ spent = Unused
InitPaper ==
    IF part = "paper" THEN Paper!Init
    ELSE /\ paper = Unused /\ receipts = Unused
ProtocolInit ==
    /\ InitMigration /\ InitRetirement /\ InitPolicy /\ InitWallet /\ InitBrowser /\ InitCohort
    /\ InitAccounts /\ InitChannel /\ InitBot /\ InitHand /\ InitForms
    /\ InitConfidential /\ InitPilot /\ InitPaper

ProtocolNext ==
    /\ UNCHANGED part
    /\ \/ /\ part = "migration" /\ Migration!Next
          /\ UNCHANGED <<retirementVars, policyVars, walletVars, browserVars, cohortVars, accountsVars,
                        channelVars, botVars, handVars, formsVars, confidentialVars, pilotVars, paperVars>>
       \/ /\ part = "retirement" /\ Retirement!Next
          /\ UNCHANGED <<migrationVars, policyVars, walletVars, browserVars, cohortVars, accountsVars,
                        channelVars, botVars, handVars, formsVars, confidentialVars, pilotVars, paperVars>>
       \/ /\ part = "policy" /\ Policy!Next
          /\ UNCHANGED <<migrationVars, retirementVars, walletVars, browserVars, cohortVars, accountsVars,
                        channelVars, botVars, handVars, formsVars, confidentialVars, pilotVars, paperVars>>
       \/ /\ part = "wallet" /\ Wallet!Next
          /\ UNCHANGED <<migrationVars, retirementVars, policyVars, browserVars, cohortVars, accountsVars,
                        channelVars, botVars, handVars, formsVars, confidentialVars, pilotVars, paperVars>>
       \/ /\ part = "browser" /\ Browser!Next
          /\ UNCHANGED <<migrationVars, retirementVars, policyVars, walletVars, cohortVars, accountsVars,
                        channelVars, botVars, handVars, formsVars, confidentialVars, pilotVars, paperVars>>
       \/ /\ part = "cohort" /\ Cohort!Next
          /\ UNCHANGED <<migrationVars, retirementVars, policyVars, walletVars, browserVars, accountsVars,
                        channelVars, botVars, handVars, formsVars, confidentialVars, pilotVars, paperVars>>
       \/ /\ part = "accounts" /\ Accounts!Next
          /\ UNCHANGED <<migrationVars, retirementVars, policyVars, walletVars, browserVars, cohortVars,
                        channelVars, botVars, handVars, formsVars, confidentialVars, pilotVars, paperVars>>
       \/ /\ part = "channel" /\ Channel!Next
          /\ UNCHANGED <<migrationVars, retirementVars, policyVars, walletVars, browserVars, cohortVars,
                        accountsVars, botVars, handVars, formsVars, confidentialVars, pilotVars, paperVars>>
       \/ /\ part = "bot" /\ Bot!Next
          /\ UNCHANGED <<migrationVars, retirementVars, policyVars, walletVars, browserVars, cohortVars,
                        accountsVars, channelVars, handVars, formsVars, confidentialVars, pilotVars, paperVars>>
       \/ /\ part = "hand" /\ Hand!Next
          /\ UNCHANGED <<migrationVars, retirementVars, policyVars, walletVars, browserVars, cohortVars,
                        accountsVars, channelVars, botVars, formsVars, confidentialVars, pilotVars, paperVars>>
       \/ /\ part = "forms" /\ Forms!Next
          /\ UNCHANGED <<migrationVars, retirementVars, policyVars, walletVars, browserVars, cohortVars,
                        accountsVars, channelVars, botVars, handVars, confidentialVars, pilotVars, paperVars>>
       \/ /\ part = "confidential" /\ Confidential!Next
          /\ UNCHANGED <<migrationVars, retirementVars, policyVars, walletVars, browserVars, cohortVars,
                        accountsVars, channelVars, botVars, handVars, formsVars, pilotVars, paperVars>>
       \/ /\ part = "pilot" /\ Pilot!Next
          /\ UNCHANGED <<migrationVars, retirementVars, policyVars, walletVars, browserVars, cohortVars,
                        accountsVars, channelVars, botVars, handVars, formsVars, confidentialVars, paperVars>>
       \/ /\ part = "paper" /\ Paper!Next
          /\ UNCHANGED <<migrationVars, retirementVars, policyVars, walletVars, browserVars, cohortVars,
                        accountsVars, channelVars, botVars, handVars, formsVars, confidentialVars, pilotVars>>
ProtocolSpec ==
    part \in Protocols /\ ProtocolInit /\ [][ProtocolNext]_<<part, protocolVars>>

--------------------------------------------------------------------------------
\* The operator that runs has every change, before, while and after it is moved, but those of
\* a source that was started again behind the export (migration.mjs, runAgent); an import is
\* whole once it is marked (restoreSnapshot), and a vault the operator leaves holds nothing
\* (vault-retirement.js).
NothingIsLost ==
    /\ part = "migration" => Migration!LatestStateOperates /\ Migration!ImportedIsWhole
    /\ part = "retirement" => Retirement!NothingIsLeftBehind /\ Retirement!VaultIsExplained
\* Public terms follow the operator's book (service.js, publishMetrics), and a redemption is
\* settled under changed terms only if it is due after the time they were announced for and
\* the first of them was announced when it was asked for (execution.mjs, tick); what the
\* strategist publishes is what the forms showed (ManagerConsole.jsx, NewStrategy and
\* StrategyWorkspace).
TermsAreKept ==
    /\ part = "policy" => Policy!PublicTermsFollowBook /\ Policy!RedemptionsKeepTheirTerms
    /\ part = "forms" => Forms!PublishedAsReviewed /\ Forms!ComparedWithCurrent
\* A confirmed deposit, and every row that names a wallet, belong to the account the wallet
\* is linked to (service.js, bindWallet), and credentials are set once (setCredentials).
AccountsOwnTheirMoney ==
    part = "accounts" => Accounts!CreditedToItsAccount /\ Accounts!WalletsAreOwn /\ Accounts!CredentialsStay
\* What is asked once is done once, and what was done is known: the bot's target of a day
\* (mean-reversion.mjs, cycle), a request the browser repeats, and a deposit it sent
\* (PlatformContext.jsx, operatorRequest and addFunds), and targets set by hand replace the ones
\* that were read (ManagerConsole.jsx, submit); and it is asked of the enclave that is pinned
\* (attestedTee.js, send).
RequestsApplyOnce ==
    /\ part = "bot" => Bot!OncePerDay /\ Bot!DecidesFromItsHoldings
    /\ part = "browser" => Browser!AskedOnceDoneOnce /\ Browser!MadeIsKnown
    /\ part = "wallet" => Wallet!SentCanComplete
    /\ part = "channel" => Channel!SentToThePinned
    /\ part = "hand" => Hand!ReplacesWhatItRead
\* What is done is what was decided before: the confidential vault carries out only what its
\* coordinator holds (coordinator.js, recover); a cohort that closes only reduces
\* (PerplCohortVault.sol, execute); the pilot trades on what was committed to before and rewards
\* new profit only (PilotFund.sol, execute and closeEpoch); a paper receipt is for the signal
\* that was sealed and rated (service.js, submit).
DoneAsCommitted ==
    /\ part = "confidential" => Confidential!ExecutedIsKnown
    /\ part = "cohort" => Cohort!ClosingOnlyReduces
    /\ part = "pilot" => Pilot!CommittedInAdvance /\ Pilot!LossesFirst
    /\ part = "paper" => Paper!ReceiptsAreSealed
================================================================================
