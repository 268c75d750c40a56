---------------------------- MODULE PlatformAccounts ----------------------------
(***************************************************************************)
(* Accounts of the platform: the database behind the API                   *)
(* (src/platform/service.js, db/migrations/008_account_login.sql) and the  *)
(* deposits that link an account to its wallet, which the operator keeps   *)
(* (deploy/tee/operator/investments.mjs, accountRequest).                  *)
(*                                                                         *)
(* A request reads the session, and with it the account's wallet, before   *)
(* it does anything else; what it does later relies on what it read.       *)
(* `reads' are the requests in between.  The operator completes one        *)
(* deposit at a time (serial), and asks the API to link the wallet before  *)
(* it saves the deposit.  Sessions come and go at any time: whoever has an  *)
(* account may open one, and a request that has read its session goes on.  *)
(***************************************************************************)
EXTENDS FiniteSets, Naturals

CONSTANTS Users, Wallets, Names, None,
    ReadLimit, IntentLimit, RowLimit    \* bounds

VARIABLES
    accounts,    \* users: whether the row exists, the username
    owner,       \* wallets: the user a wallet is linked to
    strategists, \* strategist rows: wallet_address, or None; absent without a row
    strategies,  \* strategy rows
    keys,        \* API keys
    reads,       \* requests that have read the session and are not answered
    intents,     \* the operator's deposits
    named        \* history: usernames whose choice was answered, with their user

vars == <<accounts, owner, strategists, strategies, keys, reads, intents, named>>

NoAccount == [exists |-> FALSE, name |-> None]

Init ==
    /\ accounts = [u \in Users |-> NoAccount] /\ owner = [w \in Wallets |-> None]
    /\ strategists = [u \in {} |-> None] /\ strategies = {} /\ keys = {}
    /\ reads = {} /\ intents = {} /\ named = {}

Database == <<owner, strategists, strategies, keys>>

\* LEFT JOIN wallets: wallets_one_per_account leaves at most one.
WalletOf(u) == IF \E w \in Wallets : owner[w] = u THEN CHOOSE w \in Wallets : owner[w] = u ELSE None
Taken(name) == \E u \in Users : accounts[u].name = name

--------------------------------------------------------------------------------
(* Signing in. *)

Register(u, name) ==
    /\ ~accounts[u].exists /\ ~Taken(name)
    /\ accounts' = [accounts EXCEPT ![u] = [exists |-> TRUE, name |-> name]]
    /\ named' = named \cup {<<u, name>>}
    /\ UNCHANGED <<Database, reads, intents>>
\* challenge() and verify(): a wallet nobody has gets a new account.
Verify(w, u) ==
    /\ owner[w] = None /\ ~accounts[u].exists
    /\ accounts' = [accounts EXCEPT ![u].exists = TRUE]
    /\ owner' = [owner EXCEPT ![w] = u]
    /\ UNCHANGED <<strategists, strategies, keys, reads, intents, named>>

--------------------------------------------------------------------------------
(* Requests. *)

Room == Cardinality(DOMAIN strategists) + Cardinality(strategies) + Cardinality(keys) < RowLimit
\* Requests that could not change anything any more are left out.
Useful(u, request) ==
    CASE request.kind = "credentials" -> accounts[u].name = None /\ ~Taken(request.arg)
      [] request.kind = "strategist" -> u \notin DOMAIN strategists /\ Room
      [] request.kind = "key" -> Room
      [] request.kind = "prepare" -> Cardinality(intents) < IntentLimit
      [] request.kind = "complete" -> \E x \in intents : x.id = request.arg /\ x.user = u /\ x.status = "PAID"
Reading(u, request) ==
    /\ accounts[u].exists /\ Cardinality(reads) < ReadLimit /\ Useful(u, request)
    /\ reads' = reads \cup {[request EXCEPT !.user = u, !.wallet = WalletOf(u)]}
    /\ UNCHANGED <<accounts, Database, intents, named>>
Request(kind) == [kind |-> kind, user |-> None, wallet |-> None, arg |-> None, bound |-> FALSE]
Answered(r) == reads' = reads \ {r}
\* The client gives up, the API or the operator restarts: what was written stays.
Lost(r) == Answered(r) /\ UNCHANGED <<accounts, Database, intents, named>>

\* Fault variant: whoever comes last.
MayChoose_Last(u, name) == ~Taken(name)
MayChoose(u, name) == accounts[u].name = None /\ ~Taken(name)
SetCredentials(r) ==
    /\ r.kind = "credentials" /\ MayChoose(r.user, r.arg)
    /\ accounts' = [accounts EXCEPT ![r.user].name = r.arg]
    /\ named' = named \cup {<<r.user, r.arg>>}
    /\ Answered(r) /\ UNCHANGED <<Database, intents>>

\* A later profile of the same account changes its texts only.
UpsertStrategist(r) ==
    /\ r.kind = "strategist" /\ r.user \notin DOMAIN strategists /\ Room
    /\ strategists' = [u \in DOMAIN strategists \cup {r.user} |-> IF u = r.user THEN r.wallet ELSE strategists[u]]
    /\ Answered(r) /\ UNCHANGED <<accounts, owner, strategies, keys, intents, named>>

\* api_keys references strategists(wallet_address): the insert may fail.
IssueApiKey(r) ==
    /\ r.kind = "key" /\ r.user \in DOMAIN strategists /\ Room
    /\ r.wallet # None => \E u \in DOMAIN strategists : strategists[u] = r.wallet
    /\ keys' = keys \cup {[user |-> r.user, wallet |-> r.wallet]}
    /\ Answered(r) /\ UNCHANGED <<accounts, owner, strategists, strategies, intents, named>>

\* managerWallet() and the strategist's wallet are read before the row is inserted.
ManagerReads(u) ==
    /\ u \in DOMAIN strategists /\ Cardinality(reads) < ReadLimit /\ Room
    /\ reads' = reads \cup {[Request("strategy") EXCEPT !.user = u, !.wallet = strategists[u]]}
    /\ UNCHANGED <<accounts, Database, intents, named>>
CreateStrategy(r) ==
    /\ r.kind = "strategy" /\ Room
    /\ strategies' = strategies \cup {[slug |-> Cardinality(strategies) + 1, user |-> r.user, wallet |-> r.wallet,
                                       status |-> IF r.wallet = None THEN "DRAFT" ELSE "FUNDING"]}
    /\ Answered(r) /\ UNCHANGED <<accounts, owner, strategists, keys, intents, named>>

--------------------------------------------------------------------------------
(* Deposits. *)

\* accountAuthorization(): not another wallet, and nobody else's.
MayPrepare(u, w) == WalletOf(u) \in {None, w} /\ owner[w] \in {None, u}
PrepareRead(u, w) == MayPrepare(u, w) /\ Reading(u, [Request("prepare") EXCEPT !.arg = w])
PrepareTopup(r) ==
    /\ r.kind = "prepare" /\ r.wallet \in {None, r.arg} /\ Cardinality(intents) < IntentLimit
    /\ intents' = intents \cup {[user |-> r.user, wallet |-> r.arg, id |-> Cardinality(intents) + 1, status |-> "PREPARED"]}
    /\ Answered(r) /\ UNCHANGED <<accounts, Database, named>>

\* The wallet pays; the vault takes a deposit once (external).
Pay(x) ==
    /\ x.status = "PREPARED" /\ intents' = (intents \ {x}) \cup {[x EXCEPT !.status = "PAID"]}
    /\ UNCHANGED <<accounts, Database, reads, named>>

IntentOf(r) == CHOOSE x \in intents : x.id = r.arg
Completing(r) ==
    /\ r.kind = "complete" /\ IntentOf(r).status = "PAID" /\ r.wallet \in {None, IntentOf(r).wallet}
    /\ \A s \in reads \ {r} : ~s.bound

\* bindWallet(), one transaction: the account has no other wallet and the wallet no other
\* account; rows that were made without a wallet get it.
\* Fault variant: only the wallet's own row is looked at.
Linkable_Account(u, w) == WalletOf(u) \in {None, w}
Linkable(u, w) == WalletOf(u) \in {None, w} /\ owner[w] \in {None, u}
BindWallet(r) ==
    LET w == IntentOf(r).wallet
        given(row) == IF row.user = r.user /\ row.wallet = None THEN [row EXCEPT !.wallet = w] ELSE row
        opened(row) == IF row.user = r.user /\ row.wallet = None /\ row.status = "DRAFT"
                       THEN [row EXCEPT !.wallet = w, !.status = "FUNDING"] ELSE given(row)
    IN  /\ Completing(r) /\ r.wallet = None /\ ~r.bound /\ Linkable(r.user, w)
        /\ owner' = IF owner[w] = None THEN [owner EXCEPT ![w] = r.user] ELSE owner
        /\ strategists' = [u \in DOMAIN strategists |-> IF u = r.user /\ strategists[u] = None THEN w ELSE strategists[u]]
        /\ strategies' = {opened(s) : s \in strategies}
        /\ keys' = {given(k) : k \in keys}
        /\ reads' = (reads \ {r}) \cup {[r EXCEPT !.bound = TRUE]}
        /\ UNCHANGED <<accounts, intents, named>>
\* The cash book of the wallet gets the money.
CompleteTopup(r) ==
    /\ Completing(r) /\ (r.wallet = None => r.bound)
    /\ intents' = (intents \ {IntentOf(r)}) \cup {[IntentOf(r) EXCEPT !.status = "CONFIRMED"]}
    /\ Answered(r) /\ UNCHANGED <<accounts, Database, named>>

Next ==
    \/ \E u \in Users : ManagerReads(u)
    \/ \E u \in Users, name \in Names : Register(u, name) \/ Reading(u, [Request("credentials") EXCEPT !.arg = name])
    \/ \E u \in Users, w \in Wallets : Verify(w, u) \/ PrepareRead(u, w)
    \/ \E u \in Users, kind \in {"strategist", "key"} : Reading(u, Request(kind))
    \/ \E x \in intents : Pay(x) \/ \E u \in Users : Reading(u, [Request("complete") EXCEPT !.arg = x.id])
    \/ \E r \in reads : \/ SetCredentials(r) \/ UpsertStrategist(r) \/ IssueApiKey(r) \/ CreateStrategy(r)
                        \/ PrepareTopup(r) \/ BindWallet(r) \/ CompleteTopup(r) \/ Lost(r)

Spec == Init /\ [][Next]_vars

--------------------------------------------------------------------------------
(* Properties. *)

\* Money belongs to the account that prepared its deposit: a confirmed deposit's wallet is
\* linked to it, whatever was linked while it was prepared, paid and completed.
CreditedToItsAccount == \A x \in intents : x.status = "CONFIRMED" => owner[x.wallet] = x.user

\* An account has one wallet, and whatever its strategist, strategies and keys say is that
\* wallet; a strategy that takes money has one.
WalletsAreOwn ==
    /\ \A u \in Users : Cardinality({w \in Wallets : owner[w] = u}) <= 1
    /\ \A u \in DOMAIN strategists : strategists[u] \in {None, WalletOf(u)}
    /\ \A row \in strategies \cup keys : row.wallet \in {None, WalletOf(row.user)}
    /\ \A s \in strategies : s.status = "FUNDING" <=> s.wallet # None

\* Credentials that were answered as set are the account's.
CredentialsStay == \A n \in named : accounts[n[1]].name = n[2]
================================================================================
