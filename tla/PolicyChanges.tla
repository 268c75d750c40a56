----------------------------- MODULE PolicyChanges -----------------------------
(***************************************************************************)
(* How the terms of a strategy change.  A strategist announces new terms   *)
(* in the platform's database (src/platform/service.js); the operator sees *)
(* them in a copy of the public catalog, applies them to its book when no  *)
(* redemption that they must not touch is left                             *)
(* (deploy/tee/operator/execution.mjs), and publishes its version with its *)
(* metrics; the database then takes the announced terms over.  Metrics may *)
(* be lost, late, repeated or out of order.                                *)
(***************************************************************************)
EXTENDS Integers, FiniteSets

CONSTANTS
    Policies, First,            \* policies [period, cutoff], the one a strategy starts with
    Investors,
    MaxAge,                     \* how old metrics may be
    LastTime, VersionLimit      \* bounds of the clock and of the changes

VARIABLES
    now,
    database,       \* the strategy's row: version, policy, pending
    history,        \* announced versions, when, and when they were to take effect
    draft,          \* the row a proposal was computed from, before it is written
    book,           \* the operator's version and policy, its running settlement
    catalog,        \* the operator's copy of the pending policy
    withdrawals,
    metrics         \* what was published, and may arrive

vars == <<now, database, history, draft, book, catalog, withdrawals, metrics>>

None == [version |-> 0]
NoBook == [version |-> 0]
NoWithdrawal == [status |-> "none"]

Init ==
    /\ now = 0 /\ database = [version |-> 1, policy |-> First, pending |-> None] /\ history = {}
    /\ draft = None /\ book = NoBook /\ catalog = None /\ metrics = {}
    /\ withdrawals = [i \in Investors |-> NoWithdrawal]

\* The settlement a request made at t belongs to: after the cutoff, the one after next.
NextSettlement(p, t) ==
    LET at == (t \div p.period + 1) * p.period IN IF t >= at - p.cutoff THEN at + p.period ELSE at

--------------------------------------------------------------------------------
(* The platform. *)

\* proposePolicy(): the row is read, and written later if nothing is pending by then; a
\* version is announced once (primary key of the history).
Read ==
    /\ draft = None /\ database.pending = None /\ database.version < VersionLimit
    /\ draft' = database
    /\ UNCHANGED <<now, database, history, book, catalog, withdrawals, metrics>>
\* Fault variant: effective at once.
EffectiveAfter_Now(p) == now
EffectiveAfter(p) == NextSettlement(p, now) + 1
Propose(p) ==
    LET version == draft.version + 1 IN
    /\ draft # None /\ draft' = None
    /\ IF database.pending # None \/ \E h \in history : h.version = version THEN UNCHANGED <<database, history>>
       ELSE /\ database' = [database EXCEPT !.pending =
                   [version |-> version, policy |-> p, after |-> EffectiveAfter(draft.policy)]]
            /\ history' = history \cup {[version |-> version, announcedAt |-> now, after |-> EffectiveAfter(draft.policy)]}
    /\ UNCHANGED <<now, book, catalog, withdrawals, metrics>>

\* publishMetrics(): signed, recent; the pending terms become the terms when the operator
\* says it uses them.
\* Fault variant: when they are due.
Activates_Due(m) == database.pending # None /\ database.pending.after <= m.observedAt
Activates(m) ==
    /\ database.pending # None /\ database.pending.version = m.version
    /\ database.pending.after <= m.observedAt
Deliver(m) ==
    /\ now - m.observedAt <= MaxAge /\ Activates(m)
    /\ database' = [version |-> database.pending.version, policy |-> database.pending.policy, pending |-> None]
    /\ UNCHANGED <<now, history, draft, book, catalog, withdrawals, metrics>>

--------------------------------------------------------------------------------
(* The operator. *)

\* The first target or deposit: the terms of the strategy's row.
NewBook ==
    /\ book = NoBook /\ book' = [version |-> database.version, policy |-> database.policy, settling |-> {}]
    /\ UNCHANGED <<now, database, history, draft, catalog, withdrawals, metrics>>

Request(i) ==
    /\ book # NoBook /\ withdrawals[i] = NoWithdrawal
    /\ withdrawals' = [withdrawals EXCEPT ![i] =
           [status |-> "requested", at |-> NextSettlement(book.policy, now), asked |-> now, terms |-> book.version,
            cutoff |-> NextSettlement(book.policy, now) - book.policy.cutoff, settled |-> 0]]
    /\ UNCHANGED <<now, database, history, draft, book, catalog, metrics>>
Cancel(i) ==
    /\ withdrawals[i].status = "requested" /\ now < withdrawals[i].cutoff
    /\ withdrawals' = [withdrawals EXCEPT ![i] = NoWithdrawal]
    /\ UNCHANGED <<now, database, history, draft, book, catalog, metrics>>

Fetch ==
    /\ catalog' = database.pending /\ catalog' # catalog
    /\ UNCHANGED <<now, database, history, draft, book, withdrawals, metrics>>

\* settle(): everything due goes into one settlement, which takes some ticks.
Due == {i \in Investors : withdrawals[i].status = "requested" /\ withdrawals[i].at <= now}
Settle ==
    /\ book # NoBook /\ book.settling = {} /\ Due # {}
    /\ book' = [book EXCEPT !.settling = Due]
    /\ withdrawals' = [i \in Investors |-> IF i \in Due THEN [withdrawals[i] EXCEPT !.status = "settling"]
                                                         ELSE withdrawals[i]]
    /\ UNCHANGED <<now, database, history, draft, catalog, metrics>>
Pay ==
    /\ book # NoBook /\ book.settling # {}
    /\ book' = [book EXCEPT !.settling = {}]
    /\ withdrawals' = [i \in Investors |-> IF i \in book.settling
                            THEN [withdrawals[i] EXCEPT !.status = "paid", !.settled = book.version] ELSE withdrawals[i]]
    /\ UNCHANGED <<now, database, history, draft, catalog, metrics>>

\* The end of a tick, after settle().
Untouched(i) == withdrawals[i].status \in {"requested", "settling"} => withdrawals[i].at > catalog.after
Apply ==
    /\ book # NoBook /\ catalog # None /\ catalog.version > book.version /\ catalog.after <= now
    /\ book.settling = {} /\ Due = {} /\ \A i \in Investors : Untouched(i)
    /\ book' = [book EXCEPT !.version = catalog.version, !.policy = catalog.policy]
    /\ UNCHANGED <<now, database, history, draft, catalog, withdrawals, metrics>>

Publish ==
    /\ book # NoBook
    /\ metrics' = metrics \cup {[version |-> book.version, observedAt |-> now]} /\ metrics' # metrics
    /\ UNCHANGED <<now, database, history, draft, book, catalog, withdrawals>>

Tick ==
    /\ now < LastTime /\ now' = now + 1 /\ metrics' = {m \in metrics : now' - m.observedAt <= MaxAge}
    /\ UNCHANGED <<database, history, draft, book, catalog, withdrawals>>

Next ==
    \/ Read \/ \E p \in Policies : Propose(p)
    \/ \E m \in metrics : Deliver(m)
    \/ NewBook \/ \E i \in Investors : Request(i) \/ Cancel(i)
    \/ Fetch \/ Settle \/ Pay \/ Apply \/ Publish \/ Tick

Spec == Init /\ [][Next]_vars

--------------------------------------------------------------------------------
(* Properties. *)

\* The public terms are those the operator trades on, or those it left last with the new
\* ones announced beside them: never terms it has not taken over yet, however late,
\* repeated or reordered its metrics arrive.
PublicTermsFollowBook ==
    book # NoBook =>
        \/ database.version = book.version /\ database.policy = book.policy
        \/ /\ database.version = book.version - 1
           /\ database.pending.version = book.version /\ database.pending.policy = book.policy

\* "Changes apply after existing redemptions settle, starting from this time"
\* (ManagerConsole.jsx:1097): what the code keeps of it.  A redemption that is due by the
\* time shown is paid before the change, and one that was asked for before the first change
\* of its terms is due by then.  The promise is not kept for the others: execution.mjs:480
\* waits for no redemption that is due after the time shown.  One asked for between the
\* announcement and the change is settled under the changed terms, and so is one that exists
\* when a second change is announced, if the first made the period shorter.
Foretold(w) == \E h \in history : h.version = w.terms + 1 /\ h.announcedAt <= w.asked
TookEffect(w, version) == \E h \in history : h.version = version /\ h.after < w.at
RedemptionsKeepTheirTerms ==
    \A i \in Investors :
        LET w == withdrawals[i] IN
        w.status = "paid" =>
            /\ w.settled > w.terms => Foretold(w)
            /\ \A version \in w.terms + 1..w.settled : TookEffect(w, version)
================================================================================
