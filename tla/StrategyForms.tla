---------------------------- MODULE StrategyForms ----------------------------
(***************************************************************************)
(* The forms of the strategist's console (ManagerConsole.jsx): the public  *)
(* profile, the four steps that register a strategy, and the announcement  *)
(* of new conditions, as one tab of one account uses them against the      *)
(* platform (service.js), which activates an announced change by itself.   *)
(* A request is answered, refused, lost, or served after the page gave up  *)
(* on it; a form can be left and edited while its request is on its way.   *)
(***************************************************************************)
EXTENDS Naturals

CONSTANTS
    Names,          \* public names of a strategist
    FirstName,      \* the one the profile has
    Cutoffs,        \* withdrawalCutoffSeconds that are typed in
    DefaultCutoff,  \* settlementPeriodSeconds -> the cutoff a newly chosen period comes with
    FirstPolicy,    \* DEFAULT_POLICY: [period, cutoff]
    None,           \* null
    ClickLimit      \* bound: requests sent

VARIABLES
    page,     \* [at, step, name, policy, dialog]: what is mounted, and its forms
    account,  \* what refreshAccount last read: [name, strategy: None or [policy, pending]]
    run,      \* what holds the lock of the page: None or [what, at, here, click, name, policy, shown]
    server,   \* the platform's record of the account, as account
    wire,     \* requests sent and not yet served
    log       \* [clicks, review: the name reviewed and the name published, unsure: the profile was edited while
              \* it was being saved, or a request was given up on, outdated: conditions were announced against old ones,
              \* untold: an announcement may have been made that the page was not told of]

vars == <<page, account, run, server, wire, log>>

Periods == DOMAIN DefaultCutoff
Mount(at, read) ==
    [at |-> at, step |-> 0, name |-> read.name, dialog |-> FALSE,
     policy |-> IF at = "work" THEN read.strategy.policy ELSE FirstPolicy]

Init ==
    /\ server \in [name: {FirstName}, strategy: {None, [policy |-> FirstPolicy, pending |-> None]}]
    /\ account = server
    /\ page = Mount("list", account)
    /\ run = None /\ wire = {}
    /\ log = [clicks |-> 0, review |-> None, unsure |-> FALSE, outdated |-> FALSE, untold |-> FALSE]

Busy == run # None
Here(next) == IF run.here THEN next ELSE page

--------------------------------------------------------------------------------
(* PolicyFields and the routes.                                              *)

\* A period resets the cutoff to its own; the cutoff may be typed in.
WithPeriod(policy, period) == [policy EXCEPT !.period = period, !.cutoff = DefaultCutoff[period]]
Edits(policy) == {WithPeriod(policy, period): period \in Periods} \cup {[policy EXCEPT !.cutoff = c]: c \in Cutoffs}
\* validatePolicy.
Valid(policy) == policy.cutoff < policy.period

\* Another page, by a link or the browser's history, even while something runs.
Go(at) ==
    /\ page.at # at
    /\ at = "work" => account.strategy # None
    /\ page' = Mount(at, account)
    /\ run' = IF Busy THEN [run EXCEPT !.here = FALSE] ELSE run
    /\ UNCHANGED <<account, server, wire, log>>

\* The tab is loaded again and reads the account.
Reload ==
    /\ account # server \/ Busy
    /\ account' = server
    /\ page' = Mount("list", server)
    /\ run' = None
    /\ log' = [log EXCEPT !.unsure = @ \/ Busy, !.untold = @ \/ Busy]
    /\ UNCHANGED <<server, wire>>

EditName(name) ==
    /\ page.at = "profile" \/ (page.at = "new" /\ page.step = 0)
    /\ name # page.name
    /\ page' = [page EXCEPT !.name = name]
    /\ log' = [log EXCEPT !.unsure = @ \/ Busy]
    /\ UNCHANGED <<account, run, server, wire>>

\* The conditions of a strategy are edited unless a change of them is announced.
MayEdit ==
    \/ page.at = "new" /\ page.step = 2
    \/ page.at = "work" /\ account.strategy.pending = None /\ ~page.dialog
EditPolicy(policy) ==
    /\ MayEdit /\ policy # page.policy /\ page' = [page EXCEPT !.policy = policy]
    /\ UNCHANGED <<account, run, server, wire, log>>

--------------------------------------------------------------------------------
(* The buttons.  Each run sends one request and then reads the account.      *)

Request(what, shown) ==
    [what |-> what, click |-> log.clicks + 1, name |-> page.name, policy |-> page.policy, shown |-> shown]
Ask(what, shown) ==
    /\ ~Busy /\ log.clicks < ClickLimit
    /\ wire' = wire \cup {Request(what, shown)}
    /\ run' = [what |-> what, at |-> "wait", here |-> TRUE, click |-> log.clicks + 1]
    /\ log' = [log EXCEPT !.clicks = @ + 1]
    /\ UNCHANGED <<page, account, server>>

SaveProfile == page.at = "profile" /\ Ask("profile", None)

\* The profile is saved while the next step is already shown.
FirstStep_Unsaved ==
    /\ page.at = "new" /\ page.step = 0 /\ ~Busy
    /\ page' = [page EXCEPT !.step = 1]
    /\ UNCHANGED <<account, run, server, wire, log>>
\* "Next step" of the first step saves the profile first.
FirstStep == page.at = "new" /\ page.step = 0 /\ Ask("step", None)
NextStep ==
    /\ page.at = "new" /\ page.step \in {1, 2} /\ ~Busy
    /\ page.step = 2 => Valid(page.policy)
    /\ page' = [page EXCEPT !.step = @ + 1]
    /\ UNCHANGED <<account, run, server, wire, log>>
PreviousStep ==
    /\ page.at = "new" /\ page.step > 0 /\ ~Busy
    /\ page' = [page EXCEPT !.step = @ - 1]
    /\ UNCHANGED <<account, run, server, wire, log>>
Register == page.at = "new" /\ page.step = 3 /\ Ask("register", None)

\* The proposed conditions beside the current ones.
Compare ==
    /\ page.at = "work" /\ MayEdit /\ ~Busy /\ Valid(page.policy)
    /\ page' = [page EXCEPT !.dialog = TRUE]
    /\ UNCHANGED <<account, run, server, wire, log>>
Close ==
    /\ page.dialog /\ ~Busy /\ page' = [page EXCEPT !.dialog = FALSE]
    /\ UNCHANGED <<account, run, server, wire, log>>
Announce == page.at = "work" /\ page.dialog /\ Ask("announce", account.strategy.policy)

\* refreshAccount, then what the run does with its page; a registration opens the
\* strategy's page wherever the tab is.
After ==
    CASE run.what = "step" -> Here([page EXCEPT !.step = 1])
      [] run.what = "register" -> Mount("work", account')
      [] run.what = "announce" -> Here([page EXCEPT !.dialog = FALSE])
      [] OTHER -> page
\* The account is not read again after an announcement.
Answered_Unread ==
    /\ Busy /\ run.at = "ok"
    /\ account' = IF run.what = "announce" THEN account ELSE server
    /\ page' = After
    /\ run' = None
    /\ UNCHANGED <<server, wire, log>>
Answered ==
    /\ Busy /\ run.at = "ok"
    /\ account' = server
    /\ page' = After
    /\ run' = None
    /\ UNCHANGED <<server, wire, log>>

\* No answer in time, connection lost, or the account cannot be read after it; the
\* request may still be served.
Fails ==
    /\ Busy /\ run' = None
    /\ log' = [log EXCEPT !.unsure = @ \/ run.what # "announce", !.untold = @ \/ run.what = "announce"]
    /\ UNCHANGED <<page, account, server, wire>>

--------------------------------------------------------------------------------
(* The platform.                                                             *)

Answer(request, at) == run' = IF Busy /\ run.click = request.click THEN at ELSE run
Served(request) == wire' = wire \ {request} /\ Answer(request, [run EXCEPT !.at = "ok"]) /\ UNCHANGED <<page, account>>

UpsertStrategist(request) ==
    /\ request.what \in {"profile", "step"} /\ Served(request)
    /\ server' = [server EXCEPT !.name = request.name]
    /\ UNCHANGED log
\* Once: the slug is taken.
CreateStrategy(request) ==
    /\ request.what = "register" /\ server.strategy = None /\ Valid(request.policy) /\ Served(request)
    /\ server' = [server EXCEPT !.strategy = [policy |-> request.policy, pending |-> None]]
    /\ log' = [log EXCEPT !.review = [reviewed |-> request.name, published |-> server.name, unsure |-> log.unsure]]
ProposePolicy(request) ==
    /\ request.what = "announce" /\ server.strategy.pending = None /\ Valid(request.policy) /\ Served(request)
    /\ server' = [server EXCEPT !.strategy.pending = request.policy]
    /\ log' = [log EXCEPT !.outdated = @ \/ (~log.untold /\ request.shown # server.strategy.policy)]
Refuse(request) ==
    /\ wire' = wire \ {request} /\ Answer(request, None)
    /\ UNCHANGED <<page, account, server, log>>
Lose(request) == wire' = wire \ {request} /\ UNCHANGED <<page, account, run, server, log>>

\* publishMetrics, once the operator has adopted the change.
Activate ==
    /\ server.strategy # None /\ server.strategy.pending # None
    /\ server' = [server EXCEPT !.strategy = [policy |-> @.pending, pending |-> None]]
    /\ UNCHANGED <<page, account, run, wire, log>>

Next ==
    \/ \E at \in {"list", "profile", "new", "work"}: Go(at)
    \/ \E name \in Names: EditName(name)
    \/ \E policy \in Edits(page.policy): EditPolicy(policy)
    \/ Reload \/ SaveProfile \/ FirstStep \/ NextStep \/ PreviousStep \/ Register \/ Compare \/ Close \/ Announce
    \/ Answered \/ Fails \/ Activate
    \/ \E request \in wire:
          UpsertStrategist(request) \/ CreateStrategy(request) \/ ProposePolicy(request) \/ Refuse(request) \/ Lose(request)

--------------------------------------------------------------------------------
\* The name a registration was reviewed under is the one the strategy is published
\* under, unless it was edited while it was being saved or a request was given up on
\* (ManagerConsole.jsx, NewStrategy).
PublishedAsReviewed ==
    log.review # None => log.review.unsure \/ log.review.reviewed = log.review.published

\* New conditions are announced beside the conditions in force, unless an earlier
\* announcement was made without the page being told (ManagerConsole.jsx,
\* StrategyWorkspace).
ComparedWithCurrent == ~log.outdated
================================================================================
