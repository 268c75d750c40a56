--------------------------- MODULE StrategyTargets ---------------------------
(***************************************************************************)
(* The workspace in which a strategist sets targets by hand                *)
(* (ManagerConsole.jsx, StrategyWorkspace) beside programs that submit     *)
(* with an API token, and the enclave that accepts the requests            *)
(* (execution.mjs, accept).  What the page shows may be old; a request or  *)
(* its answer may be lost or late; the page may be left and opened again   *)
(* while something it asked for is on its way.                             *)
(***************************************************************************)
EXTENDS Naturals, Sequences, FiniteSets

CONSTANTS
    Weights,        \* gross exposures a target vector may have
    Limit,          \* strategy.policy.maxLeverageBps, as the page and the enclave have it
    DraftLimits,    \* the limits a draft of new conditions may have
    None,           \* null
    SequenceLimit,  \* bound: requests the enclave accepts
    DialogLimit,    \* bound: confirmation dialogs opened
    ClickLimit      \* bound: unanswered confirmations of a dialog

VARIABLES
    page,     \* the mounted workspace, or None: [dialog, weights: as reviewed, status: as STATUS once answered]
    run,      \* what holds the lock of the page: None or [what, at, here: its page is still mounted, ...]
    book,     \* the enclave's: [status, sequence, open: a request is QUEUED or EXECUTING]
    wire,     \* changes sent by the page and not yet served
    asked     \* dialog -> [accepted, unanswered: how often; blind: one replaced targets it had not read]

vars == <<page, run, book, wire, asked>>

Fresh == [dialog |-> None, weights |-> 0, status |-> None]

Init ==
    /\ page = Fresh /\ run = None
    /\ book = [status |-> "ACTIVE", sequence |-> 0, open |-> FALSE]
    /\ wire = {} /\ asked = <<>>

Mounted == page # None
Busy == run # None
\* A dialog is modal: the page under it takes no input.
Clear == Mounted /\ page.dialog = None
\* What a run still shows: nothing when its page was left.
Here(next) == IF run.here THEN next ELSE page

--------------------------------------------------------------------------------
(* The page.                                                                 *)

Leave ==
    /\ Mounted /\ page' = None
    /\ run' = IF Busy THEN [run EXCEPT !.here = FALSE] ELSE run
    /\ UNCHANGED <<book, wire, asked>>
Open ==
    /\ ~Mounted /\ page' = Fresh
    /\ UNCHANGED <<run, book, wire, asked>>

\* Every ten seconds, whatever else runs; an answer that is late or lost leaves the page
\* with an older status.
Poll ==
    /\ Mounted /\ page' = [page EXCEPT !.status = book]
    /\ UNCHANGED <<run, book, wire, asked>>

\* The gross exposure is compared with the limit of the draft conditions, whatever they
\* are, and the status is the one shown.
Valid(weights) == \E limit \in DraftLimits: weights <= limit
MayReview(weights) == ~Busy /\ Valid(weights) /\ page.status # None /\ ~page.status.open /\ page.status.status = "ACTIVE"
Review(weights) ==
    /\ Clear /\ MayReview(weights) /\ Len(asked) < DialogLimit
    /\ page' = [page EXCEPT !.dialog = "targets", !.weights = weights]
    /\ asked' = Append(asked, [accepted |-> 0, unanswered |-> 0, blind |-> FALSE])
    /\ UNCHANGED <<run, book, wire>>
AskRestart ==
    /\ Clear /\ ~Busy /\ page.status # None /\ page.status.status = "HALTED"
    /\ page' = [page EXCEPT !.dialog = "restart"]
    /\ UNCHANGED <<run, book, wire, asked>>
Close ==
    /\ Mounted /\ page.dialog # None /\ ~Busy
    /\ page' = [page EXCEPT !.dialog = None, !.weights = 0]
    /\ UNCHANGED <<run, book, wire, asked>>

--------------------------------------------------------------------------------
(* The runs: one at a time, each begun by a button of the page.              *)


Run(what, at, weights) == [what |-> what, at |-> at, here |-> TRUE, dialog |-> Len(asked),
                           click |-> IF what = "target" THEN asked[Len(asked)].unanswered ELSE 0,
                           weights |-> weights, read |-> None]
Sent(it) == [what |-> it.what, dialog |-> it.dialog, click |-> it.click, read |-> it.read]

\* "Refresh" and "Check failure reason" change nothing but what the page shows.
Look ==
    /\ Clear /\ ~Busy
    /\ run' = Run("look", "read", 0)
    /\ UNCHANGED <<page, book, wire, asked>>
Submit ==
    /\ Mounted /\ page.dialog = "targets" /\ ~Busy /\ asked[Len(asked)].unanswered < ClickLimit
    /\ run' = Run("target", "read", page.weights)
    /\ UNCHANGED <<page, book, wire, asked>>
Restart ==
    /\ Mounted /\ page.dialog = "restart" /\ ~Busy
    /\ run' = Run("restart", "wait", 0)
    /\ wire' = wire \cup {Sent(run')}
    /\ UNCHANGED <<page, book, asked>>

\* readStatus; it is the last thing a run does that only looks, was answered or restarted,
\* and "Trading restarted" closes its dialog.
ReadStatus ==
    /\ Busy /\ run.at = "read"
    /\ page' = Here([page EXCEPT !.status = book, !.dialog = IF run.what = "restart" THEN None ELSE @])
    /\ run' = IF run.what = "target" THEN [run EXCEPT !.at = "send", !.read = book.sequence] ELSE None
    /\ UNCHANGED <<book, wire, asked>>

\* A new request id, and the sequence after the one just read.
Send ==
    /\ Busy /\ run.at = "send" /\ run.weights <= Limit
    /\ run' = [run EXCEPT !.at = "wait", !.weights = 0]
    /\ wire' = wire \cup {Sent(run')}
    /\ UNCHANGED <<page, book, asked>>

\* The answer leaves the dialog open.
Answered_Open ==
    /\ Busy /\ run.at = "ok"
    /\ run' = [run EXCEPT !.what = IF @ = "target" THEN "look" ELSE @, !.at = "read", !.read = None]
    /\ UNCHANGED <<page, book, wire, asked>>
\* The dialog of the targets closes, and the status is read again.
Answered ==
    /\ Busy /\ run.at = "ok"
    /\ page' = IF run.what = "target" THEN Here([page EXCEPT !.dialog = None, !.weights = 0]) ELSE page
    /\ run' = [run EXCEPT !.what = IF @ = "target" THEN "look" ELSE @, !.at = "read", !.read = None]
    /\ UNCHANGED <<book, wire, asked>>

\* Refused, no answer in time, connection lost, or signed out: the dialog stays open and
\* what was sent may still be served.
Fails ==
    /\ Busy /\ run' = None
    /\ asked' = IF run.what = "target" /\ run.at \in {"wait", "ok"}
                THEN [asked EXCEPT ![run.dialog].unanswered = @ + 1] ELSE asked
    /\ UNCHANGED <<page, book, wire>>

--------------------------------------------------------------------------------
(* The enclave.                                                              *)

InOrder_Any(sequence) == TRUE
InOrder(sequence) == sequence = book.sequence + 1
Acceptable(sequence) == book.status = "ACTIVE" /\ ~book.open /\ InOrder(sequence)
Accepts == book' = [book EXCEPT !.sequence = @ + 1, !.open = TRUE]

\* The answer reaches the run that waits for it.
Answer(request, at) ==
    run' = IF Busy /\ run.at = "wait" /\ Sent(run) = request THEN [run EXCEPT !.at = at] ELSE run

ServeTarget(request) ==
    /\ request.what = "target" /\ book.sequence < SequenceLimit
    /\ Acceptable(request.read + 1)
    /\ Accepts
    /\ asked' = [asked EXCEPT ![request.dialog].accepted = @ + 1,
                              ![request.dialog].blind = @ \/ request.read # book.sequence]
    /\ wire' = wire \ {request}
    /\ Answer(request, "ok")
    /\ UNCHANGED <<page>>
ServeRestart(request) ==
    /\ request.what = "restart" /\ book.status = "HALTED"
    /\ book' = [book EXCEPT !.status = "ACTIVE"]
    /\ wire' = wire \ {request}
    /\ Answer(request, "ok")
    /\ UNCHANGED <<page, asked>>
\* Refused for any reason, which ends the run, or lost on its way.
Refuse(request) ==
    /\ wire' = wire \ {request}
    /\ run' = IF Busy /\ run.at = "wait" /\ Sent(run) = request THEN None ELSE run
    /\ UNCHANGED <<page, book, asked>>
Lose(request) ==
    /\ wire' = wire \ {request}
    /\ UNCHANGED <<page, run, book, asked>>

\* A program of the strategist reads STATUS and submits, by the same rules.
ProgramSubmits ==
    /\ book.sequence < SequenceLimit /\ Acceptable(book.sequence + 1)
    /\ Accepts
    /\ UNCHANGED <<page, run, wire, asked>>

Finish(status) ==
    /\ book.open
    /\ book' = [book EXCEPT !.open = FALSE, !.status = status]
    /\ UNCHANGED <<page, run, wire, asked>>

Next ==
    \/ Leave \/ Open \/ Poll \/ AskRestart \/ Close \/ Look \/ Submit \/ Restart
    \/ \E weights \in Weights: Review(weights)
    \/ ReadStatus \/ Send \/ Answered \/ Fails \/ ProgramSubmits
    \/ \E request \in wire: ServeTarget(request) \/ ServeRestart(request) \/ Refuse(request) \/ Lose(request)
    \/ \E status \in {"ACTIVE", "HALTED"}: Finish(status)

--------------------------------------------------------------------------------
\* A confirmation is carried out once, unless an answer was lost and the strategist
\* confirmed again; and it never replaces targets, a program's or its own, that it had not
\* read (ManagerConsole.jsx, submit; execution.mjs, accept).
ReplacesWhatItRead ==
    \A d \in DOMAIN asked: asked[d].accepted <= 1 + asked[d].unanswered /\ ~asked[d].blind
================================================================================
