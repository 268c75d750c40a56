---------------------------- MODULE ClientRequests ----------------------------
(***************************************************************************)
(* What the web application knows of the changes an investor asked for     *)
(* (PlatformContext.jsx, privateRequest): one signed-in tab sends them     *)
(* over the attested channel, keeps an uncertain one in local storage, the *)
(* outbox, and sends it again; the enclave (investments.mjs,               *)
(* accountRequest) checks a copy, puts it in its queue and answers.        *)
(* Copies and answers may be late or lost, the tab may be reloaded, the    *)
(* account signed out.  What a request changes is CashAccounts.            *)
(***************************************************************************)
EXTENDS Naturals, Sequences

CONSTANTS
    None,          \* no entry
    ClickLimit,    \* bound: changes the investor asks for
    AttemptLimit   \* bound: copies sent

VARIABLES
    signed,     \* a session is stored
    outbox,     \* localStorage mmq.request:<user>: the click it belongs to, or None
    tab,        \* the run in progress: [at, click, attempt, same: the session is still the one it began with]
    poll,       \* the request ids of a portfolio answer that is on its way, or None
    clicks,     \* click -> [tries, told, times: how often its change was made]
    attempts,   \* copies sent: [click, id, at]
    queue,      \* the enclave's serial queue, of attempts
    done        \* accountRequests: the ids of the changes made

vars == <<signed, outbox, tab, poll, clicks, attempts, queue, done>>

Idle == [at |-> "idle", click |-> None, attempt |-> None, same |-> TRUE]

Init ==
    /\ signed = TRUE /\ outbox = None /\ tab = Idle /\ poll = None
    /\ clicks = <<>> /\ attempts = <<>> /\ queue = <<>> /\ done = {}

Told(click, what) == [clicks EXCEPT ![click].told = what]

\* Every attempt gets an id of its own.
RequestId_Fresh(click) == <<click, Len(attempts)>>
\* The payload of the outbox overrides the fresh id.
RequestId(click) == <<click, 0>>

--------------------------------------------------------------------------------
(* The tab: one run at a time.                                               *)

Click ==
    /\ signed /\ tab.at = "idle" /\ outbox = None /\ Len(clicks) < ClickLimit
    /\ clicks' = Append(clicks, [tries |-> 1, told |-> "nothing", times |-> 0])
    /\ outbox' = Len(clicks')
    /\ tab' = [Idle EXCEPT !.at = "attest", !.click = Len(clicks')]
    /\ UNCHANGED <<signed, poll, attempts, queue, done>>

Retry ==
    /\ signed /\ tab.at = "idle" /\ outbox # None
    /\ clicks' = [clicks EXCEPT ![outbox].tries = 2]
    /\ tab' = [Idle EXCEPT !.at = "attest", !.click = outbox]
    /\ UNCHANGED <<signed, outbox, poll, attempts, queue, done>>

\* The enclave could not be verified, or the channel was cleared meanwhile: nothing is
\* sent, and the entry is removed, of a retry as well.
Unattested ==
    /\ tab.at = "attest"
    /\ outbox' = None
    /\ clicks' = Told(tab.click, "refused")
    /\ tab' = Idle
    /\ UNCHANGED <<signed, poll, attempts, queue, done>>

Sends ==
    /\ tab.at = "attest" /\ tab.same /\ Len(attempts) < AttemptLimit
    /\ attempts' = Append(attempts, [click |-> tab.click, id |-> RequestId(tab.click), at |-> "wire"])
    /\ tab' = [tab EXCEPT !.at = "wait", !.attempt = Len(attempts')]
    /\ UNCHANGED <<signed, outbox, poll, clicks, queue, done>>

\* Any error clears the entry.
Uncertain_Cleared == tab.at = "wait" /\ outbox' = None
\* Timeout, connection lost, an unreadable answer: the entry stays.
Uncertain == tab.at = "wait" /\ UNCHANGED outbox

NoAnswer ==
    /\ Uncertain
    /\ tab' = Idle
    /\ UNCHANGED <<signed, poll, clicks, attempts, queue, done>>

Confirmed ==
    /\ tab.at = "wait" /\ attempts[tab.attempt].at = "ok" /\ tab.same
    /\ outbox' = None
    /\ clicks' = Told(tab.click, "confirmed")
    /\ tab' = Idle
    /\ UNCHANGED <<signed, poll, attempts, queue, done>>

\* An answer to the account that was signed out is not used.
Changed ==
    /\ tab.at = "wait" /\ attempts[tab.attempt].at = "ok" /\ ~tab.same
    /\ tab' = Idle
    /\ UNCHANGED <<signed, outbox, poll, clicks, attempts, queue, done>>

Refused ==
    /\ tab.at = "wait" /\ attempts[tab.attempt].at = "refused"
    /\ outbox' = None
    /\ clicks' = Told(tab.click, "refused")
    /\ tab' = Idle
    /\ UNCHANGED <<signed, poll, attempts, queue, done>>

Logout ==
    /\ signed /\ signed' = FALSE
    /\ tab' = [tab EXCEPT !.same = tab.at = "idle"]
    /\ poll' = None
    /\ UNCHANGED <<outbox, clicks, attempts, queue, done>>

Login ==
    /\ ~signed /\ tab.at = "idle" /\ signed' = TRUE
    /\ UNCHANGED <<outbox, tab, poll, clicks, attempts, queue, done>>

\* The tab is closed and opened again: local storage stays.
Reload ==
    /\ tab.at # "idle" \/ poll # None
    /\ tab' = Idle /\ poll' = None
    /\ UNCHANGED <<signed, outbox, clicks, attempts, queue, done>>

\* fetchPortfolio reads committed state without queueing; its answer may come later, in
\* the middle of another run.
ReadPortfolio ==
    /\ signed /\ tab.at = "idle" /\ poll = None
    /\ poll' = done
    /\ UNCHANGED <<signed, outbox, tab, clicks, attempts, queue, done>>

ShowPortfolio ==
    /\ poll # None /\ poll' = None
    /\ IF outbox # None /\ <<outbox, 0>> \in poll
       THEN outbox' = None /\ clicks' = Told(outbox, "confirmed")
       ELSE UNCHANGED <<outbox, clicks>>
    /\ UNCHANGED <<signed, tab, attempts, queue, done>>

--------------------------------------------------------------------------------
(* The enclave.                                                              *)

\* The session is authorized and, for an allocation, the catalog read, before the queue.
CheckFails(i) ==
    /\ attempts[i].at = "wire"
    /\ attempts' = [attempts EXCEPT ![i].at = "refused"]
    /\ UNCHANGED <<signed, outbox, tab, poll, clicks, queue, done>>

Enqueue(i) ==
    /\ attempts[i].at = "wire"
    /\ attempts' = [attempts EXCEPT ![i].at = "queue"]
    /\ queue' = Append(queue, i)
    /\ UNCHANGED <<signed, outbox, tab, poll, clicks, done>>

\* The change is made with its record, once; it may also be refused, without one.
Serve ==
    /\ queue # <<>> /\ queue' = Tail(queue)
    /\ LET i == Head(queue) IN
       \/ /\ attempts[i].id \in done
          /\ attempts' = [attempts EXCEPT ![i].at = "ok"]
          /\ UNCHANGED <<clicks, done>>
       \/ /\ attempts[i].id \notin done
          /\ attempts' = [attempts EXCEPT ![i].at = "ok"]
          /\ done' = done \cup {attempts[i].id}
          /\ clicks' = [clicks EXCEPT ![attempts[i].click].times = @ + 1]
       \/ /\ attempts[i].id \notin done
          /\ attempts' = [attempts EXCEPT ![i].at = "refused"]
          /\ UNCHANGED <<clicks, done>>
    /\ UNCHANGED <<signed, outbox, tab, poll>>

\* A copy is lost on its way; a restart of the enclave loses the queue.
Lose(i) ==
    /\ attempts[i].at = "wire"
    /\ attempts' = [attempts EXCEPT ![i].at = "gone"]
    /\ UNCHANGED <<signed, outbox, tab, poll, clicks, queue, done>>
Restart ==
    /\ queue # <<>> /\ queue' = <<>>
    /\ attempts' = [i \in DOMAIN attempts |->
                        IF attempts[i].at = "queue" THEN [attempts[i] EXCEPT !.at = "gone"] ELSE attempts[i]]
    /\ UNCHANGED <<signed, outbox, tab, poll, clicks, done>>

Next ==
    \/ Click \/ Retry \/ Unattested \/ Sends \/ NoAnswer \/ Confirmed \/ Changed \/ Refused
    \/ Logout \/ Login \/ Reload \/ ReadPortfolio \/ ShowPortfolio
    \/ \E i \in DOMAIN attempts: CheckFails(i) \/ Enqueue(i) \/ Lose(i)
    \/ Serve \/ Restart

--------------------------------------------------------------------------------
\* However often it is sent, what the investor asked for once is done at most once, and
\* what the application confirms was done (investments.mjs, accountRequest: prior).
AskedOnceDoneOnce ==
    \A c \in DOMAIN clicks:
        /\ clicks[c].times <= 1
        /\ clicks[c].told = "confirmed" => clicks[c].times = 1

\* A change that was made is confirmed or still in the outbox, to be sent again; the only
\* other one was refused when it was sent again, while its first copy was under way
\* (PlatformContext.jsx, privateRequest).
MadeIsKnown ==
    \A c \in DOMAIN clicks:
        clicks[c].times > 0 =>
            \/ clicks[c].told = "confirmed"
            \/ outbox = c
            \/ clicks[c].told = "refused" /\ clicks[c].tries > 1
================================================================================
