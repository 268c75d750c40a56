--------------------------- MODULE AttestedChannel ---------------------------
(***************************************************************************)
(* Private requests go to an enclave that was verified (attestedTee.js):   *)
(* the platform's server fetches a quote for a fresh challenge and judges  *)
(* it by the pinned deployment (tee-attestation.js, tdx-quote.js); the     *)
(* browser keeps the result for a while, for one login.  The enclave is    *)
(* replaced meanwhile by other releases, which keep its keys; a release    *)
(* is pinned once it was prepared, deployed and verified                   *)
(* (enroll-platform-tee.mjs) and the server was deployed with the pins.    *)
(* A quote is [own, release, genesis]: whether it has the challenge of the *)
(* verification that runs, what it measures, and whether its identity      *)
(* names the genesis of the ledger proofs.  Signatures and encodings hold  *)
(* what they say; answers may be late, old or none.                        *)
(***************************************************************************)
EXTENDS Integers

CONSTANTS
    Releases, First,             \* First is deployed and pinned in the beginning
    Ttl, Margin, Patience,       \* of a verification: lifetime, unused rest, the longest it may take
    LastTime, RolloutLimit, LoginLimit, WaitLimit    \* bounds

VARIABLES
    now,
    worker,     \* the enclave: [release, genesis: its ledger proofs are initialized, rollouts]
    policy,     \* tee-attestation-policy.js in the repository
    pins,       \* the policy the server was deployed with
    enroll,     \* the enrollment that runs: [at, release]
    answers,    \* quotes the enclave gave
    server,     \* the verification that runs, if any: [at, since, answer, expires]
    tab,        \* [login, cached: the time a verification expires, waiting: sends that wait for one]
    history     \* of late: [ran, pinned: {<<release, time>>}, asked, sent: {<<login, time>>}]

vars == <<now, worker, policy, pins, enroll, answers, server, tab, history>>

None == -1
NoQuote == [own |-> FALSE, release |-> First, genesis |-> FALSE]
Asked(t) == [at |-> "quote", since |-> t, answer |-> NoQuote, expires |-> None]
Over == [Asked(0) EXCEPT !.at = "idle"]
NotEnrolling == [at |-> "idle", release |-> First]

Init ==
    /\ now = 0 /\ policy = First /\ pins = First /\ enroll = NotEnrolling /\ answers = {}
    /\ worker = [release |-> First, genesis |-> FALSE, rollouts |-> 0]
    /\ server = Over
    /\ tab = [login |-> 1, cached |-> None, waiting |-> 0]
    /\ history = [ran |-> {<<First, 0>>}, pinned |-> {<<First, 0>>}, asked |-> {}, sent |-> {}]

--------------------------------------------------------------------------------
(* The browser. *)

\* Fault variant: a verification is used as long as there is one.
Usable_Once(t) == tab.cached # None
Usable(t) == tab.cached > t + Margin
SentNow(h) == [h EXCEPT !.sent = @ \cup {<<tab.login, now>>}]

\* send(): with a verification that lasts; or after the one that runs, or a new one.
Send ==
    /\ tab.waiting < WaitLimit
    /\ IF Usable(now) THEN history' = SentNow(history) /\ UNCHANGED <<server, tab>>
       ELSE /\ tab' = [tab EXCEPT !.waiting = @ + 1]
            /\ IF tab.waiting > 0 THEN UNCHANGED <<server, history>>
               ELSE /\ server' = Asked(now)
                    /\ history' = [history EXCEPT !.asked = @ \cup {<<tab.login, now>>}]
    /\ UNCHANGED <<now, worker, policy, pins, enroll, answers>>
Receive ==
    /\ server.at = "reply" /\ server.expires > now /\ now - server.since <= Patience
    /\ tab' = [tab EXCEPT !.cached = server.expires, !.waiting = 0]
    /\ history' = SentNow(history) /\ server' = Over
    /\ UNCHANGED <<now, worker, policy, pins, enroll, answers>>
\* Refused, too late, or no answer: whoever waits fails.
Fail ==
    /\ server.at # "idle" /\ server' = Over /\ tab' = [tab EXCEPT !.waiting = 0]
    /\ UNCHANGED <<now, worker, policy, pins, enroll, answers, history>>
\* clear(), and another login.  A verification that runs is not used.
\* Fault variant: it is kept for the next login.
Cleared_Kept == tab.cached
Cleared == None
Logout ==
    /\ tab.login < LoginLimit
    /\ tab' = [login |-> tab.login + 1, cached |-> Cleared, waiting |-> 0] /\ server' = Over
    /\ UNCHANGED <<now, worker, policy, pins, enroll, answers, history>>

--------------------------------------------------------------------------------
(* The server. *)

\* The enclave's quote, or one it gave before.
Given == [own |-> TRUE, release |-> worker.release, genesis |-> worker.genesis]
Quote ==
    /\ server.at = "quote"
    /\ \E answer \in answers \cup {Given} :
          /\ server' = [server EXCEPT !.at = "judge", !.answer = answer]
          /\ answers' = answers \cup {[answer EXCEPT !.own = FALSE]}
    /\ UNCHANGED <<now, worker, policy, pins, enroll, tab, history>>
\* Fault variant: the challenge is not compared.
Accepted_Old(q) == q.genesis /\ q.release = pins
Accepted(q) == q.own /\ q.genesis /\ q.release = pins
\* The vendor's verdict is on these bytes, and the event log gives the same registers.
Decoded(report) == report = server.answer
Judge ==
    /\ server.at = "judge" /\ now - server.since <= Patience
    /\ \E report \in answers \cup {server.answer} : Decoded(report) /\ Accepted(report)
    /\ server' = [server EXCEPT !.at = "reply", !.expires = now + Ttl]
    /\ UNCHANGED <<now, worker, policy, pins, enroll, answers, tab, history>>

--------------------------------------------------------------------------------
(* The enclave, and its releases. *)

Initialize ==
    /\ ~worker.genesis /\ worker' = [worker EXCEPT !.genesis = TRUE]
    /\ UNCHANGED <<now, policy, pins, enroll, answers, server, tab, history>>
\* In place, or on a machine whose state is still to come.
Rollout(r, keeps) ==
    /\ worker.rollouts < RolloutLimit /\ r # worker.release
    /\ worker' = [release |-> r, genesis |-> worker.genesis /\ keeps, rollouts |-> worker.rollouts + 1]
    /\ history' = [history EXCEPT !.ran = @ \cup {<<r, now>>}]
    /\ UNCHANGED <<now, policy, pins, enroll, answers, server, tab>>

Prepare(r) ==
    /\ enroll.at = "idle" /\ r # policy /\ enroll' = [at |-> "compose", release |-> r]
    /\ UNCHANGED <<now, worker, policy, pins, answers, server, tab, history>>
\* The control plane's compose file and the sources of a first quote.
Inspect ==
    /\ enroll.at = "compose"
    /\ enroll' = IF worker.release = enroll.release THEN [enroll EXCEPT !.at = "verify"] ELSE NotEnrolling
    /\ UNCHANGED <<now, worker, policy, pins, answers, server, tab, history>>
\* verifyPlatformTee() by the pins that would be written.
Enroll ==
    /\ enroll.at = "verify" /\ enroll' = NotEnrolling
    /\ policy' = IF worker.release = enroll.release /\ worker.genesis THEN enroll.release ELSE policy
    /\ UNCHANGED <<now, worker, pins, answers, server, tab, history>>
Deploy ==
    /\ pins # policy /\ pins' = policy
    /\ history' = [history EXCEPT !.pinned = @ \cup {<<policy, now>>}]
    /\ UNCHANGED <<now, worker, policy, enroll, answers, server, tab>>

Late(events) == {e \in events : now + 1 - e[2] < Patience + Ttl}
Tick ==
    /\ now < LastTime /\ now' = now + 1
    /\ history' = [ran |-> Late(history.ran) \cup {<<worker.release, now + 1>>}, asked |-> Late(history.asked),
                   pinned |-> Late(history.pinned) \cup {<<pins, now + 1>>}, sent |-> {}]
    /\ UNCHANGED <<worker, policy, pins, enroll, answers, server, tab>>

Next ==
    \/ Send \/ Receive \/ Fail \/ Logout \/ Quote \/ Judge \/ Initialize \/ Inspect \/ Enroll \/ Deploy \/ Tick
    \/ \E r \in Releases : Prepare(r) \/ \E keeps \in BOOLEAN : Rollout(r, keeps)

--------------------------------------------------------------------------------
\* Where the pins and the running release disagree, private requests stop: whenever one is
\* sent, its own login had asked for a verification, and the enclave had run, and the
\* server had pinned, one and the same release, not longer ago than a verification may
\* take and last: the history has nothing older (attestedTee.js, verify; tee-attestation.js, verifyPlatformTee).
SentToThePinned ==
    \A s \in history.sent :
        /\ \E a \in history.asked : a[1] = s[1]
        /\ \E r \in history.ran, p \in history.pinned : r[1] = p[1]
================================================================================
