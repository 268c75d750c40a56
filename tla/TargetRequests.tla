---------------------------- MODULE TargetRequests ----------------------------
(***************************************************************************)
(* Who may set a strategy's targets, and in which order: the strategist's  *)
(* daily program (scripts/mean-reversion.mjs), the dashboard               *)
(* (ManagerConsole.jsx) and the enclave that accepts their requests        *)
(* (execution.mjs, accept).  A message may be lost, refused or late; the   *)
(* program may be killed anywhere and started again from its state file.   *)
(* What a request does to the positions is StrategySteps; here it ends.    *)
(***************************************************************************)
EXTENDS Naturals, Sequences, FiniteSets

CONSTANTS
    Holdings,       \* what a decision may hold: the markets that are active
    None,           \* null or undefined
    LastDay,        \* bound: days 1 .. LastDay
    RequestLimit,   \* bound: request ids ever made
    CopyLimit       \* bound: copies of one request on their way

VARIABLES
    day,     \* the UTC day
    made,    \* request id -> [by, day, once, basis, targets, sequence, copies]: as made by its sender
    book,    \* book.sequence and book.requests of the enclave, in order of acceptance
    file,    \* the program's sealed state file
    bot,     \* the running program: [at, once, day, seen: what STATUS answered]
    page     \* the dashboard: the sequence it last read, or None

vars == <<day, made, book, file, bot, page>>

NoFile == [active |-> None, lastDay |-> None, lastSequence |-> None, pending |-> None]
Off == [at |-> "off", once |-> FALSE, day |-> None, seen |-> None]

Init ==
    /\ day = 1
    /\ made = <<>>
    /\ book = [sequence |-> 0, requests |-> <<>>]
    /\ file = NoFile
    /\ bot = Off
    /\ page = None

Request(by, once, basis, targets, sequence, copies) ==
    [by |-> by, day |-> IF by = "bot" THEN bot.day ELSE None, once |-> once, basis |-> basis,
     targets |-> targets, sequence |-> sequence, copies |-> copies]
Unfinished(requests) == \E i \in DOMAIN requests: requests[i].status = "QUEUED"
\* The place of a request in book.requests, 0 when the enclave does not have it.
Place(requests, id) ==
    IF \E i \in DOMAIN requests: requests[i].id = id
    THEN CHOOSE i \in DOMAIN requests: requests[i].id = id ELSE 0

--------------------------------------------------------------------------------
(* The program.  Every reply may fail to come, which ends the program as a   *)
(* kill does; the lock directory keeps a second one out (Stop leaves it to   *)
(* the operator to remove the lock of a killed one).                         *)

\* Once a day unless something is pending; --once runs again (it changes nothing else).
Start(once) ==
    /\ bot.at = "off"
    /\ once <=> file.lastDay = day /\ file.pending = None
    /\ bot' = [at |-> "status", once |-> once, day |-> day, seen |-> None]
    /\ UNCHANGED <<day, made, book, file, page>>

ReadStatus ==
    /\ bot.at = "status"
    /\ bot' = [bot EXCEPT !.at = "decide",
                          !.seen = [sequence |-> book.sequence, unfinished |-> Unfinished(book.requests)]]
    /\ UNCHANGED <<day, made, book, file, page>>

\* The request is sent before the state is saved, and the program is killed in between.
Decide_Unsaved(active) ==
    /\ bot.at = "decide" /\ file.pending = None /\ Len(made) < RequestLimit
    /\ file.lastSequence # None => bot.seen.sequence = file.lastSequence
    /\ ~bot.seen.unfinished
    /\ made' = Append(made, Request("bot", bot.once, file.lastSequence, active, bot.seen.sequence + 1, 1))
    /\ bot' = Off
    /\ UNCHANGED <<day, book, file, page>>
\* The state file is written before anything is sent.
Decide(active) ==
    /\ bot.at = "decide" /\ file.pending = None /\ Len(made) < RequestLimit
    /\ file.lastSequence # None => bot.seen.sequence = file.lastSequence
    /\ ~bot.seen.unfinished
    /\ made' = Append(made, Request("bot", bot.once, file.lastSequence, active, bot.seen.sequence + 1, 0))
    /\ file' = [file EXCEPT !.pending = Len(made')]
    /\ UNCHANGED <<day, book, bot, page>>

\* TARGET, unless the enclave had it when STATUS was read (its requests only grow, one
\* with each sequence); what it answers is only logged.
Send ==
    /\ bot.at = "decide" /\ file.pending # None
    /\ IF Place(book.requests, file.pending) \in 1..bot.seen.sequence
       THEN UNCHANGED made
       ELSE /\ bot.seen.sequence = made[file.pending].sequence - 1
            /\ made[file.pending].copies < CopyLimit
            /\ made' = [made EXCEPT ![file.pending].copies = @ + 1]
    /\ bot' = [bot EXCEPT !.at = "poll", !.seen = None]
    /\ UNCHANGED <<day, book, file, page>>

\* A request that ended in any other way stays pending, and ends the program.
Poll ==
    /\ bot.at = "poll"
    /\ LET place == Place(book.requests, file.pending) IN
       /\ place # 0 /\ book.requests[place].status = "EXECUTED"
       /\ file' = [active |-> made[file.pending].targets, lastDay |-> made[file.pending].day,
                   lastSequence |-> made[file.pending].sequence, pending |-> None]
    /\ bot' = Off
    /\ UNCHANGED <<day, made, book, page>>

Stop ==
    /\ bot.at # "off"
    /\ bot' = Off
    /\ UNCHANGED <<day, made, book, file, page>>

\* The operator edits the state file of a request that failed, after looking at the
\* positions (docs/mean-reversion-bot.md).
Reset ==
    /\ bot.at = "off" /\ file.pending # None
    /\ LET place == Place(book.requests, file.pending) IN place # 0 /\ book.requests[place].status = "FAILED"
    /\ file' = [NoFile EXCEPT !.lastDay = file.lastDay]
    /\ UNCHANGED <<day, made, book, bot, page>>

--------------------------------------------------------------------------------
(* The dashboard reads the sequence, then sends one target with a new id.    *)

PageReads ==
    /\ page = None /\ page' = book.sequence
    /\ UNCHANGED <<day, made, book, file, bot>>

PageSends ==
    /\ page # None /\ Len(made) < RequestLimit
    /\ made' = Append(made, Request("page", FALSE, None, None, page + 1, 1))
    /\ page' = None
    /\ UNCHANGED <<day, book, file, bot>>

--------------------------------------------------------------------------------
(* The enclave.  A refusal (a halted book, a settlement, a wrong sequence,   *)
(* another request unfinished) changes nothing, and nobody keeps its answer: *)
(* Lose.  A halted book ends the program as well: Stop.                      *)

\* The sequence is not compared.
Acceptable_Any(request) == ~Unfinished(book.requests)
Acceptable(request) == request.sequence = book.sequence + 1 /\ ~Unfinished(book.requests)

\* Of a request it has it keeps the first and answers with it: Lose.
Accept(id) ==
    /\ made[id].copies > 0
    /\ Place(book.requests, id) = 0
    /\ Acceptable(made[id])
    /\ made' = [made EXCEPT ![id].copies = @ - 1]
    /\ book' = [book EXCEPT !.sequence = made[id].sequence,
                            !.requests = Append(@, [id |-> id, status |-> "QUEUED"])]
    /\ UNCHANGED <<day, file, bot, page>>

Lose(id) ==
    /\ made[id].copies > 0
    /\ made' = [made EXCEPT ![id].copies = @ - 1]
    /\ UNCHANGED <<day, book, file, bot, page>>

\* FAILED stands for FAILED, EXPIRED and PARTIALLY_FILLED.
Finish(outcome) ==
    /\ \E i \in DOMAIN book.requests:
        /\ book.requests[i].status = "QUEUED"
        /\ book' = [book EXCEPT !.requests[i].status = outcome]
    /\ UNCHANGED <<day, made, file, bot, page>>

NextDay ==
    /\ day < LastDay /\ day' = day + 1
    /\ UNCHANGED <<made, book, file, bot, page>>

Next ==
    \/ \E once \in BOOLEAN: Start(once)
    \/ ReadStatus \/ Send \/ Poll \/ Stop \/ Reset
    \/ \E active \in Holdings: Decide(active)
    \/ PageReads \/ PageSends
    \/ \E id \in DOMAIN made: Accept(id) \/ Lose(id)
    \/ \E outcome \in {"EXECUTED", "FAILED"}: Finish(outcome)
    \/ NextDay

--------------------------------------------------------------------------------
\* A day's decision is carried out once: however often the program timed out, was
\* killed or started again, two of its scheduled requests of one day are not both
\* executed (runOnce, "Persist before network I/O").
OncePerDay ==
    \A i, j \in DOMAIN book.requests:
        LET a == made[book.requests[i].id]
            b == made[book.requests[j].id] IN
        (/\ i # j
         /\ a.by = "bot" /\ b.by = "bot" /\ ~a.once /\ ~b.once
         /\ book.requests[i].status = "EXECUTED" /\ book.requests[j].status = "EXECUTED")
        => a.day # b.day

\* What the program believes it holds was executed, and a decision it took from those
\* holdings is accepted only when no request, of the dashboard or of its own, came in
\* between (execution.mjs, accept: SEQUENCE_MISMATCH).
DecidesFromItsHoldings ==
    /\ file.lastSequence # None =>
        LET last == book.requests[file.lastSequence] IN
        /\ last.status = "EXECUTED"
        /\ made[last.id].by = "bot" /\ made[last.id].targets = file.active
    /\ \A i \in DOMAIN book.requests:
        LET request == made[book.requests[i].id] IN
        request.basis # None =>
            /\ request.basis = i - 1
            /\ book.requests[i - 1].status = "EXECUTED" /\ made[book.requests[i - 1].id].by = "bot"

================================================================================
