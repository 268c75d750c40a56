------------------------------ MODULE EffectLog ------------------------------
(***************************************************************************)
(* What the durable submitter promises its callers, with nothing about     *)
(* journals, nonces, files or crashes: an append-only log of effects in    *)
(* which a request id appears at most once, and answers that are only      *)
(* given for effects that are in the log and succeeded.                    *)
(***************************************************************************)
EXTENDS Naturals, Sequences

CONSTANTS Ids, Requests

VARIABLES
    log,        \* effects in the order they happened
    answered    \* calls that were told their request is done

Effect == [id : Ids, request : Requests, ok : BOOLEAN]

Init == log = <<>> /\ answered = {}

\* A request takes effect (or is mined and reverts), once per id.
Apply(e) ==
    /\ \A k \in DOMAIN log : log[k].id # e.id
    /\ log' = Append(log, e)
    /\ UNCHANGED answered

\* A caller is told that its request is done.
Answer(i, r) ==
    /\ \E k \in DOMAIN log : log[k] = [id |-> i, request |-> r, ok |-> TRUE]
    /\ answered' = answered \cup {[id |-> i, request |-> r]}
    /\ UNCHANGED log

Next ==
    \/ \E e \in Effect : Apply(e)
    \/ \E i \in Ids, r \in Requests : Answer(i, r)

Spec == Init /\ [][Next]_<<log, answered>>
================================================================================
