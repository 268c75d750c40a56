------------------------------ MODULE PilotRewards -----------------------------
(***************************************************************************)
(* Whom the pilot listens to, and whom it pays: admitted actors with their *)
(* keys, the weights and the target of an epoch, the contribution of every *)
(* actor and its reward (src/pilot/policy.js, coordinator.js and           *)
(* settlePilot() of runner.js).  PilotFund has the deadlines and the       *)
(* failures of the commands, PilotTrading the exchange; here the profit of *)
(* an epoch is given.  Basis points are parts of Bps; floating-point       *)
(* scores are parts of ScoreScale.                                         *)
(***************************************************************************)
EXTENDS Integers, FiniteSetsExt, SequencesExt

CONSTANTS
    Actors, Keys, Owner, Late,      \* the actor of a key; the actors approved after the start
    AssetCount, Vectors,            \* what a key may submit
    Bps, ActorCap, AssetCap, MinActors, CostBps, MinHistory, MaxContribution, ScoreScale,
    Returns, Pools,                 \* of an epoch: what prices did, the fee pool
    EpochLimit, SettleLimit, SubmitLimit    \* bounds

VARIABLES
    roster,     \* approved actors and their keys
    history,    \* of every actor, an entry for each epoch it was in
    epoch,      \* the latest epoch
    evaluation  \* of the latest settled epoch

vars == <<roster, history, epoch, evaluation>>

Assets == 1 .. AssetCount
Nothing == <<>>
NoEpoch == [number |-> 0, status |-> "none", sent |-> 0, sealed |-> FALSE, previous |-> 0, actors |-> [a \in {} |-> {}], weights |-> [a \in {} |-> 0],
            submissions |-> [k \in Keys |-> Nothing], targets |-> [i \in Assets |-> 0]]
NoEvaluation == [number |-> 0, count |-> 0, actors |-> {}, contributions |-> [a \in {} |-> 0], paid |-> [a \in {} |-> 0],
                 pool |-> 0, value |-> 0, recovered |-> FALSE, missed |-> {}, next |-> [a \in {} |-> 0],
                 accepted |-> TRUE, before |-> 0, sameActors |-> TRUE, idle |-> FALSE]

FirstKey(a) == CHOOSE k \in Keys : Owner[k] = a
Init ==
    /\ roster = [a \in Actors \ Late |-> {FirstKey(a)}] /\ history = [a \in Actors |-> <<>>]
    /\ epoch = NoEpoch /\ evaluation = NoEvaluation

Abs(x) == IF x < 0 THEN -x ELSE x
Quotient(x, y) == IF x < 0 THEN -(Abs(x) \div y) ELSE x \div y
Clamp(x, low, high) == Max({low, Min({x, high})})
SumOf(set, f(_)) ==
    LET sum[rest \in SUBSET set] ==
            IF rest = {} THEN 0 ELSE LET x == CHOOSE x \in rest : TRUE IN f(x) + sum[rest \ {x}]
    IN  sum[set]
Factorial(n) == CASE n < 2 -> 1 [] n = 2 -> 2 [] n = 3 -> 6 [] n = 4 -> 24

--------------------------------------------------------------------------------
(* The policy. *)

\* groupSignals(): an actor's different vectors count once each, and their mean for it.
VectorsOf(e, a) == {e.submissions[k] : k \in e.actors[a]} \ {Nothing}
Submitted(e, a) == VectorsOf(e, a) # {}
Voice(e, a) ==
    [i \in Assets |-> IF Submitted(e, a)
                      THEN Quotient(SumOf(VectorsOf(e, a), LAMBDA v : v[i]), Cardinality(VectorsOf(e, a)))
                      ELSE 0]
Voices(e) == [a \in DOMAIN e.actors |-> Voice(e, a)]
\* target(): of a coalition, whose members keep their weights.
TargetOf(voices, weights, members) ==
    [i \in Assets |-> Clamp(Quotient(SumOf(members, LAMBDA a : weights[a] * voices[a][i]), Bps), -AssetCap, AssetCap)]

\* chooseActorWeights(): by what the actor contributed, how long it has, and how often it
\* was there; never above the cap.
Score(rows) ==
    LET settled == SelectSeq(rows, LAMBDA r : r.settled)
        kept == Len(settled) + MinHistory
        total == FoldLeft(LAMBDA n, r : n + Clamp(r.contribution, -MaxContribution, MaxContribution), 0, settled)
        present == Len(SelectSeq(rows, LAMBDA r : r.submitted))
        good == ScoreScale + Quotient(ScoreScale * total, kept * MaxContribution)
    IN  Max({ScoreScale \div 10, IF rows = <<>> THEN good ELSE Quotient(good * present, Len(rows))})
Weights(actors, past) ==
    LET total == SumOf(actors, LAMBDA a : Score(past[a])) IN
    [a \in actors |-> Min({ActorCap, (Cardinality(actors) * ActorCap * Score(past[a])) \div total})]

\* attributeActors(): the Shapley value of every actor, in parts of Bps * Factorial(n).
Value(target, returns) ==
    SumOf(Assets, LAMBDA i : target[i] * returns[i] - Abs(target[i]) * 2 * CostBps)
\* Fault variant: a coalition counts as if the actor were in it.
Orders_Joined(size, n) == Factorial(size + 1) * Factorial(n - size - 1)
Orders(size, n) == Factorial(size) * Factorial(n - size - 1)
Contributions(e, returns) ==
    LET actors == DOMAIN e.actors
        voices == Voices(e)
        values == [S \in SUBSET actors |-> Value(TargetOf(voices, e.weights, S), returns)]
        share(a, S) == Orders(Cardinality(S), Cardinality(actors)) * (values[S \cup {a}] - values[S])
    IN  [a \in actors |-> SumOf(SUBSET (actors \ {a}), LAMBDA S : share(a, S))]

\* allocateRewards(): in proportion to what was contributed, rounded down.
Allocations(contributions, pool) ==
    LET positive(a) == Max({0, contributions[a]})
        total == SumOf(DOMAIN contributions, positive)
    IN  [a \in DOMAIN contributions |-> IF total = 0 THEN 0 ELSE (pool * positive(a)) \div total]

--------------------------------------------------------------------------------
(* The coordinator. *)

\* approve(): one actor for an economic subject and its payout; linkKey(): another key of it.
Approve(a) ==
    /\ a \notin DOMAIN roster
    /\ roster' = [b \in DOMAIN roster \cup {a} |-> IF b = a THEN {FirstKey(a)} ELSE roster[b]]
    /\ UNCHANGED <<history, epoch, evaluation>>
LinkKey(k) ==
    /\ Owner[k] \in DOMAIN roster /\ k \notin roster[Owner[k]]
    /\ roster' = [roster EXCEPT ![Owner[k]] = @ \cup {k}] /\ UNCHANGED <<history, epoch, evaluation>>

Ended == epoch.status \in {"none", "SETTLED", "CANCELLED"}
SealedTargets(e) == TargetOf(Voices(e), e.weights, DOMAIN e.actors)
\* open(): the roster and the weights are frozen; an epoch that was sealed has a manifest,
\* which the next one names.
Open ==
    /\ Ended /\ Cardinality(DOMAIN roster) >= MinActors /\ epoch.number < EpochLimit /\ evaluation.count < SettleLimit
    /\ epoch' = [NoEpoch EXCEPT !.number = epoch.number + 1, !.sent = epoch.sent, !.status = "OPEN", !.actors = roster,
                                !.previous = IF epoch.sealed THEN epoch.number ELSE 0,
                                !.weights = Weights(DOMAIN roster, history)]
    /\ UNCHANGED <<roster, history, evaluation>>
\* submit(): a key of the frozen roster, once.
Submit(k, vector) ==
    /\ epoch.status = "OPEN" /\ epoch.submissions[k] = Nothing
    /\ Owner[k] \in DOMAIN epoch.actors /\ k \in epoch.actors[Owner[k]]
    /\ epoch.sent < SubmitLimit
    /\ epoch' = [epoch EXCEPT !.submissions[k] = vector, !.sent = @ + 1] /\ UNCHANGED <<roster, history, evaluation>>
\* seal(): aggregateActors(), if enough actors are there.
Seal ==
    /\ epoch.status = "OPEN" /\ Cardinality({a \in DOMAIN epoch.actors : Submitted(epoch, a)}) >= MinActors
    /\ epoch' = [epoch EXCEPT !.status = "SEALED", !.sealed = TRUE, !.targets = SealedTargets(epoch)]
    /\ UNCHANGED <<roster, history, evaluation>>
\* A cancelled epoch, too, is an obligation of everybody in it.
Obliged(e, a) == [contribution |-> 0, settled |-> FALSE, submitted |-> Submitted(e, a)]
Cancel ==
    /\ epoch.status \in {"OPEN", "SEALED"} /\ epoch' = [epoch EXCEPT !.status = "CANCELLED"]
    /\ history' = [a \in Actors |-> IF a \in DOMAIN epoch.actors THEN Append(history[a], Obliged(epoch, a)) ELSE history[a]]
    /\ UNCHANGED <<roster, evaluation>>

\* settlePilot(): the rewards leave before the evaluation is saved; here at once, since a
\* retry computes the same from what is frozen.  A recovered epoch pays nothing and counts
\* as an obligation only.
Row(e, a, contributions, recovered) ==
    [contribution |-> Quotient(contributions[a], Bps * Factorial(Cardinality(DOMAIN e.actors))),
     settled |-> ~recovered, submitted |-> Submitted(e, a)]
\* Fault variant: the weights for the next epoch are chosen before this one is added.
Extended_Late(past, e, contributions, recovered) == past
Extended(past, e, contributions, recovered) ==
    [a \in Actors |-> IF a \in DOMAIN e.actors THEN Append(past[a], Row(e, a, contributions, recovered)) ELSE past[a]]
\* verify.js, of a settled epoch and the one settled before: it ended when it was to end, it
\* was entered and left, its manifest names the other's, and its weights are those the
\* other's evaluation committed to.
Accepted(e, recovered) ==
    /\ ~recovered /\ \E i \in Assets : e.targets[i] # 0
    /\ evaluation.number # 0 => e.previous = evaluation.number /\ e.weights = evaluation.next
Settle(returns, pool, recovered) ==
    LET contributions == Contributions(epoch, returns)
        members == DOMAIN epoch.actors
    IN  /\ epoch.status = "SEALED" /\ epoch' = [epoch EXCEPT !.status = "SETTLED"]
        /\ history' = [a \in Actors |-> IF a \in members THEN Append(history[a], Row(epoch, a, contributions, recovered))
                                        ELSE history[a]]
        /\ evaluation' =
               [number |-> epoch.number, count |-> evaluation.count + 1, actors |-> members, contributions |-> contributions,
                pool |-> pool, paid |-> Allocations(contributions, IF recovered THEN 0 ELSE pool),
                value |-> Value(epoch.targets, returns), recovered |-> recovered,
                missed |-> {a \in members : ~Submitted(epoch, a)},
                accepted |-> Accepted(epoch, recovered), before |-> evaluation.number,
                sameActors |-> members = evaluation.actors, idle |-> \A i \in Assets : epoch.targets[i] = 0,
                next |-> Weights(members, Extended(history, epoch, contributions, recovered))]
        /\ UNCHANGED roster

Next ==
    \/ \E a \in Late : Approve(a)
    \/ \E k \in Keys : LinkKey(k) \/ \E vector \in Vectors[k] : Submit(k, vector)
    \/ Open \/ Seal \/ Cancel
    \/ \E returns \in Returns, pool \in Pools, recovered \in BOOLEAN : Settle(returns, pool, recovered)
Spec == Init /\ [][Next]_vars

--------------------------------------------------------------------------------
(* Properties. *)

\* What the target made is attributed to the actors, all of it and no more; rewards stay
\* within the pool, and nobody is paid that was not there, or that did not help.
RewardsAreEarned ==
    LET paid(a) == evaluation.paid[a]
        contributed(a) == evaluation.contributions[a]
    IN  /\ SumOf(evaluation.actors, contributed) = Factorial(Cardinality(evaluation.actors)) * evaluation.value
        /\ SumOf(evaluation.actors, paid) <= evaluation.pool
        /\ \A a \in evaluation.actors :
              /\ a \in evaluation.missed => contributed(a) = 0
              /\ paid(a) > 0 => contributed(a) > 0 /\ ~evaluation.recovered

\* The weights that were committed to with a settlement are those the next epoch uses, as
\* long as it has the same actors and, if an epoch was cancelled in between, everybody was
\* always there; and two keys of an actor never weigh more than one.
WeightsWereCommitted ==
    /\ epoch.status # "none" /\ evaluation.number # 0 /\ evaluation.number < epoch.number
       /\ evaluation.actors = DOMAIN epoch.actors /\ epoch.weights # evaluation.next =>
          /\ epoch.number # evaluation.number + 1
          /\ \E a \in evaluation.actors : \E n \in DOMAIN history[a] : ~history[a][n].submitted
    /\ \A i \in Assets : Abs(epoch.targets[i]) <= ActorCap * Cardinality(DOMAIN epoch.actors)

\* The auditor accepts an honest settlement unless its outcome was recovered late, its target
\* was zero, or, since the settlement before it, an epoch was cancelled or an actor approved.
SettlementsAreAccepted ==
    evaluation.number # 0 =>
        (evaluation.accepted <=>
            /\ ~evaluation.recovered /\ ~evaluation.idle
            /\ evaluation.before # 0 => evaluation.before = evaluation.number - 1 /\ evaluation.sameActors)
================================================================================
