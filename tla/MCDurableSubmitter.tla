-------------------------- MODULE MCDurableSubmitter --------------------------
(* Small instances of DurableSubmitter for TLC. *)
EXTENDS DurableSubmitter, TLC

CONSTANTS id1, id2, req1, req2

LimitOf(crash, rpc, forget, write, rollback) ==
    [k \in FaultKinds |->
        CASE k = "crash" -> crash [] k = "rpc" -> rpc [] k = "forget" -> forget
          [] k = "write" -> write [] k = "rollback" -> rollback]

\* Every fault that loses something: each once (an
\* rpc error only ends a call early, as an expired poll does).
AllFaults == LimitOf(1, 0, 1, 1, 1)
\* The file is never rolled back and every save succeeds.
SoundStore == LimitOf(2, 1, 1, 0, 0)
\* One failed save.
OneFailedSave == LimitOf(0, 1, 0, 1, 0)
\* For the liveness run.
FewFaults == LimitOf(1, 1, 1, 0, 0)

Symmetric == Permutations({id1, id2}) \cup Permutations({req1, req2})
================================================================================
