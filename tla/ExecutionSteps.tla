---------------------------- MODULE ExecutionSteps ----------------------------
(***************************************************************************)
(* The durable submitter as the operator's job code uses it: every money   *)
(* movement is a step with an id of its own, and per id there is a record  *)
(* (submitter.lookup) and what the chain made of its transaction.  One     *)
(* transaction is in flight at a time.                                     *)
(*                                                                         *)
(* DurableSubmitter implements this specification when its sealed file can *)
(* be written and is not rolled back (StepsSpec there).                    *)
(***************************************************************************)
EXTENDS Naturals, FiniteSets

CONSTANT StepIds

VARIABLES
    record,     \* what the submitter's journal knows of a step
    mined       \* what the chain did with the step's transaction

stepVars == <<record, mined>>

Outcomes == {"ok", "reverted"}

InFlight == {s \in StepIds : record[s] = "signed"}

StepsInit ==
    /\ record = [s \in StepIds |-> "absent"]
    /\ mined = [s \in StepIds |-> "no"]

\* submit() signs and stores the only transaction this id will ever have; its
\* sync() has settled every earlier one.
Sign(s) ==
    /\ InFlight = {} /\ record[s] = "absent"
    /\ record' = [record EXCEPT ![s] = "signed"]
    /\ UNCHANGED mined

\* reconcile() finds the receipt and saves it.
Learn(s) ==
    /\ record[s] = "signed" /\ mined[s] \in Outcomes
    /\ record' = [record EXCEPT ![s] = mined[s]]
    /\ UNCHANGED mined

\* The chain takes the transaction, whether or not anybody is waiting for it.
Mine(s) ==
    /\ record[s] = "signed" /\ mined[s] = "no"
    /\ \E outcome \in Outcomes : mined' = [mined EXCEPT ![s] = outcome]
    /\ UNCHANGED record

StepsNext == \E s \in StepIds : Sign(s) \/ Learn(s) \/ Mine(s)

StepsSpec == StepsInit /\ [][StepsNext]_stepVars

StepsTypeOK ==
    /\ record \in [StepIds -> {"absent", "signed"} \cup Outcomes]
    /\ mined \in [StepIds -> {"no"} \cup Outcomes]

\* What callers rely on: a record with a receipt agrees with the chain, and an id
\* without a record has no transaction.
RecordsAgree ==
    /\ Cardinality(InFlight) <= 1
    /\ \A s \in StepIds :
          /\ record[s] \in Outcomes => mined[s] = record[s]
          /\ record[s] = "absent" => mined[s] = "no"
================================================================================
