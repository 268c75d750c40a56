----------------------------- MODULE MCCashAccounts -----------------------------
(* Small instances of CashAccounts for TLC. *)
EXTENDS CashAccounts, TLC

CONSTANTS w1, w2, k1, k2, k3, k4, dep1

\* The first three keys are one customer's, the others another's.
First == {k1, k2, k3}
TwoCustomers == [k \in Keys |-> IF k \in First THEN w1 ELSE w2]
================================================================================
