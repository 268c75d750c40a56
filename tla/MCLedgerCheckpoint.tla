--------------------------- MODULE MCLedgerCheckpoint ---------------------------
(* Small instances of LedgerCheckpoint for TLC. *)
EXTENDS LedgerCheckpoint

CONSTANTS alpha, beta

AlphaThenBeta == <<alpha, beta>>
OneEach == [k \in TroubleKinds |-> 1]
================================================================================
