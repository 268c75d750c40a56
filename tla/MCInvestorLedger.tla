--------------------------- MODULE MCInvestorLedger ----------------------------
(* Small instances of InvestorLedger for TLC. *)
EXTENDS InvestorLedger

CONSTANTS alice, bob, w1, w2

AliceThenBob == <<alice, bob>>
OneThenTwo == <<w1, w2>>
Narrow == {[investors |-> 1, lots |-> 1]}
WideOrNarrow == Narrow \cup {[investors |-> 2, lots |-> 2]}
\* What closing positions costs: something, or less than nothing: a gain that overcharges a lot
\* when one redeemer has all of it, and none when two share it.
LossOrGain == {2, -160}
AtMost == [k \in Kinds |-> IF k \in {"allocate", "activate"} THEN 2 ELSE 1]
================================================================================
