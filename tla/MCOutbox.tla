------------------------------ MODULE MCOutbox ------------------------------
(***************************************************************************)
(* Small instances of Outbox for TLC.                                      *)
(***************************************************************************)
EXTENDS Outbox, TLC

CONSTANTS e1, e2, w1, w2

BothEvents == {e1, e2}
OneEvent == {e1}
BothWorkers == {w1, w2}

AllOutcomes == HandlerOutcomes
PlainOutcomes == {"ok", "error"}
OutcomesAndPanic == {"ok", "error", "panic"}

WorkerSymmetry == Permutations(BothWorkers)
Symmetry == WorkerSymmetry \cup Permutations(BothEvents)
=============================================================================
