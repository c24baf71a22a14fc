------------------------------ MODULE MCEvidence ------------------------------
(* Small instances of Evidence for TLC. *)
EXTENDS Evidence, TLC

\* The drains of the queues are alike.
Drains == Permutations(Worker)
=============================================================================
