----------------------------- MODULE MCIsolates -----------------------------
(* Small instances of Isolates for TLC. *)
EXTENDS Isolates

NoNeeds == [i \in Item |-> {}]

=============================================================================
