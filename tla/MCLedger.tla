------------------------------ MODULE MCLedger ------------------------------
(* Small instances of EnvelopeLedger for TLC. *)
EXTENDS EnvelopeLedger, TLC

CONSTANTS e1, e2, c1, c2

MCItem == {e1, e2}
\* e2 refers to what e1 creates.
MCNeeds == e1 :> {} @@ e2 :> {e1}
=============================================================================
