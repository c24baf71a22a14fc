----------------------------- MODULE MCDelivery -----------------------------
(* Small instances of Delivery for TLC. *)
EXTENDS Delivery, TLC

CONSTANTS a, b, p, q

\* One envelope, whatever happens to it.
OneItem == {a}
NoNeedsAlone == a :> {}

\* Two envelopes the server refuses, each in its way, and the reports.
Refused == {a, b, p, q}
NoNeeds == [i \in Refused |-> {}]

\* A run that leaves out stragglers, worker and admin to look at the batch.
\* No step that is treated as fair ends this.
Undisturbed ==
  /\ late = {} /\ picked \cup reopened = {}
  /\ \A i \in Item : row[i].resolution = "none"
  /\ \A x \in landed : x[1] = "live"

\* What refuses an item disturbs nothing.
QuietNext ==
  \/ RequestRefused \/ \E i \in Item : RefuseWrapper(i)
  \/ Next /\ Undisturbed'

QuietSpec == Init /\ [][QuietNext]_vars /\ Fairness

=============================================================================
