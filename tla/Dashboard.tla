------------------------------ MODULE Dashboard ------------------------------
(***************************************************************************)
(* A job as the bank sees it: one of six statuses, and the archive.        *)
(***************************************************************************)
VARIABLE key

Moves == [pending |-> {"assigned", "cancelled", "unable_to_complete"},
          assigned |-> {"pending", "in_progress", "unable_to_complete", "cancelled"},
          in_progress |-> {"completed", "unable_to_complete", "cancelled"},
          completed |-> {"archived"},
          cancelled |-> {"archived"},
          unable_to_complete |-> {"cancelled", "archived"},
          archived |-> {}]

Init == key = "pending"

Next == key' \in Moves[key]

Spec == Init /\ [][Next]_key
=============================================================================
