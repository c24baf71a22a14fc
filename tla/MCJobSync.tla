------------------------------ MODULE MCJobSync ------------------------------
(* JobSync on small instances: one or two jobs, pages of one row.          *)
EXTENDS JobSync

\* The fewest rows a page can hold, the case in which paging happens.
OneRow == 1

\* The phone changes hands at most once.
HandedOnce == user' # user => user = "u"
MCSpec == Init /\ [][Next /\ HandedOnce]_vars /\ Fairness

=============================================================================
