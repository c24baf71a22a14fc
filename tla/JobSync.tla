------------------------------- MODULE JobSync -------------------------------
(***************************************************************************)
(* How the phone learns of its jobs.  The office, the agents' actions and  *)
(* the expiry of assignments change rows of pos.jobs; the phone reads them *)
(* page by page behind a keyset cursor (updated_at, id), and keeps a row   *)
(* of its own per job, which the agent's own actions change first.         *)
(*                                                                         *)
(* updated_at is now(): the moment a transaction BEGAN.  So a transaction  *)
(* is open for a while, and its rows become visible, with the older stamp, *)
(* when it commits.  Times here number the transactions.                   *)
(*                                                                         *)
(* A job's assignment is taken with its row: it is pending while the job   *)
(* is "assigned", and ends with it.  Visits and their statuses, the other  *)
(* streams, and what a page carries without a cursor are left out.         *)
(***************************************************************************)
EXTENDS Integers, Sequences, FiniteSets

CONSTANTS
  Job,       \* ids of jobs, which are ordered: the jobs are numbered by their ids
  User,      \* the agents who use this phone
  Limit,     \* rows in a page (200)
  MaxPages,  \* pages in a pull (20)
  MaxClock   \* bound: transactions the office begins

ASSUME JobSyncAssumption ==
  /\ IsFiniteSet(Job) /\ Job = 1 .. Cardinality(Job)
  /\ User # {}
  /\ Limit \in Nat \ {0} /\ MaxPages \in Nat \ {0}
  /\ MaxClock \in Nat

VARIABLES
  clock,   \* the last transaction that began
  row,     \* row[j]: the job on the server
  open,    \* transactions of the office that have not committed
  user,    \* who is signed in on the phone
  local,   \* local[j]: the job on the phone
  cursor,  \* the stored cursor of the jobs stream
  queue,   \* queue[j]: the agent's actions on j the server has not got
  shown,   \* shown[j]: what those actions made of j on the phone
  pc,      \* what the sync run is doing
  page,    \* the page on its way
  pages,   \* pages of this pull
  offered  \* positions a stored cursor has passed while their rows could be
           \* read by the agent who is signed in; the program does not keep it

serverVars == <<clock, row, open>>
phoneVars == <<local, cursor, queue, shown>>
runVars == <<pc, page, pages>>
vars == <<serverVars, user, phoneVars, runVars, offered>>

-----------------------------------------------------------------------------
Absent == [status |-> "absent", mine |-> FALSE]
NoOne == "no one"
Action == {"accept", "reject", "unable"}
NoPage == [rows |-> {}, views |-> <<>>, next |-> <<0, 0>>, more |-> FALSE,
           covers |-> {}]

Init ==
  /\ clock = Cardinality(Job)
  /\ row \in [Job -> [at : 0..clock, status : {"scheduled", "assigned"},
                      owner : User \cup {NoOne}, ever : SUBSET User]]
  /\ \A j \in Job :
       /\ row[j].at = j
       /\ row[j].ever = {row[j].owner} \ {NoOne}
       /\ (row[j].status = "assigned") <=> (row[j].owner # NoOne)
  /\ open = {} /\ user \in User
  /\ local = [j \in Job |-> Absent] /\ shown = [j \in Job |-> Absent]
  /\ queue = [j \in Job |-> <<>>]
  /\ cursor = <<0, 0>>
  /\ pc = "idle" /\ page = NoPage /\ pages = 0 /\ offered = {}

-----------------------------------------------------------------------------
\* The office.

\* Someone allocates, revokes, cancels or moves the visit of a job, or the
\* expiry of assignments starts on those without an answer.
Begin(kind, S) ==
  /\ clock < MaxClock
  /\ clock' = clock + 1
  /\ open' = open \cup {[at |-> clock + 1, kind |-> kind, jobs |-> S]}
  /\ UNCHANGED <<row, user, phoneVars, runVars, offered>>

\* Mutant: the trigger does not stamp the row.
StampNot(r, t) == r

Stamp(r, t) == [r EXCEPT !.at = t.at]

Allocate(r, t, u) ==
  [Stamp(r, t) EXCEPT !.status = "assigned", !.owner = u, !.ever = @ \cup {u}]

Release(r, t) == [Stamp(r, t) EXCEPT !.status = "scheduled", !.owner = NoOne]

\* What a transaction makes of a row it may change, once it has its lock.
Changed(r, t, u) ==
  CASE t.kind = "allocate" /\ r.status = "scheduled" -> Allocate(r, t, u)
    [] t.kind = "revoke" /\ r.status \in {"assigned", "accepted"} -> Release(r, t)
    [] t.kind = "expire" /\ r.status = "assigned" -> Release(r, t)
    [] t.kind = "cancel" /\ r.status # "cancelled" ->
         [Stamp(r, t) EXCEPT !.status = "cancelled"]
    [] t.kind = "reschedule" /\ r.status \in {"scheduled", "assigned", "accepted"} ->
         Stamp(r, t)
    [] OTHER -> r

Commit(t) ==
  \E u \in User :
    /\ row' = [j \in Job |-> IF j \in t.jobs THEN Changed(row[j], t, u) ELSE row[j]]
    /\ open' = open \ {t}
    /\ UNCHANGED <<clock, user, phoneVars, runVars, offered>>

Office ==
  \/ \E kind \in {"allocate", "revoke", "cancel", "reschedule"}, j \in Job :
       Begin(kind, {j})
  \/ Begin("expire", Job)
  \/ \E t \in open : Commit(t)

-----------------------------------------------------------------------------
\* The agent.

Allowed(kind, v) ==
  /\ v.mine
  /\ IF kind = "unable" THEN v.status = "accepted" ELSE v.status = "assigned"

StatusAfter == [accept |-> "accepted", reject |-> "scheduled",
                unable |-> "unable_to_complete"]

\* The job's new status on the phone and the envelope, in one transaction.
Record(j, kind) ==
  /\ Allowed(kind, local[j])
  /\ LET v == [status |-> StatusAfter[kind], mine |-> kind # "reject"]
     IN local' = [local EXCEPT ![j] = v] /\ shown' = [shown EXCEPT ![j] = v]
  /\ queue' = [queue EXCEPT ![j] = Append(@, [kind |-> kind, by |-> user])]
  /\ UNCHANGED <<serverVars, user, cursor, runVars, offered>>

SignIn(u) ==
  /\ u # user /\ user' = u
  /\ offered' = {} /\ page' = [page EXCEPT !.covers = {}]
  /\ UNCHANGED <<serverVars, phoneVars, pc, pages>>

-----------------------------------------------------------------------------
\* The sync run: send, then pull page by page.

StartRun ==
  /\ pc = "idle" /\ pc' = "drain"
  /\ UNCHANGED <<serverVars, user, phoneVars, page, pages, offered>>

\* The server takes the action if it still fits, and otherwise only writes
\* down that it came: the row keeps its stamp.
Fits(a, r) ==
  /\ r.owner = a.by
  /\ r.status \in IF a.kind = "unable" THEN {"assigned", "accepted"} ELSE {"assigned"}

AfterAction(a, r, at) ==
  IF a.kind = "reject" THEN Release(r, [at |-> at])
  ELSE [r EXCEPT !.at = at, !.status = StatusAfter[a.kind]]

SendNext(j) ==
  /\ pc = "drain" /\ queue[j] # <<>>
  /\ queue' = [queue EXCEPT ![j] = Tail(@)]
  /\ IF Fits(Head(queue[j]), row[j])
     THEN /\ clock' = clock + 1
          /\ row' = [row EXCEPT ![j] = AfterAction(Head(queue[j]), @, clock + 1)]
     ELSE UNCHANGED <<clock, row>>
  /\ UNCHANGED <<open, user, local, cursor, shown, runVars, offered>>

\* Everything is sent, or a call failed; the run goes on to the pull.
DrainEnds ==
  /\ pc = "drain" /\ pc' = "pull" /\ pages' = 0
  /\ UNCHANGED <<serverVars, user, phoneVars, page, offered>>

Pos(j) == <<row[j].at, j>>

After(p, q) == p[1] > q[1] \/ (p[1] = q[1] /\ p[2] > q[2])

Behind(p, q) == ~After(p, q)

\* A phone's agent sees the jobs ever assigned to him.
Visible(j) == user \in row[j].ever

\* Mutant: a full page is taken for the last.
HasMoreOver(n) == n > Limit

HasMore(n) == n >= Limit

ViewOf(j) == [status |-> row[j].status, mine |-> row[j].owner = user]

\* The rows there are to read, by the keyset condition.
Due == {j \in Job : Visible(j) /\ After(Pos(j), cursor)}

\* Mutant: the latest ones.
Latest(S) == {j \in S : Cardinality({i \in S : After(Pos(i), Pos(j))}) < Limit}

\* The first ones of S in the order of their positions, as many as a page holds.
First(S) == {j \in S : Cardinality({i \in S : After(Pos(j), Pos(i))}) < Limit}

\* The position of the last row of a page.
LastPos(S) == Pos(CHOOSE j \in S : \A i \in S : Behind(Pos(i), Pos(j)))

PullRead ==
  LET got == First(Due)
      next == IF got = {} THEN cursor ELSE LastPos(got)
  IN /\ pc = "pull" /\ pc' = "page"
     /\ page' = [rows |-> got, views |-> [j \in got |-> ViewOf(j)],
                 next |-> next, more |-> HasMore(Cardinality(got)),
                 covers |-> {Pos(j) : j \in {i \in Due : Behind(Pos(i), next)}}]
     /\ pages' = pages + 1
     /\ UNCHANGED <<serverVars, user, phoneVars, offered>>

Waiting(j) == queue[j] # <<>>

\* Mutant: the row is taken as it comes.
KeptNever(j) == FALSE

\* While an action waits, a job the phone has keeps its status.
Kept(j) == Waiting(j) /\ local[j] # Absent

\* The rows of the page that are taken as they come.
Taken == {j \in page.rows : ~Kept(j)}

PullApply ==
  /\ pc = "page"
  /\ local' = [j \in Job |-> IF j \in Taken THEN page.views[j] ELSE local[j]]
  /\ shown' = [j \in Job |-> IF j \in Taken THEN Absent ELSE shown[j]]
  /\ cursor' = page.next
  /\ offered' = {o \in offered \cup page.covers : \E j \in Job : o = Pos(j)}
  /\ pc' = IF page.more /\ pages < MaxPages THEN "pull" ELSE "idle"
  /\ page' = NoPage
  /\ UNCHANGED <<serverVars, user, queue, pages>>

PullFails ==
  /\ pc \in {"pull", "page"} /\ pc' = "idle" /\ page' = NoPage
  /\ UNCHANGED <<serverVars, user, phoneVars, pages, offered>>

Run ==
  \/ StartRun
  \/ \E j \in Job : SendNext(j)
  \/ DrainEnds
  \/ PullRead
  \/ PullApply
  \/ PullFails

Next ==
  \/ Office
  \/ \E j \in Job, kind \in Action : Record(j, kind)
  \/ \E u \in User : SignIn(u)
  \/ Run

Spec == Init /\ [][Next]_vars

\* The app keeps running syncs, and a page gets through again and again; a
\* transaction of the office ends.
Fairness ==
  /\ WF_vars(StartRun) /\ WF_vars(DrainEnds)
  /\ SF_vars(PullRead) /\ SF_vars(PullApply)
  /\ \A j \in Job : SF_vars(SendNext(j))
  /\ WF_vars(\E t \in open : Commit(t))

-----------------------------------------------------------------------------
\* The phone has job j as the server has it, or as the agent's own last
\* action left it.
Knows(j) == Visible(j) => local[j] = ViewOf(j) \/ (shown[j] # Absent /\ local[j] = shown[j])

\* A row that had committed, and was the agent's, when the cursor passed it is
\* on the phone as it is on the server: PullEngine._apply moves the cursor in
\* the transaction that stores the page, and sync_read reads in its order.
BehindCursor == \A j \in Job : Pos(j) \in offered => Knows(j)

\* A pull does not undo what the agent did: while an action on a job waits
\* on the phone, no page changes the job's status there.
NeverUndone ==
  [][\A j \in Job : Waiting(j) /\ Waiting(j)' /\ queue[j] = queue'[j] => local'[j] = local[j]]_vars

\* A page that says it is the last one leaves nothing unread behind it.
LastIsLast ==
  [][PullRead /\ ~page'.more =>
       \A j \in Job : Visible(j) => Behind(Pos(j), page'.next)]_vars

\* The cursor went past j before j could be read: its transaction was open
\* then, or another agent was signed in.
PassedOver(j) == Behind(Pos(j), cursor) /\ Pos(j) \notin offered

\* However few rows a page holds and however few pages a pull takes, the
\* phone comes to know every job of its agent once the office is quiet,
\* except those the cursor has passed over.
LearnsAll == <>[](\A j \in Job : Knows(j) \/ PassedOver(j))

=============================================================================
