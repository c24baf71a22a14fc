--------------------------------- MODULE Jobs ---------------------------------
(***************************************************************************)
(* The life of one job on the server: the office books, allocates, revokes *)
(* and cancels it, a timer takes it from an agent who does not answer, and *)
(* the agents' phones tell of answers, visits and submissions.  Phones are *)
(* offline for long: what an agent did may arrive after the office has     *)
(* given the job to somebody else, and, for an envelope that was held,     *)
(* after what the same agent did later.                                    *)
(*                                                                         *)
(* A visit (pos.inspections) is named by its number within the job and the *)
(* agent who made it.  The evidence of a visit is a model of its own       *)
(* (Evidence): here a submitted visit is, at some moment, found complete   *)
(* or damaged.  Reasons, notes, tokens, flags, alerts and messages to      *)
(* people are left out, and so is the appointment's time.                  *)
(***************************************************************************)
EXTENDS Integers, Sequences, FiniteSets, SequencesExt, Functions

CONSTANTS
  Agent,
  MaxVisit,   \* bound: visits of the job
  MaxMoves,   \* bound: steps of the office, contact attempts aside
  MaxEvents,  \* bound: events the agents record, all together
  MaxHeld     \* bound: events the server holds at one time

ASSUME JobsAssumption ==
  /\ IsFiniteSet(Agent) /\ "no one" \notin Agent
  /\ MaxVisit \in Nat \ {0} /\ MaxMoves \in Nat /\ MaxEvents \in Nat
  /\ MaxHeld \in Nat

VARIABLES
  status,     \* the job's status
  agent,      \* assigned_to
  asg,        \* the job's assignments, oldest first: who, and what came of it
  visit,      \* visit[k]: the visit with number k
  contacted,  \* a contact attempt has been logged
  moves,      \* steps of the office so far, contact attempts aside
  view,       \* view[u]: the job on u's phone
  local,      \* local[u][k]: u's own visit k on the phone
  net,        \* events recorded on a phone that the server has not applied
  held,       \* those of them the server has, and could not apply
  count       \* count[u]: events u has recorded

serverVars == <<status, agent, asg, visit, contacted>>
phoneVars == <<view, local, net, held, count>>
vars == <<serverVars, moves, phoneVars>>

-----------------------------------------------------------------------------
NoOne == "no one"
Visit == 1..MaxVisit
Status == {"pending", "scheduled", "assigned", "accepted", "in_progress",
           "paused", "submitted", "under_review", "returned", "approved",
           "rejected", "unable_to_complete", "appointment_not_secured",
           "cancelled", "closed"}
Running == {"in_progress", "paused"}
Undecided == {"submitted", "under_review", "integrity_failed"}
Decision == {"approved", "returned", "rejected"}
Live == {"pending", "accepted"}
NoVisit == [user |-> NoOne, status |-> "none"]
Unseen == [status |-> "absent", mine |-> FALSE, visits |-> 0]

Init ==
  /\ status = "pending" /\ agent = NoOne /\ asg = <<>>
  /\ visit = [k \in Visit |-> NoVisit]
  /\ contacted = FALSE /\ moves = 0
  /\ view = [u \in Agent |-> Unseen]
  /\ local = [u \in Agent |-> [k \in Visit |-> "none"]]
  /\ net = {} /\ held = {} /\ count = [u \in Agent |-> 0]

-----------------------------------------------------------------------------
\* The state machine of a job, a table in the database: who may take it from
\* which status to which.
AtWork == {"in_progress", "paused", "returned"}
Ended == {"approved", "rejected", "unable_to_complete",
          "appointment_not_secured", "cancelled"}

job_transitions == [
  scheduler |-> {<<"pending", "scheduled">>, <<"scheduled", "pending">>,
                 <<"pending", "appointment_not_secured">>},
  admin |-> {<<"scheduled", "assigned">>, <<"assigned", "scheduled">>,
             <<"accepted", "scheduled">>}
            \cup (({"pending", "scheduled", "assigned", "accepted",
                     "unable_to_complete"} \cup AtWork) \X {"cancelled"})
            \cup (Ended \X {"closed"}),
  agent |-> {<<"assigned", "scheduled">>, <<"assigned", "accepted">>,
             <<"paused", "in_progress">>}
            \cup ({"assigned", "accepted", "returned"} \X {"in_progress"})
            \cup (({"assigned", "accepted"} \cup AtWork)
                    \X {"submitted", "unable_to_complete"}),
  reviewer |-> ({"submitted", "under_review"} \X Decision)
               \cup {<<"submitted", "under_review">>},
  system |-> {<<"assigned", "scheduled">>, <<"in_progress", "paused">>,
              <<"submitted", "under_review">>} \cup (Ended \X {"closed"})]

can_transition(to, actor) == <<status, to>> \in job_transitions[actor]

transition_job(to, actor) == can_transition(to, actor) /\ status' = to

-----------------------------------------------------------------------------
\* The office.

Office == moves < MaxMoves /\ moves' = moves + 1 /\ UNCHANGED phoneVars

CanContact == status \in {"pending", "scheduled", "assigned", "accepted"}

ContactAttempt ==
  /\ CanContact
  /\ contacted' = TRUE
  /\ UNCHANGED <<status, agent, asg, visit, moves, phoneVars>>

Schedule ==
  /\ Office
  /\ contacted /\ transition_job("scheduled", "scheduler")
  /\ UNCHANGED <<agent, asg, visit, contacted>>

Unschedule ==
  /\ Office
  /\ transition_job("pending", "scheduler")
  /\ UNCHANGED <<agent, asg, visit, contacted>>

NotSecured ==
  /\ Office
  /\ contacted /\ transition_job("appointment_not_secured", "scheduler")
  /\ UNCHANGED <<agent, asg, visit, contacted>>

\* The responses of the assignments that are in R become r.
Respond(R, r) ==
  [i \in DOMAIN asg |-> IF asg[i].response \in R
                        THEN [asg[i] EXCEPT !.response = r] ELSE asg[i]]

Offer(u, s) == Append(s, [user |-> u, response |-> "pending"])

Allocate(u) ==
  /\ Office
  /\ transition_job("assigned", "admin")
  /\ asg' = Offer(u, asg) /\ agent' = u
  /\ UNCHANGED <<visit, contacted>>

CanRevoke == status \in {"assigned", "accepted"}

\* Mutant: only an assignment without an answer is revoked.
RevokedUnanswered == Respond({"pending"}, "revoked")

Revoked == Respond(Live, "revoked")

Revoke ==
  /\ Office
  /\ CanRevoke /\ status' = "scheduled"
  /\ asg' = Revoked /\ agent' = NoOne
  /\ UNCHANGED <<visit, contacted>>

\* Revoke and allocate, in one transaction.
Reassign(u) ==
  /\ Office
  /\ agent # u /\ CanRevoke
  /\ status' = "assigned" /\ asg' = Offer(u, Revoked) /\ agent' = u
  /\ UNCHANGED <<visit, contacted>>

Cancel ==
  /\ Office
  /\ transition_job("cancelled", "admin")
  /\ asg' = Revoked
  /\ UNCHANGED <<agent, visit, contacted>>

Close ==
  /\ Office
  /\ transition_job("closed", "admin")
  /\ UNCHANGED <<agent, asg, visit, contacted>>

Latest == Max({0} \cup {k \in Visit : visit[k] # NoVisit})

JobFollows(k, d) == k = Latest /\ can_transition(d, "reviewer")

\* A reviewer decides on visit k.  The job follows if it is the last visit
\* and the job can; else the decision is only recorded.
Review(k, d) ==
  /\ Office
  /\ visit[k].status \in Undecided
  /\ d = "approved" => visit[k].status # "submitted"
  /\ visit' = [visit EXCEPT ![k].status = d]
  /\ status' = IF JobFollows(k, d) THEN d ELSE status
  /\ UNCHANGED <<agent, asg, contacted>>

-----------------------------------------------------------------------------
\* The server's own steps.

ExpireJob == transition_job("scheduled", "system") /\ agent' = NoOne

\* The agent did not answer in time.
Expire ==
  /\ status = "assigned" /\ \E i \in DOMAIN asg : asg[i].response = "pending"
  /\ asg' = Respond({"pending"}, "expired")
  /\ ExpireJob
  /\ UNCHANGED <<visit, contacted, moves, phoneVars>>

UnderReview(s) == IF s = "submitted" THEN "under_review" ELSE s

\* The last photo of a visit was verified, or one was found damaged.
promote_inspection(k) ==
  /\ \/ visit[k].status = "submitted"
        /\ visit' = [visit EXCEPT ![k].status = "under_review"]
     \/ visit[k].status \in {"submitted", "under_review"}
        /\ visit' = [visit EXCEPT ![k].status = "integrity_failed"]
  /\ status' = UnderReview(status)
  /\ UNCHANGED <<agent, asg, contacted, moves, phoneVars>>

-----------------------------------------------------------------------------
\* A phone.  What it records is applied to its own copy of the job at once.

\* Bound: what the phones tell.
MayTell == FoldFunctionOnSet(+, 0, count, Agent) < MaxEvents

Tell(u, kind, k) ==
  /\ MayTell
  /\ count' = [count EXCEPT ![u] = @ + 1]
  /\ net' = net \cup {[kind |-> kind, by |-> u, k |-> k, n |-> count[u] + 1]}
  /\ UNCHANGED <<serverVars, moves, held>>

Holds(e) == visit[e.k].user = e.by

\* A pause or resume names its visit, and waits for one not known yet.
Deferred(e) == e.kind \in {"pause", "resume"} /\ ~Holds(e)

\* Something of u's is still to be sent.  What the server has but defers or
\* holds, to apply later, does not count.
Waiting(u) == \E e \in net \ held : e.by = u /\ ~Deferred(e)

\* The job as the server has it; the status the agent gave it stays while
\* anything of the agent's waits.
Pull(u) ==
  /\ \E i \in DOMAIN asg : asg[i].user = u
  /\ view' = [view EXCEPT ![u] =
                IF Waiting(u) /\ @.status # "absent"
                THEN [@ EXCEPT !.visits = Latest]
                ELSE [status |-> status, mine |-> agent = u, visits |-> Latest]]
  /\ view' # view
  /\ UNCHANGED <<serverVars, moves, local, net, held, count>>

JobIs(u, s) == view' = [view EXCEPT ![u].status = s]

Accept(u) ==
  /\ view[u].mine /\ view[u].status = "assigned"
  /\ Tell(u, "accept", 0) /\ JobIs(u, "accepted") /\ UNCHANGED local

Reject(u) ==
  /\ view[u].mine /\ view[u].status = "assigned"
  /\ Tell(u, "reject", 0)
  /\ view' = [view EXCEPT ![u].status = "scheduled", ![u].mine = FALSE]
  /\ UNCHANGED local

Unable(u) ==
  /\ view[u].mine /\ view[u].status \in {"accepted"} \cup AtWork
  /\ Tell(u, "unable", 0) /\ JobIs(u, "unable_to_complete") /\ UNCHANGED local

Mine(u) == {k \in Visit : local[u][k] # "none"}

NextVisit(u) == Max({view[u].visits} \cup Mine(u)) + 1

Begin(u) ==
  LET k == NextVisit(u) IN
  /\ view[u].mine /\ view[u].status \in {"accepted", "returned"}
  /\ Mine(u) # {} => local[u][Max(Mine(u))] # "in_progress"
  /\ k <= MaxVisit
  /\ local' = [local EXCEPT ![u][k] = "in_progress"]
  /\ Tell(u, "start", k) /\ JobIs(u, "in_progress")

\* The agent leaves the fence, or comes back.
GeofenceChange(u, k, kind) ==
  /\ local[u][k] = "in_progress"
  /\ Tell(u, kind, k)
  /\ JobIs(u, IF kind = "pause" THEN "paused" ELSE "in_progress")
  /\ UNCHANGED local

Submit(u, k) ==
  /\ local[u][k] = "in_progress"
  /\ local' = [local EXCEPT ![u][k] = "submitted"]
  /\ Tell(u, "submit", k) /\ JobIs(u, "submitted")

Phone(u) ==
  \/ Pull(u) \/ Accept(u) \/ Reject(u) \/ Unable(u) \/ Begin(u)
  \/ \E k \in Visit : \/ GeofenceChange(u, k, "pause")
                       \/ GeofenceChange(u, k, "resume")
                       \/ Submit(u, k)

-----------------------------------------------------------------------------
\* The handlers of what the phones tell.

\* The agent's last assignment, 0 without one.
LastOf(u) == Max({0} \cup {i \in DOMAIN asg : asg[i].user = u})

Answered(u, r) ==
  [i \in DOMAIN asg |-> IF asg[i] = [user |-> u, response |-> "pending"]
                        THEN [asg[i] EXCEPT !.response = r] ELSE asg[i]]

\* accept and reject answer the live assignment.
Fits(e) ==
  /\ LastOf(e.by) # 0 /\ asg[LastOf(e.by)].response = "pending"
  /\ status = "assigned" /\ agent = e.by

AcceptEvent(e) ==
  /\ asg' = Answered(e.by, "accepted") /\ status' = "accepted"
  /\ UNCHANGED <<agent, visit>>

RejectEvent(e) ==
  /\ asg' = Answered(e.by, "rejected") /\ status' = "scheduled" /\ agent' = NoOne
  /\ UNCHANGED visit

\* Mutant: an agent who no longer has the job can still give it up.
MayGiveUpAnyone(e) == can_transition("unable_to_complete", "agent")

MayGiveUp(e) == agent = e.by /\ can_transition("unable_to_complete", "agent")

RunningOf(u) == {k \in Visit : visit[k].user = u /\ visit[k].status \in Running}

\* The agent's running visit is abandoned with the job.
UnableEvent(e) ==
  /\ visit' = [k \in Visit |->
                 IF RunningOf(e.by) # {} /\ k = Max(RunningOf(e.by))
                 THEN [visit[k] EXCEPT !.status = "abandoned"] ELSE visit[k]]
  /\ asg' = Answered(e.by, "accepted") /\ status' = "unable_to_complete"
  /\ UNCHANGED agent

\* The fence moves the job with the visit, whoever has the job.
PauseEvent(e) ==
  /\ visit' = [visit EXCEPT ![e.k].status = "paused"]
  /\ status' = IF status = "in_progress" THEN "paused" ELSE status
  /\ UNCHANGED <<agent, asg>>

ResumeEvent(e) ==
  /\ visit' = [visit EXCEPT ![e.k].status = "in_progress"]
  /\ status' = IF status = "paused" THEN "in_progress" ELSE status
  /\ UNCHANGED <<agent, asg>>

\* Where the job goes with a visit of the agent it is with.
Follow(e, to) ==
  IF agent = e.by /\ can_transition(to, "agent") THEN to ELSE status

\* Mutant: a late start writes over the visit its submission created.
MayStartAgain(e) == visit[e.k] = NoVisit \/ Holds(e)

MayStart(e) == visit[e.k] = NoVisit

\* Starting a visit accepts the job.
StartEvent(e) ==
  /\ visit' = [visit EXCEPT ![e.k] = [user |-> e.by, status |-> "in_progress"]]
  /\ asg' = Answered(e.by, "accepted")
  /\ status' = Follow(e, "in_progress")
  /\ UNCHANGED agent

\* Mutant: a submission needs the start before it.
MaySubmitStarted(e) == Holds(e) /\ visit[e.k].status \in Running

MaySubmit(e) ==
  visit[e.k] = NoVisit \/ (Holds(e) /\ visit[e.k].status \in Running)

\* A submission stands for its start too.  Without photos to wait for, the
\* visit is complete at once and the job goes to review with it.
SubmitEvent(e) ==
  /\ asg' = Answered(e.by, "accepted")
  /\ \/ /\ visit' = [visit EXCEPT ![e.k] = [user |-> e.by, status |-> "submitted"]]
        /\ status' = Follow(e, "submitted")
     \/ /\ visit' = [visit EXCEPT ![e.k] = [user |-> e.by, status |-> "under_review"]]
        /\ status' = UnderReview(Follow(e, "submitted"))
  /\ UNCHANGED agent

\* Otherwise the event is kept on the job's timeline and changes nothing:
\* superseded, a duplicate, or in conflict with another agent's visit.
Applies(e) ==
  CASE e.kind \in {"accept", "reject"} -> Fits(e)
    [] e.kind = "unable" -> MayGiveUp(e)
    [] e.kind = "pause" -> visit[e.k].status = "in_progress"
    [] e.kind = "resume" -> visit[e.k].status = "paused"
    [] e.kind = "start" -> MayStart(e)
    [] e.kind = "submit" -> MaySubmit(e)

Apply(e) ==
  \/ e.kind = "accept" /\ AcceptEvent(e)
  \/ e.kind = "reject" /\ RejectEvent(e)
  \/ e.kind = "unable" /\ UnableEvent(e)
  \/ e.kind = "pause" /\ PauseEvent(e)
  \/ e.kind = "resume" /\ ResumeEvent(e)
  \/ e.kind = "start" /\ StartEvent(e)
  \/ e.kind = "submit" /\ SubmitEvent(e)

\* A phone sends in the order of recording; the server sets aside what it
\* defers, or holds after an error, and goes on with the rest.
NextInOrder(e) ==
  \A f \in net : f.by = e.by /\ f.n < e.n => f \in held \/ Deferred(f)

Hold(e) ==
  /\ e \in net \ held /\ NextInOrder(e)
  /\ Cardinality(held) < MaxHeld
  /\ held' = held \cup {e}
  /\ UNCHANGED <<serverVars, moves, view, local, net, count>>

\* An event is applied as it comes, or by the reprocessor later.
Receive(e) ==
  /\ e \in net /\ ~Deferred(e)
  /\ e \in held \/ NextInOrder(e)
  /\ net' = net \ {e} /\ held' = held \ {e}
  /\ IF Applies(e) THEN Apply(e) ELSE UNCHANGED <<status, agent, asg, visit>>
  /\ UNCHANGED <<contacted, moves, view, local, count>>

Next ==
  \/ ContactAttempt \/ Schedule \/ Unschedule \/ NotSecured
  \/ \E u \in Agent : Allocate(u) \/ Reassign(u)
  \/ Revoke \/ Cancel \/ Close
  \/ \E k \in Visit, d \in Decision : Review(k, d)
  \/ Expire
  \/ \E k \in Visit : promote_inspection(k)
  \/ \E u \in Agent : Phone(u)
  \/ \E e \in net : Receive(e) \/ Hold(e)

Spec == Init /\ [][Next]_vars

-----------------------------------------------------------------------------
Held == {i \in DOMAIN asg : asg[i].response \in Live}

\* The job and its assignments are of one mind, whichever of the office,
\* the timer and the agents' events came first: a job without an agent has
\* no live assignment; one that was sent to an agent has exactly one, his,
\* without an answer; one the agent took has exactly one, his, accepted
\* (admin_job_allocate, admin_job_revoke, apply_job_event,
\* apply_inspection_started, apply_submission, cron_expire_assignments).
OfOneMind ==
  /\ status \in {"pending", "scheduled", "appointment_not_secured"} =>
       agent = NoOne /\ Held = {}
  /\ status = "cancelled" => Held = {}
  /\ status \in {"assigned", "accepted", "submitted", "under_review"} \cup AtWork
        \cup Decision \cup {"unable_to_complete"} =>
       \E i \in DOMAIN asg :
         /\ Held = {i} /\ asg[i].user = agent
         /\ (asg[i].response = "pending") <=> (status = "assigned")

\* What an agent sent and the server has taken is there: a visit the phone
\* submitted is sealed on the server when nothing of it is on its way, in
\* whatever order start, pause and submission came, unless another agent's
\* visit has its number (apply_inspection_started, apply_submission).
WorkIsKept ==
  \A u \in Agent, k \in Visit :
    /\ local[u][k] = "submitted"
    /\ \A e \in net : ~(e.by = u /\ e.k = k)
    => /\ visit[k] # NoVisit
       /\ visit[k].user = u => visit[k].status \notin Running

\* What an agent sends after losing the job does not answer for the one who
\* has it now: an event of anyone but the job's agent leaves its assignments
\* and its status.  Two events are let through by the code: leaving and coming
\* back to the fence move the job with the visit, whoever has the job, and a
\* complete submission takes a submitted job to review.
OnlyItsAgent ==
  [][\A e \in net :
       Receive(e) /\ e.by # agent /\ e.kind \notin {"pause", "resume"} =>
         /\ UNCHANGED <<agent, asg>>
         /\ status' \in {status, UnderReview(status)}]_vars

\* A visit that was decided, abandoned or sent in is never under way again,
\* and nobody else's: late events of its agent, and another agent's visit
\* with the same number, leave it (tg_inspection_guard has the last word).
Sealed(v) == v # NoVisit /\ v.status \notin Running

StaysSealed ==
  [][\A k \in Visit : Sealed(visit[k]) =>
       Sealed(visit'[k]) /\ visit'[k].user = visit[k].user]_vars

-----------------------------------------------------------------------------
\* What the office and the bank see of the job.

\* Mutant: a job that was sent back is with its agent again.
dashboardStatusReturned(s) ==
  CASE s \in {"pending", "scheduled"} -> "pending"
    [] s \in {"assigned", "accepted", "returned"} -> "assigned"
    [] s \in {"in_progress", "paused", "submitted", "under_review"} -> "in_progress"
    [] s \in {"approved", "rejected"} -> "completed"
    [] s = "cancelled" -> "cancelled"
    [] s \in {"unable_to_complete", "appointment_not_secured"} -> "unable_to_complete"
    [] s = "closed" -> "archived"

\* The bank's status of the job.
dashboardStatus(s) ==
  CASE s \in {"pending", "scheduled"} -> "pending"
    [] s \in {"assigned", "accepted"} -> "assigned"
    [] s \in {"in_progress", "paused", "submitted", "under_review", "returned"} ->
         "in_progress"
    [] s \in {"approved", "rejected"} -> "completed"
    [] s = "cancelled" -> "cancelled"
    [] s \in {"unable_to_complete", "appointment_not_secured"} -> "unable_to_complete"
    [] s = "closed" -> "archived"

Board == INSTANCE Dashboard WITH key <- dashboardStatus(status)

\* Whatever the office, the timer and the phones do, the bank sees a job that
\* goes forward: it comes back to pending only from an agent who has not
\* begun, what is completed or cancelled stays so until it is archived, and
\* what is given up can only be cancelled or archived (DASHBOARD_GROUPS).
SeenByTheBank == Board!Spec
=============================================================================
