------------------------------ MODULE JobsProofs ------------------------------
(***************************************************************************)
(* One job, for any agents and any number of visits and of events: what is *)
(* checked on two agents and two visits is proved here (Jobs).             *)
(***************************************************************************)
EXTENDS Jobs, SequenceTheorems, WellFoundedInduction, TLAPS

Response == {"pending", "accepted", "rejected", "revoked", "expired"}
VisitStatus == {"none", "in_progress", "paused", "submitted", "under_review",
                "integrity_failed", "approved", "returned", "rejected", "abandoned"}
EventKind == {"accept", "reject", "unable", "start", "pause", "resume", "submit"}
AnyOne == Agent \cup {NoOne}

Assignment == [user : Agent, response : Response]

JobType == status \in Status /\ agent \in AnyOne /\ asg \in Seq(Assignment)
VisitType == visit \in [Visit -> [user : AnyOne, status : VisitStatus]]
PhoneType ==
  /\ view \in [Agent -> [status : Status \cup {"absent"}, mine : BOOLEAN,
                         visits : 0 .. MaxVisit]]
  /\ local \in [Agent -> [Visit -> {"none", "in_progress", "submitted"}]]
NetType ==
  \A e \in net :
    /\ e.kind \in EventKind /\ e.by \in Agent
    /\ e.kind \notin {"accept", "reject", "unable"} => e.k \in Visit

TypeInv == JobType /\ VisitType /\ PhoneType /\ NetType

-----------------------------------------------------------------------------
(* Numbers, and the statuses of the job. *)

\* A set of small numbers has a greatest one.
LEMMA MaxExists ==
  ASSUME NEW N \in Nat, NEW S \in SUBSET (0 .. N), S # {}
  PROVE  Max(S) \in S /\ \A y \in S : Max(S) >= y
<1> DEFINE T == {N - x : x \in S}
<1>1. T \subseteq Nat /\ T # {}
  <2>1. PICK x \in S : TRUE
    OBVIOUS
  <2>2. N - x \in T
    BY <2>1
  <2>3. ASSUME NEW y \in S PROVE N - y \in Nat
    <3>1. y \in 0 .. N
      BY <2>3
    <3> QED BY <3>1
  <2> QED BY <2>2, <2>3
<1>2. PICK m \in T : \A y \in T : ~(<<y, m>> \in OpToRel(<, Nat))
  BY <1>1, NatLessThanWellFounded, WFMin
<1>3. \A y \in T : ~(y < m)
  BY <1>1, <1>2 DEF OpToRel
<1>4. PICK x \in S : m = N - x
  BY <1>2
<1>5. \A y \in S : x >= y
  <2>1. ASSUME NEW y \in S PROVE x >= y
    <3>1. N - y \in T /\ y \in 0 .. N /\ x \in 0 .. N
      BY <1>4, <2>1
    <3> QED BY <1>3, <1>4, <3>1
  <2> QED BY <2>1
<1> QED BY <1>4, <1>5 DEF Max

\* The rows of the state machine that are used.
LEMMA SchedulerMoves ==
  /\ can_transition("scheduled", "scheduler") => status = "pending"
  /\ can_transition("pending", "scheduler") => status = "scheduled"
  /\ can_transition("appointment_not_secured", "scheduler") => status = "pending"
BY DEF can_transition, job_transitions

\* What the office may do, by the status the job is in.
LEMMA AdminMoves ==
  /\ can_transition("assigned", "admin") => status = "scheduled"
  /\ can_transition("cancelled", "admin") =>
       status \in {"pending", "scheduled", "assigned", "accepted", "unable_to_complete",
                   "in_progress", "paused", "returned"}
  /\ can_transition("closed", "admin") =>
       status \in {"approved", "rejected", "unable_to_complete",
                   "appointment_not_secured", "cancelled"}
BY DEF can_transition, job_transitions, AtWork, Ended

\* What an agent may do, by the status the job is in.
LEMMA AgentMoves ==
  /\ can_transition("unable_to_complete", "agent") =>
       status \in {"assigned", "accepted", "in_progress", "paused", "returned"}
  /\ can_transition("in_progress", "agent") =>
       status \in {"assigned", "accepted", "returned", "paused"}
  /\ can_transition("submitted", "agent") =>
       status \in {"assigned", "accepted", "in_progress", "paused", "returned"}
  /\ status = "assigned" =>
       can_transition("in_progress", "agent") /\ can_transition("submitted", "agent")
BY DEF can_transition, job_transitions, AtWork

\* What the system and a reviewer may do.
LEMMA OtherMoves ==
  /\ can_transition("scheduled", "system") => status = "assigned"
  /\ \A d \in Decision : can_transition(d, "reviewer") => status \in {"submitted", "under_review"}
BY DEF can_transition, job_transitions, AtWork, Ended, Decision

\* The visits there are, the last of them, and one that is running.
LEMMA VisitNumbers ==
  ASSUME TypeInv
  PROVE  /\ Latest \in 0 .. MaxVisit
         /\ \A u \in Agent : RunningOf(u) # {} => Max(RunningOf(u)) \in RunningOf(u)
         /\ \A u \in Agent : Mine(u) # {} => Max(Mine(u)) \in Mine(u)
         /\ \A u \in Agent : NextVisit(u) \in 1 .. (MaxVisit + 1)
<1>0. MaxVisit \in Nat /\ 0 \in 0 .. MaxVisit /\ Visit \subseteq 0 .. MaxVisit
  <2>1. MaxVisit \in Nat
    BY JobsAssumption
  <2>2. \A k \in 1 .. MaxVisit : k \in 0 .. MaxVisit
    BY <2>1
  <2>3. Visit \subseteq 0 .. MaxVisit
    BY <2>2 DEF Visit
  <2>4. 0 \in 0 .. MaxVisit
    BY <2>1
  <2> QED BY <2>1, <2>3, <2>4
<1>1. Latest \in 0 .. MaxVisit
  <2> DEFINE S == {0} \cup {k \in Visit : visit[k] # NoVisit}
  <2>1. S \in SUBSET (0 .. MaxVisit) /\ S # {}
    BY <1>0
  <2>2. Max(S) \in S
    BY <1>0, <2>1, MaxExists
  <2> QED BY <2>1, <2>2 DEF Latest
<1>2. ASSUME NEW u \in Agent, RunningOf(u) # {} PROVE Max(RunningOf(u)) \in RunningOf(u)
  <2>1. RunningOf(u) \in SUBSET (0 .. MaxVisit)
    BY <1>0 DEF RunningOf
  <2> QED BY <1>0, <1>2, <2>1, MaxExists
<1>3. ASSUME NEW u \in Agent, Mine(u) # {} PROVE Max(Mine(u)) \in Mine(u)
  <2>1. Mine(u) \in SUBSET (0 .. MaxVisit)
    BY <1>0 DEF Mine
  <2> QED BY <1>0, <1>3, <2>1, MaxExists
<1>4. ASSUME NEW u \in Agent PROVE NextVisit(u) \in 1 .. (MaxVisit + 1)
  <2> DEFINE S == {view[u].visits} \cup Mine(u)
  <2>1. S \in SUBSET (0 .. MaxVisit) /\ S # {}
    BY <1>0, <1>4 DEF TypeInv, PhoneType, Mine
  <2>2. Max(S) \in 0 .. MaxVisit
    BY <1>0, <2>1, MaxExists
  <2> QED BY <1>0, <2>2 DEF NextVisit
<1> QED BY <1>1, <1>2, <1>3, <1>4

-----------------------------------------------------------------------------
(* The job and its assignments. *)

\* The live assignments after responses were changed, and after one is added.
LEMMA RespondHeld ==
  ASSUME asg \in Seq(Assignment), NEW R, NEW r \in Response, NEW s, s = Respond(R, r)
  PROVE  /\ s \in Seq(Assignment) /\ DOMAIN s = DOMAIN asg
         /\ \A i \in DOMAIN asg :
              /\ s[i].user = asg[i].user
              /\ s[i].response = IF asg[i].response \in R THEN r ELSE asg[i].response
<1>1. Len(asg) \in Nat /\ DOMAIN asg = 1 .. Len(asg)
      /\ \A i \in 1 .. Len(asg) : asg[i] \in Assignment
  OBVIOUS
<1>2. s = [i \in 1 .. Len(asg) |-> IF asg[i].response \in R
                                  THEN [asg[i] EXCEPT !.response = r] ELSE asg[i]]
  BY <1>1 DEF Respond
<1>3. \A i \in 1 .. Len(asg) : s[i] \in Assignment
  BY <1>1, <1>2 DEF Assignment
<1>4. s \in Seq(Assignment)
  BY <1>1, <1>2, <1>3
<1>5. \A i \in DOMAIN asg :
              /\ s[i].user = asg[i].user
              /\ s[i].response = IF asg[i].response \in R THEN r ELSE asg[i].response
  BY <1>1, <1>2 DEF Assignment
<1> QED BY <1>1, <1>2, <1>4, <1>5

\* The assignments after an agent's answer: only the agent's open ones change.
LEMMA AnsweredHeld ==
  ASSUME asg \in Seq(Assignment), NEW u \in Agent, NEW r \in Response, NEW s, s = Answered(u, r)
  PROVE  /\ s \in Seq(Assignment) /\ DOMAIN s = DOMAIN asg
         /\ \A i \in DOMAIN asg :
              /\ s[i].user = asg[i].user
              /\ s[i].response = IF asg[i].user = u /\ asg[i].response = "pending"
                                 THEN r ELSE asg[i].response
<1>1. Len(asg) \in Nat /\ DOMAIN asg = 1 .. Len(asg)
      /\ \A i \in 1 .. Len(asg) : asg[i] \in Assignment
  OBVIOUS
<1>2. s = [i \in 1 .. Len(asg) |-> IF asg[i] = [user |-> u, response |-> "pending"]
                                  THEN [asg[i] EXCEPT !.response = r] ELSE asg[i]]
  BY <1>1 DEF Answered
<1>3. \A i \in 1 .. Len(asg) : s[i] \in Assignment
  BY <1>1, <1>2 DEF Assignment
<1>4. s \in Seq(Assignment)
  BY <1>1, <1>2, <1>3
<1>5. \A i \in 1 .. Len(asg) : asg[i] = [user |-> u, response |-> "pending"]
         <=> asg[i].user = u /\ asg[i].response = "pending"
  BY <1>1 DEF Assignment
<1>6. \A i \in DOMAIN asg :
              /\ s[i].user = asg[i].user
              /\ s[i].response = IF asg[i].user = u /\ asg[i].response = "pending"
                                 THEN r ELSE asg[i].response
  BY <1>1, <1>2, <1>5 DEF Assignment
<1> QED BY <1>1, <1>2, <1>4, <1>6

\* The assignments after a new one is added at the end.
LEMMA OfferHeld ==
  ASSUME NEW s \in Seq(Assignment), NEW u \in Agent
  PROVE  /\ Offer(u, s) \in Seq(Assignment)
         /\ DOMAIN Offer(u, s) = DOMAIN s \cup {Len(s) + 1}
         /\ Len(s) + 1 \notin DOMAIN s
         /\ \A i \in DOMAIN s : Offer(u, s)[i] = s[i]
         /\ Offer(u, s)[Len(s) + 1] = [user |-> u, response |-> "pending"]
<1>1. [user |-> u, response |-> "pending"] \in Assignment
  BY DEF Assignment, Response
<1>2. Len(s) \in Nat /\ DOMAIN s = 1 .. Len(s)
  OBVIOUS
<1> DEFINE o == Offer(u, s)
           r == [user |-> u, response |-> "pending"]
<1>3. o \in Seq(Assignment) /\ Len(o) = Len(s) + 1
      /\ (\A i \in 1 .. Len(s) : o[i] = s[i]) /\ o[Len(s) + 1] = r
  BY <1>1, <1>2 DEF Offer
<1> HIDE DEF o, r
<1>4. DOMAIN o = 1 .. (Len(s) + 1)
  BY <1>3
<1>5. 1 .. (Len(s) + 1) = (1 .. Len(s)) \cup {Len(s) + 1} /\ Len(s) + 1 \notin 1 .. Len(s)
  BY <1>2
<1>6. DOMAIN o = DOMAIN s \cup {Len(s) + 1} /\ Len(s) + 1 \notin DOMAIN s
  BY <1>2, <1>4, <1>5
<1>7. \A i \in DOMAIN s : o[i] = s[i]
  BY <1>2, <1>3
<1> QED BY <1>3, <1>6, <1>7 DEF o, r

\* No assignment of the sequence s is live.
NoneLive(s) == \A i \in DOMAIN s : s[i].response \notin Live

\* An assignment without an answer is that of the agent the job was sent to.
PendingInv ==
  \A i \in DOMAIN asg :
    asg[i].response = "pending" => status = "assigned" /\ asg[i].user = agent

\* The ways in which the job moves: the office or a reviewer moves its status,
Ordered ==
  /\ UNCHANGED <<agent, asg>>
  /\ \/ status' = status
     \/ status = "pending" /\ status' \in {"scheduled", "appointment_not_secured"}
     \/ status = "scheduled" /\ status' = "pending"
     \/ /\ status \in {"approved", "rejected", "unable_to_complete",
                       "appointment_not_secured", "cancelled"}
        /\ status' = "closed"
     \/ /\ status \in {"submitted", "under_review"}
        /\ status' \in Decision \cup {"under_review"}
     \/ status \in Running /\ status' \in Running

\* nobody has it any more,
Freed ==
  /\ status \in {"assigned", "accepted"} /\ status' = "scheduled" /\ agent' = NoOne
  /\ asg' \in Seq(Assignment) /\ NoneLive(asg')

Cancelled ==
  /\ status \in {"pending", "scheduled", "assigned", "accepted", "unable_to_complete",
                 "in_progress", "paused", "returned"}
  /\ status' = "cancelled" /\ agent' = agent
  /\ asg' \in Seq(Assignment) /\ NoneLive(asg')

\* it is sent to an agent,
Sent ==
  \E u \in Agent, s \in Seq(Assignment) :
    /\ status \in {"scheduled", "assigned", "accepted"} /\ status' = "assigned"
    /\ agent' = u /\ asg' = Offer(u, s) /\ NoneLive(s)

\* its agent takes it,
Taken ==
  /\ agent \in Agent /\ agent' = agent /\ asg' = Answered(agent, "accepted")
  /\ status \in {"assigned", "accepted", "in_progress", "paused", "returned"}
  /\ \/ status = "assigned" /\ status' = "accepted"
     \/ status' \in {"in_progress", "submitted", "under_review", "unable_to_complete"}

\* or an answer comes that changes no assignment.
Noted ==
  \E u \in Agent :
    /\ ~(status = "assigned" /\ agent = u)
    /\ agent' = agent /\ asg' = Answered(u, "accepted")
    /\ status' \in {status, UnderReview(status)}

JobMoves == Ordered \/ Freed \/ Cancelled \/ Sent \/ Taken \/ Noted

JobInv == JobType /\ OfOneMind /\ PendingInv

\* An answer of someone the job is not with changes nothing.
LEMMA NotedIsNothing ==
  ASSUME asg \in Seq(Assignment), PendingInv, NEW u \in Agent, NEW r \in Response,
         ~(status = "assigned" /\ agent = u)
  PROVE  Answered(u, r) = asg
<1>1. DOMAIN asg = 1 .. Len(asg) /\ asg = [i \in 1 .. Len(asg) |-> asg[i]]
  OBVIOUS
<1>2. \A i \in DOMAIN asg : asg[i] # [user |-> u, response |-> "pending"]
  BY DEF PendingInv
<1> QED BY <1>1, <1>2 DEF Answered

\* A job without an agent, and one with an agent who took it.
LEMMA MindKept ==
  ASSUME JobInv, Ordered
  PROVE  JobInv'
<1>1. JobType'
  BY DEF JobInv, JobType, Ordered, Status, Decision, Running
<1>2. Held' = Held
  BY DEF Held, Ordered
<1>3. PendingInv'
  BY DEF JobInv, PendingInv, Ordered, Running
<1>4. OfOneMind'
  <2>1. CASE status' = status
    BY <1>2, <2>1 DEF JobInv, OfOneMind, Ordered
  <2>2. CASE status \in {"pending", "scheduled"}
             /\ status' \in {"pending", "scheduled", "appointment_not_secured"}
    BY <1>2, <2>2 DEF JobInv, OfOneMind, Ordered, AtWork, Decision
  <2>3. CASE status' = "closed"
    BY <2>3 DEF OfOneMind, AtWork, Decision
  <2>4. CASE /\ status \in {"submitted", "under_review"} \cup Running
             /\ status' \in Decision \cup {"under_review"} \cup Running
    BY <1>2, <2>4 DEF JobInv, OfOneMind, Ordered, AtWork, Decision, Running
  <2> QED BY <2>1, <2>2, <2>3, <2>4 DEF Ordered
<1> QED BY <1>1, <1>3, <1>4 DEF JobInv

\* A job taken back or cancelled has no live assignment.
LEMMA MindFreed ==
  ASSUME JobInv, Freed \/ Cancelled
  PROVE  JobInv'
<1>1. JobType'
  BY DEF JobInv, JobType, Freed, Cancelled, Status, AnyOne
<1>2. Held' = {} /\ PendingInv'
  BY DEF Held, PendingInv, Freed, Cancelled, NoneLive, Live
<1>3. OfOneMind'
  BY <1>2 DEF OfOneMind, Freed, Cancelled, AtWork, Decision
<1> QED BY <1>1, <1>2, <1>3 DEF JobInv

\* A job sent to an agent has exactly that live assignment.
LEMMA MindSent ==
  ASSUME JobInv, Sent
  PROVE  JobInv'
<1>1. PICK u \in Agent, s \in Seq(Assignment) :
        /\ status' = "assigned" /\ agent' = u /\ asg' = Offer(u, s) /\ NoneLive(s)
  BY DEF Sent
<1> DEFINE n == Len(s) + 1
<1>2. /\ asg' \in Seq(Assignment)
      /\ DOMAIN asg' = DOMAIN s \cup {n} /\ n \notin DOMAIN s
      /\ \A i \in DOMAIN s : asg'[i] = s[i]
      /\ asg'[n] = [user |-> u, response |-> "pending"]
  BY <1>1, OfferHeld
<1> HIDE DEF n
<1>3. \A i \in DOMAIN asg' : asg'[i].response \in Live <=> i = n
  BY <1>1, <1>2 DEF NoneLive, Live
<1>4. Held' = {n}
  BY <1>2, <1>3 DEF Held
<1>5. JobType'
  BY <1>1, <1>2 DEF JobType, Status, AnyOne
<1>6. PendingInv'
  BY <1>1, <1>2, <1>3 DEF PendingInv, Live
<1>7. OfOneMind'
  BY <1>1, <1>2, <1>4 DEF OfOneMind
<1> QED BY <1>5, <1>6, <1>7 DEF JobInv

\* A job its agent takes keeps that one live assignment.
LEMMA MindTaken ==
  ASSUME JobInv, Taken
  PROVE  JobInv'
<1>1. PICK i \in DOMAIN asg :
        /\ Held = {i} /\ asg[i].user = agent
        /\ (asg[i].response = "pending") <=> (status = "assigned")
  BY DEF Taken, JobInv, OfOneMind, AtWork
<1>2. /\ asg' \in Seq(Assignment) /\ DOMAIN asg' = DOMAIN asg
      /\ \A j \in DOMAIN asg :
           /\ asg'[j].user = asg[j].user
           /\ asg'[j].response = IF asg[j].user = agent /\ asg[j].response = "pending"
                                 THEN "accepted" ELSE asg[j].response
  BY AnsweredHeld DEF Taken, JobInv, JobType, Response
<1>3. Held' = {i}
  BY <1>1, <1>2 DEF Held, Live
<1>4. \A j \in DOMAIN asg : asg'[j].response # "pending"
  BY <1>2 DEF JobInv, PendingInv
<1>5. JobType'
  BY <1>2 DEF JobInv, JobType, Taken, Status
<1>6. PendingInv'
  BY <1>2, <1>4 DEF PendingInv
<1>7. OfOneMind'
  BY <1>1, <1>2, <1>3, <1>4 DEF OfOneMind, Taken
<1> QED BY <1>5, <1>6, <1>7 DEF JobInv

\* However it moves, the job stays of one mind with its assignments.
LEMMA JobMovesKeep ==
  ASSUME JobInv, JobMoves
  PROVE  JobInv'
<1>1. CASE Noted
  <2>1. asg' = asg
    BY <1>1, NotedIsNothing DEF Noted, JobInv, JobType, Response
  <2>2. Ordered
    BY <1>1, <2>1 DEF Noted, Ordered, UnderReview
  <2> QED BY <2>2, MindKept
<1> QED BY <1>1, MindKept, MindFreed, MindSent, MindTaken DEF JobMoves

\* And the bank sees it go forward.
LEMMA JobMovesSeen ==
  ASSUME JobInv, JobMoves
  PROVE  Board!Next \/ UNCHANGED dashboardStatus(status)
<1>1. CASE Ordered
  BY <1>1 DEF Ordered, Board!Next, Board!Moves, dashboardStatus, Decision, Running
<1>2. CASE Freed
  BY <1>2 DEF Freed, Board!Next, Board!Moves, dashboardStatus
<1>3. CASE Cancelled
  BY <1>3 DEF Cancelled, Board!Next, Board!Moves, dashboardStatus
<1>4. CASE Sent
  BY <1>4 DEF Sent, Board!Next, Board!Moves, dashboardStatus
<1>5. CASE Taken
  BY <1>5 DEF Taken, Board!Next, Board!Moves, dashboardStatus
<1>6. CASE Noted
  BY <1>6 DEF Noted, Board!Next, Board!Moves, dashboardStatus, UnderReview
<1> QED BY <1>1, <1>2, <1>3, <1>4, <1>5, <1>6 DEF JobMoves

-----------------------------------------------------------------------------
(* The visits. *)

\* What is sealed stays so, and a visit stays its agent's.
VisitMoves(k) ==
  visit[k] # NoVisit =>
    /\ visit'[k] # NoVisit /\ visit'[k].user = visit[k].user
    /\ Sealed(visit[k]) => Sealed(visit'[k])

VisitsMove == \A k \in Visit : VisitMoves(k)

\* The server has the submitted visit k of u, or another agent's.
Kept(u, k) ==
  visit[k] # NoVisit /\ (visit[k].user = u => visit[k].status \notin Running)

\* A submitted visit is kept, or its submission is still on its way.
OnItsWay(u, k) == \E e \in net : e.kind = "submit" /\ e.by = u /\ e.k = k
WorkInv ==
  \A u \in Agent, k \in Visit :
    local[u][k] = "submitted" => OnItsWay(u, k) \/ Kept(u, k)

\* What the phones and the office hold of a visit survives a step that drops neither.
LEMMA KeptStays ==
  ASSUME VisitsMove, NEW u \in Agent, NEW k \in Visit, Kept(u, k)
  PROVE  Kept(u, k)'
BY DEF VisitsMove, VisitMoves, Kept, Sealed

\* One visit takes a status that is not "none", and keeps its agent.
LEMMA StatusMoves ==
  ASSUME VisitType, NEW k \in Visit, visit[k] # NoVisit, NEW s \in VisitStatus \ {"none"},
         Sealed(visit[k]) => s \notin Running,
         visit' = [visit EXCEPT ![k].status = s]
  PROVE  VisitType' /\ VisitsMove
BY DEF VisitType, VisitsMove, VisitMoves, Sealed, NoVisit

\* One visit begins.
LEMMA VisitBegins ==
  ASSUME VisitType, NEW k \in Visit, NEW u \in Agent, NEW s \in VisitStatus \ {"none"},
         visit[k] = NoVisit \/ (visit[k].user = u /\ ~Sealed(visit[k])),
         visit' = [visit EXCEPT ![k] = [user |-> u, status |-> s]]
  PROVE  VisitType' /\ VisitsMove /\ visit'[k] = [user |-> u, status |-> s]
<1>1. [user |-> u, status |-> s] \in [user : AnyOne, status : VisitStatus]
  BY DEF AnyOne
<1>2. [user |-> u, status |-> s] # NoVisit
  BY DEF NoVisit
<1>3. \A j \in Visit : visit'[j] = IF j = k THEN [user |-> u, status |-> s] ELSE visit[j]
  BY DEF VisitType
<1>4. VisitType'
  BY <1>1 DEF VisitType
<1>5. VisitsMove
  BY <1>2, <1>3 DEF VisitsMove, VisitMoves
<1> QED BY <1>3, <1>4, <1>5

\* A step that leaves the visits alone is a move of the visits.
LEMMA VisitsStay == ASSUME UNCHANGED visit PROVE VisitsMove
BY DEF VisitsMove, VisitMoves, Sealed

-----------------------------------------------------------------------------
(* The steps. *)

IInv == TypeInv /\ OfOneMind /\ PendingInv /\ WorkInv

\* What a step has to show.
StepOK == JobMoves /\ VisitType' /\ VisitsMove /\ PhoneType' /\ NetType' /\ WorkInv'

\* A step of the server that has nothing to do with the phones.
LEMMA ServerOK ==
  ASSUME IInv, JobMoves, VisitType', VisitsMove, UNCHANGED <<view, local, net>>
  PROVE  StepOK
<1>1. PhoneType' /\ NetType'
  BY DEF IInv, TypeInv, PhoneType, NetType
<1>2. WorkInv'
  BY KeptStays DEF IInv, WorkInv, OnItsWay
<1> QED BY <1>1, <1>2 DEF StepOK

\* One that moves the job only.
LEMMA JobOK ==
  ASSUME IInv, JobMoves, UNCHANGED <<visit, view, local, net>>
  PROVE  StepOK
<1>1. VisitType' /\ VisitsMove
  BY VisitsStay DEF IInv, TypeInv, VisitType
<1> QED BY <1>1, ServerOK

\* Revoking leaves no assignment live.
LEMMA RevokedIsDead ==
  ASSUME JobType
  PROVE  Revoked \in Seq(Assignment) /\ NoneLive(Revoked)
<1>1. /\ Revoked \in Seq(Assignment) /\ DOMAIN Revoked = DOMAIN asg
      /\ \A i \in DOMAIN asg :
           Revoked[i].response = IF asg[i].response \in Live THEN "revoked" ELSE asg[i].response
  BY RespondHeld DEF JobType, Revoked, Response
<1> QED BY <1>1 DEF NoneLive, Live

\* The office's steps.
LEMMA OfficeOK ==
  ASSUME IInv,
         \/ ContactAttempt \/ Schedule \/ Unschedule \/ NotSecured \/ Revoke \/ Cancel \/ Close
         \/ \E u \in Agent : Allocate(u) \/ Reassign(u)
  PROVE  StepOK
<1>1. JobType /\ JobInv
  BY DEF IInv, TypeInv, JobInv
<1>2. UNCHANGED <<visit, view, local, net>>
  BY DEF ContactAttempt, Schedule, Unschedule, NotSecured, Revoke, Cancel, Close, Allocate,
         Reassign, Office, phoneVars
<1>3. CASE ContactAttempt
  BY <1>3, <1>2, JobOK DEF ContactAttempt, JobMoves, Ordered
<1>4. CASE Schedule \/ Unschedule \/ NotSecured
  BY <1>4, <1>2, SchedulerMoves, JobOK
     DEF Schedule, Unschedule, NotSecured, transition_job, JobMoves, Ordered
<1>5. CASE Close
  BY <1>5, <1>2, AdminMoves, JobOK DEF Close, transition_job, JobMoves, Ordered
<1>6. CASE Revoke
  <2>1. Freed
    BY <1>1, <1>6, RevokedIsDead DEF Revoke, CanRevoke, Freed
  <2> QED BY <1>2, <2>1, JobOK DEF JobMoves
<1>7. CASE Cancel
  <2>1. Cancelled
    BY <1>1, <1>7, RevokedIsDead, AdminMoves DEF Cancel, transition_job, Cancelled
  <2> QED BY <1>2, <2>1, JobOK DEF JobMoves
<1>8. ASSUME NEW u \in Agent, Allocate(u) PROVE StepOK
  <2>1. status = "scheduled" /\ status' = "assigned" /\ agent' = u /\ asg' = Offer(u, asg)
    BY <1>8, AdminMoves DEF Allocate, transition_job
  <2>2. NoneLive(asg)
    BY <1>1, <2>1 DEF JobInv, OfOneMind, Held, NoneLive
  <2>3. Sent
    BY <1>1, <2>1, <2>2 DEF Sent, JobType
  <2> QED BY <1>2, <2>3, JobOK DEF JobMoves
<1>9. ASSUME NEW u \in Agent, Reassign(u) PROVE StepOK
  <2>1. Sent
    BY <1>1, <1>9, RevokedIsDead DEF Reassign, CanRevoke, Sent
  <2> QED BY <1>2, <2>1, JobOK DEF JobMoves
<1> QED BY <1>3, <1>4, <1>5, <1>6, <1>7, <1>8, <1>9

\* The reviewer's steps.
LEMMA ReviewOK ==
  ASSUME IInv, NEW k \in Visit, NEW d \in Decision, Review(k, d)
  PROVE  StepOK
<1>1. VisitType
  BY DEF IInv, TypeInv
<1>2. JobMoves
  BY OtherMoves DEF Review, JobFollows, JobMoves, Ordered
<1>3. VisitType' /\ VisitsMove
  <2>1. visit[k] # NoVisit /\ d \in VisitStatus \ {"none"} /\ d \notin Running
    BY DEF Review, Undecided, NoVisit, Decision, VisitStatus, Running
  <2>2. visit' = [visit EXCEPT ![k].status = d]
    BY DEF Review
  <2> QED BY <1>1, <2>1, <2>2, StatusMoves
<1> QED BY <1>2, <1>3, ServerOK DEF Review, Office, phoneVars

\* An assignment that expires.
LEMMA ExpireOK ==
  ASSUME IInv, Expire
  PROVE  StepOK
<1>1. JobType /\ PendingInv /\ OfOneMind
  BY DEF IInv, TypeInv
<1>2. status = "assigned" /\ status' = "scheduled" /\ agent' = NoOne
      /\ asg' = Respond({"pending"}, "expired")
  BY DEF Expire, ExpireJob, transition_job
<1>3. /\ asg' \in Seq(Assignment) /\ DOMAIN asg' = DOMAIN asg
      /\ \A i \in DOMAIN asg :
           asg'[i].response = IF asg[i].response = "pending" THEN "expired" ELSE asg[i].response
  BY <1>1, <1>2, RespondHeld DEF JobType, Response
<1>4. \A i \in DOMAIN asg : asg[i].response # "accepted"
  BY <1>1, <1>2 DEF OfOneMind, Held, Live
<1>5. Freed
  BY <1>2, <1>3, <1>4 DEF Freed, NoneLive, Live
<1> QED BY <1>5, JobOK DEF JobMoves, Expire, phoneVars

\* An appointment that is promoted.
LEMMA PromoteOK ==
  ASSUME IInv, NEW k \in Visit, promote_inspection(k)
  PROVE  StepOK
<1>1. VisitType
  BY DEF IInv, TypeInv
<1>2. JobMoves
  BY DEF promote_inspection, UnderReview, JobMoves, Ordered
<1>3. VisitType' /\ VisitsMove
  <2>1. PICK s \in {"under_review", "integrity_failed"} :
          /\ visit[k].status \in {"submitted", "under_review"}
          /\ visit' = [visit EXCEPT ![k].status = s]
    BY DEF promote_inspection
  <2>2. visit[k] # NoVisit /\ s \in VisitStatus \ {"none"} /\ s \notin Running
    BY <2>1 DEF NoVisit, VisitStatus, Running
  <2> QED BY <1>1, <2>1, <2>2, StatusMoves
<1> QED BY <1>2, <1>3, ServerOK DEF promote_inspection, phoneVars

\* An event is of a kind and of an agent; it may name a visit.
LEMMA EventType ==
  ASSUME IInv, NEW e \in net
  PROVE  /\ e.kind \in EventKind /\ e.by \in Agent /\ e.by # NoOne
         /\ e.kind \notin {"accept", "reject", "unable"} => e.k \in Visit
<1>1. NetType
  BY DEF IInv, TypeInv
<1>2. e.kind \in EventKind /\ e.by \in Agent
      /\ (e.kind \notin {"accept", "reject", "unable"} => e.k \in Visit)
  BY <1>1 DEF NetType
<1>3. NoOne \notin Agent
  BY JobsAssumption DEF NoOne
<1> QED BY <1>2, <1>3

\* An event is applied: what it makes of the job,
LEMMA ApplyJob ==
  ASSUME IInv, NEW e \in net, Applies(e), Apply(e)
  PROVE  JobMoves
<1>1. JobType /\ OfOneMind /\ PendingInv /\ e.by \in Agent /\ e.by # NoOne
  BY EventType DEF IInv, TypeInv
<1>2. CASE e.kind = "accept"
  <2>1. Fits(e) /\ AcceptEvent(e)
    BY <1>2 DEF Applies, Apply
  <2> QED BY <1>1, <2>1 DEF Fits, AcceptEvent, JobMoves, Taken
<1>3. CASE e.kind = "reject"
  <2>1. Fits(e) /\ RejectEvent(e)
    BY <1>3 DEF Applies, Apply
  <2>2. /\ status = "assigned" /\ agent = e.by /\ status' = "scheduled" /\ agent' = NoOne
        /\ asg' = Answered(e.by, "rejected")
    BY <2>1 DEF Fits, RejectEvent
  <2>3. /\ asg' \in Seq(Assignment) /\ DOMAIN asg' = DOMAIN asg
        /\ \A i \in DOMAIN asg :
             asg'[i].response = IF asg[i].user = e.by /\ asg[i].response = "pending"
                               THEN "rejected" ELSE asg[i].response
    BY <1>1, <2>2, AnsweredHeld DEF JobType, Response
  <2>4. \A i \in DOMAIN asg : asg[i].response \in Live =>
                             asg[i].user = e.by /\ asg[i].response = "pending"
    BY <1>1, <2>2 DEF OfOneMind, Held
  <2>5. Freed
    BY <2>2, <2>3, <2>4 DEF Freed, NoneLive, Live
  <2> QED BY <2>5 DEF JobMoves
<1>4. CASE e.kind = "unable"
  <2>1. MayGiveUp(e) /\ UnableEvent(e)
    BY <1>4 DEF Applies, Apply
  <2> QED BY <1>1, <2>1, AgentMoves DEF MayGiveUp, UnableEvent, JobMoves, Taken
<1>5. CASE e.kind \in {"pause", "resume"}
  <2>1. PauseEvent(e) \/ ResumeEvent(e)
    BY <1>5 DEF Apply
  <2> QED BY <2>1 DEF PauseEvent, ResumeEvent, JobMoves, Ordered, Running
<1>6. CASE e.kind = "start"
  <2>1. StartEvent(e)
    BY <1>6 DEF Apply
  <2>2. CASE agent = e.by /\ can_transition("in_progress", "agent")
    BY <1>1, <2>1, <2>2, AgentMoves DEF StartEvent, Follow, JobMoves, Taken
  <2>3. CASE ~(agent = e.by /\ can_transition("in_progress", "agent"))
    BY <1>1, <2>1, <2>3, AgentMoves DEF StartEvent, Follow, JobMoves, Noted
  <2> QED BY <2>2, <2>3
<1>7. CASE e.kind = "submit"
  <2>1. SubmitEvent(e)
    BY <1>7 DEF Apply
  <2>2. CASE agent = e.by /\ can_transition("submitted", "agent")
    BY <1>1, <2>1, <2>2, AgentMoves DEF SubmitEvent, Follow, UnderReview, JobMoves, Taken
  <2>3. CASE ~(agent = e.by /\ can_transition("submitted", "agent"))
    BY <1>1, <2>1, <2>3, AgentMoves DEF SubmitEvent, Follow, JobMoves, Noted
  <2> QED BY <2>2, <2>3
<1> QED BY <1>2, <1>3, <1>4, <1>5, <1>6, <1>7, EventType DEF EventKind

\* and of the visits; a submission leaves its visit kept.
LEMMA ApplyVisits ==
  ASSUME IInv, NEW e \in net, Applies(e), Apply(e)
  PROVE  /\ VisitType' /\ VisitsMove
         /\ e.kind = "submit" => Kept(e.by, e.k)'
<1>1. VisitType /\ e.by \in Agent /\ (e.kind \notin {"accept", "reject", "unable"} => e.k \in Visit)
  BY EventType DEF IInv, TypeInv
<1>2. CASE e.kind \in {"accept", "reject"}
  <2>1. UNCHANGED visit
    BY <1>2 DEF Apply, AcceptEvent, RejectEvent
  <2> QED BY <1>1, <1>2, <2>1, VisitsStay DEF VisitType
<1>3. CASE e.kind = "unable"
  <2> DEFINE m == Max(RunningOf(e.by))
  <2>1. visit' = [k \in Visit |-> IF RunningOf(e.by) # {} /\ k = m
                                 THEN [visit[k] EXCEPT !.status = "abandoned"] ELSE visit[k]]
    BY <1>3 DEF Apply, UnableEvent
  <2>2. CASE RunningOf(e.by) = {}
    <3>1. visit' = visit
      BY <1>1, <2>1, <2>2 DEF VisitType
    <3> QED BY <1>1, <1>3, <3>1, VisitsStay DEF VisitType
  <2>3. CASE RunningOf(e.by) # {}
    <3>1. m \in Visit /\ visit[m].user = e.by /\ visit[m].status \in Running
      BY <1>1, <2>3, VisitNumbers DEF IInv, RunningOf
    <3> HIDE DEF m
    <3>2. visit' = [visit EXCEPT ![m].status = "abandoned"]
      BY <1>1, <2>1, <2>3, <3>1 DEF VisitType
    <3>3. visit[m] # NoVisit /\ ~Sealed(visit[m])
      BY <3>1 DEF NoVisit, Running, Sealed
    <3>4. "abandoned" \in VisitStatus \ {"none"}
      BY DEF VisitStatus
    <3>5. VisitType' /\ VisitsMove
      BY <1>1, <3>1, <3>2, <3>3, <3>4, StatusMoves
    <3> QED BY <1>3, <3>5
  <2> QED BY <2>2, <2>3
<1>4. CASE e.kind \in {"pause", "resume"}
  <2>1. PICK s \in Running :
          /\ visit[e.k].status \in Running
          /\ visit' = [visit EXCEPT ![e.k].status = s]
    BY <1>4 DEF Applies, Apply, PauseEvent, ResumeEvent, Running
  <2>2. visit[e.k] # NoVisit /\ ~Sealed(visit[e.k]) /\ s \in VisitStatus \ {"none"}
    BY <2>1 DEF NoVisit, Sealed, Running, VisitStatus
  <2>3. VisitType' /\ VisitsMove
    BY <1>1, <1>4, <2>1, <2>2, StatusMoves
  <2> QED BY <1>4, <2>3
<1>5. CASE e.kind = "start"
  <2>1. visit[e.k] = NoVisit
        /\ visit' = [visit EXCEPT ![e.k] = [user |-> e.by, status |-> "in_progress"]]
    BY <1>5 DEF Applies, Apply, MayStart, StartEvent
  <2>2. "in_progress" \in VisitStatus \ {"none"}
    BY DEF VisitStatus
  <2>3. VisitType' /\ VisitsMove
    BY <1>1, <1>5, <2>1, <2>2, VisitBegins
  <2> QED BY <1>5, <2>3
<1>6. CASE e.kind = "submit"
  <2>1. visit[e.k] = NoVisit \/ (visit[e.k].user = e.by /\ ~Sealed(visit[e.k]))
    BY <1>6 DEF Applies, MaySubmit, Holds, Sealed
  <2>2. PICK s \in {"submitted", "under_review"} :
          visit' = [visit EXCEPT ![e.k] = [user |-> e.by, status |-> s]]
    BY <1>6 DEF Apply, SubmitEvent
  <2>3. s \in VisitStatus \ {"none"} /\ s \notin Running
    BY DEF VisitStatus, Running
  <2>4. VisitType' /\ VisitsMove /\ visit'[e.k] = [user |-> e.by, status |-> s]
    BY <1>1, <1>6, <2>1, <2>2, <2>3, VisitBegins
  <2>5. Kept(e.by, e.k)'
    BY <2>3, <2>4 DEF Kept, NoVisit
  <2> QED BY <2>4, <2>5
<1> QED BY <1>2, <1>3, <1>4, <1>5, <1>6, EventType DEF EventKind

\* The server's receipt of an event.
LEMMA ReceiveOK ==
  ASSUME IInv, NEW e \in net, Receive(e)
  PROVE  StepOK
<1>1. net' = net \ {e} /\ UNCHANGED <<view, local>>
  BY DEF Receive
<1>2. PhoneType' /\ NetType'
  BY <1>1 DEF IInv, TypeInv, PhoneType, NetType
<1>3. /\ JobMoves /\ VisitType' /\ VisitsMove
      /\ e.kind = "submit" => Kept(e.by, e.k)'
  <2>1. CASE Applies(e)
    BY <2>1, ApplyJob, ApplyVisits DEF Receive
  <2>2. CASE ~Applies(e)
    <3>1. UNCHANGED <<status, agent, asg, visit>>
      BY <2>2 DEF Receive
    <3>2. JobMoves /\ VisitType' /\ VisitsMove
      BY <3>1, VisitsStay DEF JobMoves, Ordered, IInv, TypeInv, VisitType
    <3>3. ASSUME e.kind = "submit" PROVE Kept(e.by, e.k)
      BY <2>2, <3>3 DEF Applies, MaySubmit, Holds, Kept
    <3> QED BY <3>1, <3>2, <3>3 DEF Kept
  <2> QED BY <2>1, <2>2
<1>4. WorkInv'
  <2>1. SUFFICES ASSUME NEW u \in Agent, NEW k \in Visit, local'[u][k] = "submitted"
                 PROVE  OnItsWay(u, k)' \/ Kept(u, k)'
    BY DEF WorkInv
  <2>2. CASE Kept(u, k)
    BY <1>3, <2>2, KeptStays
  <2>3. CASE OnItsWay(u, k)
    <3>1. PICK f \in net : f.kind = "submit" /\ f.by = u /\ f.k = k
      BY <2>3 DEF OnItsWay
    <3>2. CASE f = e
      BY <1>3, <3>1, <3>2
    <3>3. CASE f # e
      BY <1>1, <3>1, <3>3 DEF OnItsWay
    <3> QED BY <3>2, <3>3
  <2> QED BY <1>1, <2>1, <2>2, <2>3 DEF IInv, WorkInv
<1> QED BY <1>2, <1>3, <1>4 DEF StepOK

\* A phone tells of what its agent does.
LEMMA TellOK ==
  ASSUME IInv, NEW u \in Agent, NEW kind \in EventKind, NEW k, Tell(u, kind, k), PhoneType',
         kind \notin {"accept", "reject", "unable"} => k \in Visit,
         \A v \in Agent, j \in Visit :
           local'[v][j] = "submitted" =>
             local[v][j] = "submitted" \/ (v = u /\ j = k /\ kind = "submit")
  PROVE  StepOK
<1> DEFINE e == [kind |-> kind, by |-> u, k |-> k, n |-> count[u] + 1]
<1>1. net' = net \cup {e} /\ UNCHANGED <<status, agent, asg, visit>>
  BY DEF Tell, serverVars
<1>2. e.kind = kind /\ e.by = u /\ e.k = k
  OBVIOUS
<1> HIDE DEF e
<1>3. NetType'
  BY <1>1, <1>2 DEF IInv, TypeInv, NetType
<1>4. JobMoves /\ VisitType' /\ VisitsMove
  BY <1>1, VisitsStay DEF JobMoves, Ordered, IInv, TypeInv, VisitType
<1>5. WorkInv'
  BY <1>1, <1>2 DEF IInv, WorkInv, OnItsWay, Kept
<1> QED BY <1>3, <1>4, <1>5 DEF StepOK

\* The phone's steps.
LEMMA PhoneOK ==
  ASSUME IInv, NEW u \in Agent, Phone(u)
  PROVE  StepOK
<1>1. PhoneType /\ JobType /\ VisitType /\ NetType /\ Latest \in 0 .. MaxVisit
  BY VisitNumbers DEF IInv, TypeInv
<1>2. CASE Pull(u)
  <2>1. PhoneType'
    BY <1>1, <1>2 DEF Pull, PhoneType, JobType
  <2>2. UNCHANGED <<status, agent, asg, visit, local, net>>
    BY <1>2 DEF Pull, serverVars
  <2>3. NetType' /\ WorkInv' /\ VisitType'
    BY <1>1, <2>2 DEF NetType, VisitType, IInv, WorkInv, OnItsWay, Kept
  <2>4. JobMoves /\ VisitsMove
    BY <2>2, VisitsStay DEF JobMoves, Ordered
  <2> QED BY <2>1, <2>3, <2>4 DEF StepOK
<1>3. CASE Accept(u)
  <2>1. PhoneType' /\ UNCHANGED local
    BY <1>1, <1>3 DEF Accept, JobIs, PhoneType, Status
  <2> QED BY <1>3, <2>1, TellOK DEF Accept, EventKind
<1>4. CASE Reject(u)
  <2>1. PhoneType' /\ UNCHANGED local
    BY <1>1, <1>4 DEF Reject, PhoneType, Status
  <2> QED BY <1>4, <2>1, TellOK DEF Reject, EventKind
<1>5. CASE Unable(u)
  <2>1. PhoneType' /\ UNCHANGED local
    BY <1>1, <1>5 DEF Unable, JobIs, PhoneType, Status
  <2> QED BY <1>5, <2>1, TellOK DEF Unable, EventKind
<1>6. CASE Begin(u)
  <2> DEFINE k == NextVisit(u)
  <2>1. k \in Visit
    <3>1. k \in 1 .. (MaxVisit + 1) /\ k <= MaxVisit /\ MaxVisit \in Nat
      BY <1>6, VisitNumbers, JobsAssumption DEF IInv, Begin
    <3> HIDE DEF k
    <3> QED BY <3>1 DEF Visit
  <2>2. /\ local' = [local EXCEPT ![u][k] = "in_progress"]
        /\ Tell(u, "start", k) /\ JobIs(u, "in_progress")
    BY <1>6 DEF Begin
  <2> HIDE DEF k
  <2>3. PhoneType'
    BY <1>1, <2>1, <2>2 DEF JobIs, PhoneType, Status
  <2>4. \A v \in Agent, j \in Visit : local'[v][j] = "submitted" => local[v][j] = "submitted"
    BY <1>1, <2>1, <2>2 DEF PhoneType
  <2> QED BY <2>1, <2>2, <2>3, <2>4, TellOK DEF EventKind
<1>7. ASSUME NEW k \in Visit, NEW kind \in {"pause", "resume"}, GeofenceChange(u, k, kind)
      PROVE  StepOK
  <2>1. PhoneType' /\ UNCHANGED local
    BY <1>1, <1>7 DEF GeofenceChange, JobIs, PhoneType, Status
  <2> QED BY <1>7, <2>1, TellOK DEF GeofenceChange, EventKind
<1>8. ASSUME NEW k \in Visit, Submit(u, k) PROVE StepOK
  <2>1. PhoneType'
    BY <1>1, <1>8 DEF Submit, JobIs, PhoneType, Status
  <2>2. \A v \in Agent, j \in Visit :
          local'[v][j] = "submitted" => local[v][j] = "submitted" \/ (v = u /\ j = k)
    BY <1>1, <1>8 DEF Submit, PhoneType
  <2> QED BY <1>8, <2>1, <2>2, TellOK DEF Submit, EventKind
<1> QED BY <1>2, <1>3, <1>4, <1>5, <1>6, <1>7, <1>8 DEF Phone

\* A phone that reads the job.
LEMMA HoldOK ==
  ASSUME IInv, NEW e \in net, Hold(e)
  PROVE  StepOK
BY JobOK DEF Hold, serverVars, JobMoves, Ordered

\* Every step moves the job and the visits in one of these ways.
LEMMA NextOK == ASSUME IInv, Next PROVE StepOK
<1>1. CASE \/ ContactAttempt \/ Schedule \/ Unschedule \/ NotSecured \/ Revoke \/ Cancel \/ Close
           \/ \E u \in Agent : Allocate(u) \/ Reassign(u)
  BY <1>1, OfficeOK
<1>2. CASE \E k \in Visit, d \in Decision : Review(k, d)
  BY <1>2, ReviewOK
<1>3. CASE Expire
  BY <1>3, ExpireOK
<1>4. CASE \E k \in Visit : promote_inspection(k)
  BY <1>4, PromoteOK
<1>5. CASE \E u \in Agent : Phone(u)
  BY <1>5, PhoneOK
<1>6. CASE \E e \in net : Receive(e) \/ Hold(e)
  BY <1>6, ReceiveOK, HoldOK
<1> QED BY <1>1, <1>2, <1>3, <1>4, <1>5, <1>6 DEF Next

\* A step that changes nothing is none.
LEMMA StutterOK == ASSUME IInv, UNCHANGED vars PROVE StepOK
BY JobOK DEF vars, serverVars, phoneVars, JobMoves, Ordered

\* What a step shows is what the invariant needs.
LEMMA StepKeeps == ASSUME IInv, StepOK PROVE IInv'
<1>1. JobInv'
  BY JobMovesKeep DEF IInv, TypeInv, JobInv, StepOK
<1> QED BY <1>1 DEF StepOK, IInv, TypeInv, JobInv

\* The invariant holds initially.
LEMMA InitOK == ASSUME Init PROVE IInv
<1>1. asg \in Seq(Assignment) /\ DOMAIN asg = {}
  BY DEF Init
<1>2. JobType
  BY <1>1 DEF Init, JobType, Status, AnyOne
<1>3. VisitType /\ NetType
  BY DEF Init, VisitType, NetType, NoVisit, AnyOne, VisitStatus
<1>4. PhoneType
  <2>1. MaxVisit \in Nat
    BY JobsAssumption
  <2>2. 0 \in 0 .. MaxVisit
    BY <2>1
  <2> QED BY <2>2 DEF Init, PhoneType, Unseen
<1>5. OfOneMind /\ PendingInv
  BY <1>1 DEF Init, OfOneMind, PendingInv, Held, AtWork, Decision
<1>6. WorkInv
  BY DEF Init, WorkInv
<1> QED BY <1>2, <1>3, <1>4, <1>5, <1>6 DEF IInv, TypeInv

-----------------------------------------------------------------------------
(* The theorems. *)

\* The invariant holds for any agents, visits and events: the types, the
\* assignments, and the submitted visits.
THEOREM JobsInvariant == Spec => []IInv
<1>1. Init => IInv
  BY InitOK
<1>2. IInv /\ [Next]_vars => IInv'
  BY NextOK, StutterOK, StepKeeps
<1> QED BY <1>1, <1>2, PTL DEF Spec

\* The job and its assignments are of one mind, whoever moved it last
\* (admin_job_allocate, admin_job_revoke, apply_job_event,
\* cron_expire_assignments).
THEOREM JobsOfOneMind == Spec => []OfOneMind
<1>1. IInv => OfOneMind
  BY DEF IInv
<1> QED BY <1>1, JobsInvariant, PTL

\* What an agent submitted and the server has taken is there, in whatever
\* order it came (apply_inspection_started, apply_submission).
THEOREM JobsKeepWork == Spec => []WorkIsKept
<1>1. IInv => WorkIsKept
  BY DEF IInv, WorkInv, WorkIsKept, OnItsWay, Kept
<1> QED BY <1>1, JobsInvariant, PTL

\* A sealed visit is never under way again and nobody else's
\* (tg_inspection_guard).
THEOREM VisitsStaySealed == Spec => StaysSealed
<1>1. IInv /\ [Next]_vars =>
        [\A k \in Visit : Sealed(visit[k]) =>
           Sealed(visit'[k]) /\ visit'[k].user = visit[k].user]_vars
  <2>1. ASSUME IInv, StepOK, NEW k \in Visit, Sealed(visit[k])
        PROVE  Sealed(visit'[k]) /\ visit'[k].user = visit[k].user
    BY <2>1 DEF StepOK, VisitsMove, VisitMoves, Sealed
  <2> QED BY <2>1, NextOK, StutterOK
<1> QED BY <1>1, JobsInvariant, PTL DEF Spec, StaysSealed

\* Who does not have the job any more answers nothing for the one who has
\* (apply_job_event, apply_inspection_started, apply_submission).
THEOREM OnlyItsAgentMoves == Spec => OnlyItsAgent
<1>1. ASSUME IInv, NEW e \in net, Receive(e), e.by # agent, e.kind \notin {"pause", "resume"}
      PROVE  UNCHANGED <<agent, asg>> /\ status' \in {status, UnderReview(status)}
  <2>1. asg \in Seq(Assignment) /\ PendingInv /\ e.by \in Agent /\ e.kind \in EventKind
    BY <1>1, EventType DEF IInv, TypeInv, JobType
  <2>2. CASE ~Applies(e)
    BY <1>1, <2>2 DEF Receive
  <2>3. CASE Applies(e)
    <3>1. Apply(e)
      BY <1>1, <2>3 DEF Receive
    <3>2. e.kind \in {"start", "submit"}
      BY <1>1, <2>1, <2>3 DEF Applies, Fits, MayGiveUp, EventKind
    <3>3. StartEvent(e) \/ SubmitEvent(e)
      BY <3>1, <3>2 DEF Apply
    <3>4. Answered(e.by, "accepted") = asg
      BY <1>1, <2>1, NotedIsNothing DEF Response
    <3> QED BY <1>1, <3>3, <3>4 DEF StartEvent, SubmitEvent, Follow
  <2> QED BY <2>2, <2>3
<1>2. IInv /\ [Next]_vars =>
        [\A e \in net : Receive(e) /\ e.by # agent /\ e.kind \notin {"pause", "resume"} =>
           /\ UNCHANGED <<agent, asg>>
           /\ status' \in {status, UnderReview(status)}]_vars
  BY <1>1
<1> QED BY <1>2, JobsInvariant, PTL DEF Spec, OnlyItsAgent

\* The job is a job as the bank sees it: the specification Dashboard.
THEOREM BankSeesProgress == Spec => SeenByTheBank
<1>1. Init => Board!Init
  BY DEF Init, Board!Init, dashboardStatus
<1>2. IInv /\ [Next]_vars => [Board!Next]_(dashboardStatus(status))
  <2>1. ASSUME IInv, StepOK PROVE Board!Next \/ UNCHANGED dashboardStatus(status)
    BY <2>1, JobMovesSeen DEF IInv, TypeInv, JobInv, StepOK
  <2> QED BY <2>1, NextOK, StutterOK
<1> QED BY <1>1, <1>2, JobsInvariant, PTL DEF Spec, SeenByTheBank, Board!Spec

=============================================================================
