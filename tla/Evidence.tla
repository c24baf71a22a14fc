------------------------------- MODULE Evidence -------------------------------
(***************************************************************************)
(* The evidence of one inspection: uploaded by the device                  *)
(* (evidence_uploads.dart), recorded by the typed ingest handlers          *)
(* (rpc_ingest.sql), verified and replicated by the queue workers          *)
(* (workers/index.ts, rpc_workers_cron.sql), counted until the inspection  *)
(* goes to review.                                                         *)
(*                                                                         *)
(* A transaction of the server is in steps where it may wait for a row:    *)
(* an evidence row, the inspection, the job.  The statement that counts    *)
(* evidence sees what was committed when it began, also when it then       *)
(* waits for the inspection's row.  A cycle of waiting transactions is     *)
(* broken by the database, which aborts one of them.                       *)
(***************************************************************************)
EXTENDS Naturals, FiniteSets

CONSTANTS
  E,            \* evidence ids, in the order of their creation; the
                \* manifest of the submission lists them all
  Worker,       \* runs of the queue drain
  Request,      \* requests and reprocessor runs that apply envelopes
  SweepLimit,   \* rows of evidence_sweep_candidates
  MaxAttempts,  \* max_attempts of verify_evidence
  MayFail,      \* storage is out of reach at times, workers die
  MayRot        \* the bytes on the device change before the upload

ASSUME EvidenceAssumption ==
  /\ E \subseteq Nat /\ IsFiniteSet(E)
  /\ Worker \cap Request = {}
  /\ SweepLimit \in Nat \ {0}
  /\ MaxAttempts \in Nat \ {0}
  /\ MayFail \in BOOLEAN /\ MayRot \in BOOLEAN

VARIABLES
  dev,    \* dev[e]: the device's record of e
  out,    \* envelopes the server has landed and not yet applied
  obj,    \* obj[e]: the object in the evidence bucket
  copy,   \* copy[e]: the object in the replica bucket
  ev,     \* ev[e]: the row of pos.evidence
  insp,   \* the inspection
  verify, \* verify[e]: e's message in verify_evidence
  replic, \* replic[e]: e's message in replicate_evidence
  txn     \* txn[a]: what a worker or a request is doing

serverVars == <<ev, insp>>
queueVars  == <<verify, replic>>
vars == <<dev, out, obj, copy, ev, insp, verify, replic, txn>>

-----------------------------------------------------------------------------
Actor == Worker \cup Request
\* A message carries dead: it has a copy in the dead-letter queue, and an
\* alert.  A transaction's phase: "reads" has the message or envelope; "waits"
\* holds the evidence row and waits for the inspection; "holds" has both;
\* "job" holds the job and waits for the inspection; "locked" has both and
\* waits for evidence.
Idle == [kind |-> "none", e |-> CHOOSE e \in E : TRUE, phase |-> "idle", to |-> "none",
         sees |-> FALSE, reads |-> 0, received |-> 0, verified |-> 0]

NoMessage == [state |-> "none", reads |-> 0, dead |-> FALSE]
NewMessage == [NoMessage EXCEPT !.state = "visible"]

Init ==
  /\ dev = [e \in E |-> [state |-> "local_only", bytes |-> TRUE]]
  /\ out = {<<"meta", e>> : e \in E} \cup {<<"submit", 0>>}
  /\ obj = [e \in E |-> "none"]
  /\ copy = [e \in E |-> "none"]
  /\ ev = [e \in E |-> [up |-> "none", inManifest |-> FALSE, replica |-> "none"]]
  /\ insp = [status |-> "in_progress", received |-> 0, verified |-> 0]
  /\ verify = [e \in E |-> NoMessage]
  /\ replic = [e \in E |-> NoMessage]
  /\ txn = [a \in Actor |-> Idle]

-----------------------------------------------------------------------------
(* Rows and what locks them. *)

EvidenceLocked(e) ==
  \E a \in Actor : txn[a].e = e /\ txn[a].phase \in {"waits", "holds"}
InspectionLocked == \E a \in Actor : txn[a].phase \in {"holds", "locked"}
JobLocked == \E a \in Actor : txn[a].phase \in {"job", "locked"}

Submitted == insp.status # "in_progress"

\* The two counts of recount_evidence over the rows r.
Received(r) == Cardinality({e \in E : /\ r[e].inManifest
                                      /\ r[e].up \in {"uploaded", "verified", "quarantined"}})
Verified(r) == Cardinality({e \in E : r[e].inManifest /\ r[e].up = "verified"})

\* Mutant: received is enough for a review.
PromotedWhenReceived(i, quarantined) ==
  CASE quarantined /\ i.status \in {"submitted", "verifying", "under_review"} ->
         [i EXCEPT !.status = "integrity_failed"]
    [] ~quarantined /\ i.status \in {"submitted", "verifying"}
         /\ i.received >= Cardinality(E) -> [i EXCEPT !.status = "under_review"]
    [] OTHER -> i

\* Mutant: an inspection that waits for its verification stays there.
PromotedFromSubmitted(i, quarantined) ==
  CASE quarantined /\ i.status = "submitted" -> [i EXCEPT !.status = "integrity_failed"]
    [] ~quarantined /\ i.status = "submitted"
         /\ i.verified >= Cardinality(E) -> [i EXCEPT !.status = "under_review"]
    [] ~quarantined /\ i.status = "submitted" /\ i.verified < Cardinality(E)
         /\ i.received >= Cardinality(E) -> [i EXCEPT !.status = "verifying"]
    [] OTHER -> i

\* promote_inspection
Promoted(i, quarantined) ==
  CASE quarantined /\ i.status \in {"submitted", "verifying", "under_review"} ->
         [i EXCEPT !.status = "integrity_failed"]
    [] ~quarantined /\ i.status \in {"submitted", "verifying"}
         /\ i.verified >= Cardinality(E) -> [i EXCEPT !.status = "under_review"]
    [] ~quarantined /\ i.status = "submitted" /\ i.verified < Cardinality(E)
         /\ i.received >= Cardinality(E) -> [i EXCEPT !.status = "verifying"]
    [] OTHER -> i

Quarantined(r) == \E e \in E : r[e].up = "quarantined"

\* One transaction that moves e's row: its statements up to the count, for
\* which it may have to wait.
Moves(a, t, e, to) ==
  LET r == [ev EXCEPT ![e].up = to] IN
  /\ ~EvidenceLocked(e)
  /\ txn' = [txn EXCEPT ![a] = [t EXCEPT !.phase = IF InspectionLocked THEN "waits" ELSE "holds",
                                         !.e = e, !.to = to, !.received = Received(r),
                                         !.verified = Verified(r)]]

GetsInspection(a) ==
  /\ txn[a].phase = "waits"
  /\ ~InspectionLocked
  /\ txn' = [txn EXCEPT ![a].phase = "holds"]
  /\ UNCHANGED <<dev, out, obj, copy, serverVars, queueVars>>

\* Its commit: the counts are those the statement took.
MoveCommits(a) ==
  LET t == txn[a]
      r == [ev EXCEPT ![t.e].up = t.to]
      counted == [insp EXCEPT !.received = t.received, !.verified = t.verified] IN
  /\ t.phase = "holds"
  /\ t.kind # "sweep" => ~JobLocked
  /\ ev' = r
  /\ insp' = IF t.kind = "sweep" THEN counted ELSE Promoted(counted, Quarantined(r))
  /\ CASE t.kind \in {"uploaded", "sweep"} ->
            /\ verify' = [verify EXCEPT ![t.e] = NewMessage]
            /\ out' = out \ (IF t.kind = "uploaded" THEN {<<"uploaded", t.e>>} ELSE {})
            /\ txn' = [txn EXCEPT ![a] = Idle]
            /\ UNCHANGED replic
       [] t.kind = "verify" ->
            /\ replic' = IF t.to = "verified"
                         THEN [replic EXCEPT ![t.e] = NewMessage]
                         ELSE replic
            /\ txn' = [txn EXCEPT ![a] = [Idle EXCEPT !.kind = "verify", !.e = t.e,
                                                      !.phase = "reads", !.sees = TRUE]]
            /\ UNCHANGED <<verify, out>>
  /\ UNCHANGED <<dev, obj, copy>>

-----------------------------------------------------------------------------
(* The device. *)

\* Grant, PUT: the object is written once and never over another.
Upload(e) ==
  /\ dev[e].state = "local_only" /\ dev[e].bytes
  /\ ev[e].up = "pending" /\ obj[e] = "none"
  /\ \E b \in (IF MayRot THEN {"good", "bad"} ELSE {"good"}) : obj' = [obj EXCEPT ![e] = b]
  /\ UNCHANGED <<dev, out, copy, serverVars, queueVars, txn>>

\* Mutant: the bytes go as soon as they are uploaded.
RecordUploadedAndClear(e) ==
  /\ dev[e].state = "local_only"
  /\ ev[e].up \in {"pending", "uploaded"} /\ obj[e] # "none"
  /\ dev' = [dev EXCEPT ![e] = [state |-> "uploaded", bytes |-> FALSE]]
  /\ out' = out \cup {<<"uploaded", e>>}
  /\ UNCHANGED <<obj, copy, serverVars, queueVars, txn>>

\* _recordUploaded: after the PUT, or for a grant that says the object is
\* there already.
RecordUploaded(e) ==
  /\ dev[e].state = "local_only"
  /\ ev[e].up \in {"pending", "uploaded"} /\ obj[e] # "none"
  /\ dev' = [dev EXCEPT ![e].state = "uploaded"]
  /\ out' = out \cup {<<"uploaded", e>>}
  /\ UNCHANGED <<obj, copy, serverVars, queueVars, txn>>

\* The pull's evidence stream, or a grant that says so.
LearnState(e) ==
  /\ dev[e].state # ev[e].up
  /\ \/ ev[e].up = "verified" /\ dev' = [dev EXCEPT ![e] = [state |-> "verified", bytes |-> FALSE]]
     \/ ev[e].up = "quarantined" /\ dev' = [dev EXCEPT ![e].state = "quarantined"]
     \/ /\ ev[e].up = "uploaded" /\ dev[e].state = "local_only"
        /\ dev' = [dev EXCEPT ![e].state = "uploaded"]
  /\ UNCHANGED <<out, obj, copy, serverVars, queueVars, txn>>

-----------------------------------------------------------------------------
(* Requests apply envelopes. *)

Begins(a, t) == /\ txn[a] = Idle
                /\ txn' = [txn EXCEPT ![a] = t]

Working(m) == \E a \in Request : txn[a].kind = m[1] /\ (m[1] = "submit" \/ txn[a].e = m[2])

\* apply_evidence_meta reads the inspection without a lock,
MetaReads(a, e) ==
  /\ <<"meta", e>> \in out /\ ~Working(<<"meta", e>>)
  /\ Begins(a, [Idle EXCEPT !.kind = "meta", !.e = e, !.phase = "reads", !.sees = Submitted])
  /\ UNCHANGED <<dev, out, obj, copy, serverVars, queueVars>>

\* and inserts the row, whose foreign key waits for a locked inspection.
MetaInserts(a) ==
  LET t == txn[a] IN
  /\ t.kind = "meta"
  /\ \A b \in Actor : txn[b].phase # "locked"
  /\ ev' = [ev EXCEPT ![t.e] = [up |-> "pending", inManifest |-> t.sees, replica |-> "none"]]
  /\ out' = out \ {<<"meta", t.e>>}
  /\ txn' = [txn EXCEPT ![a] = Idle]
  /\ UNCHANGED <<dev, obj, copy, insp, queueVars>>

\* apply_evidence_uploaded: deferred without the row, nothing to do for one
\* that is not pending.
UploadedApplied(a, e) ==
  /\ <<"uploaded", e>> \in out /\ ~Working(<<"uploaded", e>>)
  /\ txn[a] = Idle
  /\ \/ /\ ev[e].up = "pending"
        /\ Moves(a, [Idle EXCEPT !.kind = "uploaded"], e, "uploaded")
        /\ UNCHANGED out
     \/ /\ ev[e].up \notin {"none", "pending"}
        /\ ~EvidenceLocked(e)
        /\ out' = out \ {<<"uploaded", e>>}
        /\ UNCHANGED txn
  /\ UNCHANGED <<dev, obj, copy, serverVars, queueVars>>

\* apply_submission: the job, the inspection, then the evidence rows.
SubmitLocksJob(a) ==
  /\ <<"submit", 0>> \in out /\ ~Working(<<"submit", 0>>)
  /\ ~JobLocked
  /\ Begins(a, [Idle EXCEPT !.kind = "submit", !.phase = "job"])
  /\ UNCHANGED <<dev, out, obj, copy, serverVars, queueVars>>

SubmitLocksInspection(a) ==
  /\ txn[a].phase = "job"
  /\ ~InspectionLocked
  /\ txn' = [txn EXCEPT ![a].phase = "locked"]
  /\ UNCHANGED <<dev, out, obj, copy, serverVars, queueVars>>

SubmitCommits(a) ==
  LET r == [e \in E |-> [ev[e] EXCEPT !.inManifest = ev[e].up # "none"]] IN
  /\ txn[a].phase = "locked"
  /\ \A e \in E : ev[e].up # "none" => ~EvidenceLocked(e)
  /\ ev' = r
  /\ insp' = Promoted([status |-> "submitted", received |-> Received(r), verified |-> Verified(r)],
                      Quarantined(r))
  /\ out' = out \ {<<"submit", 0>>}
  /\ txn' = [txn EXCEPT ![a] = Idle]
  /\ UNCHANGED <<dev, obj, copy, queueVars>>

\* A transaction holds what another waits for, and the other way round.
Cycle(a, b) ==
  \/ /\ txn[a].phase = "locked" /\ txn[b].phase = "waits"
  \/ /\ txn[a].phase = "job" /\ txn[b].phase = "holds" /\ txn[b].kind # "sweep"

\* The database aborts the submission: the envelope is held and comes again.
SubmitAborted(a) ==
  /\ txn[a].kind = "submit"
  /\ \E b \in Actor : Cycle(a, b)
  /\ txn' = [txn EXCEPT ![a] = Idle]
  /\ UNCHANGED <<dev, out, obj, copy, serverVars, queueVars>>

\* Or the other one: an envelope is held; a worker's run fails.
MoveAborted(a) ==
  /\ txn[a].kind \in {"uploaded", "sweep", "verify"}
  /\ \E b \in Actor : Cycle(b, a)
  /\ txn' = [txn EXCEPT ![a] = IF txn[a].kind = "verify"
                               THEN [txn[a] EXCEPT !.phase = "fetched", !.to = "none"]
                               ELSE Idle]
  /\ UNCHANGED <<dev, out, obj, copy, serverVars, queueVars>>

-----------------------------------------------------------------------------
(* The workers. *)

\* evidence_sweep_candidates: the oldest rows that are pending.
SweepCandidate(e) ==
  /\ ev[e].up = "pending"
  /\ Cardinality({f \in E : ev[f].up = "pending" /\ f < e}) < SweepLimit

\* sweep: exists, evidence_mark_uploaded.
Sweep(w, e) ==
  /\ txn[w] = Idle
  /\ SweepCandidate(e)
  /\ obj[e] # "none"
  /\ Moves(w, [Idle EXCEPT !.kind = "sweep"], e, "uploaded")
  /\ UNCHANGED <<dev, out, obj, copy, serverVars, queueVars>>

\* queue_read: a message that is visible is leased for a time.
ReadVerify(w, e) ==
  LET n == IF verify[e].reads < MaxAttempts THEN verify[e].reads + 1 ELSE MaxAttempts IN
  /\ verify[e].state = "visible"
  /\ verify' = [verify EXCEPT ![e].state = "leased", ![e].reads = n]
  /\ Begins(w, [Idle EXCEPT !.kind = "verify", !.e = e, !.phase = "reads", !.reads = n])
  /\ UNCHANGED <<dev, out, obj, copy, serverVars, replic>>

\* The lease runs out while somebody may still be working on it.
LeaseEnds(e) ==
  /\ \/ /\ verify[e].state = "leased"
        /\ verify' = [verify EXCEPT ![e].state = "visible"] /\ UNCHANGED replic
     \/ /\ replic[e].state = "leased"
        /\ replic' = [replic EXCEPT ![e].state = "visible"] /\ UNCHANGED verify
  /\ UNCHANGED <<dev, out, obj, copy, serverVars, txn>>

\* verify: already decided, or the object is fetched and hashed.
Fetch(w) ==
  LET t == txn[w] IN
  /\ t.kind = "verify" /\ t.phase = "reads" /\ ~t.sees
  /\ txn' = [txn EXCEPT ![w] =
               IF ev[t.e].up \in {"verified", "quarantined"} THEN [t EXCEPT !.sees = TRUE]
               ELSE [t EXCEPT !.phase = "fetched",
                              !.to = IF obj[t.e] = "good" THEN "verified" ELSE "quarantined"]]
  /\ obj[t.e] # "none"
  /\ UNCHANGED <<dev, out, obj, copy, serverVars, queueVars>>

FetchFails(w) ==
  /\ MayFail \/ obj[txn[w].e] = "none"
  /\ txn[w].kind = "verify" /\ txn[w].phase = "reads" /\ ~txn[w].sees
  /\ txn' = [txn EXCEPT ![w].phase = "fetched", ![w].to = "none"]
  /\ UNCHANGED <<dev, out, obj, copy, serverVars, queueVars>>

\* Mutant: a decided row is decided again.
EvidenceVerifiedAgain(w) ==
  LET t == txn[w] IN
  /\ t.kind = "verify" /\ t.phase = "fetched" /\ t.to # "none"
  /\ Moves(w, t, t.e, t.to)
  /\ UNCHANGED <<dev, out, obj, copy, serverVars, queueVars>>

\* evidence_verified
EvidenceVerified(w) ==
  LET t == txn[w] IN
  /\ t.kind = "verify" /\ t.phase = "fetched" /\ t.to # "none"
  /\ \/ /\ ev[t.e].up \notin {"verified", "quarantined"}
        /\ Moves(w, t, t.e, t.to)
     \/ /\ ev[t.e].up \in {"verified", "quarantined"} /\ ~EvidenceLocked(t.e)
        /\ txn' = [txn EXCEPT ![w] = [Idle EXCEPT !.kind = "verify", !.e = t.e,
                                                  !.phase = "reads", !.sees = TRUE]]
  /\ UNCHANGED <<dev, out, obj, copy, serverVars, queueVars>>

\* queue_ack: the message is deleted after the effect.
Ack(w) ==
  LET t == txn[w] IN
  /\ t.phase = "reads" /\ t.sees /\ t.kind \in {"verify", "replicate"}
  /\ IF t.kind = "verify"
     THEN verify' = [verify EXCEPT ![t.e].state = "done"] /\ UNCHANGED replic
     ELSE replic' = [replic EXCEPT ![t.e].state = "done"] /\ UNCHANGED verify
  /\ txn' = [txn EXCEPT ![w] = Idle]
  /\ UNCHANGED <<dev, out, obj, copy, serverVars>>

\* Mutant: an exhausted message is deleted only.
RetryOrDrop(m, reads) ==
  IF reads >= MaxAttempts THEN [m EXCEPT !.state = "done"]
  ELSE IF m.state = "done" THEN m
  ELSE [m EXCEPT !.state = "leased"]

\* drain, after a failure: the dead letter when the attempts are used up,
\* else set_vt, which finds no message that another run has deleted.
RetryOrBury(m, reads) ==
  IF reads >= MaxAttempts THEN [m EXCEPT !.state = "done", !.dead = TRUE]
  ELSE IF m.state = "done" THEN m
  ELSE [m EXCEPT !.state = "leased"]

Fails(w) ==
  LET t == txn[w] IN
  /\ t.kind = "verify" /\ t.phase = "fetched" /\ t.to = "none"
  /\ verify' = [verify EXCEPT ![t.e] = RetryOrBury(@, t.reads)]
  /\ txn' = [txn EXCEPT ![w] = Idle]
  /\ UNCHANGED <<dev, out, obj, copy, serverVars, replic>>

ReadReplicate(w, e) ==
  /\ replic[e].state = "visible"
  /\ replic' = [replic EXCEPT ![e].state = "leased"]
  /\ Begins(w, [Idle EXCEPT !.kind = "replicate", !.e = e, !.phase = "reads"])
  /\ UNCHANGED <<dev, out, obj, copy, serverVars, verify>>

\* Mutant: a copy that exists is taken for a recorded one.
CopyObjectOnce(w) ==
  LET t == txn[w] IN
  /\ t.kind = "replicate" /\ t.phase = "reads" /\ ~t.sees
  /\ IF copy[t.e] # "none"
     THEN txn' = [txn EXCEPT ![w].sees = TRUE] /\ UNCHANGED copy
     ELSE /\ copy' = [copy EXCEPT ![t.e] = IF @ = "none" THEN obj[t.e] ELSE @]
          /\ txn' = [txn EXCEPT ![w].phase = "fetched"]
  /\ UNCHANGED <<dev, out, obj, serverVars, queueVars>>

\* replicate: the copy is made once, read back,
CopyObject(w) ==
  LET t == txn[w] IN
  /\ t.kind = "replicate" /\ t.phase = "reads" /\ ~t.sees
  /\ IF ev[t.e].replica = "replicated"
     THEN txn' = [txn EXCEPT ![w].sees = TRUE] /\ UNCHANGED copy
     ELSE /\ copy' = [copy EXCEPT ![t.e] = IF @ = "none" THEN obj[t.e] ELSE @]
          /\ txn' = [txn EXCEPT ![w].phase = "fetched"]
  /\ UNCHANGED <<dev, out, obj, serverVars, queueVars>>

\* and its hash compared (evidence_replicated).
EvidenceReplicated(w) ==
  LET t == txn[w] IN
  /\ t.kind = "replicate" /\ t.phase = "fetched"
  /\ ~EvidenceLocked(t.e)
  /\ ev' = [ev EXCEPT ![t.e].replica = IF copy[t.e] = "good" THEN "replicated" ELSE "failed"]
  /\ txn' = [txn EXCEPT ![w] = [t EXCEPT !.phase = "reads", !.sees = TRUE]]
  /\ UNCHANGED <<dev, out, obj, copy, insp, queueVars>>

\* A worker is cut off between two of its calls.
WorkerDies(w) ==
  /\ MayFail
  /\ txn[w].phase \in {"reads", "fetched"}
  /\ txn' = [txn EXCEPT ![w] = Idle]
  /\ UNCHANGED <<dev, out, obj, copy, serverVars, queueVars>>

-----------------------------------------------------------------------------
DeviceStep == \E e \in E : Upload(e) \/ RecordUploaded(e) \/ LearnState(e)

RequestStep(a) ==
  \/ \E e \in E : MetaReads(a, e) \/ UploadedApplied(a, e)
  \/ MetaInserts(a)
  \/ SubmitLocksJob(a) \/ SubmitLocksInspection(a) \/ SubmitCommits(a) \/ SubmitAborted(a)

WorkerStep(w) ==
  \/ \E e \in E : Sweep(w, e) \/ ReadVerify(w, e) \/ ReadReplicate(w, e)
  \/ Fetch(w) \/ FetchFails(w) \/ EvidenceVerified(w) \/ Ack(w) \/ Fails(w)
  \/ CopyObject(w) \/ EvidenceReplicated(w)

Next ==
  \/ DeviceStep
  \/ \E a \in Request : RequestStep(a)
  \/ \E w \in Worker : WorkerStep(w) \/ WorkerDies(w)
  \/ \E a \in Actor : GetsInspection(a) \/ MoveCommits(a) \/ MoveAborted(a)
  \/ \E e \in E : LeaseEnds(e)

Spec == Init /\ [][Next]_vars

\* The database ends every wait and breaks every cycle, a lease that is not
\* given back runs out.
DatabaseFairness ==
  /\ \A a \in Actor : SF_vars(GetsInspection(a)) /\ SF_vars(MoveCommits(a))
  /\ \A a \in Request : /\ WF_vars(MetaInserts(a))
                        /\ SF_vars(SubmitLocksInspection(a)) /\ SF_vars(SubmitCommits(a))
  /\ WF_vars(\E a \in Actor : SubmitAborted(a) \/ MoveAborted(a))
  /\ \A e \in E : WF_vars(LeaseEnds(e))

\* The workers run again and again, and storage answers some day.
VerifyFairness ==
  \A w \in Worker : /\ \A e \in E : SF_vars(ReadVerify(w, e))
                    /\ SF_vars(Fetch(w)) /\ SF_vars(EvidenceVerified(w))
                    /\ WF_vars(WorkerStep(w))

\* The device runs again and again, and what it sent, or the server held, is
\* worked on until it is applied.
DeviceFairness ==
  /\ \A e \in E : WF_vars(Upload(e)) /\ WF_vars(RecordUploaded(e)) /\ WF_vars(LearnState(e))
  /\ \A a \in Request : /\ SF_vars(\E e \in E : MetaReads(a, e))
                        /\ \A e \in E : SF_vars(UploadedApplied(a, e))
                        /\ SF_vars(SubmitLocksJob(a))

FairSpec == Spec /\ DatabaseFairness /\ VerifyFairness /\ DeviceFairness

-----------------------------------------------------------------------------
\* The device lets go of the bytes only when the server has verified an
\* object with the hash taken at capture (sections.dart:485, "Verified bytes
\* leave the phone").
BytesLeaveWhenVerified ==
  \A e \in E : ~dev[e].bytes => obj[e] = "good" /\ ev[e].up = "verified"

\* What is uploaded and not decided has its message in the queue, or an
\* alert with the dead letter, and what is verified has its copy recorded or a
\* message that will see to it: no interleaving of drains, lost leases, dying
\* workers and failures forgets one (workers/index.ts:2, 103).
NothingForgotten ==
  \A e \in E :
    /\ ev[e].up = "uploaded" =>
         verify[e].dead \/ verify[e].state \in {"visible", "leased"}
    /\ ev[e].up = "verified" =>
         ev[e].replica # "none" \/ replic[e].state \in {"visible", "leased"}

\* The decision on an item is final, and its effects are made once: a copy
\* that was made is not asked for again.
DecidedOnce ==
  [][\A e \in E : ev[e].up \in {"verified", "quarantined"} =>
       ev'[e].up = ev[e].up /\ (replic[e].state = "done" => replic'[e].state = "done")]_vars

\* An inspection that goes to review is complete: every item of its manifest
\* has been verified.
ReviewedIsComplete ==
  insp.status = "under_review" => \A e \in E : ev[e].up = "verified" /\ obj[e] = "good"

\* Nobody is at work on the inspection's rows.
Quiet == \A a \in Actor : txn[a].phase \in {"idle", "reads", "fetched"} /\ txn[a].kind # "meta"

\* With every item of the manifest verified the inspection is in review: it
\* has no other way there (rpc_ingest.sql:186, "Completeness drives the
\* inspection forward").
CompleteIsReviewed ==
  Quiet /\ Submitted /\ (\A e \in E : ev[e].up = "verified") => insp.status = "under_review"

\* A submitted inspection whose objects are there is decided, or an alert
\* tells of a message that has used up its attempts.
InspectionDecided ==
  (Submitted /\ \A e \in E : obj[e] # "none")
    ~> \/ insp.status \in {"under_review", "integrity_failed"}
       \/ \E e \in E : verify[e].dead
=============================================================================
