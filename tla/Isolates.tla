------------------------------- MODULE Isolates -------------------------------
(***************************************************************************)
(* One local store, two engines: the app's, and that of a background task  *)
(* the platform starts in an isolate of its own (background_sync.dart).    *)
(* Each has its own connection, its own sender and its own sync run; they  *)
(* share the outbox and know nothing of each other.                        *)
(*                                                                         *)
(* Delivery has one engine, for which choosing a batch and marking it is   *)
(* one step.  Here these are the two transactions they are.  What Delivery *)
(* shows of splits, parked items, malformed wrappers, reused ids and the   *)
(* server's epoch is left out.                                             *)
(***************************************************************************)
EXTENDS OutboxStore, EnvelopeLedger

CONSTANTS
  MaxBatch,  \* bound of a batch (50 envelopes, 900 KB)
  MayFail    \* calls fail and processes are killed

ASSUME IsolatesAssumption ==
  /\ MaxBatch \in Nat \ {0}
  /\ MayFail \in BOOLEAN
  /\ Caller = {"app", "task"}

VARIABLES
  pc,      \* pc[e]: what engine e is doing
  batch,   \* batch[e]: the rows e has read, to send them
  wire,    \* wire[e]: those the server has not got to yet
  answer,  \* answer[e]: the receipts of e's request so far
  page     \* the app's page of outcomes

engineVars == <<pc, batch, wire, answer, page>>
vars == <<outboxVars, ledgerVars, engineVars>>

-----------------------------------------------------------------------------
Engine == Caller
NoReceipt == [state |-> "none", hash |-> "none"]
NoReceipts == [i \in Item |-> NoReceipt]

Init ==
  /\ OutboxInit /\ LedgerInit
  /\ pc = [e \in Engine |-> "off"]
  /\ batch = [e \in Engine |-> {}] /\ wire = [e \in Engine |-> {}]
  /\ answer = [e \in Engine |-> NoReceipts]
  /\ page = <<>>

\* Mutant: rows are written back whole, also those that are gone.
PresentAll(S) == S

\* An update by id does nothing for a row the other engine has purged.
Present(S) == {i \in S : box[i] # "purged"}

-----------------------------------------------------------------------------
Record(i) ==
  /\ Add(i) /\ pc["app"] # "off"
  /\ UNCHANGED <<ledgerVars, engineVars>>

ClockMoves(i) ==
  /\ BackoffElapses(i) \/ RetentionElapses(i)
  /\ UNCHANGED <<ledgerVars, engineVars>>

ReprocessorRuns ==
  /\ Reprocessor
  /\ UNCHANGED <<outboxVars, engineVars>>

-----------------------------------------------------------------------------
(* An engine. *)

\* The store is opened: also what the other engine is sending is queued.
Open(e) ==
  /\ pc[e] = "off"
  /\ Reopen
  /\ pc' = [pc EXCEPT ![e] = "idle"]
  /\ UNCHANGED <<ledgerVars, batch, wire, answer, page>>

StartRun(e) ==
  /\ pc[e] = "idle"
  /\ pc' = [pc EXCEPT ![e] = "drain"]
  /\ UNCHANGED <<outboxVars, ledgerVars, batch, wire, answer, page>>

\* nextBatch reads,
Choose(e) ==
  /\ pc[e] = "drain"
  /\ \E S \in SUBSET Due : /\ S # {} /\ Cardinality(S) <= MaxBatch
                           /\ batch' = [batch EXCEPT ![e] = S]
  /\ pc' = [pc EXCEPT ![e] = "chosen"]
  /\ UNCHANGED <<outboxVars, ledgerVars, wire, answer, page>>

\* markInFlight writes, whatever the rows are by now.
Mark(e) ==
  /\ pc[e] = "chosen"
  /\ MarkInFlight(Present(batch[e]))
  /\ pc' = [pc EXCEPT ![e] = "waiting"]
  /\ wire' = [wire EXCEPT ![e] = batch[e]]
  /\ UNCHANGED <<ledgerVars, batch, answer, page>>

\* The server works through the request in order.
LandNext(e, i) ==
  /\ i \in wire[e]
  /\ \A j \in Item : <<e, j>> \notin landed
  /\ Land(e, i, ServerHash(i), Places)
  /\ wire' = [wire EXCEPT ![e] = @ \ {i}]
  /\ answer' = IF AppliesAfter(LandOutcome(i, ServerHash(i))) THEN answer
               ELSE [answer EXCEPT ![e][i] = LandReceipt(i, ServerHash(i))]
  /\ UNCHANGED <<outboxVars, pc, batch, page>>

ApplyNext(e, i, outcome) ==
  /\ ApplyLanded(e, i, outcome, Places)
  /\ answer' = IF i \in batch[e] THEN [answer EXCEPT ![e][i] = ApplyReceipt(i, outcome)]
               ELSE answer
  /\ UNCHANGED <<outboxVars, pc, batch, wire, page>>

\* The engine's part in its call is over.
CallOver(e, next) ==
  /\ batch' = [batch EXCEPT ![e] = {}]
  /\ wire' = [wire EXCEPT ![e] = {}]
  /\ answer' = [answer EXCEPT ![e] = NoReceipts]
  /\ pc' = [pc EXCEPT ![e] = next]

\* The answer is written over whatever state a row is in by now.
TakeReceipts(e) ==
  /\ pc[e] = "waiting" /\ wire[e] = {}
  /\ \A i \in batch[e] : answer[e][i] # NoReceipt
  /\ ApplyReceipts(Present(batch[e]), answer[e])
  /\ CallOver(e, "drain")
  /\ UNCHANGED <<ledgerVars, page>>

\* What comes after the drain; a task never pulls (background_sync.dart:54).
AfterDrain(e) == IF e = "app" THEN "pull" ELSE "purge"

CallFails(e) ==
  /\ MayFail /\ pc[e] = "waiting"
  /\ RescheduleAndRelease(Present(batch[e]), {})
  /\ CallOver(e, AfterDrain(e))
  /\ UNCHANGED <<ledgerVars, page>>

\* Nothing is due, or this drain has sent its hundred batches.
DrainEnds(e) ==
  /\ pc[e] = "drain"
  /\ MayFail \/ Due = {}
  /\ pc' = [pc EXCEPT ![e] = AfterDrain(e)]
  /\ UNCHANGED <<outboxVars, ledgerVars, batch, wire, answer, page>>

OutcomeOf(i) == [state |-> row[i].state, resolution |-> row[i].resolution]
Visible == {i \in Item : /\ news[i] = "unread"
                         /\ row[i].state \notin {"absent", "received"}}

PullRead ==
  /\ pc["app"] = "pull" /\ page = <<>> /\ Visible # {}
  /\ page' = [i \in Visible |-> OutcomeOf(i)]
  /\ PageTaken(Visible)
  /\ UNCHANGED <<outboxVars, row, conflicts, effects, landed, workerVars,
                 pc, batch, wire, answer>>

PullApply ==
  /\ pc["app"] = "pull" /\ page # <<>>
  /\ ApplyPage(FALSE, page)
  /\ page' = <<>>
  /\ PageStored
  /\ UNCHANGED <<row, conflicts, effects, landed, workerVars, pc, batch, wire, answer>>

\* No more outcomes, or nobody is signed in at the host.
PullEnds ==
  /\ pc["app"] = "pull" /\ page = <<>>
  /\ MayFail \/ Visible = {}
  /\ pc' = [pc EXCEPT !["app"] = "purge"]
  /\ UNCHANGED <<outboxVars, ledgerVars, batch, wire, answer, page>>

\* The end of a run; the task's isolate ends with it.
Purge(e) ==
  /\ pc[e] = "purge"
  /\ PurgeCommitted
  /\ pc' = [pc EXCEPT ![e] = IF e = "app" THEN "idle" ELSE "off"]
  /\ UNCHANGED <<ledgerVars, batch, wire, answer, page>>

\* The platform kills an engine; its rows stay as they are.
Killed(e) ==
  /\ MayFail /\ pc[e] # "off"
  /\ CallOver(e, "off")
  /\ IF e = "app" THEN page' = <<>> /\ PageDropped ELSE UNCHANGED <<page, pullPlaces>>
  /\ UNCHANGED <<outboxVars, row, conflicts, effects, landed, workerVars>>

-----------------------------------------------------------------------------
EngineStep(e) ==
  \/ StartRun(e) \/ Choose(e) \/ Mark(e) \/ TakeReceipts(e) \/ DrainEnds(e) \/ Purge(e)
  \/ e = "app" /\ (PullRead \/ PullApply \/ PullEnds)

ServerStep(e) ==
  \E i \in Item : LandNext(e, i) \/ \E o \in ApplyOutcome(i) : ApplyNext(e, i, o)

Next ==
  \/ \E i \in Item : Record(i) \/ ClockMoves(i)
  \/ ReprocessorRuns
  \/ \E e \in Engine : Open(e) \/ EngineStep(e) \/ ServerStep(e) \/ CallFails(e) \/ Killed(e)

Spec == Init /\ [][Next]_vars

\* The platform starts the task from time to time, and not each time kills
\* it at the same point; of the requests that are sent, not each is lost.  The
\* app may stay as it is, open and stuck, or closed.
TaskFairness ==
  /\ WF_vars(Open("task")) /\ SF_vars(StartRun("task"))
  /\ SF_vars(Choose("task")) /\ SF_vars(Mark("task")) /\ WF_vars(EngineStep("task"))
  /\ \A e \in Engine, i \in Item : SF_vars(LandNext(e, i))
  /\ WF_vars(ServerStep("task"))
  /\ \A i \in Item : WF_vars(i \in backing /\ ClockMoves(i))
TaskSpec == Spec /\ TaskFairness

-----------------------------------------------------------------------------
OnServer(i) == Kept(i, ServerHash(i))

\* Two engines over one store, each undoing what the other marked, implement
\* the custody one of them promises: the device never lets go of what the
\* server does not hold (outbox_store.dart:90-93).
DeviceHas == {i \in Item : box[i] \notin {"none", "purged"}}
ServerHas == {i \in Item : OnServer(i)}
C == INSTANCE Custody WITH Envelope <- Item, device <- DeviceHas, server <- ServerHas
ImplementsCustody == C!Spec

\* An item an engine leaves in flight when it is killed is sent all the
\* same, also when the app's own engine never sends again: the next task's
\* opening of the store queues it (envelope.dart:36-38).
StuckIsSent == \A i \in Item : (box[i] = "in_flight") ~> OnServer(i)

=============================================================================
