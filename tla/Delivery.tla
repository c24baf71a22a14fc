------------------------------- MODULE Delivery -------------------------------
(***************************************************************************)
(* Delivery of envelopes: the device's outbox and the server's ledger,     *)
(* joined by the sender, the pull and the sync engine that runs them       *)
(* (outbox_sender.dart, pull_engine.dart, sync_engine.dart), over a        *)
(* network that loses answers and delivers requests late.                  *)
(*                                                                         *)
(* One device with one signed-in user.  A sync run drains the outbox,      *)
(* pulls, drains again when the pull or the uploads queued something, and  *)
(* purges.  The app can be killed at any point and opened again.  The      *)
(* server goes on with a request whose sender has given up on it.          *)
(***************************************************************************)
EXTENDS OutboxStore, EnvelopeLedger

CONSTANTS
  TooLarge,   \* items the server refuses as a request, alone or in a batch
  Malformed,  \* items whose wrapper the server refuses at the door
  MaxBatch,   \* bound of a batch (50 envelopes, 900 KB)
  MaxEpoch    \* bound on the server's epochs

ASSUME DeliveryAssumption ==
  /\ TooLarge \subseteq Item
  /\ Malformed \subseteq Item
  /\ MaxBatch \in Nat \ {0}
  /\ MaxEpoch \in Nat \ {0}
  /\ Caller = {"live", "late"}

VARIABLES
  phase,       \* what the sync run is doing
  rows,        \* the batch being sent ({}: none)
  rest,        \* halves of a split batch that wait for their turn
  wire,        \* items of `rows` the server has not got to yet
  receipt,     \* receipts of the request so far
  late,        \* items of given-up requests that may still reach the server
  page,        \* the pull's page on its way to the device
  epoch,       \* the server's epoch
  knownEpoch,  \* the epoch the device saw last (0: none)
  calm         \* from here on nothing fails (see FairSpec)

callVars   == <<rows, rest, wire, receipt>>
pullVars   == <<page, epoch, knownEpoch, calm>>
deviceVars == <<outboxVars, phase, callVars>>
vars == <<box, backing, aged, about, row, conflicts, effects, news, early,
          landed, picked, reopened, phase, rows, rest, wire, receipt, late, page,
          epoch, knownEpoch, calm>>

-----------------------------------------------------------------------------
Phase == {"idle", "drain", "pull", "drain_again", "purge"}
Sending == {"drain", "drain_again"}

NoReceipt == [state |-> "none", hash |-> "none"]
NoReceipts == [i \in Item |-> NoReceipt]
NoPage == [epoch |-> 0, outcome |-> [i \in {} |-> {}]]
Outcomes == UNION {[S -> Outcome] : S \in SUBSET Item}

TypeOK ==
  /\ OutboxTypeOK
  /\ LedgerTypeOK
  /\ phase \in Phase
  /\ rows \in SUBSET Item
  /\ rest \in SUBSET (SUBSET Item)
  /\ wire \in SUBSET rows
  /\ receipt \in [Item -> Receipt \cup {NoReceipt}]
  /\ late \in SUBSET Item
  /\ page \in [epoch: Nat, outcome: Outcomes]
  /\ epoch \in Nat
  /\ knownEpoch \in Nat
  /\ calm \in BOOLEAN

Init ==
  /\ OutboxInit
  /\ LedgerInit
  /\ phase = "idle"
  /\ rows = {} /\ rest = {} /\ wire = {}
  /\ receipt = NoReceipts
  /\ late = {}
  /\ page = NoPage
  /\ epoch = 1
  /\ knownEpoch = 0
  /\ calm = FALSE

-----------------------------------------------------------------------------
(* The agent, the clock and the admin. *)

Record(i) ==
  /\ Add(i)
  /\ UNCHANGED <<ledgerVars, phase, callVars, late, pullVars>>

ClockMoves(i) ==
  /\ BackoffElapses(i) \/ RetentionElapses(i)
  /\ UNCHANGED <<ledgerVars, phase, callVars, late, pullVars>>

AdminActs(i) ==
  /\ (AdminReprocess(i) /\ ~calm) \/ AdminResolve(i)
  /\ UNCHANGED <<deviceVars, late, pullVars>>

\* Nothing fails from here on.  Taken once at most, and only fairness makes it
\* happen: safety is checked with failures at any time.
CalmDown ==
  /\ ~calm
  /\ calm' = TRUE
  /\ UNCHANGED <<deviceVars, ledgerVars, late, page, epoch, knownEpoch>>

\* admin_server_epoch_rotate
RotateEpoch ==
  /\ epoch < MaxEpoch
  /\ epoch' = epoch + 1
  /\ UNCHANGED <<deviceVars, ledgerVars, late, page, knownEpoch, calm>>

ReprocessorRuns ==
  /\ Reprocessor
  /\ UNCHANGED <<deviceVars, late, pullVars>>

-----------------------------------------------------------------------------
(* The sender: OutboxSender.drain and _send. *)

StartRun ==
  /\ phase = "idle"
  /\ phase' = "drain"
  /\ UNCHANGED <<outboxVars, ledgerVars, callVars, late, pullVars>>

\* What nextBatch can return.  Lanes, sequence numbers and the byte budget,
\* left out of this model, decide which.
Batches == {S \in SUBSET Due : S # {} /\ Cardinality(S) <= MaxBatch}

SendBatch ==
  /\ phase \in Sending
  /\ rows = {}
  /\ \E S \in Batches : /\ MarkInFlight(S)
                        /\ rows' = S
                        /\ wire' = S
  /\ UNCHANGED <<ledgerVars, phase, rest, receipt, late, pullVars>>

\* Nothing is due, nobody's session can send, or this drain has sent its
\* hundred batches.
AfterDrain == IF phase = "drain" THEN "pull" ELSE "purge"

DrainEnds ==
  /\ phase \in Sending
  /\ rows = {}
  /\ calm => Due = {}
  /\ phase' = AfterDrain
  /\ UNCHANGED <<outboxVars, ledgerVars, callVars, late, pullVars>>

\* A request the server refuses whole touches none of its envelopes.
Acceptable(S) == S \cap TooLarge = {}

\* Mutant: the server's copy of the request is not closed with the batch.
NextHalfOpen ==
  /\ receipt' = NoReceipts
  /\ \/ rest = {} /\ rows' = {} /\ rest' = {} /\ UNCHANGED wire
     \/ \E h \in rest : rows' = h /\ wire' = h /\ rest' = rest \ {h}

\* The call in progress is over: the next half goes out, if one waits.
NextHalf ==
  /\ receipt' = NoReceipts
  /\ \/ rest = {} /\ rows' = {} /\ wire' = {} /\ rest' = {}
     \/ \E h \in rest : rows' = h /\ wire' = h /\ rest' = rest \ {h}

\* The server works through a request in order, one envelope at a time.
Busy == \E i \in Item : <<"live", i>> \in landed

\* Its transactions begin after all that the pull has stored: no pull runs
\* while a batch is out.
OnTime == {"unread"}

LandNext(i) ==
  /\ i \in wire \ Malformed
  /\ Acceptable(rows)
  /\ ~Busy
  /\ Land("live", i, ServerHash(i), OnTime)
  /\ wire' = wire \ {i}
  /\ receipt' = IF AppliesAfter(LandOutcome(i, ServerHash(i))) THEN receipt
                ELSE [receipt EXCEPT ![i] = LandReceipt(i, ServerHash(i))]
  /\ UNCHANGED <<outboxVars, phase, rows, rest, late, pullVars>>

RefuseWrapper(i) ==
  /\ i \in wire \cap Malformed
  /\ Acceptable(rows)
  /\ ~Busy
  /\ wire' = wire \ {i}
  /\ receipt' = [receipt EXCEPT ![i] = [state |-> "refused", hash |-> "none"]]
  /\ UNCHANGED <<outboxVars, ledgerVars, phase, rows, rest, late, pullVars>>

\* The function may lose the database's answer to a transaction that went
\* through: it then says "deferred", as for one that did not.
ApplyNext(i, outcome) ==
  /\ ApplyLanded("live", i, outcome, OnTime)
  /\ \E seen \in {outcome, "error"} :
       receipt' = [receipt EXCEPT ![i] = ApplyReceipt(i, seen)]
  /\ UNCHANGED <<outboxVars, phase, rows, rest, wire, late, pullVars>>

\* Mutant: an answer that leaves items out is taken for a whole one.
TakeSomeReceipts ==
  /\ rows # {} /\ ~Busy
  /\ ApplyReceipts(rows, receipt)
  /\ NextHalf
  /\ UNCHANGED <<ledgerVars, phase, late, pullVars>>

\* The answer arrives with a receipt for every item.
TakeReceipts ==
  /\ rows # {} /\ wire = {} /\ ~Busy
  /\ ApplyReceipts(rows, receipt)
  /\ NextHalf
  /\ UNCHANGED <<ledgerVars, phase, late, pullVars>>

\* Too large, or refused in a way no retry can fix: halves, and alone parked.
RequestRefused ==
  /\ rows # {} /\ wire = rows
  /\ ~Acceptable(rows)
  /\ \/ /\ \E i \in rows : rows = {i} /\ Park(i)
        /\ NextHalf
     \/ /\ Cardinality(rows) > 1
        /\ \E h \in SUBSET rows :
             /\ Cardinality(h) = Cardinality(rows) \div 2
             /\ rows' = h /\ wire' = h
             /\ rest' = rest \cup {rows \ h}
        /\ UNCHANGED <<outboxVars, receipt>>
  /\ UNCHANGED <<ledgerVars, phase, late, pullVars>>

\* The device gives up on the request; the server may go on with it.
GiveUp ==
  /\ late' = IF Acceptable(rows) THEN late \cup (wire \ Malformed) ELSE late
  /\ landed' = {<<"late", i>> : i \in {j \in Item : \E c \in Caller : <<c, j>> \in landed}}
  /\ rows' = {} /\ rest' = {} /\ wire' = {}
  /\ receipt' = NoReceipts

\* No answer, a 5xx, a 429, a malformed answer: the batch backs off, its
\* unsent halves are released, and the drain stops.
CallFails ==
  /\ rows # {} /\ ~calm
  /\ RescheduleAndRelease(rows, UNION rest)
  /\ GiveUp
  /\ phase' = AfterDrain
  /\ UNCHANGED <<serverVars, workerVars, pullVars>>

\* The session ended: nothing was taken, and everything waits, unchanged,
\* for a new sign-in.
SessionEnded ==
  /\ rows # {} /\ wire = rows /\ ~calm
  /\ Release(rows \cup UNION rest)
  /\ rows' = {} /\ rest' = {} /\ wire' = {}
  /\ phase' = AfterDrain
  /\ UNCHANGED <<ledgerVars, receipt, late, pullVars>>

-----------------------------------------------------------------------------
(* Requests nobody waits for any more, and another sender's. *)

LateRequest(i) ==
  /\ \/ i \in late /\ Land("late", i, ServerHash(i), Places) /\ late' = late \ {i}
     \/ i \in Reused /\ Land("late", i, "foreign", Places) /\ UNCHANGED late
  /\ UNCHANGED <<deviceVars, pullVars>>

LateApply(i, outcome) ==
  /\ ApplyLanded("late", i, outcome, Places)
  /\ UNCHANGED <<deviceVars, late, pullVars>>

LateLost(i) ==
  /\ \/ i \in late /\ late' = late \ {i} /\ UNCHANGED ledgerVars
     \/ AbandonLanded("late", i) /\ UNCHANGED late
  /\ UNCHANGED <<deviceVars, pullVars>>

-----------------------------------------------------------------------------
(* The pull: sync_read, and PullEngine._apply. *)

\* Mutant: only outcomes that release the copy are read.
VisibleReleasing == {i \in Item : /\ news[i] = "unread"
                                  /\ row[i].state \in {"committed", "duplicate"}}

Visible == {i \in Item : /\ news[i] = "unread"
                         /\ row[i].state \notin {"absent", "received"}}

OutcomeOf(i) == [state |-> row[i].state, resolution |-> row[i].resolution]

\* The server reads a page of the outcomes whose stamps lie past the cursor, in
\* their order.  A page has a limit, and a pull at most twenty pages: what it
\* leaves is read by a later pull, which also stands for the next page of this
\* one.
PullRead ==
  /\ phase = "pull"
  /\ page = NoPage
  /\ \E S \in SUBSET Visible :
       /\ calm => S = Visible
       /\ page' = [epoch |-> epoch, outcome |-> [i \in S |-> OutcomeOf(i)]]
       /\ PageTaken(S)
  /\ UNCHANGED <<deviceVars, row, conflicts, effects, landed, workerVars, late,
                 epoch, knownEpoch, calm>>

\* The device applies it and moves its cursor, in one transaction.
PullApply ==
  LET changed == knownEpoch # 0 /\ knownEpoch # page.epoch
  IN /\ phase = "pull"
     /\ page # NoPage
     /\ ApplyPage(changed, page.outcome)
     /\ knownEpoch' = page.epoch
     /\ page' = NoPage
     /\ PageStored
     /\ \/ phase' = "drain_again"
        \/ phase' = "purge" /\ ~(changed /\ Resendable(box) # {})
     /\ UNCHANGED <<row, conflicts, effects, landed, workerVars, callVars, late,
                    epoch, calm>>

\* Mutant: the cursor moves although the page was not applied.
PageSkipped ==
  /\ page' = NoPage
  /\ PageStored
  /\ UNCHANGED <<row, conflicts, effects, workerVars, epoch, knownEpoch, calm>>

\* The page never arrives.
PageLost ==
  /\ page' = NoPage
  /\ PageDropped
  /\ UNCHANGED <<row, conflicts, effects, workerVars, epoch, knownEpoch, calm>>

\* Nobody is signed in, or the pull fails.  Uploads may have queued
\* something all the same.
PullFails ==
  /\ phase = "pull" /\ ~calm
  /\ PageLost
  /\ phase' \in {"drain_again", "purge"}
  /\ UNCHANGED <<outboxVars, callVars, landed, late>>

\* The end of the run, whether or not it pulled.
Purge ==
  /\ phase = "purge"
  /\ PurgeCommitted
  /\ phase' = "idle"
  /\ UNCHANGED <<ledgerVars, callVars, late, pullVars>>

\* The app is killed and opened again.
Restart ==
  /\ phase # "idle" /\ ~calm
  /\ Reopen
  /\ GiveUp
  /\ PageLost
  /\ phase' = "idle"

-----------------------------------------------------------------------------
Sender ==
  \/ SendBatch \/ DrainEnds \/ TakeReceipts \/ RequestRefused
  \/ CallFails \/ SessionEnded

Server ==
  \E i \in Item :
    \/ LandNext(i) \/ RefuseWrapper(i) \/ LateRequest(i) \/ LateLost(i)
    \/ \E o \in ApplyOutcome(i) : ApplyNext(i, o) \/ LateApply(i, o)

Pull == PullRead \/ PullApply \/ PullFails

Next ==
  \/ \E i \in Item : Record(i) \/ ClockMoves(i) \/ AdminActs(i)
  \/ RotateEpoch \/ ReprocessorRuns \/ CalmDown
  \/ StartRun \/ Sender \/ Server \/ Pull \/ Purge \/ Restart

Spec == Init /\ [][Next]_vars

(***************************************************************************)
(* Liveness is promised once the network, the sign-in and the app stay up: *)
(* then the engine's timer starts run after run, a run goes through its    *)
(* phases, the server works through a request and its answer arrives.      *)
(* Backoffs end by themselves.  Nothing is asked of the server's worker    *)
(* and of the admin.                                                       *)
(***************************************************************************)
Fairness ==
  /\ WF_vars(CalmDown)
  /\ WF_vars(StartRun) /\ WF_vars(SendBatch) /\ WF_vars(DrainEnds)
  /\ WF_vars(TakeReceipts) /\ WF_vars(RequestRefused)
  /\ WF_vars(PullRead) /\ WF_vars(PullApply) /\ WF_vars(Purge)
  /\ \A i \in Item :
       /\ WF_vars(LandNext(i)) /\ WF_vars(RefuseWrapper(i))
       /\ WF_vars(\E o \in ApplyOutcome(i) : ApplyNext(i, o))
       /\ WF_vars(i \in backing /\ ClockMoves(i))
FairSpec == Spec /\ Fairness

-----------------------------------------------------------------------------
(* Properties. *)

OnServer(i) == Kept(i, ServerHash(i))

\* The ids whose outcomes are about this device's payload: not those another
\* sender uses while the server refuses this one's.
Own == Item \ (Reused \cap (TooLarge \cup Malformed))

\* The device believes the server holds an envelope, and lets go of its own
\* copy, only when the server does: whatever answers were lost, whatever
\* was sent twice or arrived late (outbox_store.dart:393-395, envelope.dart:40-42).
HeldBeforeLetGo ==
  \A i \in Own :
    box[i] \in {"durable", "committed", "purged"} => OnServer(i)

\* No item is left "in flight" when nobody is sending it, neither by a
\* batch split in two nor by a call that fails half-way: such an item would
\* not be sent again until the app is restarted.
InFlightIsBeingSent ==
  {i \in Item : box[i] = "in_flight"} = rows \cup UNION rest

\* An item parked on the device is reported to the server, once the two
\* are recorded in the same transaction (outbox_store.dart:294-295).
ParkedIsReported ==
  \A i \in (TooLarge \cup Malformed) \ Report :
    box[i] = "needs_attention" =>
      \E r \in Report : i \in about[r] /\ box[r] # "none"

\* Once the last update of an envelope was read and stored, what the device
\* shows is what the server says: no interleaving of receipts, pages, resends
\* and late requests leaves it with an old answer.  Nothing is said of an
\* update that is still to be read, or that the cursor has passed unread
\* (pull_engine.dart:282-287, rpc_auth_sync.sql:480-483).
AgreesWithServer ==
  \A i \in Item \ Reused :
    (/\ box[i] \in TakesOutcome /\ news[i] = "read"
     /\ row[i].state \notin {"absent", "received"})
    => box[i] = PullOutcome(OutcomeOf(i))

\* Delivery implements Custody.
DeviceHas == {i \in Own : box[i] \notin {"none", "purged"}}
ServerHas == {i \in Own : OnServer(i)}
C == INSTANCE Custody WITH Envelope <- Own, device <- DeviceHas,
                           server <- ServerHas
ImplementsCustody == C!Spec

\* Everything recorded reaches the server, or waits for attention.
Delivered ==
  \A i \in Item :
    box[i] = "queued" ~> (OnServer(i) \/ box[i] = "needs_attention")

\* The cursor went past i's last update before the update was committed: no
\* pull will read it, unless the row is updated again.
Missed(i) == news[i] = "missed"

\* What the server decided of an envelope reaches the device, through restarts,
\* lost pages and updates that come while a page is on its way; unless the
\* transaction of the last update was open while the cursor went past its
\* stamp (rpc_auth_sync.sql:480-483, integrity_triggers.sql:19-23).
OutcomeReachesDevice ==
  \A i \in Item \ Reused :
    (row[i].state \in Finished)
    ~> (\/ row[i].state \notin Finished \/ Missed(i)
        \/ box[i] = PullOutcome(OutcomeOf(i)) \/ box[i] = "purged")

\* What was parked becomes known to the server through its report.
ParkedBecomesKnown ==
  \A i \in (TooLarge \cup Malformed) \ Report :
    (box[i] = "needs_attention")
    ~> (\E r \in Report : i \in about[r] /\ OnServer(r))

\* An admin's resolution the cursor has not passed releases the device's copy
\* (rpc_auth_sync.sql:473, outbox_store.dart:327-331).
ResolutionReleases ==
  \A i \in Item \ Reused :
    (row[i].resolution = "settled")
    ~> (\/ row[i].resolution # "settled" \/ Missed(i)
        \/ box[i] \in {"committed", "purged"})

=============================================================================
