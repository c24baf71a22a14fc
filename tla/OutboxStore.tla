----------------------------- MODULE OutboxStore -----------------------------
(***************************************************************************)
(* The device's outbox: the drift table `outbox` behind OutboxStore        *)
(* (packages/fess_pos/lib/src/data/outbox/outbox_store.dart).  Every       *)
(* method runs in one local transaction, so each is one action.            *)
(*                                                                         *)
(* The bytes of an envelope, its lane, its size and its user are left out: *)
(* they choose which due rows share a batch, never what becomes of a row.  *)
(* Times are reduced to what is decided with them: a row backs off or it   *)
(* does not, and a committed row has outlived the retention or it has not. *)
(***************************************************************************)
EXTENDS Envelopes

VARIABLES
  box,      \* box[i]: the state of i's row
  backing,  \* rows whose next attempt lies in the future
  aged,     \* committed rows older than the retention
  about     \* about[r]: the items report r tells the server about

outboxVars == <<box, backing, aged, about>>

-----------------------------------------------------------------------------
\* "none": not recorded yet; "purged": deleted after the retention.
BoxState == {"none", "queued", "in_flight", "durable", "committed",
             "needs_attention", "purged"}

OutboxTypeOK ==
  /\ box \in [Item -> BoxState]
  /\ backing \in SUBSET Item
  /\ aged \in SUBSET Item
  /\ about \in [Report -> SUBSET Item]

OutboxInit ==
  /\ box = [i \in Item |-> "none"]
  /\ backing = {}
  /\ aged = {}
  /\ about = [r \in Report |-> {}]

\* The rows of S in state s, the others as they were.
Moved(S, s) == [i \in Item |-> IF i \in S THEN s ELSE box[i]]

\* nextBatch: what may be sent now.
Due == {i \in Item : box[i] = "queued"} \ backing

-----------------------------------------------------------------------------
\* add: in the transaction of the change it records.
Add(i) ==
  /\ i \notin Report
  /\ box[i] = "none"
  /\ box' = [box EXCEPT ![i] = "queued"]
  /\ UNCHANGED <<backing, aged, about>>

MarkInFlight(S) ==
  /\ box' = Moved(S, "in_flight")
  /\ UNCHANGED <<backing, aged, about>>

\* Mutant: what the ended session was sending stays in flight.
ReleaseNothing(S) == UNCHANGED <<box, backing, aged, about>>

\* release: back to queued, unchanged.
Release(S) ==
  /\ box' = Moved(S, "queued")
  /\ UNCHANGED <<backing, aged, about>>

\* Mutant: the halves not sent yet are forgotten.
RescheduleOnly(S, R) ==
  /\ box' = Moved(S, "queued")
  /\ backing' = backing \cup S
  /\ UNCHANGED <<aged, about>>

\* reschedule S, and release R, the halves of S's batch not sent yet.
RescheduleAndRelease(S, R) ==
  /\ box' = Moved(S \cup R, "queued")
  /\ backing' = backing \cup S
  /\ UNCHANGED <<aged, about>>

\* The backoff of i is over.
BackoffElapses(i) ==
  /\ i \in backing
  /\ backing' = backing \ {i}
  /\ UNCHANGED <<box, aged, about>>

\* The reports not used yet: the ids the next client_error can have.
FreeReports == {r \in Report : box[r] = "none"}

\* Mutant: the report is written down but never queued.
WithReportUnsent(S, moved) ==
  IF S \subseteq Report
  THEN box' = moved /\ UNCHANGED about
  ELSE \E r \in FreeReports : /\ box' = moved
                              /\ about' = [about EXCEPT ![r] = S \ Report]

\* _addClientError: at most one new report, about the items of S that are
\* not reports themselves, in the transaction that makes the rows `moved`.
WithReport(S, moved) ==
  IF S \subseteq Report
  THEN box' = moved /\ UNCHANGED about
  ELSE \E r \in FreeReports :
         /\ box' = [moved EXCEPT ![r] = "queued"]
         /\ about' = [about EXCEPT ![r] = S \ Report]

\* _outcome: where a receipt puts its row.  A receipt's hash is "own" when
\* it equals the row's payload hash, and "none" when it carries none.
ReceiptOutcome(r) ==
  CASE r.state \in {"committed", "duplicate"} ->
         IF r.hash \in {"own", "none"} THEN "committed" ELSE "needs_attention"
    [] r.state \in {"rejected", "conflict", "refused"} -> "needs_attention"
    [] OTHER -> "durable"

\* applyReceipts
ApplyReceipts(S, receipt) ==
  /\ WithReport({i \in S : receipt[i].state = "refused"},
                [i \in Item |-> IF i \in S THEN ReceiptOutcome(receipt[i])
                                ELSE box[i]])
  /\ backing' = backing \ S
  /\ aged' = aged \ S

\* Mutant: parked, and nobody is told.
ParkSilently(i) ==
  /\ box' = Moved({i}, "needs_attention")
  /\ backing' = backing \ {i}
  /\ UNCHANGED <<aged, about>>

\* Mutant: what the server will never take is dropped.
ParkByDropping(i) ==
  /\ WithReport({i}, Moved({i}, "purged"))
  /\ backing' = backing \ {i}
  /\ UNCHANGED aged

\* park: the server will never take i as it is.
Park(i) ==
  /\ WithReport({i}, Moved({i}, "needs_attention"))
  /\ backing' = backing \ {i}
  /\ UNCHANGED aged

\* applyServerOutcomes: where an outcome of the pull puts a row.
PullOutcome(o) ==
  IF o.resolution = "settled" THEN "committed"
  ELSE CASE o.state \in {"committed", "duplicate"} -> "committed"
         [] o.state \in {"rejected", "conflict"}   -> "needs_attention"
         [] OTHER                                  -> "durable"

\* The states in which a row takes an outcome; the others wait for their
\* own receipt.
TakesOutcome == {"durable", "needs_attention", "committed"}

OutcomesApplied(b, outcome) ==
  [i \in Item |-> IF i \in DOMAIN outcome /\ b[i] \in TakesOutcome
                  THEN PullOutcome(outcome[i]) ELSE b[i]]

\* resendRetained
Resendable(b) == {i \in Item : b[i] \in {"durable", "committed"}}
Resent(b) == [i \in Item |-> IF i \in Resendable(b) THEN "queued" ELSE b[i]]

\* One page of the pull: resendRetained when the epoch changed, and then
\* applyServerOutcomes, in one transaction.  A row whose state changes gets
\* a new committed_at.
ApplyPage(epochChanged, outcome) ==
  LET resent == IF epochChanged THEN Resent(box) ELSE box
      after  == OutcomesApplied(resent, outcome)
  IN /\ box' = after
     /\ backing' = IF epochChanged THEN backing \ Resendable(box) ELSE backing
     /\ aged' = aged \ {i \in Item : after[i] # resent[i]}
     /\ UNCHANGED about

\* The retention of a committed row runs out.
RetentionElapses(i) ==
  /\ box[i] = "committed"
  /\ i \notin aged
  /\ aged' = aged \cup {i}
  /\ UNCHANGED <<box, backing, about>>

\* purgeCommitted: the only way an item leaves the outbox.
PurgeCommitted ==
  LET old == {i \in aged : box[i] = "committed"}
  IN /\ box' = Moved(old, "purged")
     /\ aged' = aged \ old
     /\ UNCHANGED <<backing, about>>

\* Mutant: the store is opened as it was left.
ReopenAsLeft == UNCHANGED <<box, backing, aged, about>>

\* beforeOpen: what the app was sending when it stopped goes back to queued.
Reopen ==
  /\ box' = Moved({i \in Item : box[i] = "in_flight"}, "queued")
  /\ UNCHANGED <<backing, aged, about>>

=============================================================================
