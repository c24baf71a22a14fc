--------------------------- MODULE EnvelopeLedger ---------------------------
(***************************************************************************)
(* The server's envelope ledger: the table pos.ingest_envelopes with the   *)
(* SQL functions and the edge-function code that write it.                 *)
(*                                                                         *)
(* A request runs two transactions per envelope, ingest_land and then      *)
(* ingest_apply (supabase/functions/_shared/ingest.ts), and may die        *)
(* between them.  Several requests can carry the same envelope at once (a  *)
(* retry after an answer that never came), the reprocessor worker applies  *)
(* rows on its own, and an admin reprocesses or resolves rows.  Each       *)
(* transaction is one action here: landing takes the row lock and applying *)
(* an advisory lock, so transactions on one row do not interleave.         *)
(*                                                                         *)
(* Every update stamps its row with updated_at, the moment its transaction *)
(* BEGAN, and the device reads rows by that stamp (sync_read).  Of stamps  *)
(* only their place is kept: past what the device has read, or not.        *)
(*                                                                         *)
(* Payloads are abstracted to the hash the server computes of them, and    *)
(* handlers to the outcome they return.  Clock conditions (two and five    *)
(* minutes of the reprocessor) are dropped: it may come at any time.       *)
(***************************************************************************)
EXTENDS Envelopes

CONSTANTS
  Caller,     \* ingest requests that can be in progress at once
  Needs       \* Needs[i]: the envelopes whose commit creates what i refers to

ASSUME LedgerAssumption == Needs \in [Item -> SUBSET Item]

VARIABLES
  row,        \* pos.ingest_envelopes: state, waiting_on, resolution, stored_hash
  conflicts,  \* pos.ingest_conflicts: the other payloads posted under an id
  effects,    \* history: how often i's handler made its domain writes
  news,       \* news[i]: how the device's pull stands to i's last update
  early,      \* where the stamp of a transaction can lie that began long ago
  landed,     \* <<c, i>>: request c landed i and has still to apply it
  picked,     \* the reprocessor's candidates of this run, not yet re-opened
  reopened    \* the reprocessor read this one and has still to apply it

pullPlaces == <<news, early>>
serverVars == <<row, conflicts, effects, pullPlaces>>
workerVars == <<picked, reopened>>
ledgerVars == <<row, conflicts, effects, news, early, landed, picked, reopened>>

-----------------------------------------------------------------------------
(* Types. *)

RowState == {"absent", "received", "deferred"} \cup Finished

\* waiting_on: a dependency (job_id, inspection_id, evidence_id), or
\* {"reprocess": true} for a held envelope.
\* resolution: "settled" stands for 'resolved' and 'attached'.
Row == [state: RowState,
        waiting: {"none", "dependency", "reprocess"},
        resolution: {"none", "reprocessed", "settled"},
        hash: Hash \cup {"none"}]

NoRow == [state |-> "absent", waiting |-> "none", resolution |-> "none",
          hash |-> "none"]

\* "unread": its stamp lies past all that was read.  "taken": it is on the page
\* on its way.  "skipped": it is not, but its stamp lies before the end of that
\* page.  "read": it is behind the stored cursor, and was read.  "missed": it is
\* behind the stored cursor, and never was.
News == {"unread", "taken", "skipped", "read", "missed"}

LedgerTypeOK ==
  /\ row \in [Item -> Row]
  /\ conflicts \in SUBSET (Item \X Hash)
  /\ effects \in [Item -> Nat]
  /\ news \in [Item -> News]
  /\ early \in SUBSET {"skipped", "missed"}
  /\ landed \in SUBSET (Caller \X Item)
  /\ picked \in SUBSET Item
  /\ reopened \in SUBSET Item

LedgerInit ==
  /\ row = [i \in Item |-> NoRow]
  /\ conflicts = {}
  /\ effects = [i \in Item |-> 0]
  /\ news = [i \in Item |-> "read"]
  /\ early = {}
  /\ landed = {}
  /\ picked = {}
  /\ reopened = {}

-----------------------------------------------------------------------------
(* Stamps, and the pull that reads by them.  A transaction that began       *)
(* before another one whose row was read, and commits after that, has an    *)
(* older stamp than the cursor.                                             *)

\* Where a transaction can find its stamp when it commits.  Only the pull's
\* own progress makes an old stamp too old.
Places == {"unread"} \cup early

\* i is updated, and its one stamp replaced.  Where that lies makes no difference
\* while the row is "received": the pull leaves such a row out, and the next
\* update replaces the stamp again.
Stamped(i, places) ==
  \E at \in places :
    /\ row'[i].state = "received" => at = "unread"
    /\ news' = [news EXCEPT ![i] = at]

\* A page is read, with the rows S, which are the first ones past the cursor.
PageTaken(S) ==
  /\ news' = [i \in Item |-> IF i \in S THEN "taken" ELSE news[i]]
  /\ early' = IF S = {} THEN early ELSE early \cup {"skipped"}

\* The cursor moves to the end of the page; an empty page leaves it alone.
PageStored ==
  /\ news' = [i \in Item |-> CASE news[i] = "taken"   -> "read"
                              [] news[i] = "skipped" -> "missed"
                              [] OTHER               -> news[i]]
  /\ early' = IF "skipped" \in early THEN {"missed"} ELSE early

\* The page is lost: the cursor stays, and the next pull reads from there.
PageDropped ==
  /\ news' = [i \in Item |-> IF news[i] \in {"taken", "skipped"} THEN "unread" ELSE news[i]]
  /\ early' = early \ {"skipped"}

-----------------------------------------------------------------------------
(* Landing: pos_rpc.ingest_land. *)

\* Mutant: a second payload under a known id takes the row over.
LandOutcomeTakesOver(i, h) ==
  IF row[i].hash # h THEN "new"
  ELSE IF row[i].state = "received" THEN "retry" ELSE "shortcut"

\* 'new', 'retry', 'duplicate', 'shortcut' or 'conflict'.
LandOutcome(i, h) ==
  CASE row[i].state = "absent"                   -> "new"
    [] row[i].state # "absent" /\ row[i].hash # h -> "conflict"
    [] row[i].hash = h /\ row[i].state = "received" -> "retry"
    [] row[i].hash = h /\ row[i].state \in {"committed", "duplicate"} -> "duplicate"
    [] OTHER                                     -> "shortcut"

\* What processEnvelope goes on to do with a landed envelope: apply it.
AppliesAfter(outcome) == outcome \in {"new", "retry"}

\* The receipt of an envelope that is not applied again.
LandReceipt(i, h) ==
  [state |-> CASE LandOutcome(i, h) = "duplicate" -> "duplicate"
               [] LandOutcome(i, h) = "conflict"  -> "conflict"
               [] OTHER                           -> row[i].state,
   hash  |-> IF LandOutcome(i, h) = "conflict" THEN h ELSE row[i].hash]

\* The payloads kept beside the rows once h arrived for i.
KeptBeside(i, h) ==
  IF LandOutcome(i, h) = "conflict" THEN conflicts \cup {<<i, h>>} ELSE conflicts

\* Request c lands i with the payload hash h.  A copy already landed counts
\* an attempt, which stamps the row; a different payload is kept beside the
\* row and leaves the row alone.
Land(c, i, h, places) ==
  /\ <<c, i>> \notin landed
  /\ row' = IF LandOutcome(i, h) = "new"
            THEN [row EXCEPT ![i] = [NoRow EXCEPT !.state = "received", !.hash = h]]
            ELSE row
  /\ conflicts' = KeptBeside(i, h)
  /\ IF LandOutcome(i, h) = "conflict" THEN UNCHANGED news ELSE Stamped(i, places)
  /\ landed' = IF AppliesAfter(LandOutcome(i, h))
               THEN landed \cup {<<c, i>>} ELSE landed
  /\ UNCHANGED <<effects, early, picked, reopened>>

-----------------------------------------------------------------------------
(* Applying: pos_rpc.ingest_apply under applyLanded. *)

DependencyMet(i) == \A d \in Needs[i] : row[d].state \in {"committed", "duplicate"}

\* How one run of applyLanded on i can end.  "hold": the handler failed in a
\* way nobody foresaw, or there is none.  "error": validation or the
\* transaction itself failed, and nothing was written.
ApplyOutcome(i) ==
  IF row[i].state \in Finished \cup {"absent"}
  THEN {"error"} \cup (IF row[i].state = "absent" THEN {} ELSE {row[i].state})
  ELSE {"error", "hold", "rejected"}
         \cup (IF DependencyMet(i) THEN {"committed", "duplicate", "conflict"}
               ELSE {"deferred"})

\* ingest_finish and ingest_hold: what an outcome leaves in the row.  A
\* finished row is returned as it is.
AppliedRow(r, outcome) ==
  IF outcome = "error" \/ r.state \in Finished THEN r
  ELSE IF outcome = "hold" THEN [r EXCEPT !.waiting = "reprocess"]
  ELSE [r EXCEPT !.state = outcome,
                 !.waiting = IF outcome = "deferred" THEN "dependency" ELSE "none"]

\* Mutant: the state is not read again under the lock.
CommitsNowUnchecked(i, outcome) == outcome = "committed"

\* The handler's domain writes happen in the transaction that commits i.
CommitsNow(i, outcome) == outcome = "committed" /\ row[i].state \notin Finished

ApplyReceipt(i, outcome) ==
  [state |-> IF outcome \in {"hold", "error"} THEN "deferred" ELSE outcome,
   hash  |-> IF row[i].state = "absent" THEN ServerHash(i) ELSE row[i].hash]

ApplyRow(i, outcome, places) ==
  /\ outcome \in ApplyOutcome(i)
  /\ row' = [row EXCEPT ![i] = AppliedRow(@, outcome)]
  /\ effects' = IF CommitsNow(i, outcome)
                THEN [effects EXCEPT ![i] = @ + 1] ELSE effects
  /\ IF outcome = "error" \/ row[i].state \in Finished
     THEN UNCHANGED news ELSE Stamped(i, places)
  /\ UNCHANGED <<conflicts, early>>

\* Request c applies what it landed.
ApplyLanded(c, i, outcome, places) ==
  /\ <<c, i>> \in landed
  /\ ApplyRow(i, outcome, places)
  /\ landed' = landed \ {<<c, i>>}
  /\ UNCHANGED workerVars

\* The edge function is killed, or loses the database, before it applies.
AbandonLanded(c, i) ==
  /\ <<c, i>> \in landed
  /\ landed' = landed \ {<<c, i>>}
  /\ UNCHANGED <<serverVars, workerVars>>

-----------------------------------------------------------------------------
(* The reprocessor (supabase/functions/workers/index.ts): lists the         *)
(* candidates, then re-opens and applies them one by one.                   *)

\* Mutant: only what is still "received" is looked for.
CandidateReceived(i) == row[i].resolution # "settled" /\ row[i].state = "received"

Candidate(i) ==
  /\ row[i].resolution # "settled"
  /\ \/ row[i].state = "received"
     \/ row[i].state = "deferred" /\ row[i].waiting = "dependency" /\ DependencyMet(i)

ReprocessList ==
  /\ picked = {} /\ reopened = {}
  /\ {i \in Item : Candidate(i)} # {}
  /\ picked' = {i \in Item : Candidate(i)}
  /\ UNCHANGED <<serverVars, landed, reopened>>

\* Mutant: the row is re-opened whatever state it is in by now.
ReprocessReopenAny(i) ==
  /\ i \in picked /\ reopened = {}
  /\ picked' = picked \ {i}
  /\ reopened' = {i}
  /\ row' = [row EXCEPT ![i].state = "received"]
  /\ Stamped(i, Places)
  /\ UNCHANGED <<conflicts, effects, early, landed>>

\* reopen_deferred and envelope_get, in one transaction.
ReprocessReopen(i) ==
  /\ i \in picked /\ reopened = {}
  /\ picked' = picked \ {i}
  /\ reopened' = IF row[i].state = "absent" THEN reopened ELSE {i}
  /\ row' = IF row[i].state = "deferred"
            THEN [row EXCEPT ![i].state = "received"] ELSE row
  /\ IF row[i].state = "deferred" THEN Stamped(i, Places) ELSE UNCHANGED news
  /\ UNCHANGED <<conflicts, effects, early, landed>>

ReprocessApply(i, outcome) ==
  /\ i \in reopened
  /\ ApplyRow(i, outcome, Places)
  /\ reopened' = reopened \ {i}
  /\ UNCHANGED <<landed, picked>>

\* The worker's deadline passes, or it is killed: the rest waits for the
\* next run.
ReprocessStops ==
  /\ picked \cup reopened # {}
  /\ picked' = {} /\ reopened' = {}
  /\ UNCHANGED <<serverVars, landed>>

-----------------------------------------------------------------------------
(* The envelope inbox of the admin panel. *)

\* Mutant: any envelope can be put back.
AdminReprocessAny(i) ==
  /\ row[i].state # "absent"
  /\ row' = [row EXCEPT ![i].state = "received", ![i].waiting = "none",
                        ![i].resolution = "reprocessed"]
  /\ Stamped(i, Places)
  /\ UNCHANGED <<conflicts, effects, early, landed, picked, reopened>>

\* admin_envelope_reprocess
AdminReprocess(i) ==
  /\ row[i].state \in {"rejected", "conflict", "deferred", "received"}
  /\ row' = [row EXCEPT ![i].state = "received", ![i].waiting = "none",
                        ![i].resolution = "reprocessed"]
  /\ Stamped(i, Places)
  /\ UNCHANGED <<conflicts, effects, early, landed, picked, reopened>>

\* A held envelope: landed, tried, and waiting to be processed again.
Held(i) == row[i].state = "received" /\ row[i].waiting = "reprocess"

\* admin_envelope_resolve: the state and the data stay as they are.
AdminResolve(i) ==
  /\ row[i].state \in {"rejected", "conflict", "deferred"} \/ Held(i)
  /\ row[i].resolution # "settled"
  /\ row' = [row EXCEPT ![i].resolution = "settled"]
  /\ Stamped(i, Places)
  /\ UNCHANGED <<conflicts, effects, early, landed, picked, reopened>>

-----------------------------------------------------------------------------
Requests ==
  \E c \in Caller, i \in Item :
    \/ Land(c, i, ServerHash(i), Places)
    \/ i \in Reused /\ Land(c, i, "foreign", Places)
    \/ \E o \in ApplyOutcome(i) : ApplyLanded(c, i, o, Places)
    \/ AbandonLanded(c, i)

Reprocessor ==
  \/ ReprocessList
  \/ \E i \in Item : ReprocessReopen(i)
  \/ \E i \in Item : \E o \in ApplyOutcome(i) : ReprocessApply(i, o)
  \/ ReprocessStops

Admin == \E i \in Item : AdminReprocess(i) \/ AdminResolve(i)

\* The ledger alone, open to any request that can reach it.
LedgerNext == Requests \/ Reprocessor \/ Admin
LedgerSpec == LedgerInit /\ [][LedgerNext]_ledgerVars

\* The cron job calls the worker every minute; a run that is cut short is
\* followed by another, and not every run is cut short before it gets to i.
LedgerFairness ==
  /\ WF_ledgerVars(ReprocessList)
  /\ \A i \in Item :
       /\ SF_ledgerVars(ReprocessReopen(i))
       /\ SF_ledgerVars(\E o \in ApplyOutcome(i) \ {"error"} : ReprocessApply(i, o))
LedgerFairSpec == LedgerSpec /\ LedgerFairness

-----------------------------------------------------------------------------
(* Properties. *)

\* Exactly-once effect: however often an envelope is posted, retried, picked
\* by the reprocessor or put back by an admin, its handler makes its domain
\* writes at most once (rpc_ingest.sql:787-792, the re-check under the lock).
AppliedOnce == \A i \in Item : effects[i] <= 1

\* The row says committed exactly when the domain writes were made.
CommittedMeansApplied ==
  \A i \in Item : row[i].state = "committed" <=> effects[i] = 1

\* A payload the server took is kept for good, whatever else arrives under
\* its id: in the row or beside it (rpc_ingest.sql:60-63).
Kept(i, h) == row[i].hash = h \/ <<i, h>> \in conflicts
PayloadsKept == [][\A i \in Item, h \in Hash : Kept(i, h) => Kept(i, h)']_ledgerVars

\* A committed or duplicate envelope keeps its state: no late copy, no
\* reprocessing and no admin takes it back.
CommittedIsFinal ==
  [][\A i \in Item : row[i].state \in {"committed", "duplicate"}
                       => row'[i].state = row[i].state]_ledgerVars

\* A deferred envelope whose dependency has come does not wait for ever: it
\* is tried again or an admin settles it, although worker runs are cut short,
\* requests overlap and a resolution races the worker (workers/index.ts:116).
DueAgain(i) ==
  /\ row[i].state = "deferred" /\ row[i].waiting = "dependency"
  /\ row[i].resolution # "settled" /\ DependencyMet(i)
DeferredIsTriedAgain == \A i \in Item : DueAgain(i) ~> ~DueAgain(i)

=============================================================================
