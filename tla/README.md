# FESS POS: a verification of an offline-first field system

FESS POS is an offline-first module for field agents (Flutter,
`packages/fess_pos`), a server in PostgreSQL and edge functions
(`supabase/`), and an admin panel (`apps/fess-pos-admin`). A job is booked by
the office, allocated to an agent, carried out at the site with a form, photos
and a location check, and reviewed. Agents are offline for long. Whatever one
does is recorded as an *envelope* in the phone's *outbox*; a sender posts
envelopes in batches, the server keeps them in an inbox (here: the *ledger*)
and applies them with typed handlers, and a pull brings back what came of them
and what the office did meanwhile.

The modules here are about what this makes hard: the same thing told twice, late, in
another order, by two processes of a phone, to transactions of a server that
see each other only in part. Paths are relative to the repository. `rpc_ingest.sql`
and the like are in `supabase/migrations/`, Dart files in
`packages/fess_pos/lib/src/` unless said otherwise.

## 1. Inventory

| Component | State it keeps | Operations | Correct when | Module |
|---|---|---|---|---|
| **Envelope ledger** `rpc_ingest.sql`, `functions/_shared/ingest.ts`, `functions/workers/index.ts`, `reprocess_resolution.sql`, `rpc_admin_ops.sql` | `ingest_envelopes` (state, waiting_on, resolution, stored_hash), `ingest_conflicts` | land, apply, finish, hold, list candidates, re-open, admin reprocess and resolve | domain writes are made once; payloads are kept; committed is final; deferred envelopes are tried again | `EnvelopeLedger` |
| **Outbox store** `data/outbox/outbox_store.dart` | table `outbox` (state, next attempt, committed_at) | add, nextBatch, markInFlight, release, reschedule, applyReceipts, park, applyServerOutcomes, resendRetained, purgeCommitted | nothing is stranded in flight; a copy is let go only when the server has one; what is parked is reported | `OutboxStore` |
| **Sender, sync run, pull of outcomes** `data/outbox/outbox_sender.dart`, `data/remote/retry_policy.dart`, `data/sync/sync_engine.dart` | the batch, its halves, cursor, known server epoch | drain, send, split, park, back off, hold for a sign-in, pull, purge | as above, through every way a call can end; outcomes reach the phone | `Delivery` |
| **Background task** `core/runtime/background_sync.dart` | a second isolate with a sender of its own on the same file | open, drain, purge | two engines lose nothing together | `Isolates` |
| **Sessions** `data/remote/pos_api_client.dart`, `session_vault.dart`; `rpc_auth_sync.sql`, `api/routes/auth.ts` | the session book; `pos_sessions` in token families | exchange, refresh (single flight), rotate, revoke on reuse, sign out, revoke, deactivate | one live token per family; a sign-out sticks and arrives | `Sessions` |
| **Evidence** `data/sync/evidence_uploads.dart`, `rpc_ingest.sql`, `functions/workers/index.ts`, `rpc_workers_cron.sql` | photo, object, replica, row, two queues, the inspection's counts | upload, record, sweep, verify, replicate, dead-letter, count, promote | bytes leave when verified; nothing is forgotten; a complete inspection is reviewed | `Evidence` |
| **Job stream** `data/sync/pull_engine.dart`, `sections.dart`, `pos.sync_read` | keyset cursor on `updated_at`; the phone's row per job | read a page, apply it, keep what an action waits for | what was committed when the cursor passed is on the phone; no pull undoes an action | `JobSync` |
| **Jobs, assignments, visits** `rpc_admin_jobs.sql`, `rpc_ingest.sql`, `rpc_workers_cron.sql`, `data/local/job_actions_store.dart`, `inspection_store.dart` | job, assignments, inspections; the agent's copies | book, allocate, revoke, reassign, expire, accept, start, pause, submit, review, cancel, close | job and assignments are of one mind; work is kept; the bank sees a job that goes forward | `Jobs`, `Dashboard` |
| **Form engine** `packages/fess_pos_engine/lib/src/forms`, `packages/fess_pos_engine_ts/src` | a session: answers, resolution, problems | compile, resolve, update, validate | phone and server compute the same; rules read final values | `Forms` |
| **Flows and the inspection page** `domain/flows/flow_runner.dart`, `features/inspections/inspection_page.dart`, `packages/fess_pos_engine_ts/src/analyser.ts` | path, draft, location check | next, back, jump, answer, save, submit, reopen; the publish gate | nobody submits before the location check; a refusal has a page | `Flows`, `Inspection` |
| Definitions, banks, issuers, users; exports; links; bank API; notifications | versions, queues, one-time tokens | publish, retire, run, redeem, retry | see section 8 | - |
| Admin panel, other screens, schemas, tools, platform adapters | - | user interface, data, I/O | see section 8 | - |

How they interact. The recorder writes an outbox row in the
transaction of the agent's change. `SyncEngine._run` calls the sender, the pull and the purge one
after the other, one run at a time in one isolate; a background task is another
isolate with another connection. The sender calls `POST /v1/ingest`; the edge function runs two
transactions per envelope (`ingest_land`, `ingest_apply`), one envelope after
the other; `ingest_apply` calls the typed handler, which writes jobs,
inspections and evidence. The reprocessor, the sweeper, the queue drains and the
expiry of assignments are cron jobs on the same tables, the admin's procedures
calls of their own. The pull reads rows past a cursor, applies a page
and moves the cursor in one local transaction.

What is hard. Answers are lost after the server has committed; the batch is then sent
again while the first request may still be running. The app is killed anywhere.
Two isolates undo each other's rows. Two statements count without seeing each
other. Leases run out under a worker that is still at work. The office gives a
job to somebody else while the first agent is offline. Rules read fields that
come later in the document. `PROJECT.json` has every hazard at its line.

## 2. Modules

| Module | Models | |
|---|---|---|
| `Envelopes` | ids, payload hashes, receipts, outcomes | shared vocabulary |
| `EnvelopeLedger` | the server's ledger, a specification of its own (`LedgerSpec`) | one action per transaction |
| `OutboxStore` | the phone's table, one action per method | has no `Next`: an engine drives it |
| `Delivery` | one engine, requests, pull, sync run, restarts; composes the two above | EXTENDS both |
| `Isolates` | two engines over one store; composes the same two | EXTENDS both |
| `Custody` | the abstract promise: recorded, taken, let go | `Delivery` and `Isolates` implement it |
| `Sessions` | a user's session: two processes, the server's transactions, late requests | |
| `Evidence` | the photos of one inspection, from the phone to the review | |
| `JobSync` | the jobs stream: office transactions, pages, cursor, the phone's rows | |
| `Jobs` | one job: office, timer, agents' phones, events late and out of order | |
| `Dashboard` | the job as the bank sees it | `Jobs` implements it |
| `Forms` | rules, compilation order, full and incremental resolution, validation, sessions; pure | |
| `Flows` | the flow runner and the publish gate; pure | EXTENDS `Forms` |
| `Inspection` | an inspection being filled in | EXTENDS `Flows` |
| `MC*` | small instances for TLC | |
| `LedgerProofs`, `DeliveryProofs`, `IsolatesProofs` | theorems about the ledger, and about each of the two that use it, section 6 | the second and the third EXTEND the first |
| `SessionsProofs`, `JobsProofs`, `JobSyncProofs`, `EvidenceProofs` | theorems about `Sessions`, `Jobs`, `JobSync` and `Evidence`, section 6 | |
| `InspectionProofs` | theorems about the operators of `Forms`, and about `Inspection`, section 6 | |

**Ledger.** `row[i]` is the row of envelope `i`; its `hash` stands for the
payload it stores. `Land` is `ingest_land` with its five results, `ApplyRow`
is `ingest_apply` with `ingest_finish` and `ingest_hold`: the handler is a choice
among the outcomes it may return, `Needs` says which envelopes create what
another refers to, and `effects` counts domain writes. `landed`, `picked` and
`reopened` are program counters: what a request or the worker has read and not
applied yet. Every update stamps its row with `updated_at`, the moment its transaction
*began* (`integrity_triggers.sql:19`), and the phone reads rows by that stamp
(`rpc_auth_sync.sql:480`). Of stamps only their place is kept. `news[i]` says how the pull
stands to the last update of `i`: `unread` (past all that was read), `taken` (on the page
on its way), `skipped` (not on that page, but its stamp lies before the end of it),
`read`, or `missed` (behind the stored cursor, and never read). `early` are the
places, besides `unread`, where a transaction can find its stamp that began long ago
(`Places`): a page that is read adds `skipped`, a cursor that is stored turns that into
`missed`, a page that is lost takes it back. An update chooses one of them for its row
(`Stamped`). In state `received` the choice would make no difference, because the pull
leaves the row out and the next update stamps it again. Two or more `Caller`s carry the same envelope at once. `Reused` are ids
that somebody else posts with another payload, `Mangled` those the server
hashes differently.

**Outbox.** `box[i]` is the row's state, plus `none` and `purged`. Of the clock
two facts remain: `backing` (the next attempt is in the future) and `aged` (past the
retention). `Report` are the envelopes of type `client_error` that the
phone writes itself; `about[r]` is what such a report is about.

**Delivery.** `phase` is where `SyncEngine._run` is. `rows` is the batch of
`_send`, `rest` its unsent halves, `wire` what the server has not got to,
`receipt` the answer as far as it exists. A call ends in one of five ways:
`TakeReceipts`, `RequestRefused` (split or park), `CallFails` (back off, stop the
drain), `SessionEnded`, or the app is killed (`Restart`). `CallFails` covers the
timeout, 5xx, 429, an open breaker and a malformed answer, and can come at any
time, also when the server has done everything: this is the lost answer. What
the server was doing then goes on as `late` and `<<"late", i>>`, and can reach
the ledger much later, or never. `PullRead` reads a page (any part of what is
visible), `PullApply` applies it and moves the cursor, `PullFails` and `Restart`
lose it. A request that the phone waits for finds its stamps past the cursor (`OnTime`),
because no pull runs while a batch is out; those nobody waits for, the worker's and the
admin's can be old ones (`Places`).

**Isolates.** Choosing a batch (`Choose`) and marking it (`Mark`) are the two
transactions they are; `Open` is the opening of the store, which queues what the
*other* engine has in flight. `Present` is an update by id, which does nothing
for a row the other engine has purged. `Killed` ends an engine at any point.
The splits, parking and epochs of `Delivery` are left out here.

**Sessions.** A row of `pos_sessions` has its id for its tokens. A client is a
process with a copy of the session book (`book`) of the one in secure storage
(`stored`). A transaction that locks or updates several rows is two steps, what
it read (`RefreshReads`, `SignOutReads`) and what it writes (`RefreshCommits`,
`SignOutCommits`); `Locked` are the rows between. `late` are refresh requests
nobody waits for any more. `world` is fixed at the start: what may go
wrong in this behaviour.

**Evidence.** `dev`, `obj`, `copy`, `ev`, `insp`, `verify` and `replic` are the
phone's record, the two objects, the rows and the two messages. `txn[a]` is what
a worker or request is doing; its phase says which rows it holds. A count
is what was committed when its statement began (`sees`, `received`, `verified`),
also when the statement then waits; a cycle of waits is broken by aborting one
of the transactions (`SubmitAborted`, `MoveAborted`).

**JobSync.** A transaction of the office is in `open` from its beginning, which
stamps its rows, to its commit, which shows them. `offered` are the positions a
stored cursor has passed while their rows could be read by the agent who is
signed in: a history variable. `shown[j]` is what the agent's own actions made
of job `j` on the phone.

**Jobs.** `asg` are the job's assignments, `visit[k]` the inspection with number
`k`. The table `job_transitions` is kept as it is in the database. Every event a phone
records goes into `net`, and reaches the server in the order of recording except
those the server defers or holds (`Hold`), which it takes up later (`Receive` of a held event).

**Forms, Flows, Inspection.** A rule reads one answer: `Filled` asks whether it
has one, `Dated` compares it as a date and fails on what is not one, `Shifted`
computes a date from it and fails likewise. These three are the ways in which a
rule's result differs for the code: truth, failure, a computed value. `Order` is
the topological order, `RunAll` the full resolution, `Update` the incremental
one, `FormSession` and `SetValue` the session of the phone, `ValidateAnswers` what the server
does. `Accepted` is the publish gate, `Shows`, `FirstFrom` and `NextFrom` the
runner. `Inspection` puts a page on top: `session` is the form session, `path`
the pages gone through, `draft` what survives the app.

## 3. Properties

*Envelopes.*
* `AppliedOnce`, `CommittedMeansApplied`: the handler of an envelope makes its
  writes once, and the state says so.
* `PayloadsKept`: no payload that the server took is lost, whatever arrives under its id.
* `CommittedIsFinal`: nothing reverts a committed or duplicate row.
* `DeferredIsTriedAgain` (liveness): what waits for a dependency is tried again once it is there.
* `HeldBeforeLetGo`: durable, committed and purged on the phone imply that the
  server holds this payload.
* `InFlightIsBeingSent`: `in_flight` is exactly the batch and its halves.
* `ParkedIsReported`, `ParkedBecomesKnown` (liveness): what is parked on the phone has
  a report, and the report arrives.
* `AgreesWithServer`: of an envelope whose last update was read, the phone shows what the server
  says, however receipts, pages, resends and late commits were mixed. An update the cursor
  passed before it was committed (`missed`) is excepted: section 7.
* `ImplementsCustody`: `Delivery`, and `Isolates`, refine `Custody` under the mapping *the
  phone has what is neither unrecorded nor purged; the server has what
  it keeps with the phone's hash*.
* `Delivered`, `OutcomeReachesDevice` (liveness): what is recorded reaches the server
  or needs attention; what the server decided reaches the phone, unless it is `missed`.
* `StuckIsSent` (liveness): what a killed engine left in flight is sent, also when the app never runs again.

*Sessions.*
* `OneLiveToken`: a family never has two refresh tokens that could both be redeemed.
* `NoSelfReuse`: one process that loses no answers never presents a token it has rotated away.
* `SignOutSticks`: only a sign-in opens the user interface again.
* `StaleIsNoticed`, `SignOutLands` (liveness): a device whose token is dead comes to know it; a sign-out made offline arrives.

*Evidence.*
* `BytesLeaveWhenVerified`: the phone lets go of bytes only when the server has verified an object with their hash.
* `NothingForgotten`: what is not decided, or not copied, has a message or an alert.
* `DecidedOnce`: a decision is final and its copy is asked for once.
* `ReviewedIsComplete`, `CompleteIsReviewed`: an inspection is in review exactly when its evidence is verified. The second holds when no two steps of a kind overlap (section 6; `evidence_live` has one item); of those that do see section 7.
* `InspectionDecided` (liveness): a submitted inspection whose objects are there is decided, or an alert exists.

*Jobs.*
* `BehindCursor`: a row that was committed, and the agent's, when the cursor passed it is on the phone as it is on the server.
* `LearnsAll` (liveness): the phone comes to know every job of its agent, except those the cursor passed over.
* `NeverUndone`: a pull does not undo an action that still waits.
* `LastIsLast`: a page that says it is the last one leaves nothing unread.
* `OfOneMind`: a job and its assignments agree, whichever of the office, the timer and the agents' events came first.
* `WorkIsKept`: a submitted visit is sealed on the server once nothing of it is on its way.
* `OnlyItsAgent`: what an agent sends after losing the job does not answer for the one who has it now.
* `StaysSealed`: a visit that was sent in, decided or abandoned is never under way again, and nobody else's.
* `SeenByTheBank`: `Jobs` refines `Dashboard`.

*Inspections.*
* `RulesSeeFinalValues`: each field was shown, hidden or computed by rules that read the values as they ended up.
* `SessionAsWhole`: after any answers, the incremental session is what resolving and validating the whole form gives, which is what the server does.
* `LocationFirst`: an inspection is submitted only after its location check.
* `RefusalHasAPage`: a refused submission has a page that asks for what is wrong.

Each of the four refinements and equivalences among these (`ImplementsCustody`
twice, `SeenByTheBank`, `SessionAsWhole`) is a check against a definition that was
written without looking at the code's way of getting there.

## 4. Runs

| Run | Instance | Shows |
|---|---|---|
| `ledger` | 2 envelopes (one depends on the other; one mangled; one reused), 2 requests, worker, admin | the five ledger properties |
| `delivery` | 1 envelope, 2 epochs, everything may happen | `HeldBeforeLetGo`, `AgreesWithServer`, and both liveness properties |
| `delivery_split` | 2 refused envelopes, one as a whole and one at the door, and their reports, batches of 2 | halving, parking, reporting; `ImplementsCustody` |
| `isolates` | 1 envelope, two engines | `ImplementsCustody`, `StuckIsSent` |
| `sessions` | 4 worlds of one or two disturbances | the five session properties |
| `evidence` | 2 items, 2 drains, 1 request, 2 attempts, bytes may change | the four safety properties of evidence |
| `evidence_live` | 1 item, 1 worker that may die, storage that may fail | `CompleteIsReviewed`, `InspectionDecided` |
| `jobsync` | 2 jobs, pages of one row, 2 pages a pull, 2 agents | the four properties of the stream |
| `jobs` | 2 agents, 2 visits, 4 steps of the office, 4 events, 1 held | the five properties of a job |
| `inspection` | forms of 3 fields and a declaration with rules in every direction, the accepted flows of 5 steps | the four properties of inspections |
| `delivery_resolution`, `evidence_count` | as small as the finding allows | the findings of section 7 |

*Bounds and why they are enough.*
Rows of different envelopes only touch each other in three places: a dependency
(two envelopes show it), a batch and its halves (two items are halved; the
reports are two more), and one busy server function per request. Two
callers are what a race on one row needs; the worker and the admin come on top.
`MaxEpoch` bounds the admin's rotations, `MaxBatch` stands for 50 envelopes and
900 KB. Attempts are not counted, so the runs have executions of any length.
`MaxSession` bounds the tokens issued in a world: three when answers are lost, which is a
rotation whose answer was lost and one after it. Two items and two drains
are what a race on a count needs; `MaxAttempts` of 2 has a retry and a dead
letter. A page of one row puts every row at a page boundary; `MaxClock` is one
transaction of the office after the rows' first two stamps, and an action of the
agent counts as one more without a bound. In `Jobs` the office has four steps,
enough to schedule, allocate and hand over (`MaxMoves`), the agents four events together
(`MaxEvents`) and one of them held (`MaxHeld`). Three fields that read each
other in every direction, with a section rule, are the smallest forms with a
chain that runs against the document; flows have the five kinds of step in every
order with one branch and one hidden step. `MaxPath` bounds the way gone through.

*Worlds.* `sessions` looks at what goes wrong alone and with what it
interacts: lost answers; lost answers and a second sign-in; the administrator
and refused calls; the background task. `inspection` takes many forms over a
plain flow and many flows over one form.

*Constraints.* `QuietSpec` (`delivery_split`) leaves out late requests, worker
and admin, whom `delivery` has. `MCSpec` (`jobsync`) lets the phone change
hands at most once. None cuts off a step the fairness speaks of.

*Symmetry.* Only over the two agents of `jobs` and the two drains of `evidence`,
which have no liveness property.

*Deadlock* is not checked where the system may stop: all evidence decided, a
submitted inspection, a closed job, or a bound that is used up.

## 5. Fairness

`LedgerFairness`: cron calls the worker every minute, so listing is weakly fair;
a run may be cut short by its deadline, but not every run before it gets to `i`,
and a handler does not fail on `i` in an unforeseen way for ever (strong
fairness of re-opening and of applying with an outcome).

`Fairness` of `Delivery`: the engine's timer starts runs, the steps of a run
follow one another, the server works through a request and its answer arrives,
backoffs end. None of this can be promised while the network or the app fails,
so `CalmDown` marks the moment from which nothing fails any more and guards the
failing actions; it is fair, i.e. the phone is online and signed in at some
point for long enough. Safety is checked with failures at any time.

`TaskFairness` of `Isolates` promises nothing of the app: the platform starts
the task from time to time and does not kill it each time at the same point.

`Fairness` of `Sessions`: the server finishes its transactions, a call without
an answer times out, requests nobody waits for are gone some day, and a call
made again and again gets through some day.

`Evidence`: the database ends every wait and breaks every cycle
(`DatabaseFairness`), the drains run again and again and storage answers some
day (`VerifyFairness`), the phone runs again and again (`DeviceFairness`). No copy is promised.

`Fairness` of `JobSync`: the app keeps running syncs, a page gets through again
and again, an office transaction ends. `Jobs` and `Inspection` have none: nothing there
must happen.

## 6. Proofs

`LedgerProofs` proves, for any sets of envelopes, callers and dependencies, the type
invariant, `AppliedOnce`, `CommittedMeansApplied`, `CommittedIsFinal` and
`PayloadsKept`. The inductive invariant is `RowsInv`: `effects[i]` is 0 or 1, an
absent row has no hash, and `state = "committed" <=> effects[i] = 1`. The last
conjunct is what makes `AppliedOnce` inductive: the re-check under the lock reads the
state, so the state has to know about the writes. Steps that replace one row go
through one lemma, `RowReplaced`, which also gives `RowsPreserved`, the step
property from which the two action properties follow.

`DeliveryProofs` extends it. Every step of `Delivery` is a step of the ledger
or leaves its rows alone (`LedgerPart`, `RowsStep`), so the ledger's results carry over to the
composition: `TypeCorrect`, `DeliveredOnce`. `InFlight` needs `QueueInv`: the
halves of a batch are non-empty and disjoint, there are none without a batch,
and there is no batch outside a drain; only then does a call that ends leave
nothing behind.

It also proves `HeldFirst` (`HeldBeforeLetGo`) and `CustodyKept`
(`ImplementsCustody` of `Delivery`). `HeldBeforeLetGo` is far from inductive, and its
strengthening says why it is true:

* `AnswerInv`: the server has got to an item of the request exactly when there is a
  receipt for it or it is about to be applied, and what it does not refuse it
  holds. So a whole answer (`TakeReceipts`) has no empty receipt, and a
  request that is refused whole, or ends a session, has touched nothing.
* `RefusedInv`: what the server refuses is on no late request, has no row unless
  its id is reused, and no page speaks of a row that is absent.
* `HeldInv`: an item that waits for attention and is not refused is on the server
  too, because a page may commit it.
* `NewInv`: what is not recorded has not arrived and cannot arrive late.

Two lemmas carry the step proofs: `OnlyTheseArrive` (a payload gets to the
server by a landing of the request, a late one, or another sender's) and
`BoxMoves` (the seven ways in which a row of the outbox moves). The
refinement is a step simulation: an arrival is `Take`, a purge `LetGo`, a
recording, of an action or of a report, `Record`, and anything else stutters.
`NothingIsDropped` says what this comes to: what is on the device or on the server stays on
one of them.

Last come `ParkedKnown` (`ParkedIsReported`), from
`ReportInv`: a refused item has a report from the moment it leaves the queue,
also while a page moves it because another sender uses its id. And
`DeviceAgrees` (`AgreesWithServer`), from `AgreeInv`: no update of a row is stamped `read` or
`taken` (`ShownStep`), what a request in progress is answering is not either, and the page on
its way says of a row that is `taken` what the server says.
So an old stamp can hide an update from the phone; it cannot make the phone take an old
outcome for the last one.

`IsolatesProofs` proves the same refinement for two engines, `CustodyOfTwo`
(`ImplementsCustody` of `Isolates`), where neither can rely on what it has marked. So the invariant says
nothing of `in_flight`; it relates each engine's call and the store to the server alone. `EngineInv`: what
an engine has chosen or sent was recorded, and a receipt, or an entry of a page, is of an item that
landed, whoever sent it. `BoxInv`: what is committed or purged landed, what is not recorded did
not. A step either brings one item to the server, from a request, and moves nothing on the device
(`ServerMoves`), or records, or purges (`BoxStep`). `NothingDroppedByTwo` and
`AppliedOnceForTwo` follow.

`SessionsProofs` proves `SessionsOneLiveToken` (`OneLiveToken`) for every bound on the
tokens and every mix of disturbances. A refresh is two steps, so the invariant
says what holds between them: `LockInv`, that the row a refresh has read under its
lock is still the live one of its family, and that no two refreshes have the same row.
`IdsInv` says that the next id is new and that there is one left for each transaction that
will issue a token, `FamilyInv` that a family is named after a row, so that a
sign-in starts one nobody is in, `KnownInv` that whatever the device, a call or a
late request presents was issued. The steps are sorted into six kinds by what they do to
rows and locks (`Kinds`: nothing, weaken, lock, rotate a locked row, rotate a free one,
start a family); that a kind keeps the rows in order is proved once for each, and
each action is shown to be of a kind.

`SignOutStays` (`SignOutSticks`) has a hypothesis: no world has both lost answers, in which the
app may die, and the background task. It is exact; section 7 says what happens
when both are there. `KeeperInv` says what each of the two keeps apart: without a
task the book in storage is the app's copy while the app runs; where the app does not die, there is no
session and nobody at work before it starts. `NobodyReuses` (`NoSelfReuse`)
rests on the same and on `CalmInv`: where one process runs and loses nothing, no refresh is late,
and the token the device goes by has not been rotated, or the answer with the next one is on
its way.

`JobsProofs` proves five properties of `Jobs`, for any agents, visits and events, from
`JobsAssumption` alone: `OfOneMind`, `WorkIsKept`, `StaysSealed`, `OnlyItsAgent` and
the refinement `SeenByTheBank`. Two parts had to be found. `PendingInv`: an
assignment without an answer is that of the agent the job was sent to, so an answer
of anyone else changes nothing (`NotedIsNothing`). `WorkInv`: a visit submitted on a phone has its
submission on the way or is kept. The steps are sorted into six ways
in which the job moves (`JobMoves`: by the office, taken back, cancelled,
sent, taken, noted) and the ways a visit moves (`VisitMoves`); each way is shown once to keep
the invariant and to be a step of `Dashboard` or none, and each action to be one
of them. That a finite set of numbers has a greatest one, which the numbers of visits
rest on, is `MaxExists`, from the library's well-foundedness of the naturals.

`JobSyncProofs` proves `BehindCursor`, `NeverUndone` and `LastIsLast` of the stream for any
number of jobs, agents, rows in a page and pages. The argument that nothing is lost between
pages has two halves. About a page: it holds what comes before any row it holds
(`PageIsPrefix`), and one that is not full holds all there is (`ShortPage`, which
takes the first row left out); so it covers what is behind its cursor. About time: no
open transaction's stamp is a row's, or that of a position offered (`StampInv`); so a row that
changes after the page was read gets a position the cursor has not offered, and
`PageInv` says that what is still where the page found it is as the page has it.
`WaitInv` is why no pull undoes an action: what waits is shown, so the row is kept.

`EvidenceProofs` proves the five safety properties of `Evidence`, for any items,
drains, requests and bounds, four of them without a condition: `BytesLeaveWhenVerified`, `NothingForgotten`,
`ReviewedIsComplete` and `DecidedOnce`. All of them hang on what an open transaction goes
by (`TxnOK`). What it read of its row still holds, because it has the row locked and nobody
else has (`AloneInv`); a verdict on the bytes stays true, because an object once there is
not replaced. And if what it counted is all there is, every item was verified then, and is
now, because a row only moves forward (`Forward`): so an old count can be too low, never
too high, and a visit that goes to review is complete (`ReviewInv`). Each step is shown to keep
what its own transaction goes by; that it leaves the others theirs is proved
once (`OtherOK`), from `Forward` and the lock.

The fifth, `CompleteIsReviewed`, is the converse: complete evidence goes to review.
It needs counts that are not too low, and the code does not give that: section 7 has the two
overlaps that break it. `CompleteGoesToReview` proves that there are no others: as long as no two
verdicts wait for the inspection at once, and none of the records in progress began
before the submission (`Apart`), complete evidence is in review. `CompleteInv`
says why: whichever of the last verdict and the submission commits second has counted all
there is, because the other was committed when its statement began. Nothing in the code
ensures `Apart`; the theorem says what a repair would have to.

`InspectionProofs` begins with the operators of `Forms`. `OrderIsSound`: for a form that compiles, the order
of evaluation has every field once, and after the fields it reads without a fallback.
`IncrementalIsFull`: what `resolver.dart` makes of the fields that a change reaches is what a
resolution of the whole form makes of the new answers. `SentAsWhole`: so in what a session
fed answer by answer sends, the server finds the problems and the values that the phone has. The folds of the
code become histories, functions of the number of fields done (`IsHistory`), and each
has its invariant by induction on that number. That there is at most one resolution of
given answers (`WholeIsUnique`) is an induction along the order (`ByDependency`). The
hard one is `UpdateHalf`, half way through an update: the fields done are as the new
answers have them, the fields to come are as the old ones had them, and what an
untouched field reads has not moved.

The rest takes this to the inspection, for any worlds the gate accepts, any
answers and any length of the way. `FinalValuesAlways` and `AgreementAlways` follow from
`SessionInv`: the session is what its raw answers give, also after a restart and whatever
the draft had kept. `RefusalAlways`: a field with a problem is in a section that is shown,
the gate saw that a form step has it, and the rest is which pages exist.
`LocationFirstAlways` needs `WayInv`: until the check has passed nothing is sent, and the
way gone through, the way in the draft and the place the draft keeps are of pages not after the
check (`CheckInv`). A move forward stops there (`NextFromUpto`), a jump back
lands before (`BackUpto`), and a draft that is opened again finds its place among the
same pages (`SameAsReopened`): the values it was written with are those its answers give.

The assumptions are the named ones of the modules:
`SessionAssumption` (bounds are numbers), `EnvelopeAssumption` (ids are finitely many; reports, mangled and reused ids are ids),
`LedgerAssumption` (`Needs` maps ids to sets of ids) and `DeliveryAssumption`
(bounds are positive; there are two callers, the live and the late request),
`JobsAssumption` and `JobSyncAssumption` (jobs are finitely many; in the stream they are numbered, as the
cursor compares ids), `EvidenceAssumption` (items are finitely many, numbered by their time) and
`InspectionAssumption` (forms compile and the gate accepts the flows: nothing else is published).

Every safety property the passing runs check is stated by a theorem. Only model-checked: the
liveness properties (out of the prover's reach, as is ENABLED) and the findings. No module declares a RECURSIVE operator.

## 7. What the code does differently

Two things the repository says of itself are shown by a run not to hold:

* **A resolution of a held envelope never reaches the phone** (`delivery_resolution`).
  `sync_read` leaves out rows in state `received` (`rpc_auth_sync.sql:481`), which is
  the state a held envelope keeps. The comment at `rpc_auth_sync.sql:473` says that
  resolutions release items.
* **Two photos verified at once: the inspection is never reviewed** (`evidence_count`).
  `recount_evidence` counts in the statement that updates the inspection
  (`rpc_ingest.sql:175`). Two transactions do not see each other; the second waits for
  the row and writes the count it took before. The comment at line 186 says that
  completeness drives the inspection forward.

The following was met while modelling. The actions of the modules behave this
way; no property states the opposite, and where one would, it names the exception.

*Envelopes.*
* Two requests land one envelope; one defers it, the other holds it (`rpc_ingest.sql:105`): the row is
  `deferred` with `{reprocess: true}`, which `reprocess_candidates` does not look for.
* `ingest_apply` reads the state again under its lock, not the resolution
  (`rpc_ingest.sql:790`): an envelope that an admin resolved in between is applied.
* A receipt with another `stored_hash` marks the row `needs_attention`; the next
  page says `committed`, and `applyServerOutcomes` (`outbox_store.dart:342`) has no
  hash to compare. `outbox_store_test.dart:259` says "a stored hash that differs is a
  conflict, never committed".
* With two engines, a late `deferred` receipt is written over a row that a page has
  committed (`outbox_store.dart:276`): the phone goes back to an older outcome. Custody is kept, which is what `isolates` states.

* `updated_at` is the beginning of a transaction here too. An outcome whose transaction
  began before a page was read, and which is committed when the phone's cursor
  (`pull_engine.dart:282`) is already past its stamp, is read by no pull: the phone shows what it had until
  the row is updated again. The model has it (`missed`); `AgreesWithServer` and
  `OutcomeReachesDevice` name it, and both fail in the instances of `delivery` without
  the exception. The streams of evidence and reviews are read in the same way.

*Sessions.*
* After a lost answer the device presents a token that it has rotated, and the
  family is revoked. Two processes do the same without any loss: `NoSelfReuse` is stated for one process without losses.
* When the app dies in a sign-out, a task that read the session book before it writes its older copy
  back, and the UI opens again signed in. `SignOutSticks` is checked where one of the two happens.
* A process writes its whole copy of the session book (`session_vault.dart:356`), also over a
  sign-out of the other one. `SignOutSticks` is about what the app goes by.
* The answer to a call ends the session that the user has by then (`pos_api_client.dart:353`), also one
  signed in meanwhile; the answer to a sign-out clears the mark of a newer
  pending one. `SignOutLands` starts where no such call is on its way.
* A refresh that read full scope before a sign-out issues a token of full scope after it.

*Evidence.*
* The record of an item reads the manifest (`rpc_ingest.sql:462`); a submission that commits
  in between finds no item to mark, and the item says that it is in no manifest. It is not
  counted, and the inspection is not reviewed either.
* The sweeper takes the oldest pending items up to its limit (`rpc_workers_cron.sql:119`): as many whose
  objects never come keep newer ones from being looked for.

*Job stream.*
* `updated_at` is the beginning of a transaction (`integrity_triggers.sql:21`). A row that commits after the
  cursor has passed its stamp is not read until it changes again; so is a row that belonged
  to another agent when the cursor passed (`pull_engine.dart:282`). `LearnsAll` excepts these two cases, `PassedOver`.
* A pulled status is put aside for an action that still waits (`sections.dart:53`). When the server then finds
  the action superseded, it does not touch the row, and the phone keeps what the action made of
  it. `Knows` allows this.

*Jobs.*
* A pause or resume of an agent who has lost the job moves the job with the
  visit (`rpc_ingest.sql:324`); a visit of his may take a number, and a decision is made on the
  highest one (`rpc_admin_jobs.sql:624`). `OnlyItsAgent` and `WorkIsKept` name the first and the number.
* The comment at `rpc_admin_jobs.sql:533` says that any state before closing can be
  cancelled; the table of transitions (`jobs.sql:57`) has no way there from `submitted` and
  `under_review`. The panel offers to give up an appointment without a contact
  attempt (`job-actions.tsx:84`); the database refuses that (`rpc_admin_jobs.sql:440`).

*Inspections.*
* For a form with a rule that reads all answers at once, the session resolves in
  full at every change (`resolver.dart:598`), but over the values of before, where a fresh
  resolution begins without any; `session.dart:1` says that both are the same.
  `Forms` has no such rules.
* The gate (`analyser.ts:616`) proves that a submission comes after the location check in a graph in which a
  step is followed by where its `next` leads. The runner comes to a step in document order too: past a
  hidden step, past an `if` without a "then" or one whose rule fails, and from the check to
  the step after it whatever its `next` says (`inspection_page.dart:428`). So a step before
  the check whose `next` leads past it is accepted, when only steps behind the check lead to that
  step, and the runner follows it. And a review before the check may jump to a form page behind it.
  `LocationFirst` is stated for flows with neither (`Plain`); in others it need not hold.
* A form step that a rule hides keeps its answers' problems: the submission is
  refused and no page asks for them. So does a section whose rule fails and whose
  fields are all hidden. `RefusalHasAPage` is about fields and flows without the first.
* The page that a refused submission jumps to is not written to the draft before the next move.

## 8. What is left out, and why

*Within the modules.* In `Delivery`: lanes, `device_seq`, users and bytes choose
which due rows form a batch, and are a free choice; the backoff's arithmetic and the
breaker are the fact that an item backs off or a call fails. A request the
server refuses as a whole is one with an item of `TooLarge`; one with a wrapper it
refuses is one of `Malformed`. The ledger never loses rows: a restore from a
backup, for which `purgeCommitted` (`sync_engine.dart:208`) runs too early, would be a
specification of its own. In `Sessions`: one user, one device, secure storage that does not
fail, no expiry of tokens. In `Evidence`: one inspection; the backoff of the
queues only delays. In `JobSync`: visits and the other streams, which page the
same way. In `Jobs`: reasons, notes, flags, the appointment's time, amendments,
import, messages. In `Forms` and `Flows`: repeatable groups,
prefilled and choice fields, defaults (which are filled in again on reopening), templates,
rules over all answers, groups as containers (a section's rule works the same
way), dynamic targets, branches to other flows and app pages, the receipt. In
`Inspection`: acknowledgements, declaration versions, the fence, the dialog.

*Not modelled.* Definitions, banks, issuers, users: procedures of one
statement each, guarded by triggers (deactivation is in `Sessions`). Links: one
conditional update each. Exports and notifications: two more queues on the drain
that `Evidence` has. Bank API: intake under an idempotency key, which ends
where `Jobs` begins. Housekeeping of the local store: file system work. The admin
panel and the other screens: layout over state modelled elsewhere, apart from
the bank's statuses (`Dashboard`). Schemas, tools, seeds and platform adapters: data and I/O.

*Next.* A ledger that can be restored.
