--------------------------- MODULE DeliveryProofs ---------------------------
(***************************************************************************)
(* Proofs about delivery, for any set of envelopes and reports, whatever   *)
(* the server refuses and whoever else uses its ids: that what is sent is  *)
(* applied once; that the device lets go of an envelope only when the      *)
(* server holds it, so that Delivery implements Custody; and what each     *)
(* side knows of the other, the server of what is parked on the device,    *)
(* the device of what the server decided.                                  *)
(***************************************************************************)
EXTENDS Delivery, LedgerProofs, FiniteSetTheorems

-----------------------------------------------------------------------------
(* The server's side of a step. *)

\* What is stamped on time is stamped in one of the places there are.
LEMMA OnTimeIsAPlace ==
  /\ \A c, i, h : Land(c, i, h, OnTime) => Land(c, i, h, Places)
  /\ \A c, i, o : ApplyLanded(c, i, o, OnTime) => ApplyLanded(c, i, o, Places)
<1>1. \A i : Stamped(i, OnTime) => Stamped(i, Places)
  BY DEF Stamped, OnTime, Places
<1>2. ASSUME NEW c, NEW i, NEW h, Land(c, i, h, OnTime) PROVE Land(c, i, h, Places)
  BY <1>1, <1>2 DEF Land
<1>3. ASSUME NEW c, NEW i, NEW o, ApplyLanded(c, i, o, OnTime)
      PROVE  ApplyLanded(c, i, o, Places)
  BY <1>1, <1>3 DEF ApplyLanded, ApplyRow
<1> QED  BY <1>2, <1>3

\* A step of delivery is a step of the ledger for the server's rows, or it
\* leaves them alone and only moves the pull or renames a request.
LEMMA LedgerPart ==
  ASSUME TypeOK, Next
  PROVE  \/ LedgerNext
         \/ /\ UNCHANGED <<row, conflicts, effects>>
            /\ NewsOK'
            /\ landed' \in SUBSET (Caller \X Item)
            /\ picked' \in SUBSET Item
            /\ reopened' \in SUBSET Item
<1> USE DEF TypeOK, LedgerTypeOK
<1> DEFINE Apart == /\ UNCHANGED <<row, conflicts, effects>>
                    /\ NewsOK'
                    /\ landed' \in SUBSET (Caller \X Item)
                    /\ picked' \in SUBSET Item
                    /\ reopened' \in SUBSET Item
<1>0. NewsOK  BY DEF NewsOK
<1>1. UNCHANGED ledgerVars => Apart
  BY <1>0 DEF ledgerVars, NewsOK
<1>2. "live" \in Caller /\ "late" \in Caller
  BY DeliveryAssumption
<1>3. CASE \E i \in Item : Record(i) \/ ClockMoves(i)
  BY <1>1, <1>3 DEF Record, ClockMoves
<1>4. CASE \E i \in Item : AdminActs(i)
  BY <1>4 DEF AdminActs, LedgerNext, Admin
<1>5. CASE RotateEpoch \/ CalmDown \/ StartRun
  BY <1>1, <1>5 DEF RotateEpoch, CalmDown, StartRun
<1>6. CASE ReprocessorRuns
  BY <1>6 DEF ReprocessorRuns, LedgerNext
<1>7. CASE SendBatch \/ DrainEnds \/ TakeReceipts \/ RequestRefused \/ SessionEnded
  BY <1>1, <1>7 DEF SendBatch, DrainEnds, TakeReceipts, RequestRefused, SessionEnded
<1>8. CASE CallFails
  BY <1>0, <1>2, <1>8 DEF CallFails, GiveUp, serverVars, workerVars, pullPlaces, NewsOK
<1>9. CASE \E i \in Item : LandNext(i)
  BY <1>2, <1>9, OnTimeIsAPlace DEF LandNext, LedgerNext, Requests
<1>10. CASE \E i \in Item : RefuseWrapper(i)
  BY <1>1, <1>10 DEF RefuseWrapper
<1>11. CASE \E i \in Item : LateRequest(i)
  BY <1>2, <1>11 DEF LateRequest, LedgerNext, Requests
<1>12. CASE \E i \in Item : LateLost(i)
  BY <1>1, <1>2, <1>12 DEF LateLost, LedgerNext, Requests
<1>13. CASE \E i \in Item : \E o \in ApplyOutcome(i) : ApplyNext(i, o) \/ LateApply(i, o)
  BY <1>2, <1>13, OnTimeIsAPlace DEF ApplyNext, LateApply, LedgerNext, Requests
<1>14. CASE PullRead \/ PullApply
  <2>1. NewsOK'  BY <1>0, <1>14, PageType DEF PullRead, PullApply
  <2> QED  BY <1>14, <2>1 DEF PullRead, PullApply, workerVars
<1>15. CASE Purge
  BY <1>1, <1>15 DEF Purge
<1>16. CASE PullFails \/ Restart
  <2>1. NewsOK'  BY <1>0, <1>16, PageType DEF PullFails, Restart, PageLost
  <2> QED
    BY <1>2, <1>16, <2>1 DEF PullFails, Restart, PageLost, GiveUp, workerVars
<1> QED
  BY <1>3, <1>4, <1>5, <1>6, <1>7, <1>8, <1>9, <1>10, <1>11, <1>12, <1>13,
     <1>14, <1>15, <1>16 DEF Next, Sender, Server, Pull

\* So the rows keep their invariant and lose nothing.
LEMMA RowsStep ==
  ASSUME TypeOK, RowsInv, [Next]_vars
  PROVE  RowsInv' /\ RowsPreserved
<1>1. CASE Next
  BY <1>1, LedgerPart, NextRows, RowsAlone DEF RowsInv
<1>2. CASE UNCHANGED vars
  BY <1>2, RowsAlone DEF vars, RowsInv
<1> QED  BY <1>1, <1>2

\* The ledger's variables keep their types.
LEMMA LedgerTypeStep ==
  ASSUME TypeOK, RowsInv, [Next]_vars
  PROVE  LedgerTypeOK'
<1>1. row' \in [Item -> Row] /\ conflicts' \in SUBSET (Item \X Hash)
  BY RowsStep DEF RowsInv
<1>2. effects' \in [Item -> Nat]  BY RowsStep DEF RowsInv
<1>3. CASE Next
  BY <1>1, <1>2, <1>3, LedgerPart, AroundRows DEF LedgerTypeOK, TypeOK, NewsOK
<1>4. CASE UNCHANGED vars
  BY <1>4 DEF vars, TypeOK, LedgerTypeOK
<1> QED  BY <1>3, <1>4

-----------------------------------------------------------------------------
(* Types. *)

\* A receipt puts its row in one of three states.
LEMMA ReceiptOutcomeType ==
  ASSUME NEW q
  PROVE  ReceiptOutcome(q) \in {"committed", "needs_attention", "durable"}
  BY DEF ReceiptOutcome

\* So does an outcome of the pull.
LEMMA PullOutcomeType ==
  ASSUME NEW q
  PROVE  PullOutcome(q) \in TakesOutcome
  BY DEF PullOutcome, TakesOutcome

\* A report is queued in a store of box states, and says what it is about.
LEMMA WithReportType ==
  ASSUME OutboxTypeOK, NEW S \in SUBSET Item,
         NEW moved \in [Item -> BoxState], WithReport(S, moved)
  PROVE  /\ box' \in [Item -> BoxState]
         /\ about' \in [Report -> SUBSET Item]
<1>1. CASE S \subseteq Report
  BY <1>1 DEF WithReport, OutboxTypeOK
<1>2. CASE ~(S \subseteq Report)
  <2>1. PICK r \in FreeReports : /\ box' = [moved EXCEPT ![r] = "queued"]
                                 /\ about' = [about EXCEPT ![r] = S \ Report]
    BY <1>2 DEF WithReport
  <2> QED  BY <2>1 DEF OutboxTypeOK, BoxState, FreeReports
<1> QED  BY <1>1, <1>2

\* The outbox after receipts.
LEMMA ApplyReceiptsType ==
  ASSUME OutboxTypeOK, NEW S \in SUBSET Item, NEW q, ApplyReceipts(S, q)
  PROVE  OutboxTypeOK'
<1> DEFINE moved == [i \in Item |-> IF i \in S THEN ReceiptOutcome(q[i]) ELSE box[i]]
<1>1. moved \in [Item -> BoxState]
  BY ReceiptOutcomeType DEF OutboxTypeOK, BoxState
<1>2. WithReport({i \in S : q[i].state = "refused"}, moved)
  BY DEF ApplyReceipts
<1> HIDE DEF moved
<1>3. box' \in [Item -> BoxState] /\ about' \in [Report -> SUBSET Item]
  BY <1>1, <1>2, WithReportType
<1> QED  BY <1>3 DEF ApplyReceipts, OutboxTypeOK

\* The outbox after an item is parked.
LEMMA ParkType ==
  ASSUME OutboxTypeOK, NEW i \in Item, Park(i)
  PROVE  OutboxTypeOK'
<1>1. Moved({i}, "needs_attention") \in [Item -> BoxState]
  BY DEF OutboxTypeOK, Moved, BoxState
<1>2. box' \in [Item -> BoxState] /\ about' \in [Report -> SUBSET Item]
  BY <1>1, WithReportType DEF Park
<1> QED  BY <1>2 DEF Park, OutboxTypeOK

\* The outbox after a page of the pull.
LEMMA ApplyPageType ==
  ASSUME OutboxTypeOK, NEW changed \in BOOLEAN, NEW q, ApplyPage(changed, q)
  PROVE  OutboxTypeOK'
<1> DEFINE resent == IF changed THEN Resent(box) ELSE box
           after == OutcomesApplied(resent, q)
<1>1. resent \in [Item -> BoxState]
  BY DEF Resent, OutboxTypeOK, BoxState
<1>2. box' = after  BY DEF ApplyPage
<1> HIDE DEF resent
<1>3. after \in [Item -> BoxState]
  BY <1>1, PullOutcomeType DEF OutcomesApplied, BoxState, TakesOutcome
<1>4. backing' \in SUBSET Item /\ aged' \in SUBSET Item /\ UNCHANGED about
  BY DEF ApplyPage, OutboxTypeOK
<1> QED  BY <1>2, <1>3, <1>4 DEF OutboxTypeOK

\* The outbox in every other step.
LEMMA OutboxTypeStep ==
  ASSUME TypeOK, [Next]_vars
  PROVE  OutboxTypeOK'
<1> USE DEF TypeOK
<1>1. CASE UNCHANGED outboxVars
  BY <1>1 DEF outboxVars, OutboxTypeOK
<1>2. CASE \E i \in Item : Record(i)
  BY <1>2 DEF Record, Add, OutboxTypeOK, BoxState
<1>3. CASE \E i \in Item : ClockMoves(i)
  BY <1>3 DEF ClockMoves, BackoffElapses, RetentionElapses, OutboxTypeOK
<1>4. CASE SendBatch
  BY <1>4 DEF SendBatch, MarkInFlight, Moved, OutboxTypeOK, BoxState
<1>5. CASE TakeReceipts
  BY <1>5, ApplyReceiptsType DEF TakeReceipts
<1>6. CASE RequestRefused
  <2>1. CASE UNCHANGED outboxVars  BY <2>1, <1>1
  <2>2. CASE \E i \in rows : Park(i)  BY <2>2, ParkType
  <2> QED  BY <1>6, <2>1, <2>2 DEF RequestRefused
<1>7. CASE CallFails
  BY <1>7 DEF CallFails, RescheduleAndRelease, Moved, OutboxTypeOK, BoxState
<1>8. CASE SessionEnded
  BY <1>8 DEF SessionEnded, Release, Moved, OutboxTypeOK, BoxState
<1>9. CASE PullApply
  BY <1>9, ApplyPageType DEF PullApply
<1>10. CASE Purge
  BY <1>10 DEF Purge, PurgeCommitted, Moved, OutboxTypeOK, BoxState
<1>11. CASE Restart
  BY <1>11 DEF Restart, Reopen, Moved, OutboxTypeOK, BoxState
<1>12. CASE \E i \in Item : AdminActs(i) \/ LandNext(i) \/ RefuseWrapper(i)
                            \/ LateRequest(i) \/ LateLost(i)
  BY <1>1, <1>12 DEF AdminActs, LandNext, RefuseWrapper, LateRequest, LateLost,
     deviceVars
<1>13. CASE \E i \in Item : \E o \in ApplyOutcome(i) : ApplyNext(i, o) \/ LateApply(i, o)
  BY <1>1, <1>13 DEF ApplyNext, LateApply, deviceVars
<1>14. CASE RotateEpoch \/ CalmDown \/ StartRun \/ ReprocessorRuns \/ DrainEnds
            \/ PullRead \/ PullFails
  BY <1>1, <1>14 DEF RotateEpoch, CalmDown, StartRun, ReprocessorRuns, DrainEnds,
     PullRead, PullFails, deviceVars
<1>15. CASE UNCHANGED vars
  BY <1>1, <1>15 DEF vars, outboxVars
<1> QED
  BY <1>2, <1>3, <1>4, <1>5, <1>6, <1>7, <1>8, <1>9, <1>10, <1>11, <1>12,
     <1>13, <1>14, <1>15 DEF Next, Sender, Server, Pull

\* What the landing of i says in a receipt is something a receipt can say.
LEMMA LandReceiptType ==
  ASSUME RowsInv, NEW i \in Item, ~AppliesAfter(LandOutcome(i, ServerHash(i)))
  PROVE  /\ LandReceipt(i, ServerHash(i)) \in Receipt
         /\ LandReceipt(i, ServerHash(i)).state # "refused"
<1> DEFINE h == ServerHash(i)
           q == LandReceipt(i, h)
<1>1. row[i] \in Row /\ RowOK(i) /\ h \in Hash
  BY ServerHashType DEF RowsInv
<1> HIDE DEF h
<1>2. q.hash \in Hash \cup {"none"}
  BY <1>1 DEF LandReceipt, Row
<1>3. q \in Receipt /\ q.state # "refused"
  <2>1. CASE LandOutcome(i, h) \in {"duplicate", "conflict"}
    BY <1>2, <2>1 DEF LandReceipt, Receipt, Finished
  <2>2. CASE LandOutcome(i, h) \notin {"duplicate", "conflict"}
    <3>1. row[i].state \notin {"absent", "received"}
      BY <1>1, <2>2 DEF h, LandOutcome, AppliesAfter, RowOK, Hash
    <3>2. q.state = row[i].state  BY <2>2 DEF LandReceipt
    <3> QED
      BY <1>1, <1>2, <3>1, <3>2 DEF LandReceipt, Receipt, Row, RowState, Finished
  <2> QED  BY <2>1, <2>2
<1> QED  BY <1>3 DEF h

\* The same of an apply.
LEMMA ApplyReceiptType ==
  ASSUME RowsInv, NEW i \in Item, NEW o \in {"error", "hold", "deferred"} \cup Finished
  PROVE  /\ ApplyReceipt(i, o) \in Receipt
         /\ ApplyReceipt(i, o).state # "refused"
<1>1. row[i].hash \in Hash \cup {"none"} /\ ServerHash(i) \in Hash
  BY ServerHashType DEF RowsInv, Row
<1> QED  BY <1>1 DEF ApplyReceipt, Receipt, Finished

CallTypeOK ==
  /\ phase \in Phase
  /\ rows \in SUBSET Item
  /\ rest \in SUBSET (SUBSET Item)
  /\ wire \in SUBSET rows
  /\ receipt \in [Item -> Receipt \cup {NoReceipt}]
  /\ late \in SUBSET Item

\* The halves of a batch are batches.
LEMMA NextHalfType ==
  ASSUME CallTypeOK, NextHalf
  PROVE  /\ rows' \in SUBSET Item
         /\ rest' \in SUBSET (SUBSET Item)
         /\ wire' \in SUBSET rows'
         /\ receipt' \in [Item -> Receipt \cup {NoReceipt}]
  BY DEF CallTypeOK, NextHalf, NoReceipts

\* A request the device gives up on leaves its items behind.
LEMMA GiveUpType ==
  ASSUME CallTypeOK, GiveUp
  PROVE  /\ rows' \in SUBSET Item
         /\ rest' \in SUBSET (SUBSET Item)
         /\ wire' \in SUBSET rows'
         /\ receipt' \in [Item -> Receipt \cup {NoReceipt}]
         /\ late' \in SUBSET Item
  BY DEF CallTypeOK, GiveUp, NoReceipts

\* The request and the run keep their types.
LEMMA CallTypeStep ==
  ASSUME TypeOK, RowsInv, [Next]_vars
  PROVE  CallTypeOK'
<1>0. CallTypeOK  BY DEF TypeOK, CallTypeOK
<1>1. AfterDrain \in Phase  BY DEF AfterDrain, Phase
<1> USE <1>0
<1>2. CASE UNCHANGED <<phase, rows, rest, wire, receipt, late>>
  BY <1>2 DEF CallTypeOK
<1>3. CASE StartRun
  BY <1>3 DEF StartRun, callVars, CallTypeOK, Phase
<1>4. CASE SendBatch
  BY <1>4 DEF SendBatch, Batches, Due, CallTypeOK
<1>5. CASE DrainEnds
  BY <1>1, <1>5 DEF DrainEnds, callVars, CallTypeOK
<1>6. CASE TakeReceipts
  BY <1>6, NextHalfType DEF TakeReceipts, CallTypeOK
<1>7. CASE RequestRefused
  <2>1. CASE NextHalf
    BY <1>7, <2>1, NextHalfType DEF RequestRefused, CallTypeOK
  <2>2. CASE ~NextHalf
    <3>1. PICK h \in SUBSET rows : /\ rows' = h /\ wire' = h
                                   /\ rest' = rest \cup {rows \ h}
      BY <1>7, <2>2 DEF RequestRefused
    <3> QED  BY <1>7, <2>2, <3>1 DEF RequestRefused, CallTypeOK
  <2> QED  BY <2>1, <2>2
<1>8. CASE CallFails
  BY <1>1, <1>8, GiveUpType DEF CallFails, CallTypeOK
<1>9. CASE SessionEnded
  BY <1>1, <1>9 DEF SessionEnded, CallTypeOK
<1>10. CASE \E i \in Item : LandNext(i)
  BY <1>10, LandReceiptType DEF LandNext, CallTypeOK
<1>11. CASE \E i \in Item : RefuseWrapper(i)
  BY <1>11 DEF RefuseWrapper, CallTypeOK, Receipt
<1>12. CASE \E i \in Item : \E o \in ApplyOutcome(i) : ApplyNext(i, o)
  <2>1. PICK i \in Item :
          \E o \in ApplyOutcome(i) : \E seen \in {o, "error"} :
            /\ receipt' = [receipt EXCEPT ![i] = ApplyReceipt(i, seen)]
            /\ UNCHANGED <<phase, rows, rest, wire, late>>
    BY <1>12 DEF ApplyNext
  <2>2. PICK o \in ApplyOutcome(i) : \E seen \in {o, "error"} :
          /\ receipt' = [receipt EXCEPT ![i] = ApplyReceipt(i, seen)]
          /\ UNCHANGED <<phase, rows, rest, wire, late>>
    BY <2>1
  <2>3. PICK seen \in {o, "error"} :
          /\ receipt' = [receipt EXCEPT ![i] = ApplyReceipt(i, seen)]
          /\ UNCHANGED <<phase, rows, rest, wire, late>>
    BY <2>2
  <2>4. seen \in {"error", "hold", "deferred"} \cup Finished
    BY ApplyOutcomeType DEF RowsInv
  <2> QED  BY <2>3, <2>4, ApplyReceiptType DEF CallTypeOK
<1>13. CASE \E i \in Item : LateRequest(i) \/ LateLost(i)
  BY <1>13 DEF LateRequest, LateLost, deviceVars, callVars, CallTypeOK
<1>14. CASE PullApply
  BY <1>14 DEF PullApply, callVars, CallTypeOK, Phase
<1>15. CASE PullFails \/ Purge
  BY <1>15 DEF PullFails, Purge, callVars, CallTypeOK, Phase
<1>16. CASE Restart
  BY <1>16, GiveUpType DEF Restart, CallTypeOK, Phase
<1>17. CASE \E i \in Item : Record(i) \/ ClockMoves(i) \/ AdminActs(i)
  BY <1>2, <1>17 DEF Record, ClockMoves, AdminActs, callVars, deviceVars
<1>18. CASE \E i \in Item : \E o \in ApplyOutcome(i) : LateApply(i, o)
  BY <1>2, <1>18 DEF LateApply, callVars, deviceVars
<1>19. CASE RotateEpoch \/ ReprocessorRuns \/ CalmDown \/ PullRead
  BY <1>2, <1>19 DEF RotateEpoch, ReprocessorRuns, CalmDown, PullRead,
     callVars, deviceVars
<1>20. CASE UNCHANGED vars
  BY <1>2, <1>20 DEF vars
<1> QED
  BY <1>3, <1>4, <1>5, <1>6, <1>7, <1>8, <1>9, <1>10, <1>11, <1>12, <1>13,
     <1>14, <1>15, <1>16, <1>17, <1>18, <1>19, <1>20 DEF Next, Sender, Server, Pull

PullTypeOK ==
  /\ page \in [epoch: Nat, outcome: Outcomes]
  /\ epoch \in Nat
  /\ knownEpoch \in Nat
  /\ calm \in BOOLEAN

\* No page is a page without outcomes.
LEMMA NoPageType == NoPage \in [epoch: Nat, outcome: Outcomes]
<1>1. [i \in {} |-> {}] \in [{} -> Outcome]  OBVIOUS
<1>2. [i \in {} |-> {}] \in Outcomes  BY <1>1 DEF Outcomes
<1> QED  BY <1>2 DEF NoPage

\* The pull keeps its types.
LEMMA PullTypeStep ==
  ASSUME TypeOK, [Next]_vars
  PROVE  PullTypeOK'
<1>0. PullTypeOK  BY DEF TypeOK, PullTypeOK
<1> USE <1>0
<1>1. CASE UNCHANGED <<page, epoch, knownEpoch, calm>>
  BY <1>1 DEF PullTypeOK
<1>2. CASE RotateEpoch
  BY <1>2 DEF RotateEpoch, PullTypeOK
<1>3. CASE CalmDown
  BY <1>3 DEF CalmDown, PullTypeOK
<1>4. CASE PullRead
  <2>1. PICK S \in SUBSET Visible :
          page' = [epoch |-> epoch, outcome |-> [i \in S |-> OutcomeOf(i)]]
    BY <1>4 DEF PullRead
  <2>2. S \in SUBSET Item  BY DEF Visible, TypeOK, LedgerTypeOK
  <2>3. \A i \in S : OutcomeOf(i) \in Outcome
    BY <2>2 DEF Visible, OutcomeOf, Outcome, TypeOK, LedgerTypeOK, Row, RowState,
       Finished
  <2>4. [i \in S |-> OutcomeOf(i)] \in Outcomes
    BY <2>2, <2>3 DEF Outcomes
  <2> QED  BY <1>4, <2>1, <2>4 DEF PullRead, PullTypeOK
<1>5. CASE PullApply
  BY <1>5, NoPageType DEF PullApply, PullTypeOK
<1>6. CASE PullFails \/ Restart
  BY <1>6, NoPageType DEF PullFails, Restart, PageLost, PullTypeOK
<1>7. CASE \E i \in Item : Record(i) \/ ClockMoves(i) \/ AdminActs(i) \/ LandNext(i)
              \/ RefuseWrapper(i) \/ LateRequest(i) \/ LateLost(i)
  BY <1>1, <1>7 DEF Record, ClockMoves, AdminActs, LandNext, RefuseWrapper,
     LateRequest, LateLost, pullVars
<1>8. CASE \E i \in Item : \E o \in ApplyOutcome(i) : ApplyNext(i, o) \/ LateApply(i, o)
  BY <1>1, <1>8 DEF ApplyNext, LateApply, pullVars
<1>9. CASE ReprocessorRuns \/ StartRun \/ Sender \/ Purge
  BY <1>1, <1>9 DEF ReprocessorRuns, StartRun, Sender, SendBatch, DrainEnds,
     TakeReceipts, RequestRefused, CallFails, SessionEnded, Purge, pullVars
<1>10. CASE UNCHANGED vars
  BY <1>1, <1>10 DEF vars
<1> QED
  BY <1>2, <1>3, <1>4, <1>5, <1>6, <1>7, <1>8, <1>9, <1>10 DEF Next, Server, Pull

\* The invariant of types and rows.
BaseInv == TypeOK /\ RowsInv

\* It holds at first,
LEMMA BaseInit == Init => BaseInv
<1> SUFFICES ASSUME Init PROVE BaseInv
  OBVIOUS
<1>1. OutboxTypeOK  BY DEF Init, OutboxInit, OutboxTypeOK, BoxState
<1>2. LedgerTypeOK /\ RowsInv
  BY DEF Init, LedgerInit, LedgerTypeOK, News, RowsInv, RowOK, NoRow, Row, RowState,
     Finished
<1>3. receipt \in [Item -> Receipt \cup {NoReceipt}]
  BY DEF Init, NoReceipts
<1>4. page \in [epoch: Nat, outcome: Outcomes]  BY NoPageType DEF Init
<1> QED  BY <1>1, <1>2, <1>3, <1>4 DEF Init, BaseInv, TypeOK, Phase

\* and every step keeps it.
LEMMA BaseStep == BaseInv /\ [Next]_vars => BaseInv'
  BY OutboxTypeStep, LedgerTypeStep, CallTypeStep, PullTypeStep, RowsStep
     DEF BaseInv, TypeOK, CallTypeOK, PullTypeOK

\* Delivery keeps its types.
THEOREM TypeCorrect == Spec => []TypeOK
<1>1. BaseInv => TypeOK  BY DEF BaseInv
<1> QED  BY <1>1, BaseInit, BaseStep, PTL DEF Spec

\* The composition adds no way to make an envelope's domain writes twice:
\* whatever the device sends again, and however late a request arrives.
THEOREM DeliveredOnce == Spec => []AppliedOnce
<1>1. BaseInv => AppliedOnce  BY DEF BaseInv, RowsInv, AppliedOnce
<1> QED  BY <1>1, BaseInit, BaseStep, PTL DEF Spec

-----------------------------------------------------------------------------
(* What is in flight. *)

\* i is in the batch being sent, or in a half that waits for its turn.
Sent(i) == i \in rows \/ \E h \in rest : i \in h

\* The halves that wait are parts of a batch cut in pieces.
HalvesInv ==
  /\ rows = {} => rest = {}
  /\ {} \notin rest
  /\ \A h \in rest : h \cap rows = {}
  /\ \A g, h \in rest : g = h \/ g \cap h = {}

QueueInv ==
  /\ HalvesInv
  /\ phase \notin Sending => rows = {}
  /\ \A i \in Item : box[i] = "in_flight" <=> Sent(i)

\* Going on with a half takes the batch's items out, and no other.
LEMMA NextHalfSent ==
  ASSUME CallTypeOK, HalvesInv, NextHalf
  PROVE  /\ HalvesInv'
         /\ \A i \in Item : Sent(i)' <=> (Sent(i) /\ i \notin rows)
         /\ rows = {} => rows' = {}
<1>1. CASE rest = {} /\ rows' = {} /\ rest' = {}
  BY <1>1 DEF HalvesInv, Sent
<1>2. CASE \E h \in rest : rows' = h /\ rest' = rest \ {h}
  <2>1. PICK h \in rest : rows' = h /\ rest' = rest \ {h}
    BY <1>2
  <2>2. rows # {}  BY <2>1 DEF HalvesInv
  <2>3. HalvesInv'  BY <2>1 DEF HalvesInv
  <2>4. ASSUME NEW i \in Item PROVE Sent(i)' <=> (Sent(i) /\ i \notin rows)
    BY <2>1 DEF HalvesInv, Sent
  <2> QED  BY <2>2, <2>3, <2>4
<1> QED  BY <1>1, <1>2 DEF NextHalf

\* Cutting a batch in two moves nothing in or out.
LEMMA SplitSent ==
  ASSUME CallTypeOK, HalvesInv, Cardinality(rows) > 1, NEW h \in SUBSET rows,
         Cardinality(h) = Cardinality(rows) \div 2,
         rows' = h, rest' = rest \cup {rows \ h}
  PROVE  /\ HalvesInv'
         /\ \A i \in Item : Sent(i)' <=> Sent(i)
         /\ rows' # {}
<1>1. IsFiniteSet(rows) /\ IsFiniteSet(h)
  BY FS_Subset, EnvelopeAssumption DEF CallTypeOK
<1>2. Cardinality(rows) \in Nat
  BY <1>1, FS_CardinalityType
<1>3. /\ Cardinality(rows) \div 2 # 0
      /\ Cardinality(rows) \div 2 # Cardinality(rows)
  BY <1>2
<1>4. h # {} /\ h # rows
  BY <1>1, <1>3, FS_EmptySet
<1>5. rows \ h # {}  BY <1>4
<1>6. ASSUME NEW i \in Item PROVE Sent(i)' <=> Sent(i)
  BY DEF Sent
<1>7. /\ rows' # {} /\ {} \notin rest'
      /\ \A g \in rest' : g \cap rows' = {}
  BY <1>4, <1>5 DEF HalvesInv
<1>8. ASSUME NEW f \in rest', NEW g \in rest' PROVE f = g \/ f \cap g = {}
  <2>1. \A x \in rest : x \cap (rows \ h) = {}  BY DEF HalvesInv
  <2>2. (f \in rest \/ f = rows \ h) /\ (g \in rest \/ g = rows \ h)
    OBVIOUS
  <2>3. CASE f \in rest /\ g \in rest  BY <2>3 DEF HalvesInv
  <2>4. CASE f = rows \ h /\ g = rows \ h  BY <2>4
  <2>5. CASE f \in rest /\ g = rows \ h  BY <2>1, <2>5
  <2>6. CASE f = rows \ h /\ g \in rest  BY <2>1, <2>6
  <2> QED  BY <2>2, <2>3, <2>4, <2>5, <2>6
<1> QED  BY <1>6, <1>7, <1>8 DEF HalvesInv

\* A step that records a report changes no other row than the report's.
LEMMA WithReportBox ==
  ASSUME NEW S \in SUBSET Item, NEW moved \in [Item -> BoxState],
         WithReport(S, moved),
         \A r \in FreeReports : moved[r] = "none"
  PROVE  \A i \in Item : \/ box'[i] = moved[i]
                         \/ moved[i] = "none" /\ box'[i] = "queued"
<1>1. CASE S \subseteq Report
  BY <1>1 DEF WithReport
<1>2. CASE ~(S \subseteq Report)
  <2>1. PICK r \in FreeReports : box' = [moved EXCEPT ![r] = "queued"]
    BY <1>2 DEF WithReport
  <2> QED  BY <2>1
<1> QED  BY <1>1, <1>2

\* Where receipts put the rows of a batch that is in flight.
LEMMA ApplyReceiptsBox ==
  ASSUME OutboxTypeOK, NEW S \in SUBSET Item, NEW q, ApplyReceipts(S, q),
         \A i \in S : box[i] = "in_flight"
  PROVE  /\ \A i \in S : box'[i] = ReceiptOutcome(q[i])
         /\ \A i \in Item \ S : \/ box'[i] = box[i]
                                \/ box[i] = "none" /\ box'[i] = "queued"
<1> DEFINE moved == [i \in Item |-> IF i \in S THEN ReceiptOutcome(q[i]) ELSE box[i]]
<1>1. moved \in [Item -> BoxState]
  BY ReceiptOutcomeType DEF OutboxTypeOK, BoxState
<1>2. \A r \in FreeReports : r \in Item /\ moved[r] = "none"
  BY EnvelopeAssumption DEF FreeReports
<1>3. WithReport({i \in S : q[i].state = "refused"}, moved)
  BY DEF ApplyReceipts
<1>4. /\ \A i \in S : moved[i] = ReceiptOutcome(q[i])
      /\ \A i \in Item \ S : moved[i] = box[i]
  OBVIOUS
<1> HIDE DEF moved
<1>5. \A i \in Item : \/ box'[i] = moved[i]
                      \/ moved[i] = "none" /\ box'[i] = "queued"
  BY <1>1, <1>2, <1>3, WithReportBox
<1> QED  BY <1>4, <1>5, ReceiptOutcomeType

\* Where parking puts an item that is in flight.
LEMMA ParkBox ==
  ASSUME OutboxTypeOK, NEW j \in Item, Park(j), box[j] = "in_flight"
  PROVE  /\ box'[j] = "needs_attention"
         /\ \A i \in Item \ {j} : \/ box'[i] = box[i]
                                  \/ box[i] = "none" /\ box'[i] = "queued"
<1> DEFINE moved == Moved({j}, "needs_attention")
<1>1. moved \in [Item -> BoxState]
  BY DEF OutboxTypeOK, Moved, BoxState
<1>2. \A r \in FreeReports : moved[r] = "none"
  BY EnvelopeAssumption DEF FreeReports, Moved
<1>3. WithReport({j}, moved)  BY DEF Park
<1>4. moved[j] = "needs_attention" /\ \A i \in Item \ {j} : moved[i] = box[i]
  BY DEF Moved
<1> HIDE DEF moved
<1>5. \A i \in Item : \/ box'[i] = moved[i]
                      \/ moved[i] = "none" /\ box'[i] = "queued"
  BY <1>1, <1>2, <1>3, WithReportBox
<1> QED  BY <1>4, <1>5

\* A page leaves alone what the server does not hold yet.
LEMMA ApplyPageBox ==
  ASSUME OutboxTypeOK, NEW changed \in BOOLEAN, NEW q, ApplyPage(changed, q),
         NEW i \in Item
  PROVE  \/ box'[i] = box[i]
         \/ box[i] \in {"durable", "committed"} /\ box'[i] = "queued"
         \/ /\ box[i] \in TakesOutcome
            /\ i \in DOMAIN q
            /\ box'[i] = PullOutcome(q[i])
<1> DEFINE resent == IF changed THEN Resent(box) ELSE box
<1>1. \/ resent[i] = box[i]
      \/ box[i] \in {"durable", "committed"} /\ resent[i] = "queued"
  BY DEF Resent, Resendable, OutboxTypeOK
<1>2. box' = OutcomesApplied(resent, q)  BY DEF ApplyPage
<1> HIDE DEF resent
<1>3. \/ box'[i] = resent[i]
      \/ /\ resent[i] \in TakesOutcome
         /\ i \in DOMAIN q
         /\ box'[i] = PullOutcome(q[i])
  BY <1>2 DEF OutcomesApplied
<1> QED  BY <1>1, <1>3 DEF TakesOutcome

\* Every step keeps track of what is in flight.
LEMMA QueueStep ==
  ASSUME BaseInv, QueueInv, [Next]_vars
  PROVE  QueueInv'
<1>0. /\ OutboxTypeOK /\ CallTypeOK /\ HalvesInv
      /\ page.outcome \in Outcomes
  BY DEF BaseInv, TypeOK, CallTypeOK, QueueInv
<1>1. \A i \in Item : box[i] = "in_flight" <=> Sent(i)
  BY DEF QueueInv
<1>2. rows \in SUBSET Item /\ \A h \in rest : h \in SUBSET Item
  BY <1>0 DEF CallTypeOK
<1>3. rows = {} => \A i \in Item : ~Sent(i)
  BY <1>0 DEF HalvesInv, Sent
<1> DEFINE Same == UNCHANGED <<phase, rows, rest>>
<1>4. CASE Same /\ \A i \in Item : box'[i] = "in_flight" <=> box[i] = "in_flight"
  BY <1>1, <1>4 DEF QueueInv, HalvesInv, Sent
<1>5. CASE \E i \in Item : Record(i)
  BY <1>0, <1>4, <1>5 DEF Record, Add, callVars, OutboxTypeOK
<1>6. CASE StartRun \/ DrainEnds
  BY <1>6 DEF StartRun, DrainEnds, outboxVars, callVars, QueueInv, HalvesInv,
     Sent, Sending, AfterDrain
<1>7. CASE SendBatch
  <2>1. PICK S \in Batches : MarkInFlight(S) /\ rows' = S
    BY <1>7 DEF SendBatch
  <2>2. S \in SUBSET Item /\ S # {}  BY <2>1 DEF Batches, Due
  <2>3. rest = {} /\ rest' = {} /\ phase' = phase /\ phase \in Sending
    BY <1>0, <1>7 DEF SendBatch, HalvesInv
  <2>4. \A i \in Item : box'[i] = "in_flight" <=> i \in S
    <3>1. \A i \in Item : box[i] # "in_flight"
      BY <1>1, <1>3, <1>7 DEF SendBatch
    <3> QED  BY <2>1, <3>1 DEF MarkInFlight, Moved
  <2> QED  BY <2>1, <2>2, <2>3, <2>4 DEF QueueInv, HalvesInv, Sent
<1>8. CASE TakeReceipts
  <2>1. \A i \in rows : box[i] = "in_flight"  BY <1>1, <1>2 DEF Sent
  <2>2. /\ \A i \in rows : box'[i] # "in_flight"
        /\ \A i \in Item \ rows : box'[i] = "in_flight" <=> box[i] = "in_flight"
    <3>1. /\ \A i \in rows : box'[i] = ReceiptOutcome(receipt[i])
          /\ \A i \in Item \ rows : \/ box'[i] = box[i]
                                    \/ box[i] = "none" /\ box'[i] = "queued"
      BY <1>0, <1>2, <1>8, <2>1, ApplyReceiptsBox DEF TakeReceipts
    <3> QED  BY <1>2, <3>1, ReceiptOutcomeType
  <2>3. /\ HalvesInv'
        /\ \A i \in Item : Sent(i)' <=> (Sent(i) /\ i \notin rows)
    BY <1>0, <1>8, NextHalfSent DEF TakeReceipts
  <2>4. phase \in Sending /\ phase' = phase
    BY <1>8 DEF TakeReceipts, QueueInv
  <2> QED  BY <1>1, <2>2, <2>3, <2>4 DEF QueueInv
<1>9. CASE RequestRefused
  <2>1. phase \in Sending /\ phase' = phase
    BY <1>9 DEF RequestRefused, QueueInv
  <2>2. CASE NextHalf /\ \E i \in rows : rows = {i} /\ Park(i)
    <3>1. PICK j \in rows : rows = {j} /\ Park(j)  BY <2>2
    <3>2. box[j] = "in_flight" /\ j \in Item  BY <1>1, <1>2 DEF Sent
    <3>3. /\ box'[j] # "in_flight"
          /\ \A i \in Item \ {j} : box'[i] = "in_flight" <=> box[i] = "in_flight"
      BY <1>0, <3>1, <3>2, ParkBox
    <3>4. /\ HalvesInv'
          /\ \A i \in Item : Sent(i)' <=> (Sent(i) /\ i \notin rows)
      BY <1>0, <2>2, NextHalfSent
    <3> QED  BY <1>1, <2>1, <3>1, <3>3, <3>4 DEF QueueInv
  <2>3. CASE Cardinality(rows) > 1 /\ \E h \in SUBSET rows :
               /\ Cardinality(h) = Cardinality(rows) \div 2
               /\ rows' = h /\ rest' = rest \cup {rows \ h}
               /\ UNCHANGED outboxVars
    <3>1. /\ HalvesInv'
          /\ \A i \in Item : Sent(i)' <=> Sent(i)
      BY <1>0, <2>3, SplitSent
    <3> QED  BY <1>1, <2>1, <2>3, <3>1 DEF QueueInv, outboxVars
  <2> QED  BY <1>9, <2>2, <2>3 DEF RequestRefused
<1>10. CASE CallFails \/ SessionEnded
  <2>1. box' = Moved(rows \cup UNION rest, "queued")
    BY <1>10 DEF CallFails, RescheduleAndRelease, SessionEnded, Release
  <2>2. rows' = {} /\ rest' = {}  BY <1>10 DEF CallFails, SessionEnded, GiveUp
  <2>3. \A i \in Item : box'[i] # "in_flight"
    BY <1>0, <1>1, <2>1 DEF Moved, Sent
  <2> QED  BY <2>2, <2>3 DEF QueueInv, HalvesInv, Sent
<1>11. CASE Restart
  <2>1. rows' = {} /\ rest' = {}  BY <1>11 DEF Restart, GiveUp
  <2>2. \A i \in Item : box'[i] # "in_flight"
    BY <1>11 DEF Restart, Reopen, Moved
  <2> QED  BY <2>1, <2>2 DEF QueueInv, HalvesInv, Sent
<1>12. CASE PullApply
  <2>1. PICK changed \in BOOLEAN : ApplyPage(changed, page.outcome)
    BY <1>12 DEF PullApply
  <2>2. \A i \in Item : box'[i] = "in_flight" <=> box[i] = "in_flight"
    BY <1>0, <2>1, ApplyPageBox, PullOutcomeType DEF TakesOutcome
  <2>3. rows = {} /\ rows' = rows /\ rest' = rest
    BY <1>12 DEF PullApply, callVars, QueueInv, Sending
  <2> QED  BY <1>1, <2>2, <2>3 DEF QueueInv, HalvesInv, Sent
<1>13. CASE PullFails
  BY <1>13 DEF PullFails, outboxVars, callVars, QueueInv, HalvesInv, Sent, Sending
<1>14. CASE Purge
  <2>1. \A i \in Item : box'[i] = "in_flight" <=> box[i] = "in_flight"
    BY <1>14 DEF Purge, PurgeCommitted, Moved
  <2>2. rows = {} /\ rows' = rows /\ rest' = rest
    BY <1>14 DEF Purge, callVars, QueueInv, Sending
  <2> QED  BY <1>1, <2>1, <2>2 DEF QueueInv, HalvesInv, Sent
<1>15. CASE \E i \in Item : ClockMoves(i) \/ AdminActs(i) \/ LandNext(i)
              \/ RefuseWrapper(i) \/ LateRequest(i) \/ LateLost(i)
  BY <1>4, <1>15 DEF ClockMoves, BackoffElapses, RetentionElapses, AdminActs,
     LandNext, RefuseWrapper, LateRequest, LateLost, outboxVars, callVars, deviceVars
<1>16. CASE \E i \in Item : \E o \in ApplyOutcome(i) : ApplyNext(i, o) \/ LateApply(i, o)
  BY <1>4, <1>16 DEF ApplyNext, LateApply, outboxVars, callVars, deviceVars
<1>17. CASE RotateEpoch \/ ReprocessorRuns \/ CalmDown \/ PullRead
  BY <1>4, <1>17 DEF RotateEpoch, ReprocessorRuns, CalmDown, PullRead,
     outboxVars, callVars, deviceVars
<1>18. CASE UNCHANGED vars
  BY <1>4, <1>18 DEF vars
<1> QED
  BY <1>5, <1>6, <1>7, <1>8, <1>9, <1>10, <1>11, <1>12, <1>13, <1>14, <1>15,
     <1>16, <1>17, <1>18 DEF Next, Sender, Server, Pull

\* No item is left in flight by a call that failed half-way.
THEOREM InFlight == Spec => []InFlightIsBeingSent
<1>1. Init => QueueInv
  BY DEF Init, OutboxInit, QueueInv, HalvesInv, Sent
<1>2. BaseInv /\ QueueInv => InFlightIsBeingSent
  <2> SUFFICES ASSUME BaseInv, QueueInv PROVE InFlightIsBeingSent
    OBVIOUS
  <2>1. rows \in SUBSET Item /\ \A h \in rest : h \in SUBSET Item
    BY DEF BaseInv, TypeOK
  <2> QED  BY <2>1 DEF QueueInv, Sent, InFlightIsBeingSent
<1>3. BaseInv /\ QueueInv /\ [Next]_vars => (BaseInv /\ QueueInv)'
  BY BaseStep, QueueStep
<1> QED  BY <1>1, <1>2, <1>3, BaseInit, PTL DEF Spec

-----------------------------------------------------------------------------
(* What a step of delivery brings to the server. *)

\* What it can be for j: the request in progress or a late one lands it, or
\* another sender's payload under its id does.
Arrives(j) ==
  \/ LandNext(j)
  \/ j \in late /\ LateRequest(j) /\ Land("late", j, ServerHash(j), Places)
  \/ j \in Reused /\ LateRequest(j) /\ Land("late", j, "foreign", Places)

\* Nothing else arrives.
LEMMA OnlyTheseArrive ==
  ASSUME BaseInv, [Next]_vars, NEW j \in Item
  PROVE  Settled(j) \/ Arrives(j)
<1>0. RowsInv /\ "foreign" \in Hash  BY DEF BaseInv, Hash
<1>1. CASE UNCHANGED <<row, conflicts>>
  BY <1>1 DEF Settled
<1>2. CASE \E i \in Item : LandNext(i)
  <2>1. PICK i \in Item : LandNext(i)  BY <1>2
  <2>2. j = i \/ Settled(j)
    BY <1>0, <2>1, LandSettles, ServerHashType DEF LandNext
  <2> QED  BY <2>1, <2>2 DEF Arrives
<1>3. CASE \E i \in Item : LateRequest(i)
  <2>1. PICK i \in Item : LateRequest(i)  BY <1>3
  <2>2. CASE i \in late /\ Land("late", i, ServerHash(i), Places)
    <3>1. j = i \/ Settled(j)  BY <1>0, <2>2, LandSettles, ServerHashType
    <3> QED  BY <2>1, <2>2, <3>1 DEF Arrives
  <2>3. CASE i \in Reused /\ Land("late", i, "foreign", Places)
    <3>1. j = i \/ Settled(j)  BY <1>0, <2>3, LandSettles
    <3> QED  BY <2>1, <2>3, <3>1 DEF Arrives
  <2> QED  BY <2>1, <2>2, <2>3 DEF LateRequest
<1>4. CASE \E i \in Item : \E o \in ApplyOutcome(i) : ApplyNext(i, o) \/ LateApply(i, o)
  BY <1>0, <1>4, ApplySettles DEF ApplyNext, LateApply, ApplyLanded
<1>5. CASE ReprocessorRuns
  BY <1>0, <1>5, WorkerSettles DEF ReprocessorRuns
<1>6. CASE \E i \in Item : AdminActs(i)
  BY <1>0, <1>6, AdminSettles DEF AdminActs
<1>7. CASE \E i \in Item : Record(i) \/ ClockMoves(i) \/ RefuseWrapper(i) \/ LateLost(i)
  BY <1>1, <1>7 DEF Record, ClockMoves, RefuseWrapper, LateLost, AbandonLanded,
     ledgerVars, serverVars
<1>8. CASE RotateEpoch \/ CalmDown \/ StartRun \/ Purge \/ Restart
  BY <1>1, <1>8 DEF RotateEpoch, CalmDown, StartRun, Purge, Restart, PageLost,
     ledgerVars
<1>9. CASE Sender
  BY <1>1, <1>9 DEF Sender, SendBatch, DrainEnds, TakeReceipts, RequestRefused,
     CallFails, SessionEnded, ledgerVars, serverVars
<1>10. CASE Pull
  BY <1>1, <1>10 DEF Pull, PullRead, PullApply, PullFails, PageLost, ledgerVars
<1>11. CASE UNCHANGED vars
  BY <1>1, <1>11 DEF vars
<1> QED
  BY <1>2, <1>3, <1>4, <1>5, <1>6, <1>7, <1>8, <1>9, <1>10, <1>11
     DEF Next, Server

\* What the server holds it goes on holding.
LEMMA OnServerStays ==
  ASSUME BaseInv, [Next]_vars, NEW i \in Item, OnServer(i)
  PROVE  OnServer(i)'
  BY RowsStep, KeptStays, ServerHashType DEF BaseInv, OnServer

\* Another sender's payload is not this device's.
LEMMA ForeignIsAnother ==
  ASSUME BaseInv, NEW i \in Item, Land("late", i, "foreign", Places)
  PROVE  OnServer(i) <=> OnServer(i)'
<1>1. ServerHash(i) \in Hash \ {"foreign"}  BY DEF ServerHash, Hash
<1> QED  BY <1>1, LandSettles DEF BaseInv, OnServer, Hash

-----------------------------------------------------------------------------
(* The answer of a request. *)

\* What the server refuses, as a request or at the door.
Unacceptable == TooLarge \cup Malformed

Taken(i) == OnServer(i) /\ i \notin Unacceptable

\* Item i of the request: the server has got to it exactly when it has
\* answered for it or is about to apply it; and what it answers for it has
\* taken, unless it says that it refuses it.
Answered(i) ==
  /\ i \in rows \ wire <=> (receipt[i] # NoReceipt \/ <<"live", i>> \in landed)
  /\ receipt[i].state \notin {"none", "refused"} => Taken(i)
  /\ receipt[i].state = "refused" => i \in Malformed
  /\ <<"live", i>> \in landed => Taken(i)

AnswerInv == \A i \in Item : Answered(i)

\* A step that leaves the request and its answer alone.
LEMMA AnswerAlone ==
  ASSUME BaseInv, AnswerInv, [Next]_vars,
         UNCHANGED <<rows, wire, receipt>>,
         \A i \in Item : <<"live", i>> \in landed' <=> <<"live", i>> \in landed
  PROVE  AnswerInv'
<1>1. ASSUME NEW i \in Item, Taken(i) PROVE Taken(i)'
  BY <1>1, OnServerStays DEF Taken, Unacceptable
<1> QED  BY <1>1 DEF AnswerInv, Answered

\* A step after which no request is half answered.
LEMMA AnswerClosed ==
  ASSUME wire' = rows', receipt' = NoReceipts,
         \A i \in Item : <<"live", i>> \notin landed'
  PROVE  AnswerInv'
  BY DEF AnswerInv, Answered, NoReceipts, NoReceipt

\* An answer that has not begun.
LEMMA AnswerUnbegun ==
  ASSUME BaseInv, AnswerInv, rows = wire
  PROVE  /\ receipt = NoReceipts
         /\ \A i \in Item : <<"live", i>> \notin landed
<1>1. /\ \A i \in Item : receipt[i] = NoReceipt
      /\ \A i \in Item : <<"live", i>> \notin landed
  BY DEF AnswerInv, Answered
<1> QED  BY <1>1 DEF BaseInv, TypeOK, NoReceipts

\* The server answers for i, and for nothing else.
LEMMA AnswerOne ==
  ASSUME BaseInv, AnswerInv, [Next]_vars, NEW i \in Item,
         UNCHANGED rows, i \in rows \ wire',
         \A j \in Item \ {i} : /\ j \in wire' <=> j \in wire
                               /\ receipt'[j] = receipt[j]
                               /\ <<"live", j>> \in landed' <=> <<"live", j>> \in landed,
         receipt'[i] # NoReceipt \/ <<"live", i>> \in landed',
         receipt'[i].state = "refused" => i \in Malformed,
         receipt'[i].state \notin {"none", "refused"} \/ <<"live", i>> \in landed'
           => Taken(i)'
  PROVE  AnswerInv'
<1>1. ASSUME NEW j \in Item, Taken(j) PROVE Taken(j)'
  BY <1>1, OnServerStays DEF Taken, Unacceptable
<1>2. ASSUME NEW j \in Item, j # i PROVE Answered(j)'
  BY <1>1, <1>2 DEF AnswerInv, Answered
<1>3. Answered(i)'  BY DEF Answered
<1> QED  BY <1>2, <1>3 DEF AnswerInv

\* The three ways in which the server gets on with a request.
LEMMA AnswerLand ==
  ASSUME BaseInv, AnswerInv, NEW i \in Item, LandNext(i)
  PROVE  AnswerInv'
<1> DEFINE h == ServerHash(i)
<1>0. /\ receipt \in [Item -> Receipt \cup {NoReceipt}]
      /\ wire \in SUBSET rows /\ RowsInv /\ Next /\ h \in Hash
  BY ServerHashType DEF BaseInv, TypeOK, Next, Server
<1>1. i \in rows \ wire' /\ UNCHANGED rows /\ wire' = wire \ {i}
  BY <1>0 DEF LandNext
<1>2. Taken(i)'
  BY <1>0, LandKeeps DEF LandNext, OnServer, Taken, Acceptable, Unacceptable
<1>3. CASE AppliesAfter(LandOutcome(i, h))
  <2>1. receipt' = receipt /\ landed' = landed \cup {<<"live", i>>}
    BY <1>3 DEF LandNext, Land
  <2>2. receipt[i] = NoReceipt
    BY DEF LandNext, AnswerInv, Answered
  <2>3. receipt'[i].state \notin {"refused"}  BY <2>1, <2>2 DEF NoReceipt
  <2>4. \A j \in Item \ {i} : /\ j \in wire' <=> j \in wire
                              /\ receipt'[j] = receipt[j]
                              /\ <<"live", j>> \in landed' <=> <<"live", j>> \in landed
    BY <1>1, <2>1
  <2> QED  BY <1>0, <1>1, <1>2, <2>1, <2>3, <2>4, AnswerOne
<1>4. CASE ~AppliesAfter(LandOutcome(i, h))
  <2>1. receipt' = [receipt EXCEPT ![i] = LandReceipt(i, h)] /\ landed' = landed
    BY <1>4 DEF LandNext, Land
  <2>2. LandReceipt(i, h) \in Receipt /\ LandReceipt(i, h).state # "refused"
    BY <1>0, <1>4, LandReceiptType
  <2>3. receipt'[i] \in Receipt /\ receipt'[i].state # "refused"
    BY <1>0, <2>1, <2>2
  <2>4. receipt'[i] # NoReceipt  BY <2>3 DEF Receipt, NoReceipt, Finished
  <2>5. \A j \in Item \ {i} : receipt'[j] = receipt[j]  BY <1>0, <2>1
  <2> QED  BY <1>0, <1>1, <1>2, <2>1, <2>3, <2>4, <2>5, AnswerOne
<1> QED  BY <1>3, <1>4

\* The answer grows by a refusal,
LEMMA AnswerRefuse ==
  ASSUME BaseInv, AnswerInv, NEW i \in Item, RefuseWrapper(i)
  PROVE  AnswerInv'
<1>0. /\ receipt \in [Item -> Receipt \cup {NoReceipt}]
      /\ wire \in SUBSET rows /\ Next
  BY DEF BaseInv, TypeOK, Next, Server
<1>1. i \in rows \ wire' /\ UNCHANGED rows /\ wire' = wire \ {i} /\ i \in Malformed
  BY <1>0 DEF RefuseWrapper
<1>2. landed' = landed /\ <<"live", i>> \notin landed
  BY DEF RefuseWrapper, Busy, ledgerVars
<1>3. /\ receipt'[i].state = "refused" /\ receipt'[i] # NoReceipt
      /\ \A j \in Item \ {i} : receipt'[j] = receipt[j]
  BY <1>0 DEF RefuseWrapper, NoReceipt
<1> QED  BY <1>0, <1>1, <1>2, <1>3, AnswerOne

\* or by the receipt of what was applied.
LEMMA AnswerApply ==
  ASSUME BaseInv, AnswerInv, NEW i \in Item, NEW o \in ApplyOutcome(i), ApplyNext(i, o)
  PROVE  AnswerInv'
<1>0. /\ receipt \in [Item -> Receipt \cup {NoReceipt}] /\ RowsInv /\ Next
      /\ o \in {"error", "hold", "deferred"} \cup Finished
  BY ApplyOutcomeType DEF BaseInv, RowsInv, TypeOK, Next, Server
<1>1. /\ <<"live", i>> \in landed /\ landed' = landed \ {<<"live", i>>}
      /\ UNCHANGED <<rows, wire>>
  BY DEF ApplyNext, ApplyLanded
<1>2. i \in rows \ wire /\ Taken(i)
  BY <1>1 DEF AnswerInv, Answered
<1>3. Taken(i)'  BY <1>0, <1>2, OnServerStays DEF Taken, Unacceptable
<1>4. PICK seen \in {o, "error"} : receipt' = [receipt EXCEPT ![i] = ApplyReceipt(i, seen)]
  BY DEF ApplyNext
<1>5. receipt'[i] \in Receipt /\ receipt'[i].state # "refused"
  BY <1>0, <1>4, ApplyReceiptType
<1>6. receipt'[i] # NoReceipt  BY <1>5 DEF Receipt, NoReceipt, Finished
<1>7. \A j \in Item \ {i} : receipt'[j] = receipt[j]  BY <1>0, <1>4
<1> QED  BY <1>0, <1>1, <1>2, <1>3, <1>5, <1>6, <1>7, AnswerOne

\* Every step keeps the answer true.
LEMMA AnswerStep ==
  ASSUME BaseInv, AnswerInv, [Next]_vars
  PROVE  AnswerInv'
<1>1. CASE UNCHANGED <<rows, wire, receipt, landed>>
  BY <1>1, AnswerAlone
<1>2. CASE \E i \in Item : LandNext(i)
  BY <1>2, AnswerLand
<1>3. CASE \E i \in Item : RefuseWrapper(i)
  BY <1>3, AnswerRefuse
<1>4. CASE \E i \in Item : \E o \in ApplyOutcome(i) : ApplyNext(i, o)
  BY <1>4, AnswerApply
<1>5. CASE SendBatch
  <2>1. rows = wire  BY <1>5 DEF SendBatch, BaseInv, TypeOK
  <2>2. wire' = rows' /\ UNCHANGED <<receipt, landed>>
    BY <1>5 DEF SendBatch, ledgerVars
  <2> QED  BY <2>1, <2>2, AnswerUnbegun, AnswerClosed
<1>6. CASE TakeReceipts
  <2>1. wire' = rows' /\ receipt' = NoReceipts /\ UNCHANGED landed
    BY <1>6 DEF TakeReceipts, NextHalf, ledgerVars
  <2>2. \A i \in Item : <<"live", i>> \notin landed
    BY <1>6 DEF TakeReceipts, Busy
  <2> QED  BY <2>1, <2>2, AnswerClosed
<1>7. CASE RequestRefused \/ SessionEnded
  <2>1. rows = wire  BY <1>7 DEF RequestRefused, SessionEnded
  <2>2. /\ wire' = rows' /\ UNCHANGED landed
        /\ receipt' = receipt \/ receipt' = NoReceipts
    BY <1>7 DEF RequestRefused, SessionEnded, NextHalf, ledgerVars
  <2> QED  BY <2>1, <2>2, AnswerUnbegun, AnswerClosed
<1>8. CASE CallFails \/ Restart
  <2>1. wire' = rows' /\ receipt' = NoReceipts
    BY <1>8 DEF CallFails, Restart, GiveUp
  <2>2. \A i \in Item : <<"live", i>> \notin landed'
    BY <1>8 DEF CallFails, Restart, GiveUp
  <2> QED  BY <2>1, <2>2, AnswerClosed
<1>9. CASE \E i \in Item : LateRequest(i) \/ LateLost(i)
  <2>1. UNCHANGED <<rows, wire, receipt>>
    BY <1>9 DEF LateRequest, LateLost, deviceVars, callVars
  <2>2. \A i \in Item : <<"live", i>> \in landed' <=> <<"live", i>> \in landed
    BY <1>9 DEF LateRequest, LateLost, Land, AbandonLanded, ledgerVars
  <2> QED  BY <2>1, <2>2, AnswerAlone
<1>10. CASE \E i \in Item : \E o \in ApplyOutcome(i) : LateApply(i, o)
  <2>1. UNCHANGED <<rows, wire, receipt>>
    BY <1>10 DEF LateApply, deviceVars, callVars
  <2>2. \A i \in Item : <<"live", i>> \in landed' <=> <<"live", i>> \in landed
    BY <1>10 DEF LateApply, ApplyLanded
  <2> QED  BY <2>1, <2>2, AnswerAlone
<1>11. CASE ReprocessorRuns
  BY <1>1, <1>11 DEF ReprocessorRuns, Reprocessor, ReprocessList, ReprocessReopen,
     ReprocessApply, ReprocessStops, deviceVars, callVars
<1>12. CASE \E i \in Item : AdminActs(i)
  BY <1>1, <1>12 DEF AdminActs, AdminReprocess, AdminResolve, deviceVars, callVars
<1>13. CASE \E i \in Item : Record(i) \/ ClockMoves(i)
  BY <1>1, <1>13 DEF Record, ClockMoves, ledgerVars, callVars
<1>14. CASE RotateEpoch \/ CalmDown \/ StartRun \/ DrainEnds \/ Purge \/ Pull
  BY <1>1, <1>14 DEF RotateEpoch, CalmDown, StartRun, DrainEnds, Purge, Pull,
     PullRead, PullApply, PullFails, ledgerVars, deviceVars, callVars
<1>15. CASE UNCHANGED vars
  BY <1>1, <1>15 DEF vars
<1> QED
  BY <1>2, <1>3, <1>4, <1>5, <1>6, <1>7, <1>8, <1>9, <1>10, <1>11, <1>12,
     <1>13, <1>14, <1>15 DEF Next, Sender, Server

-----------------------------------------------------------------------------
(* What the server never takes. *)

\* What is unacceptable never reaches the ledger from this device, neither
\* now nor late, so unless somebody else uses its id no page speaks of it.
RefusedInv ==
  /\ late \cap Unacceptable = {}
  /\ \A i \in Unacceptable \ Reused : row[i].state = "absent"
  /\ \A i \in DOMAIN page.outcome : row[i].state # "absent"

\* Requests the device gave up on carry only what the server may take.
LEMMA LateStep ==
  ASSUME BaseInv, [Next]_vars
  PROVE  \A i \in late' : \/ i \in late
                          \/ i \in wire \ Malformed /\ Acceptable(rows)
<1>1. CASE UNCHANGED late \/ late' \subseteq late
  BY <1>1
<1>2. CASE CallFails \/ Restart
  BY <1>2 DEF CallFails, Restart, GiveUp
<1>3. CASE \E i \in Item : LateRequest(i) \/ LateLost(i)
  BY <1>3 DEF LateRequest, LateLost
<1>4. CASE \E i \in Item : \E o \in ApplyOutcome(i) : ApplyNext(i, o) \/ LateApply(i, o)
  BY <1>1, <1>4 DEF ApplyNext, LateApply
<1>5. CASE \E i \in Item : Record(i) \/ ClockMoves(i) \/ AdminActs(i) \/ LandNext(i)
              \/ RefuseWrapper(i)
  BY <1>1, <1>5 DEF Record, ClockMoves, AdminActs, LandNext, RefuseWrapper
<1>6. CASE RotateEpoch \/ ReprocessorRuns \/ CalmDown \/ StartRun \/ Pull \/ Purge
  BY <1>1, <1>6 DEF RotateEpoch, ReprocessorRuns, CalmDown, StartRun, Pull,
     PullRead, PullApply, PullFails, Purge, deviceVars
<1>7. CASE SendBatch \/ DrainEnds \/ TakeReceipts \/ RequestRefused \/ SessionEnded
  BY <1>1, <1>7 DEF SendBatch, DrainEnds, TakeReceipts, RequestRefused, SessionEnded
<1>8. CASE UNCHANGED vars
  BY <1>1, <1>8 DEF vars
<1> QED
  BY <1>2, <1>3, <1>4, <1>5, <1>6, <1>7, <1>8 DEF Next, Sender, Server

\* A page speaks of what the server holds.
LEMMA PageStep ==
  ASSUME BaseInv, [Next]_vars
  PROVE  \A i \in DOMAIN page'.outcome :
           i \in DOMAIN page.outcome \/ row[i].state # "absent"
<1>1. CASE UNCHANGED page \/ page' = NoPage
  BY <1>1 DEF NoPage
<1>2. CASE PullRead
  BY <1>2 DEF PullRead, Visible
<1>3. CASE \E i \in Item : Record(i) \/ ClockMoves(i) \/ AdminActs(i) \/ LandNext(i)
              \/ RefuseWrapper(i) \/ LateRequest(i) \/ LateLost(i)
  BY <1>1, <1>3 DEF Record, ClockMoves, AdminActs, LandNext, RefuseWrapper,
     LateRequest, LateLost, pullVars
<1>4. CASE \E i \in Item : \E o \in ApplyOutcome(i) : ApplyNext(i, o) \/ LateApply(i, o)
  BY <1>1, <1>4 DEF ApplyNext, LateApply, pullVars
<1>5. CASE RotateEpoch \/ ReprocessorRuns \/ CalmDown \/ StartRun \/ Purge \/ Sender
  BY <1>1, <1>5 DEF RotateEpoch, ReprocessorRuns, CalmDown, StartRun, Purge, Sender,
     SendBatch, DrainEnds, TakeReceipts, RequestRefused, CallFails, SessionEnded,
     pullVars
<1>6. CASE PullApply \/ PullFails \/ Restart
  BY <1>1, <1>6 DEF PullApply, PullFails, Restart, PageLost
<1>7. CASE UNCHANGED vars
  BY <1>1, <1>7 DEF vars
<1> QED
  BY <1>2, <1>3, <1>4, <1>5, <1>6, <1>7 DEF Next, Server, Pull

\* What is not there arrives only as something the server may take, and what
\* is there stays.
LEMMA RefusedStep ==
  ASSUME BaseInv, RefusedInv, [Next]_vars
  PROVE  RefusedInv'
<1>0. /\ RowsInv /\ wire \in SUBSET rows
      /\ DOMAIN page.outcome \in SUBSET Item
      /\ DOMAIN page'.outcome \in SUBSET Item
      /\ Unacceptable \in SUBSET Item
  <2>1. BaseInv'  BY BaseStep
  <2> QED  BY <2>1, DeliveryAssumption DEF BaseInv, TypeOK, Outcomes, Unacceptable
<1>1. late' \cap Unacceptable = {}
  BY <1>0, LateStep DEF RefusedInv, Acceptable, Unacceptable
<1>2. ASSUME NEW i \in Unacceptable \ Reused PROVE row'[i].state = "absent"
  <2>1. ~Arrives(i)
    BY <1>0, <1>2 DEF RefusedInv, Arrives, LandNext, Acceptable, Unacceptable
  <2>2. Settled(i)  BY <1>0, <2>1, OnlyTheseArrive
  <2> QED  BY <2>2 DEF RefusedInv, Settled
<1>3. ASSUME NEW i \in Item, row[i].state # "absent" PROVE row'[i].state # "absent"
  <2>1. CASE Settled(i)  BY <1>3, <2>1 DEF Settled
  <2>2. CASE Arrives(i)
    BY <1>0, <2>2, LandKeeps, ServerHashType DEF Arrives, LandNext, Hash
  <2> QED  BY <2>1, <2>2, OnlyTheseArrive
<1>4. \A i \in DOMAIN page'.outcome : row'[i].state # "absent"
  BY <1>0, <1>3, PageStep DEF RefusedInv
<1> QED  BY <1>1, <1>2, <1>4 DEF RefusedInv

-----------------------------------------------------------------------------
(* What becomes of an item on the device. *)

Waiting == {"queued", "in_flight"}

\* The ways in which the row of i moves.
Moves(i) ==
  \/ box'[i] = box[i]
  \/ box[i] = "none" /\ box'[i] = "queued"
  \/ /\ box[i] \in Waiting \cup {"durable", "committed"}
     /\ box'[i] \in Waiting
  \/ /\ TakeReceipts /\ i \in rows /\ box[i] = "in_flight"
     /\ box'[i] = ReceiptOutcome(receipt[i])
  \/ /\ i \in TooLarge /\ Park(i) /\ box[i] = "in_flight"
     /\ box'[i] = "needs_attention"
  \/ /\ box[i] \in TakesOutcome /\ i \in DOMAIN page.outcome
     /\ box'[i] = PullOutcome(page.outcome[i])
  \/ Purge /\ box[i] = "committed" /\ box'[i] = "purged"

\* There are no others.
LEMMA BoxMoves ==
  ASSUME BaseInv, QueueInv, [Next]_vars, NEW i \in Item
  PROVE  Moves(i)
<1>0. /\ OutboxTypeOK /\ rows \in SUBSET Item
      /\ \A h \in rest : h \in SUBSET Item
      /\ \A j \in Item : box[j] = "in_flight" <=> Sent(j)
  BY DEF BaseInv, TypeOK, QueueInv
<1>1. CASE UNCHANGED box
  BY <1>1 DEF Moves
<1>2. CASE \E j \in Item : Record(j)
  BY <1>0, <1>2 DEF Record, Add, OutboxTypeOK, Moves
<1>3. CASE SendBatch
  <2>1. PICK S \in SUBSET Due : MarkInFlight(S)  BY <1>3 DEF SendBatch, Batches
  <2> QED  BY <2>1 DEF MarkInFlight, Moved, Due, Moves, Waiting
<1>4. CASE TakeReceipts
  <2>1. \A j \in rows : box[j] = "in_flight"  BY <1>0 DEF Sent
  <2>2. /\ \A j \in rows : box'[j] = ReceiptOutcome(receipt[j])
        /\ \A j \in Item \ rows : \/ box'[j] = box[j]
                                  \/ box[j] = "none" /\ box'[j] = "queued"
    BY <1>0, <1>4, <2>1, ApplyReceiptsBox DEF TakeReceipts
  <2> QED  BY <1>4, <2>1, <2>2 DEF Moves
<1>5. CASE RequestRefused
  <2>1. CASE \E j \in rows : rows = {j} /\ Park(j)
    <3>1. PICK j \in rows : rows = {j} /\ Park(j)  BY <2>1
    <3>2. j \in Item /\ box[j] = "in_flight"  BY <1>0 DEF Sent
    <3>3. j \in TooLarge  BY <1>5, <3>1 DEF RequestRefused, Acceptable
    <3>4. /\ box'[j] = "needs_attention"
          /\ \A k \in Item \ {j} : \/ box'[k] = box[k]
                                   \/ box[k] = "none" /\ box'[k] = "queued"
      BY <1>0, <3>1, <3>2, ParkBox
    <3> QED  BY <3>1, <3>2, <3>3, <3>4 DEF Moves
  <2>2. CASE UNCHANGED outboxVars  BY <1>1, <2>2 DEF outboxVars
  <2> QED  BY <1>5, <2>1, <2>2 DEF RequestRefused
<1>6. CASE CallFails \/ SessionEnded
  <2>1. box' = Moved(rows \cup UNION rest, "queued")
    BY <1>6 DEF CallFails, RescheduleAndRelease, SessionEnded, Release
  <2>2. i \in rows \cup UNION rest => box[i] = "in_flight"  BY <1>0 DEF Sent
  <2> QED  BY <2>1, <2>2 DEF Moved, Moves, Waiting
<1>7. CASE Restart
  BY <1>7 DEF Restart, Reopen, Moved, Moves, Waiting
<1>8. CASE PullApply
  <2>1. PICK changed \in BOOLEAN : ApplyPage(changed, page.outcome)
    BY <1>8 DEF PullApply
  <2> QED  BY <1>0, <2>1, ApplyPageBox DEF Moves, Waiting
<1>9. CASE Purge
  BY <1>9 DEF Purge, PurgeCommitted, Moved, Moves
<1>10. CASE \E j \in Item : ClockMoves(j) \/ AdminActs(j) \/ LandNext(j)
              \/ RefuseWrapper(j) \/ LateRequest(j) \/ LateLost(j)
  BY <1>1, <1>10 DEF ClockMoves, BackoffElapses, RetentionElapses, AdminActs,
     LandNext, RefuseWrapper, LateRequest, LateLost, outboxVars, deviceVars
<1>11. CASE \E j \in Item : \E o \in ApplyOutcome(j) : ApplyNext(j, o) \/ LateApply(j, o)
  BY <1>1, <1>11 DEF ApplyNext, LateApply, outboxVars, deviceVars
<1>12. CASE RotateEpoch \/ ReprocessorRuns \/ CalmDown \/ StartRun \/ DrainEnds
             \/ PullRead \/ PullFails
  BY <1>1, <1>12 DEF RotateEpoch, ReprocessorRuns, CalmDown, StartRun, DrainEnds,
     PullRead, PullFails, outboxVars, deviceVars
<1>13. CASE UNCHANGED vars
  BY <1>1, <1>13 DEF vars
<1> QED
  BY <1>2, <1>3, <1>4, <1>5, <1>6, <1>7, <1>8, <1>9, <1>10, <1>11, <1>12, <1>13
     DEF Next, Sender, Server, Pull

\* HeldBeforeLetGo, and what makes it inductive: an item that waits for
\* attention may be committed by a page, so the server must hold it too.
HeldInv ==
  /\ HeldBeforeLetGo
  /\ \A i \in Item \ Unacceptable :
       box[i] = "needs_attention" => OnServer(i)

\* Every step keeps it.
LEMMA HeldStep ==
  ASSUME BaseInv, QueueInv, AnswerInv, RefusedInv, HeldInv, [Next]_vars
  PROVE  HeldInv'
<1> DEFINE HeldOf(i) ==
      /\ i \in Own /\ box[i] \in {"durable", "committed", "purged"} => OnServer(i)
      /\ i \notin Unacceptable /\ box[i] = "needs_attention" => OnServer(i)
<1>1. ASSUME NEW i \in Item PROVE HeldOf(i)'
  <2>1. HeldOf(i)  BY DEF HeldInv, HeldBeforeLetGo, Own
  <2>2. OnServer(i) => OnServer(i)'  BY OnServerStays
  <2>3. CASE box'[i] = box[i]  BY <2>1, <2>2, <2>3
  <2>4. CASE box'[i] \in Waiting  BY <2>4 DEF Waiting
  <2>5. CASE /\ TakeReceipts /\ i \in rows
             /\ box'[i] = ReceiptOutcome(receipt[i])
    <3>1. receipt[i] # NoReceipt
      BY <2>5 DEF TakeReceipts, Busy, AnswerInv, Answered
    <3>2. receipt[i].state # "none"
      BY <3>1 DEF BaseInv, TypeOK, Receipt, Finished
    <3>3. CASE receipt[i].state = "refused"
      <4>1. i \in Unacceptable  BY <3>3 DEF AnswerInv, Answered, Unacceptable
      <4>2. box'[i] = "needs_attention"  BY <2>5, <3>3 DEF ReceiptOutcome
      <4> QED  BY <4>1, <4>2
    <3>4. CASE receipt[i].state # "refused"
      <4>1. OnServer(i)  BY <3>2, <3>4 DEF AnswerInv, Answered, Taken
      <4> QED  BY <2>2, <4>1
    <3> QED  BY <3>3, <3>4
  <2>6. CASE i \in TooLarge /\ box'[i] = "needs_attention"
    BY <2>6 DEF Unacceptable
  <2>7. CASE box[i] \in TakesOutcome /\ i \in DOMAIN page.outcome
    <3>1. i \in Unacceptable => i \notin Own
      BY <2>7 DEF RefusedInv, Own, Unacceptable
    <3>2. i \notin Unacceptable => i \in Own /\ OnServer(i)
      BY <2>1, <2>7 DEF Own, Unacceptable, TakesOutcome
    <3> QED  BY <2>2, <3>1, <3>2
  <2>8. CASE box[i] = "committed" /\ box'[i] = "purged"
    BY <2>1, <2>2, <2>8
  <2>9. Moves(i)  BY BoxMoves
  <2> QED
    BY <2>3, <2>4, <2>5, <2>6, <2>7, <2>8, <2>9 DEF Moves, Waiting
<1> QED  BY <1>1 DEF HeldInv, HeldBeforeLetGo, Own

\* What the device has not recorded, nobody has.
NewInv == \A i \in Item : box[i] = "none" => ~OnServer(i) /\ i \notin late

\* Every step keeps it.
LEMMA NewStep ==
  ASSUME BaseInv, QueueInv, NewInv, [Next]_vars
  PROVE  NewInv'
<1> SUFFICES ASSUME NEW i \in Item, box'[i] = "none"
             PROVE  ~OnServer(i)' /\ i \notin late'
  BY DEF NewInv
<1>1. box[i] = "none"
  BY BoxMoves, ReceiptOutcomeType, PullOutcomeType DEF Moves, Waiting, TakesOutcome
<1>2. ~OnServer(i) /\ i \notin late  BY <1>1 DEF NewInv
<1>3. i \notin rows /\ i \notin wire
  BY <1>1 DEF QueueInv, Sent, BaseInv, TypeOK
<1>4. i \notin late'  BY <1>2, <1>3, LateStep
<1>5. CASE Settled(i)
  BY <1>2, <1>4, <1>5, ServerHashType DEF Settled, OnServer, Kept
<1>6. CASE Arrives(i)
  <2>1. Land("late", i, "foreign", Places)  BY <1>2, <1>3, <1>6 DEF Arrives, LandNext
  <2> QED  BY <1>2, <1>4, <2>1, ForeignIsAnother
<1> QED  BY <1>4, <1>5, <1>6, OnlyTheseArrive

-----------------------------------------------------------------------------
(* Delivery keeps custody. *)

CustodyInv ==
  BaseInv /\ QueueInv /\ AnswerInv /\ RefusedInv /\ HeldInv /\ NewInv

\* It holds at first,
LEMMA CustodyInit == Init => CustodyInv
<1> SUFFICES ASSUME Init PROVE CustodyInv
  OBVIOUS
<1>1. BaseInv  BY BaseInit
<1>2. QueueInv
  BY DEF Init, OutboxInit, QueueInv, HalvesInv, Sent
<1>3. AnswerInv
  BY DEF Init, LedgerInit, AnswerInv, Answered, NoReceipts, NoReceipt
<1>4. RefusedInv
  BY DeliveryAssumption
     DEF Init, LedgerInit, RefusedInv, NoPage, NoRow, Unacceptable
<1>5. HeldInv
  BY DEF Init, OutboxInit, HeldInv, HeldBeforeLetGo, Own
<1>6. \A i \in Item : ServerHash(i) # "none"  BY DEF ServerHash
<1>7. NewInv
  BY <1>6 DEF Init, LedgerInit, NewInv, OnServer, Kept, NoRow
<1> QED  BY <1>1, <1>2, <1>3, <1>4, <1>5, <1>7 DEF CustodyInv

\* and every step keeps it.
LEMMA CustodyStep == CustodyInv /\ [Next]_vars => CustodyInv'
  BY BaseStep, QueueStep, AnswerStep, RefusedStep, HeldStep, NewStep DEF CustodyInv

\* The device lets go of an envelope, and believes that the server holds it,
\* only when the server does.
THEOREM HeldFirst == Spec => []HeldBeforeLetGo
<1>1. CustodyInv => HeldBeforeLetGo  BY DEF CustodyInv, HeldInv
<1> QED  BY <1>1, CustodyInit, CustodyStep, PTL DEF Spec

\* At most one item arrives in a step, and then the device has it still or
\* the server had it before; nothing moves on the device meanwhile.
LEMMA ArrivalsOneByOne ==
  ASSUME CustodyInv, [Next]_vars, NEW e \in Item, ~OnServer(e), OnServer(e)'
  PROVE  /\ UNCHANGED box
         /\ \A j \in Item \ {e} : OnServer(j)' <=> OnServer(j)
         /\ e \in Own => box[e] \notin {"none", "purged"}
<1>1. RowsInv /\ BaseInv /\ ServerHash(e) \in Hash
  BY ServerHashType DEF CustodyInv, BaseInv
<1>2. ~Settled(e)  BY <1>1 DEF Settled, OnServer, Kept
<1>3. Arrives(e)  BY <1>1, <1>2, OnlyTheseArrive
<1>4. \A j \in Item \ {e} : Settled(j)
  BY <1>1, <1>3, LandSettles DEF Arrives, LandNext, Hash
<1>5. \A j \in Item \ {e} : OnServer(j)' <=> OnServer(j)
  BY <1>4, ServerHashType DEF Settled, OnServer, Kept
<1>6. UNCHANGED box
  BY <1>3 DEF Arrives, LandNext, LateRequest, outboxVars, deviceVars
<1>7. box[e] # "none"
  <2>1. CASE LandNext(e)
    <3>1. e \in rows  BY <2>1 DEF LandNext, CustodyInv, BaseInv, TypeOK
    <3> QED  BY <3>1 DEF CustodyInv, QueueInv, Sent
  <2>2. CASE e \in late  BY <2>2 DEF CustodyInv, NewInv
  <2>3. CASE Land("late", e, "foreign", Places)
    BY <1>1, <2>3, ForeignIsAnother
  <2> QED  BY <1>3, <2>1, <2>2, <2>3 DEF Arrives
<1>8. e \in Own => box[e] # "purged"
  BY DEF CustodyInv, HeldInv, HeldBeforeLetGo
<1> QED  BY <1>5, <1>6, <1>7, <1>8

\* Every step of delivery is a step of custody, or none.
LEMMA CustodyRefined ==
  ASSUME CustodyInv, [Next]_vars
  PROVE  [C!Next]_<<DeviceHas, ServerHas>>
<1>0. BaseInv /\ QueueInv /\ Own \in SUBSET Item
  BY DEF CustodyInv, Own
<1>1. CASE \E e \in Own : ~OnServer(e) /\ OnServer(e)'
  <2>1. PICK e \in Own : ~OnServer(e) /\ OnServer(e)'  BY <1>1
  <2>2. /\ UNCHANGED box
        /\ \A j \in Own \ {e} : OnServer(j)' <=> OnServer(j)
        /\ box[e] \notin {"none", "purged"}
    BY <1>0, <2>1, ArrivalsOneByOne
  <2>3. DeviceHas' = DeviceHas /\ e \in DeviceHas
    BY <2>2 DEF DeviceHas, Own
  <2>4. ServerHas' = ServerHas \cup {e}
    BY <2>1, <2>2 DEF ServerHas, Own
  <2> QED  BY <2>1, <2>3, <2>4 DEF C!Next, C!Take
<1>2. CASE ~\E e \in Own : ~OnServer(e) /\ OnServer(e)'
  <2>1. ServerHas' = ServerHas
    BY <1>0, <1>2, OnServerStays DEF ServerHas, Own
  <2>2. CASE Purge
    <3>1. \A i \in Item : \/ box'[i] = box[i]
                          \/ box[i] = "committed" /\ box'[i] = "purged"
      BY <2>2 DEF Purge, PurgeCommitted, Moved
    <3> DEFINE S == {i \in Own : box[i] = "committed" /\ box'[i] = "purged"}
    <3>2. DeviceHas' = DeviceHas \ S
      BY <1>0, <3>1 DEF DeviceHas, Own
    <3>3. S \subseteq ServerHas
      BY DEF ServerHas, CustodyInv, HeldInv, HeldBeforeLetGo
    <3>4. S \in SUBSET Own  OBVIOUS
    <3> HIDE DEF S
    <3> QED  BY <2>1, <3>2, <3>3, <3>4 DEF C!Next, C!LetGo
  <2>3. CASE ~Purge
    <3> DEFINE S == {i \in Own : box[i] = "none" /\ box'[i] # "none"}
    <3>1. ASSUME NEW i \in Own
          PROVE  /\ box[i] = "none" => box'[i] # "purged"
                 /\ box[i] = "purged" <=> box'[i] = "purged"
                 /\ box[i] # "none" => box'[i] # "none"
      <4>1. i \in Item /\ Moves(i)  BY <1>0, BoxMoves
      <4> QED
        BY <2>3, <4>1, ReceiptOutcomeType, PullOutcomeType
           DEF Moves, Waiting, TakesOutcome
    <3>2. DeviceHas' = DeviceHas \cup S
      BY <3>1 DEF DeviceHas, Own
    <3>3. S \cap (DeviceHas \cup ServerHas) = {}
      BY <1>0 DEF DeviceHas, ServerHas, CustodyInv, NewInv
    <3>4. S \in SUBSET Own  OBVIOUS
    <3> HIDE DEF S
    <3> QED  BY <2>1, <3>2, <3>3, <3>4 DEF C!Next, C!Record
  <2> QED  BY <2>2, <2>3
<1> QED  BY <1>1, <1>2

\* Delivery implements custody: what is recorded is on the device or on the
\* server from then on, however the two lose touch.
THEOREM CustodyKept == Spec => ImplementsCustody
<1>1. Init => C!Init
  BY CustodyInit
     DEF Init, OutboxInit, C!Init, DeviceHas, ServerHas, CustodyInv, NewInv, Own
<1>2. CustodyInv /\ [Next]_vars => [C!Next]_<<DeviceHas, ServerHas>>
  BY CustodyRefined
<1> QED
  BY <1>1, <1>2, CustodyInit, CustodyStep, PTL DEF Spec, ImplementsCustody, C!Spec

\* So nothing is dropped: what is on the device or on the server stays on one
\* of them (outbox_sender.dart:49).
THEOREM NothingIsDropped ==
  Spec => [][DeviceHas \cup ServerHas \subseteq (DeviceHas \cup ServerHas)']_vars
<1>1. Init => CustodyInv
  BY CustodyInit
<1>2. CustodyInv /\ [Next]_vars => CustodyInv'
  BY CustodyStep
<1>3. CustodyInv /\ [Next]_vars =>
        [DeviceHas \cup ServerHas \subseteq (DeviceHas \cup ServerHas)']_vars
  <2>1. [C!Next]_<<DeviceHas, ServerHas>> =>
          DeviceHas \cup ServerHas \subseteq (DeviceHas \cup ServerHas)'
    BY DEF C!Next, C!Record, C!Take, C!LetGo
  <2> QED BY <2>1, CustodyRefined
<1> QED BY <1>1, <1>2, <1>3, PTL DEF Spec

-----------------------------------------------------------------------------
(* What is parked is reported. *)

Reported(i) == \E r \in Report : i \in about[r] /\ box[r] # "none"

\* An item the server refuses has a report as soon as it leaves the queue,
\* and from then on: a page may move it, when another sender uses its id.
ReportInv ==
  \A i \in Unacceptable \ Report :
    box[i] \in TakesOutcome \cup {"purged"} => Reported(i)

\* A report that was written stays as it was written.
LEMMA WithReportAbout ==
  ASSUME OutboxTypeOK, NEW S \in SUBSET Item, NEW moved \in [Item -> BoxState],
         WithReport(S, moved)
  PROVE  /\ \A r \in Report : box[r] # "none" => about'[r] = about[r]
         /\ \A i \in S \ Report : Reported(i)'
<1>1. CASE S \subseteq Report
  BY <1>1 DEF WithReport
<1>2. CASE ~(S \subseteq Report)
  <2>1. PICK r \in FreeReports : /\ box' = [moved EXCEPT ![r] = "queued"]
                                 /\ about' = [about EXCEPT ![r] = S \ Report]
    BY <1>2 DEF WithReport
  <2>2. r \in Report /\ r \in Item /\ box[r] = "none"
    BY EnvelopeAssumption DEF FreeReports
  <2>3. about'[r] = S \ Report /\ box'[r] = "queued"
    BY <2>1, <2>2 DEF OutboxTypeOK
  <2>4. \A q \in Report \ {r} : about'[q] = about[q]
    BY <2>1 DEF OutboxTypeOK
  <2> QED  BY <2>2, <2>3, <2>4 DEF Reported
<1> QED  BY <1>1, <1>2

\* The same of receipts and of parking.
LEMMA ReceiptsAbout ==
  ASSUME OutboxTypeOK, NEW S \in SUBSET Item, NEW q, ApplyReceipts(S, q)
  PROVE  /\ \A r \in Report : box[r] # "none" => about'[r] = about[r]
         /\ \A i \in S \ Report : q[i].state = "refused" => Reported(i)'
<1> DEFINE moved == [i \in Item |-> IF i \in S THEN ReceiptOutcome(q[i]) ELSE box[i]]
           refused == {i \in S : q[i].state = "refused"}
<1>1. moved \in [Item -> BoxState]
  BY ReceiptOutcomeType DEF OutboxTypeOK, BoxState
<1>2. WithReport(refused, moved)  BY DEF ApplyReceipts
<1>3. refused \in SUBSET Item /\ \A i \in S : q[i].state = "refused" => i \in refused
  OBVIOUS
<1> HIDE DEF moved, refused
<1> QED  BY <1>1, <1>2, <1>3, WithReportAbout

\* A parked item is in the report that is written with it.
LEMMA ParkAbout ==
  ASSUME OutboxTypeOK, NEW j \in Item, Park(j)
  PROVE  /\ \A r \in Report : box[r] # "none" => about'[r] = about[r]
         /\ j \notin Report => Reported(j)'
<1> DEFINE moved == Moved({j}, "needs_attention")
<1>1. moved \in [Item -> BoxState]
  BY DEF OutboxTypeOK, Moved, BoxState
<1>2. WithReport({j}, moved)  BY DEF Park
<1> HIDE DEF moved
<1> QED  BY <1>1, <1>2, WithReportAbout

\* So what is reported stays reported.
LEMMA ReportedStays ==
  ASSUME BaseInv, QueueInv, [Next]_vars, NEW i \in Item, Reported(i)
  PROVE  Reported(i)'
<1>0. OutboxTypeOK /\ rows \in SUBSET Item
  BY DEF BaseInv, TypeOK
<1>1. \A r \in Report : box[r] # "none" => about'[r] = about[r]
  <2>1. CASE UNCHANGED about  BY <2>1
  <2>2. CASE TakeReceipts  BY <1>0, <2>2, ReceiptsAbout DEF TakeReceipts
  <2>3. CASE RequestRefused
    <3>1. UNCHANGED about \/ \E j \in rows : Park(j)
      BY <2>3 DEF RequestRefused, outboxVars
    <3> QED  BY <1>0, <3>1, ParkAbout
  <2>4. CASE \E j \in Item : Record(j) \/ ClockMoves(j) \/ AdminActs(j) \/ LandNext(j)
               \/ RefuseWrapper(j) \/ LateRequest(j) \/ LateLost(j)
    BY <2>1, <2>4 DEF Record, Add, ClockMoves, BackoffElapses, RetentionElapses,
       AdminActs, LandNext, RefuseWrapper, LateRequest, LateLost, outboxVars, deviceVars
  <2>5. CASE \E j \in Item : \E o \in ApplyOutcome(j) : ApplyNext(j, o) \/ LateApply(j, o)
    BY <2>1, <2>5 DEF ApplyNext, LateApply, outboxVars, deviceVars
  <2>6. CASE RotateEpoch \/ ReprocessorRuns \/ CalmDown \/ StartRun \/ DrainEnds
    BY <2>1, <2>6 DEF RotateEpoch, ReprocessorRuns, CalmDown, StartRun, DrainEnds,
       outboxVars, deviceVars
  <2>7. CASE SendBatch \/ CallFails \/ SessionEnded \/ Purge \/ Restart
    BY <2>1, <2>7 DEF SendBatch, MarkInFlight, CallFails, RescheduleAndRelease,
       SessionEnded, Release, Purge, PurgeCommitted, Restart, Reopen
  <2>8. CASE Pull
    BY <2>1, <2>8 DEF Pull, PullRead, PullApply, PullFails, ApplyPage, outboxVars,
       deviceVars
  <2>9. CASE UNCHANGED vars
    BY <2>1, <2>9 DEF vars
  <2> QED
    BY <2>2, <2>3, <2>4, <2>5, <2>6, <2>7, <2>8, <2>9 DEF Next, Sender, Server
<1>2. ASSUME NEW r \in Report, box[r] # "none" PROVE box'[r] # "none"
  <2>1. Moves(r)  BY BoxMoves, EnvelopeAssumption
  <2> QED
    BY <1>2, <2>1, ReceiptOutcomeType, PullOutcomeType DEF Moves, Waiting, TakesOutcome
<1> QED  BY <1>1, <1>2 DEF Reported

\* Every step keeps track of what is reported.
LEMMA ReportStep ==
  ASSUME CustodyInv, ReportInv, [Next]_vars
  PROVE  ReportInv'
<1>0. /\ BaseInv /\ QueueInv /\ OutboxTypeOK /\ rows \in SUBSET Item
      /\ Unacceptable \in SUBSET Item
  BY DeliveryAssumption DEF CustodyInv, BaseInv, TypeOK, Unacceptable
<1> SUFFICES ASSUME NEW i \in Unacceptable \ Report,
                    box'[i] \in TakesOutcome \cup {"purged"}
             PROVE  Reported(i)'
  BY DEF ReportInv, Unacceptable
<1>1. i \in Item /\ Moves(i)  BY <1>0, BoxMoves
<1>2. CASE box[i] \in TakesOutcome \cup {"purged"}
  BY <1>0, <1>1, <1>2, ReportedStays DEF ReportInv
<1>3. CASE TakeReceipts /\ i \in rows
  <2>1. receipt[i] # NoReceipt
    BY <1>1, <1>3 DEF TakeReceipts, Busy, CustodyInv, AnswerInv, Answered
  <2>2. receipt[i].state # "none"
    BY <1>0, <1>1, <2>1 DEF BaseInv, TypeOK, Receipt, Finished
  <2>3. receipt[i].state = "refused"
    BY <1>1, <2>2 DEF CustodyInv, AnswerInv, Answered, Taken
  <2> QED  BY <1>0, <1>3, <2>3, ReceiptsAbout DEF TakeReceipts
<1>4. CASE Park(i)
  BY <1>0, <1>1, <1>4, ParkAbout
<1> QED
  BY <1>1, <1>2, <1>3, <1>4 DEF Moves, Waiting, TakesOutcome

\* What is parked on the device has a report that waits, or was sent.
THEOREM ParkedKnown == Spec => []ParkedIsReported
<1>1. Init => ReportInv
  BY DeliveryAssumption DEF Init, OutboxInit, ReportInv, Unacceptable, TakesOutcome
<1>2. ReportInv => ParkedIsReported
  BY DEF ReportInv, ParkedIsReported, Reported, Unacceptable, TakesOutcome
<1>3. CustodyInv /\ ReportInv /\ [Next]_vars => (CustodyInv /\ ReportInv)'
  BY CustodyStep, ReportStep
<1> QED  BY <1>1, <1>2, <1>3, CustodyInit, PTL DEF Spec

-----------------------------------------------------------------------------
(* What the server says of an envelope reaches the device. *)

\* How a step moves the page that is on its way.
LEMMA PageMoves ==
  ASSUME [Next]_vars
  PROVE  \/ page' = page
         \/ PullRead
         \/ PullApply
         \/ page' = NoPage /\ PageDropped
<1>1. CASE UNCHANGED page
  BY <1>1
<1>2. CASE \E i \in Item : Record(i) \/ ClockMoves(i) \/ AdminActs(i) \/ LandNext(i)
              \/ RefuseWrapper(i) \/ LateRequest(i) \/ LateLost(i)
  BY <1>1, <1>2 DEF Record, ClockMoves, AdminActs, LandNext, RefuseWrapper,
     LateRequest, LateLost, pullVars
<1>3. CASE \E i \in Item : \E o \in ApplyOutcome(i) : ApplyNext(i, o) \/ LateApply(i, o)
  BY <1>1, <1>3 DEF ApplyNext, LateApply, pullVars
<1>4. CASE RotateEpoch \/ ReprocessorRuns \/ CalmDown \/ StartRun \/ Purge \/ Sender
  BY <1>1, <1>4 DEF RotateEpoch, ReprocessorRuns, CalmDown, StartRun, Purge, Sender,
     SendBatch, DrainEnds, TakeReceipts, RequestRefused, CallFails, SessionEnded,
     pullVars
<1>5. CASE PullFails \/ Restart
  BY <1>5 DEF PullFails, Restart, PageLost
<1>6. CASE UNCHANGED vars
  BY <1>1, <1>6 DEF vars
<1> QED
  BY <1>2, <1>3, <1>4, <1>5, <1>6 DEF Next, Server, Pull

\* The payload under an id that nobody else uses is the device's.
OwnRow(i) == row[i].state # "absent" => row[i].hash = ServerHash(i)

\* A row changes only together with its stamp, and then no page has it as it is.
Unread(i) == news[i] \notin {"read", "taken"}
Shown(i) == UNCHANGED <<row[i], news[i]>> \/ Unread(i)'

LEMMA StampedShows ==
  ASSUME NewsOK, NEW j \in Item, NEW p, p = OnTime \/ p = Places, Stamped(j, p)
  PROVE  Unread(j)' /\ \A i \in Item \ {j} : news'[i] = news[i]
  BY DEF NewsOK, Stamped, OnTime, Places, Unread

\* So it is with what lands under an id that nobody else uses,
LEMMA LandShows ==
  ASSUME RowsInv, NewsOK, NEW c, NEW j \in Item, NEW p, p = OnTime \/ p = Places,
         Land(c, j, ServerHash(j), p), OwnRow(j)
  PROVE  Unread(j)' /\ OwnRow(j)'
<1>1. LandOutcome(j, ServerHash(j)) # "conflict"
  BY DEF OwnRow, LandOutcome
<1>2. Unread(j)'  BY <1>1, StampedShows DEF Land
<1>3. CASE LandOutcome(j, ServerHash(j)) = "new"
  <2>1. row' = [row EXCEPT ![j] =
                  [NoRow EXCEPT !.state = "received", !.hash = ServerHash(j)]]
    BY <1>3 DEF Land
  <2> QED  BY <1>2, <2>1 DEF RowsInv, NoRow, OwnRow
<1>4. CASE LandOutcome(j, ServerHash(j)) # "new"
  BY <1>2, <1>4 DEF Land, OwnRow
<1> QED  BY <1>3, <1>4

\* and what lands at all leaves the other rows alone,
LEMMA LandShowsOthers ==
  ASSUME RowsInv, NewsOK, NEW c, NEW j \in Item, NEW h, NEW p,
         p = OnTime \/ p = Places, Land(c, j, h, p)
  PROVE  \A i \in Item \ {j} : Shown(i)
<1>1. \A i \in Item \ {j} : row'[i] = row[i]
  BY DEF Land, RowsInv
<1>2. \A i \in Item \ {j} : news'[i] = news[i]
  BY StampedShows DEF Land
<1> QED  BY <1>1, <1>2 DEF Shown

\* and with what is applied,
LEMMA ApplyShows ==
  ASSUME RowsInv, NewsOK, NEW j \in Item, NEW o, NEW p, p = OnTime \/ p = Places,
         ApplyRow(j, o, p)
  PROVE  \A i \in Item : Shown(i)
<1>1. row' = [row EXCEPT ![j] = AppliedRow(row[j], o)]
  BY DEF ApplyRow
<1>2. \A i \in Item \ {j} : row'[i] = row[i]
  BY <1>1 DEF RowsInv
<1>3. CASE o = "error" \/ row[j].state \in Finished
  <2>1. AppliedRow(row[j], o) = row[j]  BY <1>3 DEF AppliedRow
  <2>2. row' = row  BY <1>1, <2>1 DEF RowsInv
  <2> QED  BY <1>3, <2>2 DEF ApplyRow, Shown
<1>4. CASE ~(o = "error" \/ row[j].state \in Finished)
  BY <1>2, <1>4, StampedShows DEF ApplyRow, Shown
<1> QED  BY <1>3, <1>4

\* and what the reprocessor takes up,
LEMMA WorkerShows ==
  ASSUME RowsInv, NewsOK, Reprocessor
  PROVE  \A i \in Item : Shown(i)
<1>1. CASE ReprocessList \/ ReprocessStops
  BY <1>1 DEF ReprocessList, ReprocessStops, serverVars, pullPlaces, Shown
<1>2. CASE \E j \in Item : ReprocessReopen(j)
  <2>1. PICK j \in Item : ReprocessReopen(j)  BY <1>2
  <2>2. CASE row[j].state = "deferred"
    BY <2>1, <2>2, StampedShows DEF ReprocessReopen, RowsInv, Shown
  <2>3. CASE row[j].state # "deferred"
    BY <2>1, <2>3 DEF ReprocessReopen, Shown
  <2> QED  BY <2>2, <2>3
<1>3. CASE \E j \in Item : \E o \in ApplyOutcome(j) : ReprocessApply(j, o)
  BY <1>3, ApplyShows DEF ReprocessApply
<1> QED  BY <1>1, <1>2, <1>3 DEF Reprocessor

\* and what the admin does.
LEMMA AdminShows ==
  ASSUME RowsInv, NewsOK, NEW j \in Item, AdminReprocess(j) \/ AdminResolve(j)
  PROVE  \A i \in Item : Shown(i)
<1>1. \A i \in Item \ {j} : row'[i] = row[i]
  BY DEF AdminReprocess, AdminResolve, RowsInv
<1> QED  BY <1>1, StampedShows DEF AdminReprocess, AdminResolve, Shown

\* The pull's own steps change no row; a page is taken when it is read, and
\* read when it is stored.
PullShown(i) ==
  /\ row'[i] = row[i]
  /\ news'[i] = "read" => news[i] = "read" \/ (PullApply /\ news[i] = "taken")
  /\ news'[i] = "taken" => news[i] = "taken" \/ (PullRead /\ i \in DOMAIN page'.outcome)
  /\ PullApply \/ PageDropped => news'[i] # "taken"

LEMMA PullShows ==
  ASSUME NewsOK, PullRead \/ PullApply \/ PullFails \/ Restart
  PROVE  \A i \in Item : PullShown(i)
<1>1. UNCHANGED row
  BY DEF PullRead, PullApply, PullFails, Restart, PageLost
<1>2. CASE PullRead
  <2>1. PICK S \in SUBSET Visible :
          /\ page' = [epoch |-> epoch, outcome |-> [i \in S |-> OutcomeOf(i)]]
          /\ PageTaken(S)
    BY <1>2 DEF PullRead
  <2>2. DOMAIN page'.outcome = S  BY <2>1
  <2>3. ~PullApply  BY <1>2 DEF PullRead, PullApply
  <2>4. \A i \in Item : news'[i] = IF i \in S THEN "taken" ELSE news[i]
    BY <2>1 DEF PageTaken
  <2>5. ~PageDropped \/ \A i \in Item : news'[i] # "taken"
    BY DEF PageDropped
  <2> QED  BY <1>1, <1>2, <2>2, <2>3, <2>4, <2>5 DEF PullShown
<1>3. CASE PullApply
  <2>1. \A i \in Item : news'[i] = CASE news[i] = "taken"   -> "read"
                                      [] news[i] = "skipped" -> "missed"
                                      [] OTHER               -> news[i]
    BY <1>3 DEF PullApply, PageStored
  <2> QED  BY <1>1, <1>3, <2>1 DEF PullShown
<1>4. CASE PullFails \/ Restart
  <2>1. \A i \in Item : news'[i] = IF news[i] \in {"taken", "skipped"} THEN "unread"
                                    ELSE news[i]
    BY <1>4 DEF PullFails, Restart, PageLost, PageDropped
  <2> QED  BY <1>1, <2>1 DEF PullShown
<1> QED  BY <1>2, <1>3, <1>4

\* Every step: a row is as it was, or no page has it as it is now.
ShownOrPulled(i) == Shown(i) \/ PullShown(i)

LEMMA ShownStep ==
  ASSUME BaseInv, [Next]_vars, \A i \in Item \ Reused : OwnRow(i)
  PROVE  \A i \in Item \ Reused : ShownOrPulled(i)
<1>0. RowsInv /\ NewsOK
  BY DEF BaseInv, TypeOK, LedgerTypeOK, NewsOK
<1>1. CASE UNCHANGED <<row, news>>
  BY <1>1 DEF Shown, ShownOrPulled
<1>2. CASE \E j \in Item : LandNext(j)
  <2>1. PICK j \in Item : LandNext(j)  BY <1>2
  <2>2. Land("live", j, ServerHash(j), OnTime)  BY <2>1 DEF LandNext
  <2>3. \A i \in Item \ {j} : Shown(i)  BY <1>0, <2>2, LandShowsOthers
  <2>4. OwnRow(j) => Shown(j)  BY <1>0, <2>2, LandShows DEF Shown
  <2> QED  BY <2>3, <2>4 DEF ShownOrPulled
<1>3. CASE \E j \in Item : LateRequest(j)
  <2>1. PICK j \in Item : LateRequest(j)  BY <1>3
  <2>2. \A i \in Item \ {j} : Shown(i)
    BY <1>0, <2>1, LandShowsOthers DEF LateRequest
  <2>3. j \in Reused \/ Land("late", j, ServerHash(j), Places)
    BY <2>1 DEF LateRequest
  <2>4. j \notin Reused => Shown(j)  BY <1>0, <2>3, LandShows DEF Shown
  <2> QED  BY <2>2, <2>4 DEF ShownOrPulled
<1>4. CASE \E j \in Item : \E o \in ApplyOutcome(j) : ApplyNext(j, o) \/ LateApply(j, o)
  BY <1>0, <1>4, ApplyShows DEF ApplyNext, LateApply, ApplyLanded, ShownOrPulled
<1>5. CASE ReprocessorRuns
  BY <1>0, <1>5, WorkerShows DEF ReprocessorRuns, ShownOrPulled
<1>6. CASE \E j \in Item : AdminActs(j)
  BY <1>0, <1>6, AdminShows DEF AdminActs, ShownOrPulled
<1>7. CASE \E j \in Item : Record(j) \/ ClockMoves(j) \/ RefuseWrapper(j) \/ LateLost(j)
  BY <1>1, <1>7 DEF Record, ClockMoves, RefuseWrapper, LateLost, AbandonLanded,
     ledgerVars, serverVars, pullPlaces
<1>8. CASE RotateEpoch \/ CalmDown \/ StartRun \/ Purge
  BY <1>1, <1>8 DEF RotateEpoch, CalmDown, StartRun, Purge, ledgerVars
<1>9. CASE Sender
  BY <1>1, <1>9 DEF Sender, SendBatch, DrainEnds, TakeReceipts, RequestRefused,
     CallFails, SessionEnded, ledgerVars, serverVars, pullPlaces
<1>10. CASE PullRead \/ PullApply \/ PullFails \/ Restart
  BY <1>0, <1>10, PullShows DEF ShownOrPulled
<1>11. CASE UNCHANGED vars
  BY <1>1, <1>11 DEF vars
<1> QED
  BY <1>2, <1>3, <1>4, <1>5, <1>6, <1>7, <1>8, <1>9, <1>10, <1>11
     DEF Next, Server, Pull

\* The request in progress has an answer for i, or will apply i.
Answering(i) ==
  <<"live", i>> \in landed \/ receipt[i].state \notin {"none", "refused"}

\* It begins with the landing of i.
LEMMA AnsweringBegins ==
  ASSUME BaseInv, [Next]_vars, NEW i \in Item, Answering(i)'
  PROVE  Answering(i) \/ LandNext(i)
<1>0. receipt \in [Item -> Receipt \cup {NoReceipt}]
  BY DEF BaseInv, TypeOK
<1>1. CASE UNCHANGED receipt /\ (<<"live", i>> \in landed' => <<"live", i>> \in landed)
  BY <1>1 DEF Answering
<1>2. CASE receipt' = NoReceipts /\ (<<"live", i>> \in landed' => <<"live", i>> \in landed)
  BY <1>2 DEF Answering, NoReceipts, NoReceipt
<1>3. CASE \E j \in Item : LandNext(j)
  <2>1. PICK j \in Item : LandNext(j)  BY <1>3
  <2>2. CASE j # i
    <3>1. receipt'[i] = receipt[i]  BY <1>0, <2>1, <2>2 DEF LandNext
    <3>2. <<"live", i>> \in landed' => <<"live", i>> \in landed
      BY <2>1, <2>2 DEF LandNext, Land
    <3> QED  BY <3>1, <3>2 DEF Answering
  <2> QED  BY <2>1, <2>2
<1>4. CASE \E j \in Item : RefuseWrapper(j)
  <2>1. /\ receipt'[i] = receipt[i] \/ receipt'[i].state = "refused"
        /\ UNCHANGED landed
    BY <1>0, <1>4 DEF RefuseWrapper, ledgerVars
  <2> QED  BY <2>1 DEF Answering
<1>5. CASE \E j \in Item : \E o \in ApplyOutcome(j) : ApplyNext(j, o)
  <2>1. PICK j \in Item : \E o \in ApplyOutcome(j) : ApplyNext(j, o)  BY <1>5
  <2>2. /\ <<"live", j>> \in landed /\ landed' = landed \ {<<"live", j>>}
        /\ j # i => receipt'[i] = receipt[i]
    BY <1>0, <2>1 DEF ApplyNext, ApplyLanded
  <2> QED  BY <2>2 DEF Answering
<1>6. CASE SendBatch \/ DrainEnds \/ SessionEnded
  BY <1>1, <1>6 DEF SendBatch, DrainEnds, SessionEnded, ledgerVars, callVars
<1>7. CASE TakeReceipts \/ RequestRefused
  BY <1>1, <1>2, <1>7 DEF TakeReceipts, RequestRefused, NextHalf, ledgerVars
<1>8. CASE CallFails \/ Restart
  BY <1>2, <1>8 DEF CallFails, Restart, GiveUp
<1>9. CASE \E j \in Item : LateRequest(j) \/ LateLost(j)
  BY <1>1, <1>9 DEF LateRequest, LateLost, Land, AbandonLanded, ledgerVars,
     deviceVars, callVars
<1>10. CASE \E j \in Item : \E o \in ApplyOutcome(j) : LateApply(j, o)
  BY <1>1, <1>10 DEF LateApply, ApplyLanded, deviceVars, callVars
<1>11. CASE ReprocessorRuns
  BY <1>1, <1>11 DEF ReprocessorRuns, Reprocessor, ReprocessList, ReprocessReopen,
     ReprocessApply, ReprocessStops, deviceVars, callVars
<1>12. CASE \E j \in Item : Record(j) \/ ClockMoves(j) \/ AdminActs(j)
  BY <1>1, <1>12 DEF Record, ClockMoves, AdminActs, AdminReprocess, AdminResolve,
     ledgerVars, deviceVars, callVars
<1>13. CASE RotateEpoch \/ CalmDown \/ StartRun \/ Purge \/ Pull
  BY <1>1, <1>13 DEF RotateEpoch, CalmDown, StartRun, Purge, Pull, PullRead,
     PullApply, PullFails, ledgerVars, deviceVars, callVars
<1>14. CASE UNCHANGED vars
  BY <1>1, <1>14 DEF vars
<1> QED
  BY <1>3, <1>4, <1>5, <1>6, <1>7, <1>8, <1>9, <1>10, <1>11, <1>12, <1>13, <1>14
     DEF Next, Sender, Server

\* A page puts an item where the outcome it brings says, or in the queue.
LEMMA PullApplyBox ==
  ASSUME BaseInv, PullApply, NEW i \in Item, i \in DOMAIN page.outcome
  PROVE  box'[i] \notin TakesOutcome \/ box'[i] = PullOutcome(page.outcome[i])
<1>1. PICK changed \in BOOLEAN : ApplyPage(changed, page.outcome)
  BY DEF PullApply
<1> DEFINE resent == IF changed THEN Resent(box) ELSE box
<1>2. box' = OutcomesApplied(resent, page.outcome)  BY <1>1 DEF ApplyPage
<1> HIDE DEF resent
<1> QED  BY <1>2 DEF OutcomesApplied

\* The device agrees with the server about i; and so do the page on its way
\* and the answer of the request, as far as nothing newer is to come.
Agrees(i) ==
  (/\ box[i] \in TakesOutcome /\ news[i] = "read"
   /\ row[i].state \notin {"absent", "received"})
  => box[i] = PullOutcome(OutcomeOf(i))

AgreeInv ==
  \A i \in Item \ Reused :
    /\ OwnRow(i)
    /\ Answering(i) => Unread(i)
    /\ news[i] = "taken" => i \in DOMAIN page.outcome
    /\ i \in DOMAIN page.outcome /\ ~Unread(i) => page.outcome[i] = OutcomeOf(i)
    /\ Agrees(i)

\* While a pull reads no request is being answered.
LEMMA PullAlone ==
  ASSUME CustodyInv, PullRead, NEW i \in Item
  PROVE  ~Answering(i)
<1>1. rows = {}
  BY DEF PullRead, CustodyInv, QueueInv, Sending
<1>2. receipt[i] = NoReceipt /\ <<"live", i>> \notin landed
  BY <1>1 DEF CustodyInv, AnswerInv, Answered
<1> QED  BY <1>2 DEF Answering, NoReceipt

\* Every step keeps the agreement.
LEMMA AgreeStep ==
  ASSUME CustodyInv, AgreeInv, [Next]_vars
  PROVE  AgreeInv'
<1>0. /\ BaseInv /\ RowsInv /\ NewsOK /\ RefusedInv /\ QueueInv
      /\ Unacceptable \in SUBSET Item
  BY DeliveryAssumption DEF CustodyInv, BaseInv, Unacceptable, TypeOK, LedgerTypeOK, NewsOK
<1> SUFFICES ASSUME NEW i \in Item \ Reused
    PROVE  /\ OwnRow(i)'
           /\ Answering(i)' => Unread(i)'
           /\ (news[i] = "taken" => i \in DOMAIN page.outcome)'
           /\ (i \in DOMAIN page.outcome /\ ~Unread(i) => page.outcome[i] = OutcomeOf(i))'
           /\ Agrees(i)'
  BY DEF AgreeInv
<1>1. /\ OwnRow(i) /\ Agrees(i)
      /\ Answering(i) => Unread(i)
      /\ news[i] = "taken" => i \in DOMAIN page.outcome
      /\ i \in DOMAIN page.outcome /\ ~Unread(i) => page.outcome[i] = OutcomeOf(i)
  BY DEF AgreeInv
<1>2. ShownOrPulled(i)
  BY <1>0, ShownStep DEF AgreeInv
<1>3. ASSUME ~Unread(i)'
      PROVE  /\ row'[i] = row[i]
             /\ news'[i] = "read" => news[i] = "read" \/ (PullApply /\ news[i] = "taken")
             /\ news'[i] = "taken" => \/ news[i] = "taken"
                                      \/ PullRead /\ i \in DOMAIN page'.outcome
  BY <1>2, <1>3 DEF ShownOrPulled, Shown, PullShown
<1>4. OwnRow(i)'
  <2>1. CASE Settled(i)  BY <1>1, <2>1 DEF Settled, OwnRow
  <2>2. CASE Arrives(i)
    BY <1>0, <1>1, <2>2, LandShows DEF Arrives, LandNext
  <2> QED  BY <1>0, <2>1, <2>2, OnlyTheseArrive
<1>5. ASSUME Answering(i)' PROVE Unread(i)'
  <2>1. CASE LandNext(i)
    BY <1>0, <1>1, <2>1, LandShows DEF LandNext
  <2>2. CASE PullRead
    <3>1. ~Answering(i)  BY <2>2, PullAlone
    <3>2. LandNext(i)  BY <1>0, <1>5, <3>1, AnsweringBegins
    <3> QED  BY <2>1, <3>2
  <2>3. CASE ~LandNext(i) /\ ~PullRead
    <3>1. Unread(i)  BY <1>0, <1>1, <1>5, <2>3, AnsweringBegins
    <3> QED  BY <1>3, <2>3, <3>1 DEF Unread
  <2> QED  BY <2>1, <2>2, <2>3
<1>6. ASSUME news'[i] = "taken" PROVE i \in DOMAIN page'.outcome
  <2>1. CASE PullRead /\ i \in DOMAIN page'.outcome
    BY <2>1
  <2>2. CASE ~(PullRead /\ i \in DOMAIN page'.outcome)
    <3>1. news[i] = "taken" /\ i \in DOMAIN page.outcome
      BY <1>1, <1>3, <1>6, <2>2 DEF Unread
    <3>2. ~PullRead  BY <3>1 DEF PullRead, NoPage
    <3>3. ~PullApply /\ ~PageDropped
      BY <1>6, <3>1 DEF PullApply, PageStored, PageDropped
    <3> QED  BY <3>1, <3>2, <3>3, PageMoves
  <2> QED  BY <2>1, <2>2
<1>7. ASSUME i \in DOMAIN page'.outcome, ~Unread(i)'
      PROVE  page'.outcome[i] = OutcomeOf(i)'
  <2>1. CASE PullRead
    BY <1>7, <2>1 DEF PullRead, OutcomeOf
  <2>2. CASE ~PullRead
    <3>1. page' = page
      BY <1>7, <2>2, PageMoves DEF NoPage, PullApply
    <3>2. ~Unread(i) /\ row'[i] = row[i]  BY <1>3, <1>7, <2>2 DEF Unread
    <3> QED  BY <1>1, <1>7, <3>1, <3>2 DEF OutcomeOf
  <2> QED  BY <2>1, <2>2
<1>8. ASSUME box'[i] \in TakesOutcome, news'[i] = "read",
             row'[i].state \notin {"absent", "received"}
      PROVE  box'[i] = PullOutcome(OutcomeOf(i))'
  <2>1. ~Unread(i) /\ row'[i] = row[i]  BY <1>3, <1>8 DEF Unread
  <2>2. OutcomeOf(i)' = OutcomeOf(i)  BY <2>1 DEF OutcomeOf
  <2>3. CASE PullApply /\ i \in DOMAIN page.outcome
    BY <1>0, <1>1, <1>8, <2>1, <2>2, <2>3, PullApplyBox
  <2>4. CASE ~(PullApply /\ i \in DOMAIN page.outcome)
    <3>1. news[i] = "read"
      BY <1>1, <1>3, <1>8, <2>4 DEF Unread
    <3>2. i \notin Unacceptable
      BY <1>0, <1>8, <2>1 DEF RefusedInv
    <3>3. ~(TakeReceipts /\ i \in rows)
      <4>1. SUFFICES ASSUME TakeReceipts, i \in rows PROVE FALSE
        OBVIOUS
      <4>2. receipt[i] # NoReceipt
        BY <4>1 DEF TakeReceipts, Busy, CustodyInv, AnswerInv, Answered
      <4>3. receipt[i].state # "none"
        BY <1>0, <4>2 DEF BaseInv, TypeOK, Receipt, Finished
      <4>4. receipt[i].state # "refused"
        BY <3>2 DEF CustodyInv, AnswerInv, Answered, Unacceptable
      <4> QED  BY <1>1, <2>1, <4>3, <4>4 DEF Answering
    <3>4. box'[i] = box[i] \/ (i \in DOMAIN page.outcome /\ box'[i] = PullOutcome(page.outcome[i]))
      <4>1. Moves(i)  BY <1>0, BoxMoves
      <4> QED
        BY <1>8, <3>2, <3>3, <4>1 DEF Moves, Waiting, TakesOutcome, Unacceptable
    <3> QED  BY <1>1, <1>8, <2>1, <2>2, <3>1, <3>4 DEF Agrees
  <2> QED  BY <2>3, <2>4
<1>9. Agrees(i)'  BY <1>8 DEF Agrees
<1> QED  BY <1>4, <1>5, <1>6, <1>7, <1>9

\* What the pull read last and stored, the device shows as the server says it.
THEOREM DeviceAgrees == Spec => []AgreesWithServer
<1>1. Init => AgreeInv
  BY DEF Init, OutboxInit, LedgerInit, AgreeInv, OwnRow, NoRow, Answering, NoReceipts,
     NoReceipt, NoPage, Agrees, TakesOutcome
<1>2. AgreeInv => AgreesWithServer
  BY DEF AgreeInv, AgreesWithServer, Agrees
<1>3. CustodyInv /\ AgreeInv /\ [Next]_vars => (CustodyInv /\ AgreeInv)'
  BY CustodyStep, AgreeStep
<1> QED  BY <1>1, <1>2, <1>3, CustodyInit, PTL DEF Spec

=============================================================================
