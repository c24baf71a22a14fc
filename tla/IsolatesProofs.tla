--------------------------- MODULE IsolatesProofs ---------------------------
(***************************************************************************)
(* Proofs about two engines over one store, for any set of envelopes and   *)
(* any size of a batch: whatever one of them undoes of what the other      *)
(* marked, the device never lets go of what the server does not hold.      *)
(***************************************************************************)
EXTENDS Isolates, LedgerProofs

-----------------------------------------------------------------------------
(* The server: nobody else uses the device's ids here.                      *)

Landed(i) == row[i].state # "absent"

\* What landed is what the device sent, and nothing was kept beside it.
ServerInv ==
  /\ RowsInv
  /\ \A i \in Item : Landed(i) => row[i].hash = ServerHash(i)
  /\ conflicts = {}
  /\ \A c \in Caller, i \in Item : <<c, i>> \in landed => Landed(i)

\* So the server holds an item's payload exactly when the item landed.
LEMMA OnServerIsLanded ==
  ASSUME ServerInv, NEW i \in Item
  PROVE  OnServer(i) <=> Landed(i)
<1>1. ServerHash(i) # "none"
  BY DEF ServerHash
<1> QED BY <1>1 DEF ServerInv, RowsInv, RowOK, OnServer, Kept, Landed

\* A step that brings nothing to the server.
LEMMA NothingLands ==
  ASSUME ServerInv, RowsInv', \A i \in Item : Settled(i), landed' \subseteq landed
  PROVE  ServerInv' /\ \A i \in Item : Landed(i)' <=> Landed(i)
<1>1. conflicts' = {}
  <2>1. ASSUME NEW x \in conflicts' PROVE FALSE
    <3>1. PICK i \in Item, h \in Hash : x = <<i, h>>
      BY <2>1 DEF RowsInv
    <3> QED BY <2>1, <3>1 DEF ServerInv, Settled
  <2> QED BY <2>1
<1>2. \A i \in Item : Landed(i)' <=> Landed(i)
  BY DEF Settled, Landed
<1> QED BY <1>1, <1>2 DEF ServerInv, Settled

\* A landing brings one item, as it was sent.
LEMMA OneLands ==
  ASSUME ServerInv, NEW c, NEW i \in Item, Land(c, i, ServerHash(i), Places)
  PROVE  /\ ServerInv'
         /\ Landed(i)'
         /\ \A j \in Item \ {i} : Landed(j)' <=> Landed(j)
<1>1. ServerHash(i) \in Hash /\ RowsInv
  BY ServerHashType DEF ServerInv
<1>2. RowsInv' /\ RowsPreserved
  BY <1>1, LandRows
<1>3. Landed(i)'
  BY <1>1, LandKeeps DEF Landed
<1>4. \A j \in Item \ {i} : Settled(j)
  BY <1>1, LandSettles
<1>5. LandOutcome(i, ServerHash(i)) # "conflict"
  BY DEF ServerInv, Landed, LandOutcome
<1>6. conflicts' = {}
  BY <1>5 DEF Land, KeptBeside, ServerInv
<1>7. row'[i].hash = ServerHash(i)
  <2>1. ServerHash(i) # "none"
    BY DEF ServerHash
  <2>2. CASE Landed(i)
    BY <1>2, <2>2 DEF RowsPreserved, Preserved, Landed, ServerInv
  <2>3. CASE ~Landed(i)
    <3>1. LandOutcome(i, ServerHash(i)) = "new"
      BY <2>3 DEF LandOutcome, Landed
    <3> QED BY <1>1, <3>1 DEF Land, RowsInv, NoRow
  <2> QED BY <2>2, <2>3
<1>8. \A j \in Item \ {i} : Landed(j)' <=> Landed(j)
  BY <1>4 DEF Settled, Landed
<1>9. landed' \subseteq landed \cup {<<c, i>>}
  BY DEF Land
<1>10. \A j \in Item : Landed(j)' => row'[j].hash = ServerHash(j)
  BY <1>4, <1>7, <1>8 DEF ServerInv, Settled
<1>11. ASSUME NEW b \in Caller, NEW j \in Item, <<b, j>> \in landed' PROVE Landed(j)'
  BY <1>3, <1>8, <1>9, <1>11 DEF ServerInv
<1> QED BY <1>2, <1>3, <1>6, <1>8, <1>10, <1>11 DEF ServerInv

-----------------------------------------------------------------------------
(* The device. *)

Reply == {NoReceipt} \cup [state: {"deferred"} \cup Finished, hash: Hash \cup {"none"}]

TypeInv ==
  /\ box \in [Item -> BoxState]
  /\ batch \in [Engine -> SUBSET Item]
  /\ wire \in [Engine -> SUBSET Item]
  /\ answer \in [Engine -> [Item -> Reply]]

\* An engine sends what was recorded; a receipt, and a page, are about what
\* landed.
EngineInv ==
  /\ \A e \in Engine : \A i \in batch[e] \cup wire[e] : box[i] # "none"
  /\ \A e \in Engine, i \in Item : answer[e][i] # NoReceipt => Landed(i)
  /\ \A i \in Item : i \in DOMAIN page => Landed(i)

\* What was not recorded did not land; what the device let go of, or may let
\* go of, did.
BoxInv ==
  \A i \in Item : /\ box[i] = "none" => ~Landed(i)
                  /\ box[i] \in {"committed", "purged"} => Landed(i)

IInv == ServerInv /\ TypeInv /\ EngineInv /\ BoxInv

\* How a row of the outbox moves in a step: it is recorded, sent and
\* answered, committed when the item has landed, and purged.
BoxMoves(i) ==
  \/ box'[i] = box[i]
  \/ box[i] = "none" /\ box'[i] = "queued"
  \/ /\ box[i] \notin {"none", "purged"}
     /\ \/ box'[i] \in {"queued", "in_flight", "durable", "needs_attention"}
        \/ box'[i] = "committed" /\ Landed(i)
  \/ box[i] = "committed" /\ box'[i] = "purged"

\* No step both records and purges.
BoxStep ==
  /\ box' \in [Item -> BoxState]
  /\ \A i \in Item : BoxMoves(i)
  /\ \/ \A i \in Item : box[i] = "none" => box'[i] = "none"
     \/ \A i \in Item : box'[i] = "purged" => box[i] = "purged"

\* A method that moves the rows of S, of which none is gone, to s.
LEMMA MovedBox ==
  ASSUME TypeInv, NEW S, NEW s \in {"queued", "in_flight", "durable", "needs_attention"},
         \A i \in S : i \in Item => box[i] \notin {"none", "purged"},
         box' = Moved(S, s)
  PROVE  BoxStep
BY DEF TypeInv, Moved, BoxStep, BoxMoves, BoxState

\* The rows an engine has chosen and finds are recorded and not gone.
LEMMA PresentRows ==
  ASSUME IInv, NEW e \in Engine
  PROVE  \A i \in Present(batch[e]) : i \in Item /\ box[i] \notin {"none", "purged"}
BY DEF IInv, EngineInv, TypeInv, Present

\* Receipts put a row where the server's answer says.
LEMMA ReceiptsBox ==
  ASSUME IInv, NEW e \in Engine, TakeReceipts(e)
  PROVE  BoxStep
<1> DEFINE S == Present(batch[e])
<1>1. \A i \in S : /\ i \in Item /\ box[i] \notin {"none", "purged"}
                   /\ Landed(i) /\ answer[e][i].state # "refused"
                   /\ ReceiptOutcome(answer[e][i]) \in {"committed", "needs_attention", "durable"}
  <2>1. ASSUME NEW i \in S PROVE i \in batch[e] /\ i \in Item /\ answer[e][i] # NoReceipt
    BY PresentRows DEF TakeReceipts, Present
  <2>2. ASSUME NEW i \in S PROVE Landed(i) /\ answer[e][i].state # "refused"
    BY <2>1 DEF IInv, EngineInv, TypeInv, Reply, Finished
  <2>3. ASSUME NEW r PROVE ReceiptOutcome(r) \in {"committed", "needs_attention", "durable"}
    BY DEF ReceiptOutcome
  <2> QED BY <2>1, <2>2, <2>3, PresentRows
<1>2. {i \in S : answer[e][i].state = "refused"} = {}
  BY <1>1
<1>3. box' = [i \in Item |-> IF i \in S THEN ReceiptOutcome(answer[e][i]) ELSE box[i]]
  BY <1>2 DEF TakeReceipts, ApplyReceipts, WithReport
<1> HIDE DEF S
<1>4. ASSUME NEW i \in Item PROVE BoxMoves(i)
  BY <1>1, <1>3 DEF BoxMoves
<1>5. box' \in [Item -> BoxState]
  BY <1>1, <1>3 DEF IInv, TypeInv, BoxState
<1>6. \A i \in Item : box'[i] = "purged" => box[i] = "purged"
  BY <1>1, <1>3
<1> QED BY <1>4, <1>5, <1>6 DEF BoxStep

\* A page commits only what landed.
LEMMA PageBox ==
  ASSUME IInv, PullApply
  PROVE  BoxStep
<1>1. box' = OutcomesApplied(box, page)
  BY DEF PullApply, ApplyPage
<1>2. \A o : PullOutcome(o) \in {"committed", "needs_attention", "durable"}
  BY DEF PullOutcome
<1>3. ASSUME NEW i \in Item
      PROVE  /\ box'[i] \in BoxState
             /\ \/ box'[i] = box[i]
                \/ /\ box[i] \in TakesOutcome /\ Landed(i)
                   /\ box'[i] \in {"committed", "needs_attention", "durable"}
  BY <1>1, <1>2 DEF OutcomesApplied, IInv, TypeInv, EngineInv, BoxState
<1>4. ASSUME NEW i \in Item PROVE BoxMoves(i)
  BY <1>3 DEF BoxMoves, TakesOutcome
<1>5. box' \in [Item -> BoxState]
  BY <1>1, <1>3 DEF OutcomesApplied
<1>6. \A i \in Item : box'[i] = "purged" => box[i] = "purged"
  BY <1>3
<1> QED BY <1>4, <1>5, <1>6 DEF BoxStep

\* Every step moves the rows in these ways.
LEMMA NextBox ==
  ASSUME IInv, [Next]_vars
  PROVE  BoxStep
<1>0. box' = box => BoxStep
  BY DEF IInv, TypeInv, BoxStep, BoxMoves
<1>1. CASE UNCHANGED vars
  BY <1>0, <1>1 DEF vars, outboxVars
<1>2. ASSUME NEW i \in Item, Record(i) PROVE BoxStep
  BY <1>2 DEF Record, Add, IInv, TypeInv, BoxStep, BoxMoves, BoxState
<1>3. ASSUME NEW i \in Item, ClockMoves(i) PROVE BoxStep
  BY <1>0, <1>3 DEF ClockMoves, BackoffElapses, RetentionElapses
<1>4. CASE ReprocessorRuns
  BY <1>0, <1>4 DEF ReprocessorRuns, outboxVars
<1>5. ASSUME NEW e \in Engine, Open(e) PROVE BoxStep
  BY <1>5, MovedBox DEF Open, Reopen, IInv
<1>6. ASSUME NEW e \in Engine, EngineStep(e) PROVE BoxStep
  <2>1. CASE StartRun(e) \/ Choose(e) \/ DrainEnds(e) \/ PullRead \/ PullEnds
    BY <1>0, <2>1 DEF StartRun, Choose, DrainEnds, PullRead, PullEnds, outboxVars
  <2>2. CASE Mark(e)
    BY <2>2, MovedBox, PresentRows DEF Mark, MarkInFlight, IInv
  <2>3. CASE Purge(e)
    <3>1. PICK old : old = {i \in aged : box[i] = "committed"}
      OBVIOUS
    <3>2. box' = Moved(old, "purged")
      BY <2>3, <3>1 DEF Purge, PurgeCommitted
    <3> QED BY <3>1, <3>2 DEF Moved, IInv, TypeInv, BoxStep, BoxMoves, BoxState
  <2> QED BY <1>6, <2>1, <2>2, <2>3, ReceiptsBox, PageBox DEF EngineStep
<1>7. ASSUME NEW e \in Engine, ServerStep(e) PROVE BoxStep
  BY <1>0, <1>7 DEF ServerStep, LandNext, ApplyNext, outboxVars
<1>8. ASSUME NEW e \in Engine, CallFails(e) PROVE BoxStep
  BY <1>8, MovedBox, PresentRows DEF CallFails, RescheduleAndRelease, IInv
<1>9. ASSUME NEW e \in Engine, Killed(e) PROVE BoxStep
  BY <1>0, <1>9 DEF Killed, outboxVars
<1> QED BY <1>1, <1>2, <1>3, <1>4, <1>5, <1>6, <1>7, <1>8, <1>9 DEF Next

-----------------------------------------------------------------------------
(* Custody. *)

\* An item lands only by the request of an engine that was sending it.
ServerMoves ==
  /\ ServerInv'
  /\ \/ \A i \in Item : Landed(i)' <=> Landed(i)
     \/ \E e \in Engine, i \in Item :
          /\ i \in wire[e] /\ UNCHANGED box
          /\ Landed(i)'
          /\ \A j \in Item \ {i} : Landed(j)' <=> Landed(j)

LEMMA NextServer ==
  ASSUME IInv, [Next]_vars
  PROVE  ServerMoves
<1>0. ServerInv /\ RowsInv
  BY DEF IInv, ServerInv
<1>1. ASSUME UNCHANGED <<row, conflicts, effects>>, landed' \subseteq landed PROVE ServerMoves
  <2>1. RowsInv' /\ \A i \in Item : Settled(i)
    BY <1>0, <1>1 DEF RowsInv, RowOK, Settled
  <2> QED BY <1>0, <1>1, <2>1, NothingLands DEF ServerMoves
<1>2. CASE UNCHANGED ledgerVars
  BY <1>1, <1>2 DEF ledgerVars
<1>3. CASE ReprocessorRuns
  <2>1. RowsInv' /\ \A i \in Item : Settled(i)
    BY <1>0, <1>3, ReprocessorRows, WorkerSettles DEF ReprocessorRuns
  <2>2. landed' = landed
    BY <1>3 DEF ReprocessorRuns, Reprocessor, ReprocessList, ReprocessReopen, ReprocessApply,
                ReprocessStops
  <2> QED BY <1>0, <2>1, <2>2, NothingLands DEF ServerMoves
<1>4. ASSUME NEW e \in Engine, NEW i \in Item, LandNext(e, i) PROVE ServerMoves
  <2>1. i \in wire[e] /\ UNCHANGED box /\ Land(e, i, ServerHash(i), Places)
    BY <1>4 DEF LandNext, outboxVars
  <2> QED BY <1>0, <2>1, OneLands DEF ServerMoves
<1>5. ASSUME NEW e \in Engine, NEW i \in Item, NEW o, ApplyNext(e, i, o) PROVE ServerMoves
  <2>1. ApplyRow(i, o, Places) /\ landed' \subseteq landed
    BY <1>5 DEF ApplyNext, ApplyLanded
  <2>2. RowsInv' /\ \A j \in Item : Settled(j)
    BY <1>0, <2>1, ApplyRows, ApplySettles
  <2> QED BY <1>0, <2>1, <2>2, NothingLands DEF ServerMoves
<1>6. CASE PullRead \/ PullApply
  BY <1>1, <1>6 DEF PullRead, PullApply
<1>7. ASSUME NEW e \in Engine, Killed(e) PROVE ServerMoves
  BY <1>1, <1>7 DEF Killed
<1>8. ASSUME NEW e \in Engine, EngineStep(e), ~PullRead, ~PullApply
      PROVE  ServerMoves
  BY <1>2, <1>8 DEF EngineStep, StartRun, Choose, Mark, TakeReceipts, DrainEnds, Purge, PullEnds
<1>9. ASSUME NEW e \in Engine, Open(e) \/ CallFails(e) PROVE ServerMoves
  BY <1>2, <1>9 DEF Open, CallFails
<1>10. ASSUME NEW i \in Item, Record(i) \/ ClockMoves(i) PROVE ServerMoves
  BY <1>2, <1>10 DEF Record, ClockMoves
<1>11. CASE UNCHANGED vars
  BY <1>2, <1>11 DEF vars
<1> QED
  BY <1>3, <1>4, <1>5, <1>6, <1>7, <1>8, <1>9, <1>10, <1>11 DEF Next, ServerStep

\* What landed stays.
LEMMA LandedStays ==
  ASSUME ServerMoves, NEW i \in Item, Landed(i)
  PROVE  Landed(i)'
BY DEF ServerMoves

LEMMA NextBoxInv ==
  ASSUME IInv, BoxStep, ServerMoves
  PROVE  BoxInv'
<1> SUFFICES ASSUME NEW i \in Item
             PROVE  /\ box'[i] = "none" => ~Landed(i)'
                    /\ box'[i] \in {"committed", "purged"} => Landed(i)'
  BY DEF BoxInv
<1>1. BoxMoves(i) /\ /\ box[i] = "none" => ~Landed(i)
                     /\ box[i] \in {"committed", "purged"} => Landed(i)
  BY DEF BoxStep, IInv, BoxInv
<1>2. box'[i] \in {"committed", "purged"} => Landed(i)
  BY <1>1 DEF BoxMoves
<1>3. box'[i] = "none" => box[i] = "none"
  BY <1>1 DEF BoxMoves
<1>4. ASSUME box'[i] = "none" PROVE ~Landed(i)'
  <2>1. CASE \A j \in Item : Landed(j)' <=> Landed(j)
    BY <1>1, <1>3, <1>4, <2>1
  <2>2. ASSUME NEW e \in Engine, NEW k \in Item, k \in wire[e],
               \A j \in Item \ {k} : Landed(j)' <=> Landed(j)
        PROVE  ~Landed(i)'
    <3>1. box[k] # "none"
      BY <2>2 DEF IInv, EngineInv
    <3> QED BY <1>1, <1>3, <1>4, <2>2, <3>1
  <2> QED BY <2>1, <2>2 DEF ServerMoves
<1> QED BY <1>2, <1>4, LandedStays

\* The server's answers are receipts, about what landed.
LEMMA AnswerTo ==
  ASSUME IInv, NEW e \in Engine, NEW i \in Item, NEW r \in Reply, Landed(i)',
         \A j \in Item : Landed(j) => Landed(j)',
         answer' = [answer EXCEPT ![e][i] = r]
  PROVE  /\ answer' \in [Engine -> [Item -> Reply]]
         /\ \A c \in Engine, j \in Item : answer'[c][j] # NoReceipt => Landed(j)'
BY DEF IInv, TypeInv, EngineInv

LEMMA LandReply ==
  ASSUME IInv, NEW i \in Item, ~AppliesAfter(LandOutcome(i, ServerHash(i)))
  PROVE  LandReceipt(i, ServerHash(i)) \in Reply
<1>1. ServerHash(i) \in Hash /\ row[i] \in Row
  BY ServerHashType DEF IInv, ServerInv, RowsInv
<1>2. PICK out, r : out = LandOutcome(i, ServerHash(i)) /\ r = row[i]
  OBVIOUS
<1>3. /\ out \notin {"new", "retry"}
      /\ out \in {"duplicate", "conflict"} \/ r.state \in {"deferred"} \cup Finished
  BY <1>1, <1>2 DEF AppliesAfter, LandOutcome, Row, RowState
<1>4. \E state \in {"deferred"} \cup Finished, hash \in Hash \cup {"none"} :
        LandReceipt(i, ServerHash(i)) = [state |-> state, hash |-> hash]
  BY <1>1, <1>2, <1>3 DEF LandReceipt, Row, Finished
<1> QED BY <1>4 DEF Reply

LEMMA ApplyReply ==
  ASSUME IInv, NEW i \in Item, NEW o \in ApplyOutcome(i)
  PROVE  ApplyReceipt(i, o) \in Reply
<1>1. ServerHash(i) \in Hash /\ row[i] \in Row
  BY ServerHashType DEF IInv, ServerInv, RowsInv
<1>2. o \in {"error", "hold", "deferred"} \cup Finished
  BY ApplyOutcomeType DEF IInv, ServerInv, RowsInv
<1>3. \E state \in {"deferred"} \cup Finished, hash \in Hash \cup {"none"} :
        ApplyReceipt(i, o) = [state |-> state, hash |-> hash]
  BY <1>1, <1>2 DEF ApplyReceipt, Row
<1> QED BY <1>3 DEF Reply

\* What an engine keeps of its call, after a step that leaves the answers
\* alone or ends the call.
EngineStays ==
  /\ batch' \in [Engine -> SUBSET Item] /\ wire' \in [Engine -> SUBSET Item]
  /\ \A e \in Engine : \A i \in batch'[e] \cup wire'[e] : box'[i] # "none"
  /\ answer' \in [Engine -> [Item -> Reply]]
  /\ \A e \in Engine, i \in Item : answer'[e][i] # NoReceipt => Landed(i)'
  /\ \A i \in Item : i \in DOMAIN page' => Landed(i)'

LEMMA EngineAlone ==
  ASSUME IInv, BoxStep, ServerMoves, UNCHANGED <<batch, wire, answer>>,
         DOMAIN page' \subseteq DOMAIN page
  PROVE  EngineStays
<1>1. \A i \in Item : box'[i] = "none" => box[i] = "none"
  BY DEF BoxStep, BoxMoves
<1>2. \A i \in Item : Landed(i) => Landed(i)'
  BY LandedStays
<1> QED BY <1>1, <1>2 DEF IInv, TypeInv, EngineInv, EngineStays

LEMMA CallEnds ==
  ASSUME IInv, BoxStep, ServerMoves, NEW e \in Engine, NEW next, CallOver(e, next),
         DOMAIN page' \subseteq DOMAIN page
  PROVE  EngineStays
<1>1. \A i \in Item : box'[i] = "none" => box[i] = "none"
  BY DEF BoxStep, BoxMoves
<1>2. \A i \in Item : Landed(i) => Landed(i)'
  BY LandedStays
<1>3. NoReceipts \in [Item -> Reply] /\ \A i \in Item : NoReceipts[i] = NoReceipt
  BY DEF NoReceipts, Reply
<1>4. /\ batch' = [batch EXCEPT ![e] = {}] /\ wire' = [wire EXCEPT ![e] = {}]
      /\ answer' = [answer EXCEPT ![e] = NoReceipts]
  BY DEF CallOver
<1> QED BY <1>1, <1>2, <1>3, <1>4 DEF IInv, TypeInv, EngineInv, EngineStays

LEMMA NextEngine ==
  ASSUME IInv, [Next]_vars, BoxStep, ServerMoves
  PROVE  EngineStays
<1>0. /\ TypeInv /\ EngineInv
      /\ \A i \in Item : box'[i] = "none" => box[i] = "none"
      /\ \A i \in Item : Landed(i) => Landed(i)'
  BY LandedStays DEF IInv, BoxStep, BoxMoves
<1>1. CASE UNCHANGED vars
  BY <1>1, EngineAlone DEF vars, engineVars
<1>2. ASSUME NEW i \in Item, Record(i) \/ ClockMoves(i) PROVE EngineStays
  BY <1>2, EngineAlone DEF Record, ClockMoves, engineVars
<1>3. CASE ReprocessorRuns
  BY <1>3, EngineAlone DEF ReprocessorRuns, engineVars
<1>4. ASSUME NEW e \in Engine, Open(e) \/ StartRun(e) \/ DrainEnds(e) \/ PullEnds \/ Purge(e)
      PROVE  EngineStays
  BY <1>4, EngineAlone DEF Open, StartRun, DrainEnds, PullEnds, Purge
<1>5. ASSUME NEW e \in Engine, Choose(e) PROVE EngineStays
  <2>1. PICK S \in SUBSET Due : batch' = [batch EXCEPT ![e] = S]
    BY <1>5 DEF Choose
  <2>2. S \subseteq Item /\ \A i \in S : box[i] # "none"
    BY <2>1 DEF Due
  <2> QED BY <1>0, <1>5, <2>1, <2>2 DEF Choose, TypeInv, EngineInv, EngineStays
<1>6. ASSUME NEW e \in Engine, Mark(e) PROVE EngineStays
  BY <1>0, <1>6 DEF Mark, TypeInv, EngineInv, EngineStays
<1>7. ASSUME NEW e \in Engine, TakeReceipts(e) \/ CallFails(e) PROVE EngineStays
  BY <1>7, CallEnds DEF TakeReceipts, CallFails
<1>8. ASSUME NEW e \in Engine, Killed(e) PROVE EngineStays
  <2>1. DOMAIN page' \subseteq DOMAIN page
    BY <1>8 DEF Killed
  <2> QED BY <1>8, <2>1, CallEnds DEF Killed
<1>9. CASE PullRead
  <2>1. \A i \in Item : i \in DOMAIN page' => Landed(i)
    BY <1>9 DEF PullRead, Visible, Landed
  <2> QED BY <1>0, <1>9, <2>1 DEF PullRead, TypeInv, EngineInv, EngineStays
<1>10. CASE PullApply
  <2>1. DOMAIN page' \subseteq DOMAIN page
    BY <1>10 DEF PullApply
  <2> QED BY <1>10, <2>1, EngineAlone DEF PullApply
<1>11. ASSUME NEW e \in Engine, NEW i \in Item, LandNext(e, i) PROVE EngineStays
  <2>1. /\ wire' = [wire EXCEPT ![e] = wire[e] \ {i}]
        /\ UNCHANGED <<batch, page>> /\ Land(e, i, ServerHash(i), Places)
    BY <1>11 DEF LandNext
  <2>2. Landed(i)'
    BY <2>1, OneLands DEF IInv
  <2>3. /\ answer' \in [Engine -> [Item -> Reply]]
        /\ \A c \in Engine, j \in Item : answer'[c][j] # NoReceipt => Landed(j)'
    <3>1. CASE answer' = answer
      BY <1>0, <3>1 DEF TypeInv, EngineInv
    <3>2. CASE answer' # answer
      BY <1>0, <1>11, <2>2, <3>2, LandReply, AnswerTo DEF LandNext
    <3> QED BY <3>1, <3>2
  <2> QED BY <1>0, <2>1, <2>3 DEF TypeInv, EngineInv, EngineStays
<1>12. ASSUME NEW e \in Engine, NEW i \in Item, NEW o \in ApplyOutcome(i), ApplyNext(e, i, o)
       PROVE  EngineStays
  <2>1. UNCHANGED <<batch, wire, page>> /\ Landed(i)
    BY <1>12 DEF ApplyNext, ApplyLanded, IInv, ServerInv, Engine
  <2>2. Landed(i)'
    BY <1>0, <2>1
  <2>3. /\ answer' \in [Engine -> [Item -> Reply]]
        /\ \A c \in Engine, j \in Item : answer'[c][j] # NoReceipt => Landed(j)'
    <3>1. CASE answer' = answer
      BY <1>0, <3>1 DEF TypeInv, EngineInv
    <3>2. CASE answer' # answer
      BY <1>0, <1>12, <2>2, <3>2, ApplyReply, AnswerTo DEF ApplyNext
    <3> QED BY <3>1, <3>2
  <2> QED BY <1>0, <2>1, <2>3 DEF TypeInv, EngineInv, EngineStays
<1> QED BY <1>1, <1>2, <1>3, <1>4, <1>5, <1>6, <1>7, <1>8, <1>9, <1>10, <1>11, <1>12
        DEF Next, EngineStep, ServerStep

LEMMA Initially == Init => IInv
<1> SUFFICES ASSUME Init PROVE IInv
  OBVIOUS
<1>1. ServerInv
  BY DEF Init, LedgerInit, ServerInv, RowsInv, RowOK, NoRow, Row, RowState, Finished, Landed
<1>2. \A i \in Item : ~Landed(i)
  BY DEF Init, LedgerInit, NoRow, Landed
<1>3. TypeInv /\ BoxInv
  BY <1>2 DEF Init, OutboxInit, TypeInv, BoxInv, BoxState, NoReceipts, Reply
<1>4. EngineInv
  BY DEF Init, EngineInv, NoReceipts
<1> QED BY <1>1, <1>3, <1>4 DEF IInv

LEMMA Stepwise == IInv /\ [Next]_vars => BoxStep /\ ServerMoves /\ IInv'
<1> SUFFICES ASSUME IInv, [Next]_vars PROVE BoxStep /\ ServerMoves /\ IInv'
  OBVIOUS
<1>1. BoxStep /\ ServerMoves
  BY NextBox, NextServer
<1>2. EngineStays /\ BoxInv'
  BY <1>1, NextEngine, NextBoxInv
<1> QED BY <1>1, <1>2 DEF IInv, TypeInv, EngineInv, EngineStays, BoxStep, ServerMoves

\* A step of the engines, the server or the clock is a step of custody, or
\* none.
LEMMA CustodyRefined ==
  ASSUME IInv, [Next]_vars
  PROVE  [C!Next]_<<DeviceHas, ServerHas>>
<1>0. BoxStep /\ ServerMoves /\ ServerInv /\ ServerInv' /\ BoxInv /\ BoxInv'
  BY Stepwise DEF IInv
<1>1. ServerHas = {i \in Item : Landed(i)} /\ ServerHas' = {i \in Item : Landed(i)'}
  <2>1. \A i \in Item : OnServer(i) <=> Landed(i)
    BY <1>0, OnServerIsLanded
  <2>2. \A i \in Item : OnServer(i)' <=> Landed(i)'
    BY <1>0 DEF ServerInv, RowsInv, RowOK, OnServer, Kept, Landed, ServerHash
  <2> QED BY <2>1, <2>2 DEF ServerHas
<1>2. CASE \E i \in Item : ~Landed(i) /\ Landed(i)'
  <2>1. PICK e \in Engine, i \in Item :
          /\ i \in wire[e] /\ UNCHANGED box
          /\ Landed(i)' /\ \A j \in Item \ {i} : Landed(j)' <=> Landed(j)
    BY <1>0, <1>2 DEF ServerMoves
  <2>2. ~Landed(i)
    BY <1>2, <2>1
  <2>3. box[i] \notin {"none", "purged"}
    BY <1>0, <2>1, <2>2 DEF BoxInv, IInv, EngineInv
  <2>4. i \in DeviceHas /\ DeviceHas' = DeviceHas
    BY <2>1, <2>3 DEF DeviceHas
  <2>5. ServerHas' = ServerHas \cup {i}
    BY <1>1, <2>1
  <2> QED BY <2>4, <2>5 DEF C!Next, C!Take
<1>3. CASE ~\E i \in Item : ~Landed(i) /\ Landed(i)'
  <2>1. ServerHas' = ServerHas
    BY <1>0, <1>1, <1>3, LandedStays
  <2> DEFINE new == {i \in Item : box[i] = "none" /\ box'[i] # "none"}
             old == {i \in Item : box[i] # "purged" /\ box'[i] = "purged"}
  <2>2. CASE \A i \in Item : box'[i] = "purged" => box[i] = "purged"
    <3>1. DeviceHas' = DeviceHas \cup new
      BY <1>0, <2>2 DEF DeviceHas, BoxStep, BoxMoves
    <3>2. new \cap (DeviceHas \cup ServerHas) = {}
      BY <1>0, <1>1 DEF DeviceHas, BoxInv
    <3>3. new \in SUBSET Item
      OBVIOUS
    <3> HIDE DEF new
    <3> QED BY <2>1, <3>1, <3>2, <3>3 DEF C!Next, C!Record
  <2>3. CASE \A i \in Item : box[i] = "none" => box'[i] = "none"
    <3>1. old \subseteq ServerHas
      BY <1>0, <1>1 DEF BoxStep, BoxMoves, BoxInv
    <3>2. DeviceHas' = DeviceHas \ old
      BY <1>0, <2>3 DEF DeviceHas, BoxStep, BoxMoves
    <3>3. old \in SUBSET Item
      OBVIOUS
    <3> HIDE DEF old
    <3> QED BY <2>1, <3>1, <3>2, <3>3 DEF C!Next, C!LetGo
  <2> QED BY <1>0, <2>2, <2>3 DEF BoxStep
<1> QED BY <1>2, <1>3

\* Two engines over one store, each undoing what the other marked, implement
\* the custody one of them promises (outbox_store.dart:90-93).
THEOREM CustodyOfTwo == Spec => ImplementsCustody
<1>1. Init => C!Init
  <2> SUFFICES ASSUME Init PROVE C!Init
    OBVIOUS
  <2>1. ServerInv /\ \A i \in Item : ~Landed(i)
    BY Initially DEF Init, LedgerInit, NoRow, Landed, IInv
  <2>2. ServerHas = {}
    BY <2>1, OnServerIsLanded DEF ServerHas
  <2> QED BY <2>2 DEF Init, OutboxInit, DeviceHas, C!Init
<1>2. IInv /\ [Next]_vars => IInv'
  BY Stepwise
<1>3. IInv /\ [Next]_vars => [C!Next]_<<DeviceHas, ServerHas>>
  BY CustodyRefined
<1> QED BY <1>1, <1>2, <1>3, Initially, PTL DEF Spec, ImplementsCustody, C!Spec

\* So the two drop nothing: what is on the device or on the server stays on
\* one of them (outbox_sender.dart:49).
THEOREM NothingDroppedByTwo ==
  Spec => [][DeviceHas \cup ServerHas \subseteq (DeviceHas \cup ServerHas)']_vars
<1>1. Init => IInv
  BY Initially
<1>2. IInv /\ [Next]_vars => IInv'
  BY Stepwise
<1>3. IInv /\ [Next]_vars =>
        [DeviceHas \cup ServerHas \subseteq (DeviceHas \cup ServerHas)']_vars
  <2>1. [C!Next]_<<DeviceHas, ServerHas>> =>
          DeviceHas \cup ServerHas \subseteq (DeviceHas \cup ServerHas)'
    BY DEF C!Next, C!Record, C!Take, C!LetGo
  <2> QED BY <2>1, CustodyRefined
<1> QED BY <1>1, <1>2, <1>3, PTL DEF Spec

\* And what both of them send, at once or one after the other, is applied once
\* (rpc_ingest.sql:787-792).
THEOREM AppliedOnceForTwo == Spec => []AppliedOnce
<1>1. IInv => AppliedOnce
  BY DEF IInv, ServerInv, RowsInv, AppliedOnce
<1>2. IInv /\ [Next]_vars => IInv'
  BY Stepwise
<1> QED BY <1>1, <1>2, Initially, PTL DEF Spec

=============================================================================
