---------------------------- MODULE LedgerProofs ----------------------------
(***************************************************************************)
(* Proofs about the envelope ledger, for any number of envelopes, requests *)
(* and payloads.                                                           *)
(***************************************************************************)
EXTENDS EnvelopeLedger, TLAPS

\* Rows are rows; an envelope that is not there has no payload; and it is
\* committed exactly when its domain writes were made, once.
RowOK(i) ==
  /\ row[i].state = "absent" => row[i].hash = "none"
  /\ row[i].state = "committed" <=> effects[i] = 1

RowsInv ==
  /\ row \in [Item -> Row]
  /\ conflicts \in SUBSET (Item \X Hash)
  /\ effects \in [Item -> {0, 1}]
  /\ \A i \in Item : RowOK(i)

LedgerInv == LedgerTypeOK /\ RowsInv

\* What no step of the ledger takes back.
Preserved(i) ==
  /\ row[i].state # "absent" => row'[i].hash = row[i].hash
  /\ row[i].state \in {"committed", "duplicate"} => row'[i].state = row[i].state

RowsPreserved ==
  /\ conflicts \subseteq conflicts'
  /\ \A i \in Item : Preserved(i)

-----------------------------------------------------------------------------
(* Operators. *)

\* The server's hash of a payload is one of the hashes.
LEMMA ServerHashType == ASSUME NEW i \in Item PROVE ServerHash(i) \in Hash
  BY DEF ServerHash, Hash

\* A fresh row is a row.
LEMMA NewRowType ==
  ASSUME NEW h \in Hash
  PROVE  [NoRow EXCEPT !.state = "received", !.hash = h] \in Row
  BY DEF NoRow, Row, RowState, Hash, Finished

\* An apply ends in an error, a hold, a finished state or a deferral.
LEMMA ApplyOutcomeType ==
  ASSUME row \in [Item -> Row], NEW i \in Item, NEW o \in ApplyOutcome(i)
  PROVE  o \in {"error", "hold", "deferred"} \cup Finished
  BY DEF ApplyOutcome, Row, RowState, Finished

\* ingest_finish and ingest_hold leave a row.
LEMMA AppliedRowType ==
  ASSUME NEW q \in Row, NEW o \in {"error", "hold", "deferred"} \cup Finished
  PROVE  AppliedRow(q, o) \in Row
  BY DEF AppliedRow, Row, RowState, Finished

-----------------------------------------------------------------------------
(* Steps. *)

\* A step that replaces the row of i by q, and gives q what RowOK and
\* Preserved ask of it, keeps the invariant and takes nothing back.
LEMMA RowReplaced ==
  ASSUME RowsInv, NEW i \in Item, NEW q \in Row, NEW n \in {0, 1},
         row' = [row EXCEPT ![i] = q],
         effects' = [effects EXCEPT ![i] = n],
         UNCHANGED conflicts,
         q.state = "absent" => q.hash = "none",
         q.state = "committed" <=> n = 1,
         row[i].state # "absent" => q.hash = row[i].hash,
         row[i].state \in {"committed", "duplicate"} => q.state = row[i].state
  PROVE  RowsInv' /\ RowsPreserved
<1>1. row'[i] = q /\ effects'[i] = n  BY DEF RowsInv
<1>2. ASSUME NEW j \in Item, j # i
      PROVE  row'[j] = row[j] /\ effects'[j] = effects[j]
  BY <1>2 DEF RowsInv
<1>3. \A j \in Item : RowOK(j)'
  BY <1>1, <1>2 DEF RowsInv, RowOK
<1>4. \A j \in Item : Preserved(j)
  BY <1>1, <1>2 DEF Preserved
<1>5. row' \in [Item -> Row] /\ effects' \in [Item -> {0, 1}]
  BY DEF RowsInv
<1> QED  BY <1>3, <1>4, <1>5 DEF RowsInv, RowsPreserved

\* The same when the domain writes of i stay as they are.
LEMMA RowEdited ==
  ASSUME RowsInv, NEW i \in Item, NEW q \in Row,
         row' = [row EXCEPT ![i] = q],
         UNCHANGED <<effects, conflicts>>,
         q.state = "absent" => q.hash = "none",
         q.state = "committed" <=> row[i].state = "committed",
         row[i].state # "absent" => q.hash = row[i].hash,
         row[i].state \in {"committed", "duplicate"} => q.state = row[i].state
  PROVE  RowsInv' /\ RowsPreserved
<1>1. effects[i] \in {0, 1} /\ effects' = [effects EXCEPT ![i] = effects[i]]
  BY DEF RowsInv
<1>2. q.state = "committed" <=> effects[i] = 1  BY DEF RowsInv, RowOK
<1> QED  BY <1>1, <1>2, RowReplaced

\* A step that leaves the rows alone.
LEMMA RowsAlone ==
  ASSUME RowsInv, UNCHANGED <<row, effects>>,
         conflicts \subseteq conflicts', conflicts' \in SUBSET (Item \X Hash)
  PROVE  RowsInv' /\ RowsPreserved
  BY DEF RowsInv, RowsPreserved, RowOK, Preserved

\* Landing.
LEMMA LandRows ==
  ASSUME RowsInv, NEW c, NEW i \in Item, NEW h \in Hash, NEW p,
         Land(c, i, h, p)
  PROVE  RowsInv' /\ RowsPreserved
<1>1. CASE LandOutcome(i, h) = "new"
  <2> DEFINE fresh == [NoRow EXCEPT !.state = "received", !.hash = h]
  <2>1. row' = [row EXCEPT ![i] = fresh]  BY <1>1 DEF Land
  <2>2. fresh \in Row /\ fresh.state = "received"
    BY NewRowType DEF NoRow
  <2> HIDE DEF fresh
  <2>3. UNCHANGED <<effects, conflicts>>  BY <1>1 DEF Land, KeptBeside
  <2>4. row[i].state = "absent"  BY <1>1 DEF LandOutcome
  <2> QED  BY <2>1, <2>2, <2>3, <2>4, RowEdited
<1>2. CASE LandOutcome(i, h) # "new"
  <2>1. UNCHANGED <<row, effects>>  BY <1>2 DEF Land
  <2>2. conflicts \subseteq conflicts' /\ conflicts' \in SUBSET (Item \X Hash)
    BY DEF Land, KeptBeside, RowsInv
  <2> QED  BY <2>1, <2>2, RowsAlone
<1> QED  BY <1>1, <1>2

\* Applying, in a request or in the reprocessor.
LEMMA ApplyRows ==
  ASSUME RowsInv, NEW i \in Item, NEW o, NEW p, ApplyRow(i, o, p)
  PROVE  RowsInv' /\ RowsPreserved
<1> DEFINE q == AppliedRow(row[i], o)
<1>1. o \in {"error", "hold", "deferred"} \cup Finished
  BY ApplyOutcomeType DEF ApplyRow, RowsInv
<1>2. row[i] \in Row /\ RowOK(i)  BY DEF RowsInv
<1>3. q \in Row  BY <1>1, <1>2, AppliedRowType
<1>4. row' = [row EXCEPT ![i] = q] /\ UNCHANGED conflicts  BY DEF ApplyRow
<1>5. effects' = IF CommitsNow(i, o) THEN [effects EXCEPT ![i] = @ + 1] ELSE effects
  BY DEF ApplyRow
<1>6. /\ q.hash = row[i].hash
      /\ row[i].state \in Finished => q.state = row[i].state
      /\ q.state = "absent" => row[i].state = "absent"
  BY <1>1, <1>2 DEF AppliedRow, Row, Finished
<1>7. CASE CommitsNow(i, o)
  <2>1. q.state = "committed"
    BY <1>1, <1>2, <1>7 DEF CommitsNow, AppliedRow, Row, Finished
  <2>2. effects[i] = 0 /\ row[i].state \notin Finished
    BY <1>7 DEF CommitsNow, RowsInv, RowOK, Finished
  <2>3. effects' = [effects EXCEPT ![i] = 1]  BY <1>5, <1>7, <2>2
  <2> HIDE DEF q
  <2> QED  BY <1>3, <1>4, <1>6, <2>1, <2>2, <2>3, RowReplaced DEF Finished
<1>8. CASE ~CommitsNow(i, o)
  <2>1. q.state = "committed" <=> row[i].state = "committed"
    BY <1>1, <1>2, <1>8 DEF CommitsNow, AppliedRow, Row, Finished
  <2>2. effects' = effects  BY <1>5, <1>8
  <2> HIDE DEF q
  <2> QED  BY <1>2, <1>3, <1>4, <1>6, <2>1, <2>2, RowEdited DEF RowOK, Finished
<1> QED  BY <1>7, <1>8

\* Re-opening touches deferred rows only.
LEMMA ReopenRows ==
  ASSUME RowsInv, NEW i \in Item, ReprocessReopen(i)
  PROVE  RowsInv' /\ RowsPreserved
<1>1. CASE row[i].state = "deferred"
  <2> DEFINE q == [row[i] EXCEPT !.state = "received"]
  <2>1. row' = [row EXCEPT ![i] = q] /\ UNCHANGED <<conflicts, effects>>
    BY <1>1 DEF ReprocessReopen
  <2>2. row[i] \in Row  BY DEF RowsInv
  <2>3. q \in Row /\ q.state = "received" /\ q.hash = row[i].hash
    BY <2>2 DEF Row, RowState
  <2> HIDE DEF q
  <2> QED  BY <1>1, <2>1, <2>3, RowEdited
<1>2. CASE row[i].state # "deferred"
  BY <1>2, RowsAlone DEF RowsInv, ReprocessReopen
<1> QED  BY <1>1, <1>2

\* The admin never touches a committed or duplicate row.
LEMMA AdminRows ==
  ASSUME RowsInv, NEW i \in Item, AdminReprocess(i) \/ AdminResolve(i)
  PROVE  RowsInv' /\ RowsPreserved
<1>0. row[i] \in Row /\ RowOK(i)  BY DEF RowsInv
<1>1. CASE AdminReprocess(i)
  <2> DEFINE q == [row[i] EXCEPT !.state = "received", !.waiting = "none",
                                 !.resolution = "reprocessed"]
  <2>1. row' = [row EXCEPT ![i] = q] /\ UNCHANGED <<conflicts, effects>>
    BY <1>1 DEF AdminReprocess
  <2>2. q \in Row /\ q.state = "received" /\ q.hash = row[i].hash
    BY <1>0 DEF Row, RowState
  <2>3. row[i].state \notin {"committed", "duplicate", "absent"}
    BY <1>1 DEF AdminReprocess
  <2> HIDE DEF q
  <2> QED  BY <2>1, <2>2, <2>3, RowEdited
<1>2. CASE AdminResolve(i)
  <2> DEFINE q == [row[i] EXCEPT !.resolution = "settled"]
  <2>1. row' = [row EXCEPT ![i] = q] /\ UNCHANGED <<conflicts, effects>>
    BY <1>2 DEF AdminResolve
  <2>2. q \in Row /\ q.state = row[i].state /\ q.hash = row[i].hash
    BY <1>0 DEF Row
  <2> HIDE DEF q
  <2> QED  BY <1>0, <2>1, <2>2, RowEdited DEF RowOK
<1> QED  BY <1>1, <1>2

\* The reprocessor.
LEMMA ReprocessorRows ==
  ASSUME RowsInv, Reprocessor
  PROVE  RowsInv' /\ RowsPreserved
<1>1. CASE ReprocessList \/ ReprocessStops
  BY <1>1, RowsAlone DEF ReprocessList, ReprocessStops, serverVars, RowsInv
<1>2. CASE \E i \in Item : ReprocessReopen(i)
  BY <1>2, ReopenRows
<1>3. CASE \E i \in Item : \E o \in ApplyOutcome(i) : ReprocessApply(i, o)
  BY <1>3, ApplyRows DEF ReprocessApply
<1> QED  BY <1>1, <1>2, <1>3 DEF Reprocessor

\* What the pull has read of the rows.
NewsOK == news \in [Item -> News] /\ early \in SUBSET {"skipped", "missed"}

LEMMA StampedType ==
  ASSUME NewsOK, NEW i \in Item, NEW p \in SUBSET News, UNCHANGED early,
         UNCHANGED news \/ Stamped(i, p)
  PROVE  NewsOK'
  BY DEF NewsOK, Stamped

LEMMA PlacesType ==
  ASSUME NewsOK
  PROVE  Places \in SUBSET News
  BY DEF NewsOK, Places, News

\* A page that is read, stored or lost leaves each row in one of the places.
LEMMA PageType ==
  ASSUME NewsOK, (\E S : PageTaken(S)) \/ PageStored \/ PageDropped
  PROVE  NewsOK'
<1>1. CASE \E S : PageTaken(S)
  BY <1>1 DEF NewsOK, PageTaken, News
<1>2. CASE PageStored
  BY <1>2 DEF NewsOK, PageStored, News
<1>3. CASE PageDropped
  BY <1>3 DEF NewsOK, PageDropped, News
<1> QED  BY <1>1, <1>2, <1>3

\* The variables around the rows keep their types, whatever the step.
LEMMA AroundRows ==
  ASSUME LedgerTypeOK, LedgerNext
  PROVE  /\ NewsOK'
         /\ landed' \in SUBSET (Caller \X Item)
         /\ picked' \in SUBSET Item
         /\ reopened' \in SUBSET Item
<1>0. NewsOK /\ Places \in SUBSET News
  BY PlacesType DEF NewsOK, LedgerTypeOK
<1>1. ASSUME NEW c \in Caller, NEW i \in Item, NEW h, Land(c, i, h, Places)
      PROVE  /\ NewsOK'
             /\ landed' \in SUBSET (Caller \X Item)
             /\ picked' \in SUBSET Item
             /\ reopened' \in SUBSET Item
  <2>1. NewsOK'  BY <1>0, <1>1, StampedType DEF Land
  <2> QED  BY <1>1, <2>1 DEF Land, LedgerTypeOK
<1>2. ASSUME NEW i \in Item, NEW o, ApplyRow(i, o, Places)
      PROVE  NewsOK'
  BY <1>0, <1>2, StampedType DEF ApplyRow
<1>3. CASE Requests
  <2>1. PICK c \in Caller, i \in Item :
          \/ Land(c, i, ServerHash(i), Places)
          \/ Land(c, i, "foreign", Places)
          \/ \E o \in ApplyOutcome(i) : ApplyLanded(c, i, o, Places)
          \/ AbandonLanded(c, i)
    BY <1>3 DEF Requests
  <2>2. CASE Land(c, i, ServerHash(i), Places) \/ Land(c, i, "foreign", Places)
    BY <2>2, <1>1
  <2>3. CASE \E o \in ApplyOutcome(i) : ApplyLanded(c, i, o, Places)
    BY <2>3, <1>2 DEF ApplyLanded, workerVars, LedgerTypeOK
  <2>4. CASE AbandonLanded(c, i)
    BY <1>0, <2>4 DEF AbandonLanded, serverVars, workerVars, pullPlaces, LedgerTypeOK, NewsOK
  <2> QED  BY <2>1, <2>2, <2>3, <2>4
<1>4. CASE Reprocessor
  <2>1. CASE ReprocessList
    BY <1>0, <2>1 DEF ReprocessList, serverVars, pullPlaces, LedgerTypeOK, NewsOK
  <2>2. CASE \E i \in Item : ReprocessReopen(i)
    <3>1. NewsOK'  BY <1>0, <2>2, StampedType DEF ReprocessReopen
    <3> QED  BY <2>2, <3>1 DEF ReprocessReopen, LedgerTypeOK
  <2>3. CASE \E i \in Item : \E o \in ApplyOutcome(i) : ReprocessApply(i, o)
    BY <2>3, <1>2 DEF ReprocessApply, LedgerTypeOK
  <2>4. CASE ReprocessStops
    BY <1>0, <2>4 DEF ReprocessStops, serverVars, pullPlaces, LedgerTypeOK, NewsOK
  <2> QED  BY <1>4, <2>1, <2>2, <2>3, <2>4 DEF Reprocessor
<1>5. CASE Admin
  <2>1. NewsOK'  BY <1>0, <1>5, StampedType DEF Admin, AdminReprocess, AdminResolve
  <2> QED  BY <1>5, <2>1 DEF Admin, AdminReprocess, AdminResolve, LedgerTypeOK
<1> QED  BY <1>3, <1>4, <1>5 DEF LedgerNext

\* Every step of the ledger keeps the invariant of the rows, and takes
\* nothing back.
LEMMA NextRows ==
  ASSUME RowsInv, LedgerNext
  PROVE  RowsInv' /\ RowsPreserved
<1>1. CASE Requests
  <2>1. PICK c \in Caller, i \in Item :
          \/ Land(c, i, ServerHash(i), Places)
          \/ Land(c, i, "foreign", Places)
          \/ \E o \in ApplyOutcome(i) : ApplyLanded(c, i, o, Places)
          \/ AbandonLanded(c, i)
    BY <1>1 DEF Requests
  <2>2. CASE Land(c, i, ServerHash(i), Places)
    BY <2>2, LandRows, ServerHashType
  <2>3. CASE Land(c, i, "foreign", Places)
    BY <2>3, LandRows DEF Hash
  <2>4. CASE \E o \in ApplyOutcome(i) : ApplyLanded(c, i, o, Places)
    BY <2>4, ApplyRows DEF ApplyLanded
  <2>5. CASE AbandonLanded(c, i)
    BY <2>5, RowsAlone DEF AbandonLanded, serverVars, RowsInv
  <2> QED  BY <2>1, <2>2, <2>3, <2>4, <2>5
<1>2. CASE Reprocessor
  BY <1>2, ReprocessorRows
<1>3. CASE Admin
  BY <1>3, AdminRows DEF Admin
<1> QED  BY <1>1, <1>2, <1>3 DEF LedgerNext

-----------------------------------------------------------------------------
(* What arrives at the server. *)

\* The step brings nothing of j to the server, and takes nothing away.
Settled(j) ==
  /\ row'[j].hash = row[j].hash
  /\ row'[j].state = "absent" <=> row[j].state = "absent"
  /\ \A h \in Hash : <<j, h>> \in conflicts' <=> <<j, h>> \in conflicts

\* A payload that lands is kept.
LEMMA LandKeeps ==
  ASSUME RowsInv, NEW c, NEW i \in Item, NEW h \in Hash, NEW p,
         Land(c, i, h, p)
  PROVE  Kept(i, h)' /\ row'[i].state # "absent"
<1>1. CASE LandOutcome(i, h) = "new"
  BY <1>1 DEF Land, RowsInv, NoRow, Kept
<1>2. CASE LandOutcome(i, h) = "conflict"
  BY <1>2 DEF Land, KeptBeside, LandOutcome, Kept
<1>3. CASE LandOutcome(i, h) \notin {"new", "conflict"}
  BY <1>3 DEF Land, LandOutcome, Kept
<1> QED  BY <1>1, <1>2, <1>3

\* It brings nothing else.
LEMMA LandSettles ==
  ASSUME RowsInv, NEW c, NEW i \in Item, NEW h \in Hash, NEW p,
         Land(c, i, h, p)
  PROVE  /\ \A j \in Item \ {i} : Settled(j)
         /\ \A g \in Hash \ {h} : Kept(i, g) <=> Kept(i, g)'
<1>1. CASE LandOutcome(i, h) = "new"
  <2>1. row[i].state = "absent" /\ row[i].hash = "none"
    BY <1>1 DEF LandOutcome, RowsInv, RowOK
  <2>2. row' = [row EXCEPT ![i] = [NoRow EXCEPT !.state = "received", !.hash = h]]
    BY <1>1 DEF Land
  <2>3. row'[i].hash = h /\ \A j \in Item \ {i} : row'[j] = row[j]
    BY <2>2 DEF RowsInv, NoRow
  <2>4. conflicts' = conflicts  BY <1>1 DEF Land, KeptBeside
  <2>5. "none" \notin Hash  BY DEF Hash
  <2> QED  BY <2>1, <2>3, <2>4, <2>5 DEF Settled, Kept
<1>2. CASE LandOutcome(i, h) # "new"
  <2>1. row' = row  BY <1>2 DEF Land
  <2>2. conflicts' = conflicts \/ conflicts' = conflicts \cup {<<i, h>>}
    BY DEF Land, KeptBeside
  <2>3. \A j \in Item : \A g \in Hash :
          (j # i \/ g # h) => (<<j, g>> \in conflicts' <=> <<j, g>> \in conflicts)
    BY <2>2
  <2> QED  BY <2>1, <2>3 DEF Settled, Kept
<1> QED  BY <1>1, <1>2

\* Applying brings nothing.
LEMMA ApplySettles ==
  ASSUME RowsInv, NEW i \in Item, NEW o, NEW p, ApplyRow(i, o, p), NEW j \in Item
  PROVE  Settled(j)
<1>1. row[i] \in Row /\ UNCHANGED conflicts /\ o \in ApplyOutcome(i)
  BY DEF RowsInv, ApplyRow
<1>2. row' = [row EXCEPT ![i] = AppliedRow(row[i], o)]
  BY DEF ApplyRow
<1>3. o \in {"error", "hold", "deferred"} \cup Finished
  BY <1>1, ApplyOutcomeType DEF RowsInv
<1>4. /\ AppliedRow(row[i], o).hash = row[i].hash
      /\ AppliedRow(row[i], o).state = "absent" <=> row[i].state = "absent"
  <2>1. CASE row[i].state = "absent"
    <3>1. o = "error"  BY <1>1, <2>1 DEF ApplyOutcome
    <3> QED  BY <3>1 DEF AppliedRow
  <2>2. CASE row[i].state # "absent"
    BY <1>1, <1>3, <2>2 DEF AppliedRow, Row, Finished
  <2> QED  BY <2>1, <2>2
<1>5. CASE j = i
  <2>1. row'[j] = AppliedRow(row[i], o)  BY <1>2, <1>5 DEF RowsInv
  <2> QED  BY <1>1, <1>4, <1>5, <2>1 DEF Settled
<1>6. CASE j # i
  <2>1. row'[j] = row[j]  BY <1>2, <1>6 DEF RowsInv
  <2> QED  BY <1>1, <2>1 DEF Settled
<1> QED  BY <1>5, <1>6

\* Neither does the worker, nor the admin.
LEMMA WorkerSettles ==
  ASSUME RowsInv, Reprocessor, NEW j \in Item
  PROVE  Settled(j)
<1>1. CASE ReprocessList \/ ReprocessStops
  BY <1>1 DEF ReprocessList, ReprocessStops, serverVars, Settled
<1>2. CASE \E i \in Item : ReprocessReopen(i)
  BY <1>2 DEF ReprocessReopen, RowsInv, Row, Settled
<1>3. CASE \E i \in Item : \E o \in ApplyOutcome(i) : ReprocessApply(i, o)
  BY <1>3, ApplySettles DEF ReprocessApply
<1> QED  BY <1>1, <1>2, <1>3 DEF Reprocessor

\* The admin brings nothing to the server.
LEMMA AdminSettles ==
  ASSUME RowsInv, NEW i \in Item, AdminReprocess(i) \/ AdminResolve(i),
         NEW j \in Item
  PROVE  Settled(j)
<1>1. row[i] \in Row /\ UNCHANGED conflicts
  BY DEF RowsInv, AdminReprocess, AdminResolve
<1>2. CASE AdminReprocess(i)
  BY <1>1, <1>2 DEF AdminReprocess, RowsInv, Row, Settled
<1>3. CASE AdminResolve(i)
  BY <1>1, <1>3 DEF AdminResolve, RowsInv, Row, Settled
<1> QED  BY <1>2, <1>3

-----------------------------------------------------------------------------
(* Theorems. *)

\* A payload kept in the row or beside it stays there.
LEMMA KeptStays ==
  ASSUME RowsInv, RowsPreserved, NEW i \in Item, NEW h \in Hash, Kept(i, h)
  PROVE  Kept(i, h)'
<1>1. CASE row[i].hash = h
  <2>1. row[i].state # "absent"  BY <1>1 DEF RowsInv, RowOK, Hash
  <2> QED  BY <1>1, <2>1 DEF RowsPreserved, Preserved, Kept
<1>2. CASE <<i, h>> \in conflicts
  BY <1>2 DEF RowsPreserved, Kept
<1> QED  BY <1>1, <1>2 DEF Kept

\* The ledger, open to every request, keeps its invariant.
THEOREM LedgerInvariant == LedgerSpec => []LedgerInv
<1>1. LedgerInit => LedgerInv
  BY DEF LedgerInit, LedgerInv, LedgerTypeOK, News, RowsInv, RowOK, NoRow, Row,
         RowState, Finished
<1>2. LedgerInv /\ [LedgerNext]_ledgerVars => LedgerInv'
  <2> SUFFICES ASSUME LedgerInv, [LedgerNext]_ledgerVars PROVE LedgerInv'
    OBVIOUS
  <2>1. CASE LedgerNext
    <3>1. RowsInv'  BY <2>1, NextRows DEF LedgerInv
    <3>2. row' \in [Item -> Row] /\ conflicts' \in SUBSET (Item \X Hash)
      BY <3>1 DEF RowsInv
    <3>3. effects' \in [Item -> Nat]  BY <3>1 DEF RowsInv
    <3>4. LedgerTypeOK'
      BY <2>1, <3>2, <3>3, AroundRows DEF LedgerTypeOK, LedgerInv, NewsOK
    <3> QED  BY <3>1, <3>4 DEF LedgerInv
  <2>2. CASE UNCHANGED ledgerVars
    BY <2>2 DEF ledgerVars, LedgerInv, LedgerTypeOK, RowsInv, RowOK
  <2> QED  BY <2>1, <2>2
<1> QED  BY <1>1, <1>2, PTL DEF LedgerSpec

\* Its variables keep their types.
THEOREM LedgerTypeCorrect == LedgerSpec => []LedgerTypeOK
<1>1. LedgerInv => LedgerTypeOK  BY DEF LedgerInv
<1> QED  BY <1>1, LedgerInvariant, PTL

\* However often an envelope is posted, retried, picked by the reprocessor or
\* put back by an admin, its domain writes are made at most once.
THEOREM EffectOnce == LedgerSpec => []AppliedOnce
<1>1. LedgerInv => AppliedOnce
  BY DEF LedgerInv, RowsInv, AppliedOnce
<1> QED  BY <1>1, LedgerInvariant, PTL

\* A row says committed exactly when its domain writes were made.
THEOREM CommittedIffApplied == LedgerSpec => []CommittedMeansApplied
<1>1. LedgerInv => CommittedMeansApplied
  BY DEF LedgerInv, RowsInv, RowOK, CommittedMeansApplied
<1> QED  BY <1>1, LedgerInvariant, PTL

\* Nothing takes a committed or duplicate envelope back.
THEOREM CommittedStays == LedgerSpec => CommittedIsFinal
<1>1. ASSUME LedgerInv, [LedgerNext]_ledgerVars
      PROVE  [\A i \in Item : row[i].state \in {"committed", "duplicate"}
                 => row'[i].state = row[i].state]_ledgerVars
  BY <1>1, NextRows DEF LedgerInv, RowsPreserved, Preserved
<1> QED  BY <1>1, LedgerInvariant, PTL DEF LedgerSpec, CommittedIsFinal

\* Nothing takes away a payload the server once took.
THEOREM PayloadsStay == LedgerSpec => PayloadsKept
<1>1. ASSUME LedgerInv, [LedgerNext]_ledgerVars
      PROVE  [\A i \in Item, h \in Hash : Kept(i, h) => Kept(i, h)']_ledgerVars
  BY <1>1, NextRows, KeptStays DEF LedgerInv
<1> QED  BY <1>1, LedgerInvariant, PTL DEF LedgerSpec, PayloadsKept

=============================================================================
