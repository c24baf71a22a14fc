---------------------------- MODULE EvidenceProofs ----------------------------
(***************************************************************************)
(* The evidence of an inspection, for any number of items, drains and      *)
(* requests: what is checked on two items is proved here (Evidence).       *)
(***************************************************************************)
EXTENDS Evidence, FiniteSetTheorems, TLAPS

Up == {"none", "pending", "uploaded", "verified", "quarantined"}
Object == {"none", "good", "bad"}
RowRec == [up : Up, inManifest : BOOLEAN, replica : {"none", "replicated", "failed"}]
DevRec == [state : {"local_only", "uploaded", "verified", "quarantined"}, bytes : BOOLEAN]
MessageRec == [state : {"none", "visible", "leased", "done"}, reads : Nat, dead : BOOLEAN]
InspRec == [status : {"in_progress", "submitted", "verifying", "under_review",
                      "integrity_failed"},
            received : Nat, verified : Nat]
TxnRec == [kind : {"none", "meta", "submit", "uploaded", "sweep", "verify", "replicate"},
           e : E \cup {Idle.e},
           phase : {"idle", "reads", "fetched", "waits", "holds", "job", "locked"},
           to : {"none", "uploaded", "verified", "quarantined"},
           sees : BOOLEAN, reads : Nat, received : Nat, verified : Nat]

DataType ==
  /\ dev \in [E -> DevRec] /\ obj \in [E -> Object] /\ copy \in [E -> Object]
  /\ ev \in [E -> RowRec] /\ insp \in InspRec
  /\ verify \in [E -> MessageRec] /\ replic \in [E -> MessageRec]
TxnType == txn \in [Actor -> TxnRec]

\* A decision has been made.
Decided(e) == ev[e].up \in {"verified", "quarantined"}

\* A transaction in these phases has its evidence row locked.
Locks == {"waits", "holds"}

-----------------------------------------------------------------------------
(* The invariant. *)

\* What a transaction t goes by: what it read of its row still holds, and a
\* count that is complete counted every item.
TxnOK(t) ==
  /\ t.kind = "none" => t.phase = "idle"
  /\ t.kind = "meta" => t.e \in E /\ t.phase = "reads" /\ <<"meta", t.e>> \in out
  /\ t.kind = "submit" => t.phase \in {"job", "locked"}
  /\ t.kind \in {"uploaded", "sweep"} =>
       t.e \in E /\ t.phase \in Locks /\ t.to = "uploaded" /\ ev[t.e].up = "pending"
  /\ t.kind = "verify" =>
       /\ t.e \in E /\ t.phase \in {"reads", "fetched", "waits", "holds"}
       /\ ev[t.e].up \notin {"none", "pending"}
       /\ t.phase = "reads" /\ t.sees => Decided(t.e)
       /\ t.phase # "reads" => t.to # "uploaded" /\ (t.to = "verified" => obj[t.e] = "good")
       /\ t.phase \in Locks => t.to # "none" /\ ev[t.e].up = "uploaded"
  /\ t.kind = "replicate" =>
       /\ t.e \in E /\ t.phase \in {"reads", "fetched"} /\ ev[t.e].up = "verified"
       /\ t.phase = "reads" /\ t.sees => ev[t.e].replica # "none"
  /\ t.phase \in Locks /\ t.verified >= Cardinality(E) =>
       \A f \in E : ev[f].up = "verified" \/ (f = t.e /\ t.to = "verified")

\* One transaction has a row locked, and one request brings a record.
AloneInv ==
  /\ \A a, b \in Actor :
       a # b => /\ ~(txn[a].phase \in Locks /\ txn[b].phase \in Locks /\ txn[a].e = txn[b].e)
                /\ ~(txn[a].kind = "meta" /\ txn[b].kind = "meta" /\ txn[a].e = txn[b].e)
  /\ \A a \in Actor : txn[a].kind = "meta" => a \in Request

\* What a row says of the object, the messages and the phone.
RowInv ==
  \A e \in E :
    /\ <<"meta", e>> \in out => ev[e].up = "none"
    /\ ev[e].up = "verified" => obj[e] = "good"
    /\ verify[e].state # "none" => ev[e].up \notin {"none", "pending"}
    /\ replic[e].state # "none" => ev[e].up = "verified"
    /\ ~dev[e].bytes => ev[e].up = "verified"

ReviewInv == insp.status = "under_review" => \A e \in E : ev[e].up = "verified"

IInv ==
  /\ DataType /\ TxnType /\ RowInv /\ AloneInv /\ ReviewInv /\ NothingForgotten
  /\ \A a \in Actor : TxnOK(txn[a])

\* A row moves forward; what was uploaded stays as it is, what was copied is
\* recorded for good.
MovesUp(u, v) ==
  \/ u = v
  \/ u = "none" /\ v = "pending"
  \/ u = "pending" /\ v = "uploaded"
  \/ u = "uploaded" /\ v \in {"verified", "quarantined"}
Forward ==
  \A e \in E :
    /\ MovesUp(ev[e].up, ev'[e].up)
    /\ ev[e].up # "none" /\ ev[e].replica # "none" => ev'[e].replica # "none"
    /\ obj[e] # "none" => obj'[e] = obj[e]
    /\ Decided(e) /\ replic[e].state = "done" => replic'[e].state = "done"

\* What a step has to show.
StepOK == IInv' /\ Forward

-----------------------------------------------------------------------------
(* What a step leaves to the other transactions. *)

\* A transaction that is not of this step goes by what it went by, unless the
\* step takes its row or its envelope from it.
LEMMA OtherOK ==
  ASSUME IInv, Forward, NEW b \in Actor, txn'[b] = txn[b],
         txn[b].phase \in Locks => ev'[txn[b].e].up = ev[txn[b].e].up,
         txn[b].kind = "meta" => <<"meta", txn[b].e>> \in out'
  PROVE  TxnOK(txn[b])'
<1> DEFINE t == txn[b]
<1>1. TxnOK(t) /\ t' = t
  BY DEF IInv
<1>2. ASSUME NEW e \in E PROVE ev[e].up = "verified" => ev'[e].up = "verified"
  BY DEF Forward, MovesUp
<1> HIDE DEF t
<1>3. t.phase \in Locks /\ t.verified >= Cardinality(E) =>
        \A f \in E : ev'[f].up = "verified" \/ (f = t.e /\ t.to = "verified")
  BY <1>1, <1>2 DEF TxnOK
<1>4. t.kind = "meta" => t.e \in E /\ t.phase = "reads" /\ <<"meta", t.e>> \in out'
  BY <1>1 DEF TxnOK, t
<1>5. t.kind \in {"uploaded", "sweep"} =>
        t.e \in E /\ t.phase \in Locks /\ t.to = "uploaded" /\ ev'[t.e].up = "pending"
  BY <1>1 DEF TxnOK, t
<1>6. t.kind = "verify" =>
       /\ t.e \in E /\ t.phase \in {"reads", "fetched", "waits", "holds"}
       /\ ev'[t.e].up \notin {"none", "pending"}
       /\ t.phase = "reads" /\ t.sees => ev'[t.e].up \in {"verified", "quarantined"}
       /\ t.phase # "reads" => t.to # "uploaded" /\ (t.to = "verified" => obj'[t.e] = "good")
       /\ t.phase \in Locks => t.to # "none" /\ ev'[t.e].up = "uploaded"
  <2>1. SUFFICES ASSUME t.kind = "verify"
                 PROVE  /\ t.e \in E /\ t.phase \in {"reads", "fetched", "waits", "holds"}
                        /\ ev'[t.e].up \notin {"none", "pending"}
                        /\ t.phase = "reads" /\ t.sees =>
                             ev'[t.e].up \in {"verified", "quarantined"}
                        /\ t.phase # "reads" =>
                             t.to # "uploaded" /\ (t.to = "verified" => obj'[t.e] = "good")
                        /\ t.phase \in Locks => t.to # "none" /\ ev'[t.e].up = "uploaded"
    OBVIOUS
  <2>2. t.e \in E /\ t.phase \in {"reads", "fetched", "waits", "holds"}
    BY <1>1, <2>1 DEF TxnOK
  <2>3. ev'[t.e].up \notin {"none", "pending"}
        /\ (t.phase = "reads" /\ t.sees => ev'[t.e].up \in {"verified", "quarantined"})
    BY <1>1, <2>1, <2>2 DEF TxnOK, Forward, MovesUp, Decided
  <2>4. t.phase # "reads" => t.to # "uploaded" /\ (t.to = "verified" => obj'[t.e] = "good")
    BY <1>1, <2>1, <2>2 DEF TxnOK, Forward
  <2>5. t.phase \in Locks => t.to # "none" /\ ev'[t.e].up = "uploaded"
    BY <1>1, <2>1, <2>2 DEF TxnOK, t
  <2> QED BY <2>2, <2>3, <2>4, <2>5
<1>7. t.kind = "replicate" =>
       /\ t.e \in E /\ t.phase \in {"reads", "fetched"} /\ ev'[t.e].up = "verified"
       /\ t.phase = "reads" /\ t.sees => ev'[t.e].replica # "none"
  BY <1>1, <1>2 DEF TxnOK, Forward
<1>8. (t.kind = "none" => t.phase = "idle") /\ (t.kind = "submit" => t.phase \in {"job", "locked"})
  BY <1>1 DEF TxnOK
<1>9. TxnOK(t)'
  BY <1>1, <1>3, <1>4, <1>5, <1>6, <1>7, <1>8 DEF TxnOK, Decided
<1> QED BY <1>9 DEF t

\* A step that is no transaction's.
LEMMA OutsideOK ==
  ASSUME IInv, UNCHANGED <<txn, ev, insp>>, DataType', RowInv', NothingForgotten', Forward,
         \A e \in E : <<"meta", e>> \in out => <<"meta", e>> \in out'
  PROVE  StepOK
<1>1. \A b \in Actor : TxnOK(txn[b])'
  BY OtherOK DEF IInv, TxnOK
<1> QED BY <1>1 DEF StepOK, IInv, TxnType, AloneInv, ReviewInv

\* The rows that a step of a leaves to the others, and what it may take.
Owned(a) ==
  \A b \in Actor \ {a} :
    /\ txn'[b] = txn[b]
    /\ txn[b].phase \in Locks => ev'[txn[b].e].up = ev[txn[b].e].up
    /\ txn[b].kind = "meta" => <<"meta", txn[b].e>> \in out'
Fresh(a) ==
  /\ txn'[a].phase \in Locks =>
       (txn[a].phase \in Locks /\ txn'[a].e = txn[a].e) \/ ~EvidenceLocked(txn'[a].e)
  /\ txn'[a].kind = "meta" =>
       /\ a \in Request
       /\ \A b \in Actor \ {a} : txn[b].kind = "meta" => txn[b].e # txn'[a].e

\* A step of a transaction.
LEMMA InsideOK ==
  ASSUME IInv, NEW a \in Actor, DataType', TxnType', RowInv', ReviewInv', NothingForgotten',
         Forward, Owned(a), Fresh(a), TxnOK(txn[a])'
  PROVE  StepOK
<1>1. \A b \in Actor : TxnOK(txn[b])'
  <2>1. ASSUME NEW b \in Actor \ {a} PROVE TxnOK(txn[b])'
    BY OtherOK DEF Owned
  <2> QED BY <2>1
<1>2. AloneInv'
  <2>1. ASSUME NEW b \in Actor \ {a}
        PROVE  /\ ~(txn'[a].phase \in Locks /\ txn[b].phase \in Locks /\ txn'[a].e = txn[b].e)
               /\ ~(txn'[a].kind = "meta" /\ txn[b].kind = "meta" /\ txn'[a].e = txn[b].e)
    BY DEF IInv, AloneInv, Fresh, EvidenceLocked, Locks
  <2>2. \A b \in Actor \ {a} : txn'[b] = txn[b]
    BY DEF Owned
  <2>3. \A b \in Actor : txn'[b].kind = "meta" => b \in Request
    BY <2>2 DEF IInv, AloneInv, Fresh
  <2>4. ASSUME NEW b \in Actor, NEW c \in Actor, b # c
        PROVE  /\ ~(txn'[b].phase \in Locks /\ txn'[c].phase \in Locks /\ txn'[b].e = txn'[c].e)
               /\ ~(txn'[b].kind = "meta" /\ txn'[c].kind = "meta" /\ txn'[b].e = txn'[c].e)
    <3>1. CASE b = a
      BY <2>1, <2>2, <2>4, <3>1
    <3>2. CASE c = a
      BY <2>1, <2>2, <2>4, <3>2
    <3>3. CASE b # a /\ c # a
      BY <2>2, <2>4, <3>3 DEF IInv, AloneInv
    <3> QED BY <3>1, <3>2, <3>3
  <2> QED BY <2>3, <2>4 DEF AloneInv
<1> QED BY <1>1, <1>2 DEF StepOK, IInv

\* One that changes nothing else.
LEMMA TxnOnlyOK ==
  ASSUME IInv, NEW a \in Actor, UNCHANGED <<dev, out, obj, copy, serverVars, queueVars>>,
         NEW t \in TxnRec, txn' = [txn EXCEPT ![a] = t], Fresh(a), TxnOK(txn[a])'
  PROVE  StepOK
<1>1. UNCHANGED <<dev, out, obj, copy, ev, insp, verify, replic>>
  BY DEF serverVars, queueVars
<1>2. DataType' /\ RowInv' /\ ReviewInv' /\ NothingForgotten' /\ Forward
  BY <1>1 DEF IInv, DataType, RowInv, ReviewInv, NothingForgotten, Forward, MovesUp
<1>3. TxnType' /\ \A b \in Actor \ {a} : txn'[b] = txn[b]
  BY DEF IInv, TxnType
<1>4. Owned(a)
  BY <1>1, <1>3 DEF Owned, IInv, TxnOK
<1> QED BY <1>2, <1>3, <1>4, InsideOK

\* One that ends, and changes nothing else.
LEMMA EndsOK ==
  ASSUME IInv, NEW a \in Actor, txn' = [txn EXCEPT ![a] = Idle]
  PROVE  /\ TxnType' /\ Fresh(a) /\ TxnOK(txn[a])'
         /\ \A b \in Actor \ {a} : txn'[b] = txn[b]
<1>1. Idle \in TxnRec
  BY DEF Idle, TxnRec
<1>2. txn'[a] = Idle /\ TxnType' /\ \A b \in Actor \ {a} : txn'[b] = txn[b]
  BY <1>1 DEF IInv, TxnType
<1>3. Idle.kind = "none" /\ Idle.phase = "idle"
  BY DEF Idle
<1>4. TxnOK(txn[a])'
  BY <1>2, <1>3 DEF TxnOK, Locks
<1> QED BY <1>2, <1>3, <1>4 DEF Fresh, Locks

-----------------------------------------------------------------------------
(* Counts. *)

\* The counts are numbers, and a complete one counted every item.
LEMMA Counted ==
  ASSUME NEW r
  PROVE  /\ Received(r) \in Nat /\ Verified(r) \in Nat
         /\ Verified(r) >= Cardinality(E) => \A e \in E : r[e].up = "verified"
<1> DEFINE R == {e \in E : r[e].inManifest /\ r[e].up \in {"uploaded", "verified", "quarantined"}}
           V == {e \in E : r[e].inManifest /\ r[e].up = "verified"}
<1>1. IsFiniteSet(E) /\ R \subseteq E /\ V \subseteq E
  BY EvidenceAssumption
<1>2. Received(r) = Cardinality(R) /\ Verified(r) = Cardinality(V)
  BY DEF Received, Verified
<1>3. V = E => \A e \in E : r[e].up = "verified"
  OBVIOUS
<1> HIDE DEF R, V
<1>4. /\ Cardinality(R) \in Nat /\ Cardinality(V) \in Nat /\ Cardinality(E) \in Nat
      /\ Cardinality(V) <= Cardinality(E) /\ (Cardinality(V) = Cardinality(E) => V = E)
  BY <1>1, FS_Subset, FS_CardinalityType
<1>5. Cardinality(V) >= Cardinality(E) => V = E
  BY <1>4
<1> QED BY <1>2, <1>3, <1>4, <1>5

\* A transaction that is about to move a row has it locked, and has counted.
LEMMA MovesLocks ==
  ASSUME IInv, NEW a \in Actor, NEW t \in TxnRec, NEW e \in E,
         NEW to \in {"uploaded", "verified", "quarantined"}, Moves(a, t, e, to)
  PROVE  \E n \in TxnRec :
           /\ txn' = [txn EXCEPT ![a] = n]
           /\ n.kind = t.kind /\ n.sees = t.sees /\ n.e = e /\ n.to = to /\ n.phase \in Locks
           /\ n.verified >= Cardinality(E) =>
                 \A f \in E : ev[f].up = "verified" \/ (f = e /\ to = "verified")
           /\ ~EvidenceLocked(e)
<1> DEFINE r == [ev EXCEPT ![e].up = to]
           ph == IF InspectionLocked THEN "waits" ELSE "holds"
           n == [t EXCEPT !.phase = ph, !.e = e, !.to = to, !.received = Received(r),
                          !.verified = Verified(r)]
<1>1. txn' = [txn EXCEPT ![a] = n] /\ ~EvidenceLocked(e)
  BY DEF Moves
<1>2. Received(r) \in Nat /\ Verified(r) \in Nat
      /\ (Verified(r) >= Cardinality(E) => \A f \in E : r[f].up = "verified")
  BY Counted
<1>3. \A f \in E : r[f].up = "verified" => ev[f].up = "verified" \/ (f = e /\ to = "verified")
  BY DEF IInv, DataType, RowRec
<1>4. ph \in Locks
  BY DEF Locks
<1> HIDE DEF ph, r
<1>5. n \in TxnRec
  BY <1>2, <1>4 DEF TxnRec, Locks
<1>6. /\ n.kind = t.kind /\ n.sees = t.sees /\ n.e = e /\ n.to = to /\ n.phase \in Locks
      /\ n.verified = Verified(r)
  BY <1>2, <1>4 DEF TxnRec
<1> HIDE DEF n
<1> QED BY <1>1, <1>2, <1>3, <1>5, <1>6

-----------------------------------------------------------------------------
(* The phone. *)

\* Uploading, recording that, and learning what became of it.
LEMMA DeviceOK ==
  ASSUME IInv, DeviceStep
  PROVE  StepOK
<1>1. PICK e \in E : Upload(e) \/ RecordUploaded(e) \/ LearnState(e)
  BY DEF DeviceStep
<1>2. dev \in [E -> DevRec] /\ obj \in [E -> Object] /\ ev[e].up \in Up
  BY DEF IInv, DataType, RowRec
<1>3. CASE Upload(e)
  <2>1. PICK b \in {"good", "bad"} : obj' = [obj EXCEPT ![e] = b]
    BY <1>3 DEF Upload
  <2>2. obj[e] = "none" /\ UNCHANGED <<dev, out, copy, ev, insp, verify, replic, txn>>
    BY <1>3 DEF Upload, serverVars, queueVars
  <2>3. DataType' /\ NothingForgotten'
    BY <1>2, <2>1, <2>2 DEF IInv, DataType, Object, NothingForgotten
  <2>4. RowInv' /\ Forward
    BY <1>2, <2>1, <2>2 DEF IInv, RowInv, Forward, MovesUp
  <2> QED BY <2>2, <2>3, <2>4, OutsideOK
<1>4. CASE RecordUploaded(e)
  <2>1. /\ dev' = [dev EXCEPT ![e].state = "uploaded"] /\ out' = out \cup {<<"uploaded", e>>}
        /\ UNCHANGED <<obj, copy, ev, insp, verify, replic, txn>>
    BY <1>4 DEF RecordUploaded, serverVars, queueVars
  <2>2. dev' \in [E -> DevRec] /\ \A f \in E : dev'[f].bytes = dev[f].bytes
    BY <1>2, <2>1 DEF DevRec
  <2>3. DataType' /\ NothingForgotten'
    BY <2>1, <2>2 DEF IInv, DataType, NothingForgotten
  <2>4. RowInv' /\ Forward
    BY <2>1, <2>2 DEF IInv, RowInv, Forward, MovesUp
  <2> QED BY <2>1, <2>3, <2>4, OutsideOK
<1>5. CASE LearnState(e)
  <2>1. /\ \/ ev[e].up = "verified"
              /\ dev' = [dev EXCEPT ![e] = [state |-> "verified", bytes |-> FALSE]]
           \/ dev' = [dev EXCEPT ![e].state = "quarantined"]
           \/ dev' = [dev EXCEPT ![e].state = "uploaded"]
        /\ UNCHANGED <<out, obj, copy, ev, insp, verify, replic, txn>>
    BY <1>5 DEF LearnState, serverVars, queueVars
  <2>2. /\ dev' \in [E -> DevRec]
        /\ \A f \in E : dev'[f].bytes = dev[f].bytes \/ ev[f].up = "verified"
    <3>1. CASE /\ ev[e].up = "verified"
               /\ dev' = [dev EXCEPT ![e] = [state |-> "verified", bytes |-> FALSE]]
      <4>1. [state |-> "verified", bytes |-> FALSE] \in DevRec
        BY DEF DevRec
      <4> QED BY <1>2, <3>1, <4>1
    <3>2. CASE dev' = [dev EXCEPT ![e].state = "quarantined"]
      BY <1>2, <3>2 DEF DevRec
    <3>3. CASE dev' = [dev EXCEPT ![e].state = "uploaded"]
      BY <1>2, <3>3 DEF DevRec
    <3> QED BY <2>1, <3>1, <3>2, <3>3
  <2>3. DataType' /\ NothingForgotten'
    BY <2>1, <2>2 DEF IInv, DataType, NothingForgotten
  <2>4. RowInv' /\ Forward
    BY <2>1, <2>2 DEF IInv, RowInv, Forward, MovesUp
  <2> QED BY <2>1, <2>3, <2>4, OutsideOK
<1> QED BY <1>1, <1>3, <1>4, <1>5

\* A lease that runs out.
LEMMA LeaseOK ==
  ASSUME IInv, NEW e \in E, LeaseEnds(e)
  PROVE  StepOK
<1>1. /\ \/ /\ verify[e].state = "leased"
            /\ verify' = [verify EXCEPT ![e].state = "visible"] /\ UNCHANGED replic
         \/ /\ replic[e].state = "leased"
            /\ replic' = [replic EXCEPT ![e].state = "visible"] /\ UNCHANGED verify
      /\ UNCHANGED <<dev, out, obj, copy, ev, insp, txn>>
  BY DEF LeaseEnds, serverVars
<1>2. verify \in [E -> MessageRec] /\ replic \in [E -> MessageRec]
  BY DEF IInv, DataType
<1>3. /\ verify' \in [E -> MessageRec] /\ replic' \in [E -> MessageRec]
      /\ \A f \in E : /\ verify'[f].dead = verify[f].dead
                      /\ \/ verify'[f].state = verify[f].state
                         \/ verify[f].state = "leased" /\ verify'[f].state = "visible"
                      /\ \/ replic'[f].state = replic[f].state
                         \/ replic[f].state = "leased" /\ replic'[f].state = "visible"
  <2>1. CASE /\ verify[e].state = "leased"
             /\ verify' = [verify EXCEPT ![e].state = "visible"] /\ UNCHANGED replic
    <3>1. [verify[e] EXCEPT !.state = "visible"] \in MessageRec
      BY <1>2 DEF MessageRec
    <3> QED BY <1>2, <2>1, <3>1
  <2>2. CASE /\ replic[e].state = "leased"
             /\ replic' = [replic EXCEPT ![e].state = "visible"] /\ UNCHANGED verify
    <3>1. [replic[e] EXCEPT !.state = "visible"] \in MessageRec
      BY <1>2 DEF MessageRec
    <3> QED BY <1>2, <2>2, <3>1
  <2> QED BY <1>1, <2>1, <2>2
<1>4. DataType' /\ NothingForgotten' /\ RowInv'
  BY <1>1, <1>3 DEF IInv, DataType, NothingForgotten, RowInv
<1>5. Forward
  BY <1>1, <1>3 DEF Forward, MovesUp
<1> QED BY <1>1, <1>4, <1>5, OutsideOK

-----------------------------------------------------------------------------
(* Requests and the drains' reads. *)

\* The transaction a has, and one it begins.
LEMMA Fields ==
  ASSUME IInv, NEW a \in Actor
  PROVE  txn[a] \in TxnRec /\ TxnOK(txn[a]) /\ Idle \in TxnRec
BY DEF IInv, TxnType, Idle, TxnRec

\* A transaction that reads takes no row.
LEMMA ReadsFresh ==
  ASSUME NEW a \in Actor, txn'[a].phase \notin Locks, txn'[a].kind # "meta"
  PROVE  Fresh(a)
BY DEF Fresh

\* The record of an item is read.
LEMMA MetaReadsOK ==
  ASSUME IInv, NEW a \in Request, NEW e \in E, MetaReads(a, e)
  PROVE  StepOK
<1>1. a \in Actor
  BY DEF Actor
<1> DEFINE t == [Idle EXCEPT !.kind = "meta", !.e = e, !.phase = "reads", !.sees = Submitted]
<1>2. /\ <<"meta", e>> \in out /\ ~Working(<<"meta", e>>) /\ txn' = [txn EXCEPT ![a] = t]
      /\ UNCHANGED <<dev, out, obj, copy, serverVars, queueVars>>
  BY DEF MetaReads, Begins
<1>3. Submitted \in BOOLEAN
  BY DEF Submitted
<1>4. t \in TxnRec /\ t.kind = "meta" /\ t.e = e /\ t.phase = "reads"
  BY <1>3 DEF Idle, TxnRec
<1> HIDE DEF t
<1>5. txn'[a] = t
  BY <1>1, <1>2 DEF IInv, TxnType
<1>6. Fresh(a)
  <2>1. ASSUME NEW b \in Actor \ {a}, txn[b].kind = "meta" PROVE txn[b].e # e
    BY <1>2, <2>1 DEF Working, IInv, AloneInv
  <2> QED BY <1>4, <1>5, <2>1 DEF Fresh, Locks
<1>7. TxnOK(txn[a])'
  BY <1>2, <1>4, <1>5 DEF TxnOK, Locks
<1> QED BY <1>1, <1>2, <1>4, <1>6, <1>7, TxnOnlyOK

\* The record is inserted: its row was not there.
LEMMA MetaInsertsOK ==
  ASSUME IInv, NEW a \in Actor, MetaInserts(a)
  PROVE  StepOK
<1> DEFINE e == txn[a].e
<1>1. /\ ev' = [ev EXCEPT ![e] = [up |-> "pending", inManifest |-> txn[a].sees,
                                  replica |-> "none"]]
      /\ out' = out \ {<<"meta", e>>} /\ txn' = [txn EXCEPT ![a] = Idle]
      /\ txn[a].kind = "meta" /\ UNCHANGED <<dev, obj, copy, insp, verify, replic>>
  BY DEF MetaInserts, queueVars
<1>2. e \in E /\ ev[e].up = "none" /\ txn[a].sees \in BOOLEAN
  BY <1>1, Fields DEF TxnOK, TxnRec, IInv, RowInv
<1>3. \A b \in Actor \ {a} : txn[b].kind = "meta" => txn[b].e # e
  BY <1>1 DEF IInv, AloneInv
<1> HIDE DEF e
<1>4. /\ ev' \in [E -> RowRec] /\ ev'[e].up = "pending"
      /\ \A f \in E \ {e} : ev'[f] = ev[f]
  BY <1>1, <1>2 DEF IInv, DataType, RowRec, Up
<1>5. DataType' /\ RowInv' /\ ReviewInv' /\ NothingForgotten'
  <2>1. DataType'
    BY <1>1, <1>4 DEF IInv, DataType
  <2>2. RowInv'
    BY <1>1, <1>2, <1>4 DEF IInv, RowInv
  <2>3. ReviewInv' /\ NothingForgotten'
    BY <1>1, <1>2, <1>4 DEF IInv, ReviewInv, NothingForgotten
  <2> QED BY <2>1, <2>2, <2>3
<1>6. Forward
  BY <1>1, <1>2, <1>4 DEF Forward, MovesUp
<1>7. /\ TxnType' /\ Fresh(a) /\ TxnOK(txn[a])'
      /\ \A b \in Actor \ {a} : txn'[b] = txn[b]
  BY <1>1, EndsOK
<1>8. Owned(a)
  <2>1. ASSUME NEW b \in Actor \ {a}
        PROVE  /\ txn[b].phase \in Locks => ev'[txn[b].e].up = ev[txn[b].e].up
               /\ txn[b].kind = "meta" => <<"meta", txn[b].e>> \in out'
    <3>1. TxnOK(txn[b]) /\ txn[b] \in TxnRec
      BY Fields
    <3>2. txn[b].phase \in Locks => txn[b].e \in E /\ txn[b].e # e
      BY <1>2, <3>1 DEF TxnOK, TxnRec, Locks
    <3>3. txn[b].kind = "meta" => <<"meta", txn[b].e>> \in out'
      BY <1>1, <1>3, <3>1 DEF TxnOK
    <3> QED BY <1>4, <3>2, <3>3
  <2> QED BY <1>7, <2>1 DEF Owned
<1> QED BY <1>5, <1>6, <1>7, <1>8, InsideOK

\* An item is said to be uploaded: its row is counted, or nothing is to do.
LEMMA UploadedOK ==
  ASSUME IInv, NEW a \in Request, NEW e \in E, UploadedApplied(a, e)
  PROVE  StepOK
<1>1. a \in Actor /\ txn[a] = Idle
  BY DEF Actor, UploadedApplied
<1>2. UNCHANGED <<dev, obj, copy, ev, insp, verify, replic>>
  BY DEF UploadedApplied, serverVars, queueVars
<1>3. CASE /\ ev[e].up = "pending" /\ UNCHANGED out
           /\ Moves(a, [Idle EXCEPT !.kind = "uploaded"], e, "uploaded")
  <2> DEFINE t == [Idle EXCEPT !.kind = "uploaded"]
  <2>1. t \in TxnRec /\ t.kind = "uploaded"
    BY DEF Idle, TxnRec
  <2> HIDE DEF t
  <2>2. Moves(a, t, e, "uploaded")
    BY <1>3 DEF t
  <2>3. PICK n \in TxnRec :
          /\ txn' = [txn EXCEPT ![a] = n]
          /\ n.kind = t.kind /\ n.e = e /\ n.to = "uploaded" /\ n.phase \in Locks
          /\ n.verified >= Cardinality(E) =>
                \A f \in E : ev[f].up = "verified" \/ (f = e /\ "uploaded" = "verified")
          /\ ~EvidenceLocked(e)
    BY <1>1, <2>1, <2>2, MovesLocks
  <2>4. txn'[a] = n
    BY <1>1, <2>3 DEF IInv, TxnType
  <2>5. Fresh(a) /\ TxnOK(txn[a])'
    BY <1>2, <1>3, <2>1, <2>3, <2>4 DEF Fresh, TxnOK
  <2> QED BY <1>1, <1>2, <1>3, <2>3, <2>5, TxnOnlyOK DEF serverVars, queueVars
<1>4. CASE UNCHANGED txn /\ out' = out \ {<<"uploaded", e>>}
  <2>1. DataType' /\ RowInv' /\ NothingForgotten' /\ Forward
    BY <1>2, <1>4 DEF IInv, DataType, RowInv, NothingForgotten, Forward, MovesUp
  <2> QED BY <1>2, <1>4, <2>1, OutsideOK
<1> QED BY <1>3, <1>4 DEF UploadedApplied

\* The submission takes its locks, and gives them back when it is aborted.
LEMMA SubmitLocksOK ==
  ASSUME IInv, NEW a \in Actor,
         SubmitLocksJob(a) \/ SubmitLocksInspection(a) \/ SubmitAborted(a)
  PROVE  StepOK
<1>1. txn[a] \in TxnRec /\ TxnOK(txn[a]) /\ Idle \in TxnRec
  BY Fields
<1>2. UNCHANGED <<dev, out, obj, copy, serverVars, queueVars>>
  BY DEF SubmitLocksJob, SubmitLocksInspection, SubmitAborted
<1>3. CASE SubmitLocksJob(a)
  <2> DEFINE t == [Idle EXCEPT !.kind = "submit", !.phase = "job"]
  <2>1. t \in TxnRec /\ t.kind = "submit" /\ t.phase = "job" /\ txn' = [txn EXCEPT ![a] = t]
    BY <1>3 DEF Idle, TxnRec, SubmitLocksJob, Begins
  <2> HIDE DEF t
  <2>2. txn'[a] = t
    BY <2>1 DEF IInv, TxnType
  <2>3. Fresh(a) /\ TxnOK(txn[a])'
    BY <2>1, <2>2 DEF Fresh, TxnOK, Locks
  <2> QED BY <1>2, <2>1, <2>3, TxnOnlyOK
<1>4. CASE SubmitLocksInspection(a)
  <2> DEFINE t == [txn[a] EXCEPT !.phase = "locked"]
  <2>1. txn' = [txn EXCEPT ![a] = t] /\ txn[a].phase = "job"
    BY <1>4 DEF SubmitLocksInspection
  <2>2. txn[a].kind = "submit"
    BY <1>1, <2>1 DEF TxnOK, TxnRec, Locks
  <2>3. t \in TxnRec /\ t.kind = "submit" /\ t.phase = "locked"
    BY <1>1, <2>2 DEF TxnRec
  <2> HIDE DEF t
  <2>4. txn'[a] = t
    BY <2>1 DEF IInv, TxnType
  <2>5. Fresh(a) /\ TxnOK(txn[a])'
    BY <2>3, <2>4 DEF Fresh, TxnOK, Locks
  <2> QED BY <1>2, <2>1, <2>3, <2>5, TxnOnlyOK
<1>5. CASE SubmitAborted(a)
  <2>1. txn' = [txn EXCEPT ![a] = Idle]
    BY <1>5 DEF SubmitAborted
  <2> QED BY <1>1, <1>2, <2>1, EndsOK, TxnOnlyOK
<1> QED BY <1>3, <1>4, <1>5

\* An inspection that a promotion brings to review has all its items.
LEMMA PromotedToReview ==
  ASSUME NEW i \in InspRec, NEW q \in BOOLEAN
  PROVE  /\ Promoted(i, q) \in InspRec
         /\ Promoted(i, q).status = "under_review" =>
              i.status = "under_review" \/ i.verified >= Cardinality(E)
<1> DEFINE c1 == q /\ i.status \in {"submitted", "verifying", "under_review"}
           c2 == /\ ~q /\ i.status \in {"submitted", "verifying"}
                 /\ i.verified >= Cardinality(E)
           c3 == /\ ~q /\ i.status = "submitted" /\ i.verified < Cardinality(E)
                 /\ i.received >= Cardinality(E)
<1>1. /\ [i EXCEPT !.status = "integrity_failed"] \in InspRec
      /\ [i EXCEPT !.status = "under_review"] \in InspRec
      /\ [i EXCEPT !.status = "verifying"] \in InspRec
      /\ [i EXCEPT !.status = "integrity_failed"].status = "integrity_failed"
      /\ [i EXCEPT !.status = "verifying"].status = "verifying"
  BY DEF InspRec
<1>2. CASE c1
  <2>1. Promoted(i, q) = [i EXCEPT !.status = "integrity_failed"]
    BY <1>2 DEF Promoted
  <2> QED BY <1>1, <2>1
<1>3. CASE c2 /\ ~c1
  <2>1. Promoted(i, q) = [i EXCEPT !.status = "under_review"]
    <3>1. i.verified \in Nat /\ Cardinality(E) \in Nat
      BY EvidenceAssumption, FS_CardinalityType DEF InspRec
    <3>2. ~(i.verified < Cardinality(E))
      BY <1>3, <3>1
    <3> QED BY <1>3, <3>2 DEF Promoted
  <2> QED BY <1>1, <1>3, <2>1
<1>4. CASE c3 /\ ~c1 /\ ~c2
  <2>1. Promoted(i, q) = [i EXCEPT !.status = "verifying"]
    BY <1>4 DEF Promoted
  <2> QED BY <1>1, <2>1
<1>5. CASE ~c1 /\ ~c2 /\ ~c3
  <2>1. Promoted(i, q) = i
    BY <1>5 DEF Promoted
  <2> QED BY <2>1
<1> QED BY <1>2, <1>3, <1>4, <1>5

\* The submission commits: it counts, and promotes by its count.
LEMMA SubmitCommitsOK ==
  ASSUME IInv, NEW a \in Actor, SubmitCommits(a)
  PROVE  StepOK
<1> DEFINE r == [e \in E |-> [ev[e] EXCEPT !.inManifest = ev[e].up # "none"]]
           i == [status |-> "submitted", received |-> Received(r), verified |-> Verified(r)]
<1>1. /\ ev' = r /\ insp' = Promoted(i, Quarantined(r)) /\ out' = out \ {<<"submit", 0>>}
      /\ txn' = [txn EXCEPT ![a] = Idle] /\ UNCHANGED <<dev, obj, copy, verify, replic>>
  BY DEF SubmitCommits, queueVars
<1>2. /\ r \in [E -> RowRec]
      /\ \A e \in E : r[e].up = ev[e].up /\ r[e].replica = ev[e].replica
  BY DEF IInv, DataType, RowRec
<1>3. i \in InspRec /\ i.status = "submitted" /\ i.verified = Verified(r)
  BY Counted DEF InspRec
<1>4. Quarantined(r) \in BOOLEAN
  BY DEF Quarantined
<1>5. /\ insp' \in InspRec
      /\ insp'.status = "under_review" => Verified(r) >= Cardinality(E)
  <2> HIDE DEF i, r
  <2> QED BY <1>1, <1>3, <1>4, PromotedToReview
<1>6. Verified(r) >= Cardinality(E) => \A e \in E : r[e].up = "verified"
  BY Counted
<1> HIDE DEF i, r
<1>7. DataType' /\ RowInv' /\ ReviewInv' /\ NothingForgotten'
  <2>1. DataType'
    BY <1>1, <1>2, <1>5 DEF IInv, DataType
  <2>2. RowInv' /\ NothingForgotten'
    BY <1>1, <1>2 DEF IInv, RowInv, NothingForgotten
  <2>3. ReviewInv'
    BY <1>1, <1>5, <1>6 DEF ReviewInv
  <2> QED BY <2>1, <2>2, <2>3
<1>8. Forward
  BY <1>1, <1>2 DEF Forward, MovesUp
<1>9. /\ TxnType' /\ Fresh(a) /\ TxnOK(txn[a])'
      /\ \A b \in Actor \ {a} : txn'[b] = txn[b]
  BY <1>1, EndsOK
<1>10. Owned(a)
  <2>1. ASSUME NEW b \in Actor \ {a}
        PROVE  /\ txn[b].phase \in Locks => ev'[txn[b].e].up = ev[txn[b].e].up
               /\ txn[b].kind = "meta" => <<"meta", txn[b].e>> \in out'
    <3>1. TxnOK(txn[b]) /\ txn[b] \in TxnRec
      BY Fields
    <3>2. txn[b].phase \in Locks => txn[b].e \in E
      BY <3>1 DEF TxnOK, TxnRec, Locks
    <3>3. txn[b].kind = "meta" => <<"meta", txn[b].e>> \in out'
      BY <1>1, <3>1 DEF TxnOK
    <3> QED BY <1>1, <1>2, <3>2, <3>3
  <2> QED BY <1>9, <2>1 DEF Owned
<1> QED BY <1>7, <1>8, <1>9, <1>10, InsideOK

-----------------------------------------------------------------------------
(* A row moves. *)

\* A transaction gets the inspection it waited for, or is aborted.
LEMMA WaitsOK ==
  ASSUME IInv, NEW a \in Actor, GetsInspection(a) \/ MoveAborted(a)
  PROVE  StepOK
<1>1. txn[a] \in TxnRec /\ TxnOK(txn[a]) /\ Idle \in TxnRec
  BY Fields
<1>2. UNCHANGED <<dev, out, obj, copy, serverVars, queueVars>>
  BY DEF GetsInspection, MoveAborted
<1>3. CASE GetsInspection(a)
  <2> DEFINE t == [txn[a] EXCEPT !.phase = "holds"]
  <2>1. txn' = [txn EXCEPT ![a] = t] /\ txn[a].phase = "waits"
    BY <1>3 DEF GetsInspection
  <2>2. t \in TxnRec /\ t.phase = "holds" /\ t.kind = txn[a].kind /\ t.e = txn[a].e
        /\ t.to = txn[a].to /\ t.sees = txn[a].sees /\ t.verified = txn[a].verified
    BY <1>1 DEF TxnRec
  <2> HIDE DEF t
  <2>3. txn'[a] = t
    BY <2>1 DEF IInv, TxnType
  <2>4. txn[a].kind \in {"uploaded", "sweep", "verify"}
    BY <1>1, <2>1 DEF TxnOK, TxnRec, Locks
  <2>5. Fresh(a)
    BY <2>1, <2>2, <2>3, <2>4 DEF Fresh, Locks
  <2>6. TxnOK(txn[a])'
    BY <1>1, <1>2, <2>1, <2>2, <2>3, <2>4 DEF TxnOK, Locks, Decided, serverVars
  <2> QED BY <1>2, <2>1, <2>2, <2>5, <2>6, TxnOnlyOK
<1>4. CASE MoveAborted(a) /\ txn[a].kind # "verify"
  <2>1. txn' = [txn EXCEPT ![a] = Idle]
    BY <1>4 DEF MoveAborted
  <2> QED BY <1>1, <1>2, <2>1, EndsOK, TxnOnlyOK
<1>5. CASE MoveAborted(a) /\ txn[a].kind = "verify"
  <2> DEFINE t == [txn[a] EXCEPT !.phase = "fetched", !.to = "none"]
  <2>1. txn' = [txn EXCEPT ![a] = t]
    BY <1>5 DEF MoveAborted
  <2>2. t \in TxnRec /\ t.phase = "fetched" /\ t.kind = "verify" /\ t.e = txn[a].e
        /\ t.to = "none"
    BY <1>1, <1>5 DEF TxnRec
  <2> HIDE DEF t
  <2>3. txn'[a] = t
    BY <2>1 DEF IInv, TxnType
  <2>4. Fresh(a) /\ TxnOK(txn[a])'
    BY <1>1, <1>2, <1>5, <2>2, <2>3 DEF Fresh, TxnOK, Locks, serverVars
  <2> QED BY <1>2, <2>1, <2>2, <2>4, TxnOnlyOK
<1> QED BY <1>3, <1>4, <1>5

\* It commits: the row moves forward by one, and the inspection goes by the
\* counts the transaction took.
LEMMA MoveCommitsOK ==
  ASSUME IInv, NEW a \in Actor, MoveCommits(a)
  PROVE  StepOK
<1> DEFINE t == txn[a]
           r == [ev EXCEPT ![t.e].up = t.to]
           counted == [insp EXCEPT !.received = t.received, !.verified = t.verified]
           decides == t.kind = "verify"
           after == [Idle EXCEPT !.kind = "verify", !.e = t.e, !.phase = "reads", !.sees = TRUE]
<1>1. t \in TxnRec /\ TxnOK(t) /\ t.phase = "holds" /\ t.kind \in {"uploaded", "sweep", "verify"}
  <2>1. t \in TxnRec /\ TxnOK(t) /\ t.phase = "holds"
    BY Fields DEF MoveCommits
  <2> HIDE DEF t
  <2> QED BY <2>1 DEF TxnOK, TxnRec, Locks
<1>2. /\ ev' = r /\ UNCHANGED <<dev, obj, copy>>
      /\ insp' = counted \/ insp' = Promoted(counted, Quarantined(r))
  BY DEF MoveCommits
<1>3. /\ t.kind \in {"uploaded", "sweep"} =>
           /\ verify' = [verify EXCEPT ![t.e] = NewMessage] /\ UNCHANGED replic
           /\ txn' = [txn EXCEPT ![a] = Idle]
      /\ decides =>
           /\ replic' = IF t.to = "verified" THEN [replic EXCEPT ![t.e] = NewMessage] ELSE replic
           /\ UNCHANGED verify /\ txn' = [txn EXCEPT ![a] = after]
      /\ \A e \in E : <<"meta", e>> \in out => <<"meta", e>> \in out'
  BY <1>1 DEF MoveCommits
<1>4. /\ t.e \in E /\ t.to \in {"uploaded", "verified", "quarantined"}
      /\ t.to = "uploaded" => ev[t.e].up = "pending" /\ ~decides
      /\ t.to # "uploaded" => ev[t.e].up = "uploaded" /\ decides
      /\ t.to = "verified" => obj[t.e] = "good"
  BY <1>1 DEF TxnOK, TxnRec, Locks
<1>5. t.verified >= Cardinality(E) =>
        \A f \in E : ev[f].up = "verified" \/ (f = t.e /\ t.to = "verified")
  BY <1>1 DEF TxnOK, Locks
<1>6. /\ counted \in InspRec /\ counted.status = insp.status /\ counted.verified = t.verified
  <2>1. insp \in InspRec /\ t.received \in Nat /\ t.verified \in Nat
    BY <1>1 DEF IInv, DataType, TxnRec
  <2> HIDE DEF t
  <2> QED BY <2>1 DEF InspRec
<1>7. insp' \in InspRec /\
        (insp'.status = "under_review" =>
           insp.status = "under_review" \/ t.verified >= Cardinality(E))
  <2>1. Quarantined(r) \in BOOLEAN
    BY DEF Quarantined
  <2> HIDE DEF counted, r, t
  <2> QED BY <1>2, <1>6, <2>1, PromotedToReview
<1>8. TxnType' /\ Fresh(a) /\ TxnOK(txn[a])' /\ \A b \in Actor \ {a} : txn'[b] = txn[b]
  <2>1. CASE ~decides
    <3>1. txn' = [txn EXCEPT ![a] = Idle]
      BY <1>1, <1>3, <2>1
    <3> QED BY <3>1, EndsOK
  <2>2. CASE decides
    <3>1. /\ after \in TxnRec /\ after.kind = "verify" /\ after.e = t.e
          /\ after.phase = "reads" /\ after.sees = TRUE
      <4> HIDE DEF t
      <4> QED BY <1>4 DEF Idle, TxnRec
    <3>2. txn' = [txn EXCEPT ![a] = after] /\ ev'[t.e].up \in {"verified", "quarantined"}
      BY <1>2, <1>3, <1>4, <2>2 DEF IInv, DataType, RowRec
    <3> HIDE DEF t, after
    <3>3. txn'[a] = after /\ TxnType' /\ \A b \in Actor \ {a} : txn'[b] = txn[b]
      BY <3>1, <3>2 DEF IInv, TxnType
    <3>4. TxnOK(txn[a])' /\ Fresh(a)
      BY <1>4, <3>1, <3>2, <3>3 DEF TxnOK, Fresh, Locks, Decided
    <3> QED BY <3>3, <3>4
  <2> QED BY <2>1, <2>2
<1>9. \A b \in Actor \ {a} : txn[b].phase \in Locks => txn[b].e # t.e
  BY <1>1 DEF IInv, AloneInv, Locks
<1> HIDE DEF t, counted, after
<1>10. /\ ev' \in [E -> RowRec] /\ ev'[t.e].up = t.to
       /\ \A e \in E : ev'[e].replica = ev[e].replica /\ (e # t.e => ev'[e] = ev[e])
  <2>1. ev \in [E -> RowRec] /\ t.to \in Up
    BY <1>4 DEF IInv, DataType, Up
  <2> QED BY <1>2, <1>4, <2>1 DEF RowRec
<1>11. NewMessage \in MessageRec /\ NewMessage.state = "visible"
  BY DEF NewMessage, NoMessage, MessageRec
<1>12. /\ verify' \in [E -> MessageRec] /\ replic' \in [E -> MessageRec]
       /\ \A e \in E : e # t.e => verify'[e] = verify[e] /\ replic'[e] = replic[e]
       /\ t.to = "uploaded" => verify'[t.e].state = "visible" /\ replic'[t.e] = replic[t.e]
       /\ t.to = "verified" => verify'[t.e] = verify[t.e] /\ replic'[t.e].state = "visible"
       /\ t.to = "quarantined" => verify'[t.e] = verify[t.e] /\ replic'[t.e] = replic[t.e]
  <2>1. verify \in [E -> MessageRec] /\ replic \in [E -> MessageRec]
    BY DEF IInv, DataType
  <2> HIDE DEF r
  <2> QED BY <1>1, <1>3, <1>4, <1>11, <2>1
<1> HIDE DEF r, decides
<1>13. Forward
  <2>1. ASSUME NEW e \in E, e # t.e
        PROVE  ev'[e] = ev[e] /\ replic'[e] = replic[e] /\ obj'[e] = obj[e]
    BY <1>2, <1>10, <1>12, <2>1
  <2>2. /\ MovesUp(ev[t.e].up, ev'[t.e].up) /\ ~Decided(t.e)
        /\ ev'[t.e].replica = ev[t.e].replica /\ obj'[t.e] = obj[t.e]
    BY <1>2, <1>4, <1>10 DEF MovesUp, Decided
  <2> QED BY <1>2, <2>1, <2>2 DEF Forward, MovesUp
<1>14. DataType' /\ RowInv' /\ ReviewInv' /\ NothingForgotten'
  <2>1. DataType'
    BY <1>2, <1>7, <1>10, <1>12 DEF IInv, DataType
  <2>2. RowInv'
    <3>1. ASSUME NEW e \in E
          PROVE  /\ <<"meta", e>> \in out' => ev'[e].up = "none"
                 /\ ev'[e].up = "verified" => obj'[e] = "good"
                 /\ verify'[e].state # "none" => ev'[e].up \notin {"none", "pending"}
                 /\ replic'[e].state # "none" => ev'[e].up = "verified"
                 /\ ~dev'[e].bytes => ev'[e].up = "verified"
      <4>0. <<"meta", e>> \in out' => <<"meta", e>> \in out
        BY <1>1 DEF MoveCommits, t
      <4>1. CASE e # t.e
        BY <1>2, <1>10, <1>12, <4>0, <4>1 DEF IInv, RowInv
      <4>2. CASE e = t.e
        <5>1. ev'[e].up = t.to /\ obj'[e] = obj[e] /\ dev'[e] = dev[e]
          BY <1>2, <1>10, <4>2
        <5>2. ev[e].up \in {"pending", "uploaded"}
          BY <1>4, <4>2
        <5>3. <<"meta", e>> \notin out /\ replic[e].state = "none" /\ dev[e].bytes
          BY <5>2 DEF IInv, RowInv
        <5> QED BY <1>4, <1>12, <4>0, <4>2, <5>1, <5>3
      <4> QED BY <4>1, <4>2
    <3> QED BY <3>1 DEF RowInv
  <2>3. ReviewInv'
    BY <1>4, <1>5, <1>7, <1>10 DEF IInv, ReviewInv
  <2>4. NothingForgotten'
    <3>1. ASSUME NEW e \in E
          PROVE  /\ ev'[e].up = "uploaded" =>
                      verify'[e].dead \/ verify'[e].state \in {"visible", "leased"}
                 /\ ev'[e].up = "verified" =>
                      ev'[e].replica # "none" \/ replic'[e].state \in {"visible", "leased"}
      <4>1. CASE e # t.e
        BY <1>10, <1>12, <4>1 DEF IInv, NothingForgotten
      <4>2. CASE e = t.e
        BY <1>4, <1>10, <1>12, <4>2
      <4> QED BY <4>1, <4>2
    <3> QED BY <3>1 DEF NothingForgotten
  <2> QED BY <2>1, <2>2, <2>3, <2>4
<1>15. Owned(a)
  <2>1. ASSUME NEW b \in Actor \ {a}
        PROVE  /\ txn[b].phase \in Locks => ev'[txn[b].e].up = ev[txn[b].e].up
               /\ txn[b].kind = "meta" => <<"meta", txn[b].e>> \in out'
    <3>1. TxnOK(txn[b]) /\ txn[b] \in TxnRec
      BY Fields
    <3>2. txn[b].phase \in Locks => txn[b].e \in E
      BY <3>1 DEF TxnOK, TxnRec, Locks
    <3>3. txn[b].kind = "meta" => txn[b].e \in E /\ <<"meta", txn[b].e>> \in out
      BY <3>1 DEF TxnOK
    <3> QED BY <1>3, <1>9, <1>10, <3>2, <3>3
  <2> QED BY <1>8, <2>1 DEF Owned
<1> QED BY <1>8, <1>13, <1>14, <1>15, InsideOK

-----------------------------------------------------------------------------
(* The drains. *)

\* A drain sweeps, reads a message, or is cut off.
LEMMA DrainBeginsOK ==
  ASSUME IInv, NEW w \in Worker, NEW e \in E,
         Sweep(w, e) \/ ReadVerify(w, e) \/ ReadReplicate(w, e)
  PROVE  StepOK
<1>1. w \in Actor /\ txn[w] = Idle /\ Idle.phase = "idle"
  BY DEF Actor, Sweep, ReadVerify, ReadReplicate, Begins, Idle
<1>2. verify \in [E -> MessageRec] /\ replic \in [E -> MessageRec]
  BY DEF IInv, DataType
<1>3. CASE Sweep(w, e)
  <2> DEFINE t == [Idle EXCEPT !.kind = "sweep"]
  <2>1. t \in TxnRec /\ t.kind = "sweep"
    BY DEF Idle, TxnRec
  <2> HIDE DEF t
  <2>2. Moves(w, t, e, "uploaded") /\ ev[e].up = "pending"
        /\ UNCHANGED <<dev, out, obj, copy, serverVars, queueVars>>
    BY <1>3 DEF t, Sweep, SweepCandidate
  <2>3. PICK n \in TxnRec :
          /\ txn' = [txn EXCEPT ![w] = n]
          /\ n.kind = t.kind /\ n.e = e /\ n.to = "uploaded" /\ n.phase \in Locks
          /\ n.verified >= Cardinality(E) =>
                \A f \in E : ev[f].up = "verified" \/ (f = e /\ "uploaded" = "verified")
          /\ ~EvidenceLocked(e)
    BY <1>1, <2>1, <2>2, MovesLocks
  <2>4. txn'[w] = n
    BY <1>1, <2>3 DEF IInv, TxnType
  <2>5. Fresh(w) /\ TxnOK(txn[w])'
    BY <2>1, <2>2, <2>3, <2>4 DEF Fresh, TxnOK, serverVars
  <2> QED BY <1>1, <2>2, <2>3, <2>5, TxnOnlyOK
<1>4. CASE ReadVerify(w, e)
  <2> DEFINE n == IF verify[e].reads < MaxAttempts THEN verify[e].reads + 1 ELSE MaxAttempts
             t == [Idle EXCEPT !.kind = "verify", !.e = e, !.phase = "reads", !.reads = n]
  <2>1. /\ verify[e].state = "visible" /\ txn' = [txn EXCEPT ![w] = t]
        /\ verify' = [verify EXCEPT ![e].state = "leased", ![e].reads = n]
        /\ UNCHANGED <<dev, out, obj, copy, ev, insp, replic>>
    BY <1>4 DEF ReadVerify, Begins, serverVars
  <2>2. n \in Nat
    BY <1>2, EvidenceAssumption DEF MessageRec
  <2> HIDE DEF n
  <2>3. t \in TxnRec /\ t.kind = "verify" /\ t.e = e /\ t.phase = "reads" /\ t.sees = FALSE
    BY <2>2 DEF Idle, TxnRec
  <2> HIDE DEF t
  <2>4. txn'[w] = t /\ TxnType' /\ \A b \in Actor \ {w} : txn'[b] = txn[b]
    BY <1>1, <2>1, <2>3 DEF IInv, TxnType
  <2>5. /\ verify' \in [E -> MessageRec]
        /\ \A f \in E \ {e} : verify'[f] = verify[f]
        /\ verify'[e].state = "leased" /\ verify'[e].dead = verify[e].dead
    BY <1>2, <2>1, <2>2 DEF MessageRec
  <2>6. ev[e].up \notin {"none", "pending"}
    BY <2>1 DEF IInv, RowInv
  <2>7. DataType' /\ RowInv' /\ ReviewInv' /\ NothingForgotten' /\ Forward
    <3>1. DataType' /\ ReviewInv' /\ Forward
      BY <2>1, <2>5 DEF IInv, DataType, ReviewInv, Forward, MovesUp
    <3>2. RowInv' /\ NothingForgotten'
      BY <2>1, <2>5, <2>6 DEF IInv, RowInv, NothingForgotten
    <3> QED BY <3>1, <3>2
  <2>8. Owned(w)
    BY <2>1, <2>4 DEF Owned, IInv, TxnOK
  <2>9. Fresh(w) /\ TxnOK(txn[w])'
    BY <2>1, <2>3, <2>4, <2>6 DEF Fresh, TxnOK, Locks
  <2> QED BY <1>1, <2>4, <2>7, <2>8, <2>9, InsideOK
<1>5. CASE ReadReplicate(w, e)
  <2> DEFINE t == [Idle EXCEPT !.kind = "replicate", !.e = e, !.phase = "reads"]
  <2>1. /\ replic[e].state = "visible" /\ txn' = [txn EXCEPT ![w] = t]
        /\ replic' = [replic EXCEPT ![e].state = "leased"]
        /\ UNCHANGED <<dev, out, obj, copy, ev, insp, verify>>
    BY <1>5 DEF ReadReplicate, Begins, serverVars
  <2>2. t \in TxnRec /\ t.kind = "replicate" /\ t.e = e /\ t.phase = "reads" /\ t.sees = FALSE
    BY DEF Idle, TxnRec
  <2> HIDE DEF t
  <2>3. txn'[w] = t /\ TxnType' /\ \A b \in Actor \ {w} : txn'[b] = txn[b]
    BY <1>1, <2>1, <2>2 DEF IInv, TxnType
  <2>4. /\ replic' \in [E -> MessageRec]
        /\ \A f \in E \ {e} : replic'[f] = replic[f]
        /\ replic'[e].state = "leased"
    BY <1>2, <2>1 DEF MessageRec
  <2>5. ev[e].up = "verified"
    BY <2>1 DEF IInv, RowInv
  <2>6. DataType' /\ RowInv' /\ ReviewInv' /\ NothingForgotten' /\ Forward
    <3>1. DataType' /\ ReviewInv'
      BY <2>1, <2>4 DEF IInv, DataType, ReviewInv
    <3>2. RowInv' /\ NothingForgotten' /\ Forward
      BY <2>1, <2>4, <2>5 DEF IInv, RowInv, NothingForgotten, Forward, MovesUp
    <3> QED BY <3>1, <3>2
  <2>7. Owned(w)
    BY <2>1, <2>3 DEF Owned, IInv, TxnOK
  <2>8. Fresh(w) /\ TxnOK(txn[w])'
    BY <2>1, <2>2, <2>3, <2>5 DEF Fresh, TxnOK, Locks
  <2> QED BY <1>1, <2>3, <2>6, <2>7, <2>8, InsideOK
<1> QED BY <1>3, <1>4, <1>5

\* A verification fetches and hashes the object, or fails to; then the row is
\* decided, if it is not yet.
LEMMA VerifyOK ==
  ASSUME IInv, NEW w \in Worker, Fetch(w) \/ FetchFails(w) \/ EvidenceVerified(w)
  PROVE  StepOK
<1> DEFINE t == txn[w]
<1>1. w \in Actor /\ t \in TxnRec /\ TxnOK(t) /\ t.kind = "verify"
  BY Fields DEF Actor, Fetch, FetchFails, EvidenceVerified
<1>2. UNCHANGED <<dev, out, obj, copy, serverVars, queueVars>>
  BY DEF Fetch, FetchFails, EvidenceVerified
<1>3. t.e \in E /\ ev[t.e].up \notin {"none", "pending"} /\ ev \in [E -> RowRec]
  BY <1>1 DEF TxnOK, IInv, DataType
\* The transaction sees a decision,
<1>4. ASSUME NEW n \in TxnRec, txn' = [txn EXCEPT ![w] = n], n.kind = "verify", n.e = t.e,
             n.phase = "reads", Decided(t.e)
      PROVE  StepOK
  <2> HIDE DEF t
  <2>1. txn'[w] = n
    BY <1>1, <1>4 DEF IInv, TxnType
  <2>2. Fresh(w) /\ TxnOK(txn[w])'
    BY <1>2, <1>3, <1>4, <2>1 DEF Fresh, TxnOK, Locks, Decided, serverVars
  <2> QED BY <1>1, <1>2, <1>4, <2>2, TxnOnlyOK
\* or has an answer, or none.
<1>5. ASSUME NEW n \in TxnRec, txn' = [txn EXCEPT ![w] = n], n.kind = "verify", n.e = t.e,
             n.phase = "fetched", n.to \in {"none", "verified", "quarantined"},
             n.to = "verified" => obj[t.e] = "good"
      PROVE  StepOK
  <2> HIDE DEF t
  <2>1. txn'[w] = n
    BY <1>1, <1>5 DEF IInv, TxnType
  <2>2. Fresh(w) /\ TxnOK(txn[w])'
    BY <1>2, <1>3, <1>5, <2>1 DEF Fresh, TxnOK, Locks, serverVars
  <2> QED BY <1>1, <1>2, <1>5, <2>2, TxnOnlyOK
<1>6. CASE Fetch(w) /\ Decided(t.e)
  <2> DEFINE n == [t EXCEPT !.sees = TRUE]
  <2>1. txn' = [txn EXCEPT ![w] = n] /\ t.phase = "reads"
    BY <1>6 DEF Fetch, Decided
  <2>2. n \in TxnRec /\ n.kind = "verify" /\ n.e = t.e /\ n.phase = "reads"
    <3>1. t.phase = "reads"
      BY <2>1
    <3> HIDE DEF t
    <3> QED BY <1>1, <3>1 DEF TxnRec
  <2> HIDE DEF n
  <2> QED BY <1>4, <1>6, <2>1, <2>2
<1>7. CASE Fetch(w) /\ ~Decided(t.e)
  <2> DEFINE to == IF obj[t.e] = "good" THEN "verified" ELSE "quarantined"
             n == [t EXCEPT !.phase = "fetched", !.to = to]
  <2>1. txn' = [txn EXCEPT ![w] = n]
    BY <1>7 DEF Fetch, Decided
  <2>2. n \in TxnRec /\ n.kind = "verify" /\ n.e = t.e /\ n.phase = "fetched" /\ n.to = to
    <3>1. to \in {"verified", "quarantined"}
      OBVIOUS
    <3> HIDE DEF t, to
    <3> QED BY <1>1, <3>1 DEF TxnRec
  <2>3. n.to \in {"none", "verified", "quarantined"} /\ (n.to = "verified" => obj[t.e] = "good")
    <3> HIDE DEF n
    <3> QED BY <2>2
  <2> HIDE DEF n, to
  <2> QED BY <1>5, <2>1, <2>2, <2>3
<1>8. CASE FetchFails(w)
  <2> DEFINE n == [t EXCEPT !.phase = "fetched", !.to = "none"]
  <2>1. txn' = [txn EXCEPT ![w] = n]
    BY <1>8 DEF FetchFails
  <2>2. n \in TxnRec /\ n.kind = "verify" /\ n.e = t.e /\ n.phase = "fetched" /\ n.to = "none"
    <3> HIDE DEF t
    <3> QED BY <1>1 DEF TxnRec
  <2> HIDE DEF n
  <2> QED BY <1>5, <2>1, <2>2
<1>9. CASE EvidenceVerified(w) /\ ~Decided(t.e)
  <2>1. t.phase = "fetched" /\ t.to # "none" /\ Moves(w, t, t.e, t.to)
    BY <1>9 DEF EvidenceVerified, Decided
  <2>2. ev[t.e].up = "uploaded"
    BY <1>3, <1>9 DEF RowRec, Up, Decided
  <2>3. t.to \in {"verified", "quarantined"} /\ (t.to = "verified" => obj[t.e] = "good")
    BY <1>1, <2>1 DEF TxnOK, TxnRec
  <2> HIDE DEF t
  <2>4. PICK n \in TxnRec :
          /\ txn' = [txn EXCEPT ![w] = n]
          /\ n.kind = t.kind /\ n.e = t.e /\ n.to = t.to /\ n.phase \in Locks
          /\ n.verified >= Cardinality(E) =>
                \A f \in E : ev[f].up = "verified" \/ (f = t.e /\ t.to = "verified")
          /\ ~EvidenceLocked(t.e)
    BY <1>1, <1>3, <2>1, <2>3, MovesLocks
  <2>5. txn'[w] = n
    BY <1>1, <2>4 DEF IInv, TxnType
  <2>6. Fresh(w) /\ TxnOK(txn[w])'
    BY <1>1, <1>2, <1>3, <2>2, <2>3, <2>4, <2>5 DEF Fresh, TxnOK, Locks, serverVars
  <2> QED BY <1>1, <1>2, <2>4, <2>6, TxnOnlyOK
<1>10. CASE EvidenceVerified(w) /\ Decided(t.e)
  <2> DEFINE n == [Idle EXCEPT !.kind = "verify", !.e = t.e, !.phase = "reads", !.sees = TRUE]
  <2>1. txn' = [txn EXCEPT ![w] = n]
    BY <1>10 DEF EvidenceVerified, Decided
  <2>2. n \in TxnRec /\ n.kind = "verify" /\ n.e = t.e /\ n.phase = "reads"
    <3> HIDE DEF t
    <3> QED BY <1>3 DEF Idle, TxnRec
  <2> HIDE DEF n
  <2> QED BY <1>4, <1>10, <2>1, <2>2
<1> QED BY <1>6, <1>7, <1>8, <1>9, <1>10

\* The rows stay as they are in a step of a drain that changes messages, its own
\* transaction, and what the replica bucket holds.
LEMMA QueuesOK ==
  ASSUME IInv, NEW w \in Worker, UNCHANGED <<dev, out, obj, ev, insp>>,
         copy' \in [E -> Object], verify' \in [E -> MessageRec], replic' \in [E -> MessageRec],
         NEW n \in TxnRec, txn' = [txn EXCEPT ![w] = n], n.phase \notin Locks, n.kind # "meta",
         TxnOK(n), NEW e \in E,
         \A f \in E \ {e} : verify'[f] = verify[f] /\ replic'[f] = replic[f],
         verify'[e].state # "none" => ev[e].up \notin {"none", "pending"},
         replic'[e].state # "none" => ev[e].up = "verified",
         ev[e].up = "uploaded" => verify'[e].dead \/ verify'[e].state \in {"visible", "leased"},
         ev[e].up = "verified" =>
           ev[e].replica # "none" \/ replic'[e].state \in {"visible", "leased"},
         replic[e].state = "done" => replic'[e].state = "done"
  PROVE  StepOK
<1>1. w \in Actor
  BY DEF Actor
<1>2. txn'[w] = n /\ TxnType' /\ \A b \in Actor \ {w} : txn'[b] = txn[b]
  BY <1>1 DEF IInv, TxnType
<1>3. DataType' /\ ReviewInv'
  BY DEF IInv, DataType, ReviewInv
<1>4. RowInv' /\ NothingForgotten' /\ Forward
  <2>1. ASSUME NEW f \in E
        PROVE  /\ verify'[f].state # "none" => ev[f].up \notin {"none", "pending"}
               /\ replic'[f].state # "none" => ev[f].up = "verified"
               /\ ev[f].up = "uploaded" =>
                    verify'[f].dead \/ verify'[f].state \in {"visible", "leased"}
               /\ ev[f].up = "verified" =>
                    ev[f].replica # "none" \/ replic'[f].state \in {"visible", "leased"}
               /\ replic[f].state = "done" => replic'[f].state = "done"
    <3>1. CASE f = e
      BY <3>1
    <3>2. CASE f # e
      <4>1. verify'[f] = verify[f] /\ replic'[f] = replic[f]
        BY <3>2
      <4>2. /\ verify[f].state # "none" => ev[f].up \notin {"none", "pending"}
            /\ replic[f].state # "none" => ev[f].up = "verified"
        BY DEF IInv, RowInv
      <4>3. /\ ev[f].up = "uploaded" =>
                 verify[f].dead \/ verify[f].state \in {"visible", "leased"}
            /\ ev[f].up = "verified" =>
                 ev[f].replica # "none" \/ replic[f].state \in {"visible", "leased"}
        BY DEF IInv, NothingForgotten
      <4> QED BY <4>1, <4>2, <4>3
    <3> QED BY <3>1, <3>2
  <2> QED BY <2>1 DEF IInv, RowInv, NothingForgotten, Forward, MovesUp
<1>5. Owned(w)
  BY <1>2 DEF Owned, IInv, TxnOK
<1>6. Fresh(w) /\ TxnOK(txn[w])'
  BY <1>2 DEF Fresh, TxnOK, Decided
<1> QED BY <1>1, <1>2, <1>3, <1>4, <1>5, <1>6, InsideOK

\* A message is deleted after its effect, comes again, or is buried.
LEMMA MessageOK ==
  ASSUME IInv, NEW w \in Worker, Ack(w) \/ Fails(w)
  PROVE  StepOK
<1> DEFINE t == txn[w]
           e == t.e
<1>1. w \in Actor /\ t \in TxnRec /\ TxnOK(t) /\ t.kind \in {"verify", "replicate"}
  BY Fields DEF Actor, Ack, Fails
<1>2. /\ e \in E /\ UNCHANGED <<dev, out, obj, copy, ev, insp>> /\ txn' = [txn EXCEPT ![w] = Idle]
      /\ copy \in [E -> Object]
      /\ verify \in [E -> MessageRec] /\ replic \in [E -> MessageRec]
  BY <1>1 DEF Ack, Fails, TxnOK, serverVars, IInv, DataType
<1>3. Idle \in TxnRec /\ TxnOK(Idle) /\ Idle.phase \notin Locks /\ Idle.kind # "meta"
  <2>1. Idle \in TxnRec /\ Idle.kind = "none" /\ Idle.phase = "idle"
    BY DEF Idle, TxnRec
  <2> QED BY <2>1 DEF TxnOK, Locks
<1>4. /\ verify[e].state # "none" => ev[e].up \notin {"none", "pending"}
      /\ replic[e].state # "none" => ev[e].up = "verified"
      /\ ev[e].up = "uploaded" => verify[e].dead \/ verify[e].state \in {"visible", "leased"}
      /\ ev[e].up = "verified" =>
           ev[e].replica # "none" \/ replic[e].state \in {"visible", "leased"}
  BY <1>2 DEF IInv, RowInv, NothingForgotten
<1>5. CASE Ack(w) /\ t.kind = "verify"
  <2>1. verify' = [verify EXCEPT ![e].state = "done"] /\ UNCHANGED replic
    BY <1>5 DEF Ack
  <2>2. ev[e].up \in {"verified", "quarantined"}
    BY <1>1, <1>5 DEF Ack, TxnOK, Decided
  <2> HIDE DEF t, e
  <2>3. /\ verify' \in [E -> MessageRec] /\ verify'[e].state = "done"
        /\ \A f \in E \ {e} : verify'[f] = verify[f]
    BY <1>2, <2>1 DEF MessageRec
  <2> QED BY <1>2, <1>3, <1>4, <2>1, <2>2, <2>3, QueuesOK
<1>6. CASE Ack(w) /\ t.kind = "replicate"
  <2>1. replic' = [replic EXCEPT ![e].state = "done"] /\ UNCHANGED verify
    BY <1>6 DEF Ack
  <2>2. ev[e].up = "verified" /\ ev[e].replica # "none"
    BY <1>1, <1>6 DEF Ack, TxnOK
  <2> HIDE DEF t, e
  <2>3. /\ replic' \in [E -> MessageRec] /\ replic'[e].state = "done"
        /\ \A f \in E \ {e} : replic'[f] = replic[f]
    BY <1>2, <2>1 DEF MessageRec
  <2> QED BY <1>2, <1>3, <1>4, <2>1, <2>2, <2>3, QueuesOK
<1>7. CASE Fails(w)
  <2> DEFINE m == RetryOrBury(verify[e], t.reads)
  <2>1. verify' = [verify EXCEPT ![e] = m] /\ UNCHANGED replic /\ t.kind = "verify"
    BY <1>7 DEF Fails
  <2>2. ev[e].up \notin {"none", "pending"}
    BY <1>1, <2>1 DEF TxnOK
  <2> HIDE DEF t, e
  <2>3. /\ m \in MessageRec
        /\ verify[e].dead \/ verify[e].state \in {"visible", "leased"} \/ ev[e].up # "uploaded" =>
             m.dead \/ m.state \in {"visible", "leased"} \/ ev[e].up # "uploaded"
    <3>1. verify[e] \in MessageRec
      BY <1>2
    <3> QED BY <3>1 DEF RetryOrBury, MessageRec
  <2> HIDE DEF m
  <2>4. /\ verify' \in [E -> MessageRec] /\ verify'[e] = m
        /\ \A f \in E \ {e} : verify'[f] = verify[f]
    BY <1>2, <2>1, <2>3
  <2>5. ev[e].up = "uploaded" => verify'[e].dead \/ verify'[e].state \in {"visible", "leased"}
    BY <1>4, <2>3, <2>4
  <2> QED BY <1>2, <1>3, <1>4, <2>1, <2>2, <2>4, <2>5, QueuesOK
<1> QED BY <1>1, <1>5, <1>6, <1>7

\* The copy is made.
LEMMA CopyOK ==
  ASSUME IInv, NEW w \in Worker, CopyObject(w)
  PROVE  StepOK
<1> DEFINE t == txn[w]
           e == t.e
           b == IF copy[e] = "none" THEN obj[e] ELSE copy[e]
           n == [t EXCEPT !.sees = TRUE]
           m == [t EXCEPT !.phase = "fetched"]
<1>1. w \in Actor /\ t \in TxnRec /\ TxnOK(t) /\ t.kind = "replicate" /\ t.phase = "reads"
  BY Fields DEF Actor, CopyObject
<1>2. /\ e \in E /\ UNCHANGED <<dev, out, obj, ev, insp, verify, replic>>
      /\ copy \in [E -> Object] /\ obj \in [E -> Object]
      /\ verify \in [E -> MessageRec] /\ replic \in [E -> MessageRec]
  BY <1>1 DEF CopyObject, TxnOK, serverVars, queueVars, IInv, DataType
<1>3. /\ verify[e].state # "none" => ev[e].up \notin {"none", "pending"}
      /\ replic[e].state # "none" => ev[e].up = "verified"
      /\ ev[e].up = "uploaded" => verify[e].dead \/ verify[e].state \in {"visible", "leased"}
      /\ ev[e].up = "verified" =>
           ev[e].replica # "none" \/ replic[e].state \in {"visible", "leased"}
  BY <1>2 DEF IInv, RowInv, NothingForgotten
<1>4. \/ UNCHANGED copy /\ txn' = [txn EXCEPT ![w] = n] /\ ev[e].replica = "replicated"
      \/ copy' = [copy EXCEPT ![e] = b] /\ txn' = [txn EXCEPT ![w] = m]
  BY DEF CopyObject
<1>5. ev[e].up = "verified"
  BY <1>1 DEF TxnOK
<1>6. /\ n \in TxnRec /\ n.kind = "replicate" /\ n.e = e /\ n.phase = "reads"
      /\ m \in TxnRec /\ m.kind = "replicate" /\ m.e = e /\ m.phase = "fetched"
  <2>1. t \in TxnRec /\ t.kind = "replicate" /\ t.phase = "reads"
    BY <1>1
  <2> HIDE DEF t
  <2> QED BY <2>1 DEF TxnRec
<1> HIDE DEF t, e, n, m, b
<1>7. CASE UNCHANGED copy /\ txn' = [txn EXCEPT ![w] = n] /\ ev[e].replica = "replicated"
  <2>1. TxnOK(n) /\ n.phase \notin Locks /\ n.kind # "meta"
    BY <1>2, <1>5, <1>6, <1>7 DEF TxnOK, Locks
  <2> QED BY <1>2, <1>3, <1>6, <1>7, <2>1, QueuesOK
<1>8. CASE copy' = [copy EXCEPT ![e] = b] /\ txn' = [txn EXCEPT ![w] = m]
  <2>1. TxnOK(m) /\ m.phase \notin Locks /\ m.kind # "meta"
    BY <1>2, <1>5, <1>6 DEF TxnOK, Locks
  <2>2. copy' \in [E -> Object]
    BY <1>2, <1>8 DEF b
  <2> QED BY <1>2, <1>3, <1>6, <1>8, <2>1, <2>2, QueuesOK
<1> QED BY <1>4, <1>7, <1>8

\* The copy is recorded.
LEMMA ReplicatedOK ==
  ASSUME IInv, NEW w \in Worker, EvidenceReplicated(w)
  PROVE  StepOK
<1> DEFINE t == txn[w]
           e == t.e
           to == IF copy[e] = "good" THEN "replicated" ELSE "failed"
           n == [t EXCEPT !.phase = "reads", !.sees = TRUE]
<1>1. w \in Actor /\ t \in TxnRec /\ TxnOK(t) /\ t.kind = "replicate"
  BY Fields DEF Actor, EvidenceReplicated
<1>2. /\ e \in E /\ ev[e].up = "verified"
      /\ ev' = [ev EXCEPT ![e].replica = to] /\ txn' = [txn EXCEPT ![w] = n]
      /\ UNCHANGED <<dev, out, obj, copy, insp, verify, replic>>
  BY <1>1 DEF EvidenceReplicated, TxnOK, queueVars
<1>3. n \in TxnRec /\ n.kind = "replicate" /\ n.e = e /\ n.phase = "reads"
  <2>1. t \in TxnRec /\ t.kind = "replicate"
    BY <1>1
  <2> HIDE DEF t
  <2> QED BY <2>1 DEF TxnRec
<1>4. to \in {"replicated", "failed"}
  OBVIOUS
<1> HIDE DEF t, e, n, to
<1>5. /\ ev' \in [E -> RowRec] /\ ev'[e].replica = to
      /\ \A f \in E : ev'[f].up = ev[f].up /\ (f # e => ev'[f] = ev[f])
  BY <1>2, <1>4 DEF IInv, DataType, RowRec
<1>6. txn'[w] = n /\ TxnType' /\ \A b \in Actor \ {w} : txn'[b] = txn[b]
  BY <1>1, <1>2, <1>3 DEF IInv, TxnType
<1>7. DataType' /\ RowInv' /\ ReviewInv'
  <2>1. DataType'
    BY <1>2, <1>5 DEF IInv, DataType
  <2>2. RowInv' /\ ReviewInv'
    BY <1>2, <1>5 DEF IInv, RowInv, ReviewInv
  <2> QED BY <2>1, <2>2
<1>8. NothingForgotten' /\ Forward
  <2>1. \A f \in E : ev'[f].replica = ev[f].replica \/ ev'[f].replica # "none"
    BY <1>4, <1>5
  <2> QED BY <1>2, <1>5, <2>1 DEF IInv, NothingForgotten, Forward, MovesUp
<1>9. Owned(w)
  <2>1. ASSUME NEW b \in Actor \ {w}
        PROVE  /\ txn[b].phase \in Locks => ev'[txn[b].e].up = ev[txn[b].e].up
               /\ txn[b].kind = "meta" => <<"meta", txn[b].e>> \in out'
    <3>1. TxnOK(txn[b]) /\ txn[b] \in TxnRec
      BY Fields
    <3>2. txn[b].phase \in Locks => txn[b].e \in E
      BY <3>1 DEF TxnOK, TxnRec, Locks
    <3> QED BY <1>2, <1>5, <3>1, <3>2 DEF TxnOK
  <2> QED BY <1>6, <2>1 DEF Owned
<1>10. Fresh(w) /\ TxnOK(txn[w])'
  BY <1>2, <1>3, <1>4, <1>5, <1>6 DEF Fresh, TxnOK, Locks
<1> QED BY <1>1, <1>6, <1>7, <1>8, <1>9, <1>10, InsideOK

\* A worker is cut off.
LEMMA DiesOK ==
  ASSUME IInv, NEW w \in Worker, WorkerDies(w)
  PROVE  StepOK
<1>1. w \in Actor /\ Idle \in TxnRec /\ txn' = [txn EXCEPT ![w] = Idle]
      /\ UNCHANGED <<dev, out, obj, copy, serverVars, queueVars>>
  BY Fields DEF Actor, WorkerDies
<1>2. Fresh(w) /\ TxnOK(txn[w])'
  BY <1>1, EndsOK
<1> QED BY <1>1, <1>2, TxnOnlyOK

-----------------------------------------------------------------------------
(* The theorems. *)

\* Nothing has been uploaded, and nobody is at work.
LEMMA InitOK == ASSUME Init PROVE IInv
<1>1. Idle \in TxnRec /\ Idle.kind = "none" /\ Idle.phase = "idle"
  BY DEF Idle, TxnRec
<1>2. NoMessage \in MessageRec /\ NoMessage.state = "none"
  BY DEF NoMessage, MessageRec
<1>3. TxnType /\ AloneInv /\ \A a \in Actor : txn[a] = Idle
  BY <1>1 DEF Init, TxnType, AloneInv, Locks
<1>4. DataType
  BY <1>2 DEF Init, DataType, DevRec, Object, RowRec, Up, InspRec
<1>5. RowInv /\ ReviewInv /\ NothingForgotten
  BY <1>2 DEF Init, RowInv, ReviewInv, NothingForgotten
<1>6. TxnOK(Idle)
  BY <1>1 DEF TxnOK, Locks
<1> QED BY <1>3, <1>4, <1>5, <1>6 DEF IInv

\* Every step keeps the invariant and moves forward.
LEMMA NextOK == ASSUME IInv, Next PROVE StepOK
<1>1. CASE DeviceStep
  BY <1>1, DeviceOK
<1>2. ASSUME NEW a \in Request, RequestStep(a) PROVE StepOK
  <2>1. a \in Actor
    BY DEF Actor
  <2>2. CASE \E e \in E : MetaReads(a, e) \/ UploadedApplied(a, e)
    BY <2>2, MetaReadsOK, UploadedOK
  <2>3. CASE MetaInserts(a) \/ SubmitCommits(a)
    BY <2>1, <2>3, MetaInsertsOK, SubmitCommitsOK
  <2>4. CASE SubmitLocksJob(a) \/ SubmitLocksInspection(a) \/ SubmitAborted(a)
    BY <2>1, <2>4, SubmitLocksOK
  <2> QED BY <1>2, <2>2, <2>3, <2>4 DEF RequestStep
<1>3. ASSUME NEW w \in Worker, WorkerStep(w) \/ WorkerDies(w) PROVE StepOK
  <2>1. CASE \E e \in E : Sweep(w, e) \/ ReadVerify(w, e) \/ ReadReplicate(w, e)
    BY <2>1, DrainBeginsOK
  <2>2. CASE Fetch(w) \/ FetchFails(w) \/ EvidenceVerified(w)
    BY <2>2, VerifyOK
  <2>3. CASE Ack(w) \/ Fails(w)
    BY <2>3, MessageOK
  <2>4. CASE CopyObject(w) \/ EvidenceReplicated(w) \/ WorkerDies(w)
    BY <2>4, CopyOK, ReplicatedOK, DiesOK
  <2> QED BY <1>3, <2>1, <2>2, <2>3, <2>4 DEF WorkerStep
<1>4. ASSUME NEW a \in Actor, GetsInspection(a) \/ MoveCommits(a) \/ MoveAborted(a)
      PROVE StepOK
  BY <1>4, WaitsOK, MoveCommitsOK
<1>5. ASSUME NEW e \in E, LeaseEnds(e) PROVE StepOK
  BY <1>5, LeaseOK
<1> QED BY <1>1, <1>2, <1>3, <1>4, <1>5 DEF Next

\* A step that changes nothing is one that is no transaction's.
LEMMA StutterOK == ASSUME IInv, UNCHANGED vars PROVE StepOK
<1>1. UNCHANGED <<dev, out, obj, copy, ev, insp, verify, replic, txn>>
  BY DEF vars, serverVars, queueVars
<1>2. DataType' /\ RowInv' /\ NothingForgotten' /\ Forward
  BY <1>1 DEF IInv, DataType, RowInv, NothingForgotten, Forward, MovesUp
<1> QED BY <1>1, <1>2, OutsideOK

\* The invariant of the evidence: rows and what transactions go by.
THEOREM EvidenceInvariant == Spec => []IInv
<1>1. Init => IInv
  BY InitOK
<1>2. IInv /\ [Next]_vars => IInv'
  BY NextOK, StutterOK DEF StepOK
<1> QED BY <1>1, <1>2, PTL DEF Spec

\* The phone lets go of the bytes only of what the server verified
\* (EvidenceSection.apply).
THEOREM BytesAreKept == Spec => []BytesLeaveWhenVerified
<1>1. IInv => BytesLeaveWhenVerified
  BY DEF IInv, RowInv, BytesLeaveWhenVerified
<1> QED BY <1>1, EvidenceInvariant, PTL

\* Every item that is not done has a message, a recorded copy or an alert
\* (drain, queue_read, queue_ack).
THEOREM NoneIsForgotten == Spec => []NothingForgotten
<1>1. IInv => NothingForgotten
  BY DEF IInv
<1> QED BY <1>1, EvidenceInvariant, PTL

\* What goes to review is complete (recount_evidence, promote_inspection).
THEOREM ReviewIsComplete == Spec => []ReviewedIsComplete
<1>1. IInv => ReviewedIsComplete
  BY DEF IInv, RowInv, ReviewInv, ReviewedIsComplete
<1> QED BY <1>1, EvidenceInvariant, PTL

\* A decision is final and its effects are made once (evidence_verified,
\* queue_ack).
THEOREM DecisionsAreFinal == Spec => DecidedOnce
<1>1. IInv /\ [Next]_vars =>
        [\A e \in E : ev[e].up \in {"verified", "quarantined"} =>
           ev'[e].up = ev[e].up
             /\ (replic[e].state = "done" => replic'[e].state = "done")]_vars
  <2>1. ASSUME StepOK, NEW e \in E, ev[e].up \in {"verified", "quarantined"}
        PROVE  ev'[e].up = ev[e].up
                 /\ (replic[e].state = "done" => replic'[e].state = "done")
    BY <2>1 DEF StepOK, Forward, MovesUp, Decided
  <2> QED BY <2>1, NextOK, StutterOK
<1> QED BY <1>1, EvidenceInvariant, PTL DEF Spec, DecidedOnce

-----------------------------------------------------------------------------
(* What is complete goes to review, unless transactions overlap in one of   *)
(* two ways.                                                                *)

\* No two verdicts are between their count and their commit at once, and no
\* record of an item goes by a manifest from before the submission.
Apart ==
  /\ \A a, b \in Actor :
       a # b => ~(/\ txn[a].kind = "verify" /\ txn[a].phase \in Locks
                  /\ txn[b].kind = "verify" /\ txn[b].phase \in Locks)
  /\ \A a \in Actor : txn[a].kind = "meta" => txn[a].sees = Submitted

\* The verdict that makes the evidence complete has counted it as complete.
CountOK(t) ==
  /\ Submitted /\ t.kind = "verify" /\ t.phase \in Locks /\ t.to = "verified"
  /\ \A f \in E \ {t.e} : ev[f].up = "verified"
  => t.verified >= Cardinality(E)

ManifestInv == Submitted => \A e \in E : ev[e].up # "none" => ev[e].inManifest
FailedInv == insp.status = "integrity_failed" => Quarantined(ev)
Complete == Submitted /\ (\A e \in E : ev[e].up = "verified") => insp.status = "under_review"
CompleteInv ==
  /\ ManifestInv /\ FailedInv /\ Complete
  /\ \A a \in Actor : CountOK(txn[a])

\* A count over rows that are all verified and in the manifest is complete.
LEMMA CountedAll ==
  ASSUME NEW r, \A e \in E : r[e].inManifest /\ r[e].up = "verified"
  PROVE  Verified(r) >= Cardinality(E)
<1>1. {e \in E : r[e].inManifest /\ r[e].up = "verified"} = E
  OBVIOUS
<1>2. Verified(r) = Cardinality(E)
  BY <1>1 DEF Verified
<1>3. Cardinality(E) \in Nat
  BY FS_CardinalityType, EvidenceAssumption
<1> QED BY <1>2, <1>3

\* Where promote_inspection takes an inspection.
LEMMA PromotedFrom ==
  ASSUME NEW i \in InspRec, NEW q \in BOOLEAN
  PROVE  /\ Promoted(i, q).status = "in_progress" <=> i.status = "in_progress"
         /\ Promoted(i, q).status = "integrity_failed" => q \/ i.status = "integrity_failed"
         /\ ~q /\ i.verified >= Cardinality(E)
              /\ i.status \in {"submitted", "verifying", "under_review"} =>
                Promoted(i, q).status = "under_review"
<1>1. CASE q
  BY <1>1 DEF Promoted, InspRec
<1>2. CASE ~q /\ i.verified >= Cardinality(E)
  <2>1. ~(i.verified < Cardinality(E))
    BY <1>2, FS_CardinalityType, EvidenceAssumption DEF InspRec
  <2> QED BY <1>2, <2>1 DEF Promoted, InspRec
<1>3. CASE ~q /\ ~(i.verified >= Cardinality(E))
  BY <1>3 DEF Promoted, InspRec
<1> QED BY <1>1, <1>2, <1>3

\* A step that moves no row.
SameRows ==
  /\ insp' = insp
  /\ \A e \in E : ev'[e].up = ev[e].up /\ ev'[e].inManifest = ev[e].inManifest

\* It keeps what was counted; a new verdict has to have counted.
LEMMA SameRowsOK ==
  ASSUME CompleteInv, SameRows,
         \A b \in Actor : txn'[b] = txn[b] \/ txn'[b].kind # "verify"
                            \/ txn'[b].phase \notin Locks \/ CountOK(txn'[b])
  PROVE  CompleteInv'
<1>1. ManifestInv' /\ Complete'
  BY DEF CompleteInv, SameRows, ManifestInv, Complete, Submitted
<1>2. FailedInv'
  BY DEF CompleteInv, SameRows, FailedInv, Quarantined
<1>3. ASSUME NEW b \in Actor PROVE CountOK(txn[b])'
  <2>1. CASE CountOK(txn'[b])
    BY <2>1 DEF SameRows, CountOK, Submitted
  <2>2. CASE txn'[b] = txn[b]
    <3>1. CountOK(txn'[b])
      BY <2>2 DEF CompleteInv
    <3> QED BY <3>1, <2>1
  <2>3. CASE txn'[b].kind # "verify" \/ txn'[b].phase \notin Locks
    BY <2>3 DEF CountOK
  <2> QED BY <2>1, <2>2, <2>3
<1> QED BY <1>1, <1>2, <1>3 DEF CompleteInv

\* A step of a that leaves no verdict on its way, or one that has counted.
LEMMA OneTxnOK ==
  ASSUME CompleteInv, SameRows, NEW a \in Actor, \A b \in Actor \ {a} : txn'[b] = txn[b],
         txn'[a].kind # "verify" \/ txn'[a].phase \notin Locks \/ CountOK(txn'[a])
  PROVE  CompleteInv'
BY SameRowsOK

\* What a worker or request that does nothing is.
LEMMA IdleIs == Idle \in TxnRec /\ Idle.kind = "none" /\ Idle.phase = "idle"
BY DEF Idle, TxnRec

\* A verdict counts, over rows nobody else is deciding.
LEMMA VerdictCounts ==
  ASSUME IInv, CompleteInv, NEW a \in Actor, NEW t \in TxnRec, t.kind = "verify",
         t.e \in E, ev[t.e].up \notin {"none"}, t.to \in Up, Moves(a, t, t.e, t.to),
         UNCHANGED <<ev, insp>>
  PROVE  CompleteInv'
<1> DEFINE r == [ev EXCEPT ![t.e].up = t.to]
           ph == IF InspectionLocked THEN "waits" ELSE "holds"
           n == [t EXCEPT !.phase = ph, !.e = t.e, !.to = t.to, !.received = Received(r),
                          !.verified = Verified(r)]
<1>1. txn'[a] = n /\ \A b \in Actor \ {a} : txn'[b] = txn[b]
  BY DEF Moves, IInv, TxnType
<1>2. n.e = t.e /\ n.to = t.to /\ n.verified = Verified(r)
  BY DEF TxnRec
<1>3. ASSUME Submitted, t.to = "verified", \A f \in E \ {t.e} : ev[f].up = "verified"
      PROVE  Verified(r) >= Cardinality(E)
  <2>1. ASSUME NEW f \in E PROVE ev[f].inManifest
    BY <1>3, <2>1 DEF CompleteInv, ManifestInv
  <2>2. \A f \in E : r[f].up = "verified" /\ r[f].inManifest = ev[f].inManifest
    BY <1>3 DEF IInv, DataType, RowRec
  <2> HIDE DEF r
  <2> QED BY <2>1, <2>2, CountedAll
<1> HIDE DEF n, r
<1>4. CountOK(n)
  BY <1>2, <1>3 DEF CountOK
<1>5. SameRows
  BY DEF SameRows
<1> QED BY <1>1, <1>4, <1>5, OneTxnOK

\* The record of an item that goes by the manifest as it is.
LEMMA MetaInsertsComplete ==
  ASSUME IInv, CompleteInv, Apart, NEW a \in Actor, MetaInserts(a)
  PROVE  CompleteInv'
<1> DEFINE t == txn[a]
<1>1. t.kind = "meta" /\ t.sees = Submitted /\ t.e \in E /\ ev[t.e].up = "none"
  BY DEF MetaInserts, Apart, IInv, TxnOK, RowInv
<1>2. /\ insp' = insp /\ txn' = [txn EXCEPT ![a] = Idle]
      /\ ev' = [ev EXCEPT ![t.e] = [up |-> "pending", inManifest |-> t.sees,
                                    replica |-> "none"]]
  BY DEF MetaInserts
<1>3. /\ ev'[t.e].up = "pending" /\ ev'[t.e].inManifest = t.sees
      /\ \A e \in E \ {t.e} : ev'[e] = ev[e]
  BY <1>1, <1>2 DEF IInv, DataType
<1>4. txn'[a].kind = "none" /\ \A b \in Actor \ {a} : txn'[b] = txn[b]
  BY <1>2, IdleIs DEF IInv, TxnType
<1>5. Submitted' = Submitted
  BY <1>2 DEF Submitted
<1> HIDE DEF t
<1>6. ManifestInv' /\ Complete'
  BY <1>1, <1>3, <1>5 DEF CompleteInv, ManifestInv, Complete
<1>7. FailedInv'
  BY <1>1, <1>2, <1>3 DEF CompleteInv, FailedInv, Quarantined
<1>8. ASSUME NEW b \in Actor, Submitted', txn'[b].kind = "verify", txn'[b].phase \in Locks,
             \A f \in E \ {txn'[b].e} : ev'[f].up = "verified"
      PROVE  FALSE
  <2>1. txn'[b] = txn[b] /\ txn[b].e \in E /\ ev[txn[b].e].up = "uploaded"
    <3>1. txn'[b] = txn[b]
      BY <1>4, <1>8
    <3> QED BY <3>1, <1>8 DEF IInv, TxnOK
  <2> QED BY <1>1, <1>3, <1>8, <2>1
<1> QED BY <1>6, <1>7, <1>8 DEF CompleteInv, CountOK

\* The submission counts what is there, and marks it as of the manifest.
LEMMA SubmitCommitsComplete ==
  ASSUME IInv, CompleteInv, NEW a \in Actor, SubmitCommits(a)
  PROVE  CompleteInv'
<1> DEFINE r == [e \in E |-> [ev[e] EXCEPT !.inManifest = ev[e].up # "none"]]
           i == [status |-> "submitted", received |-> Received(r), verified |-> Verified(r)]
<1>1. ev' = r /\ insp' = Promoted(i, Quarantined(r)) /\ txn' = [txn EXCEPT ![a] = Idle]
  BY DEF SubmitCommits
<1>2. \A e \in E : r[e].up = ev[e].up /\ r[e].inManifest = (ev[e].up # "none")
  BY DEF IInv, DataType, RowRec
<1>3. i \in InspRec /\ i.status = "submitted" /\ i.verified = Verified(r)
  BY Counted DEF InspRec
<1>4. Quarantined(r) \in BOOLEAN
  BY DEF Quarantined
<1>5. txn'[a].kind = "none" /\ \A b \in Actor \ {a} : txn'[b] = txn[b]
  BY <1>1, IdleIs DEF IInv, TxnType
<1>6. \A e \in E : ev[e].up # "none" => ~EvidenceLocked(e)
  BY DEF SubmitCommits
<1> HIDE DEF i, r
<1>7. /\ insp'.status = "integrity_failed" => Quarantined(r)
      /\ ~Quarantined(r) /\ Verified(r) >= Cardinality(E) => insp'.status = "under_review"
  BY <1>1, <1>3, <1>4, PromotedFrom
<1>8. ManifestInv' /\ FailedInv'
  BY <1>1, <1>2, <1>7 DEF ManifestInv, FailedInv
<1>9. Complete'
  <2>1. SUFFICES ASSUME \A e \in E : r[e].up = "verified" PROVE insp'.status = "under_review"
    BY <1>1 DEF Complete
  <2>2. Verified(r) >= Cardinality(E) /\ ~Quarantined(r)
    BY <1>2, <2>1, CountedAll DEF Quarantined
  <2> QED BY <1>7, <2>2
<1>10. ASSUME NEW b \in Actor, txn'[b].kind = "verify", txn'[b].phase \in Locks PROVE FALSE
  <2>1. txn'[b] = txn[b]
    BY <1>5, <1>10
  <2>2. txn[b].e \in E /\ ev[txn[b].e].up = "uploaded"
    BY <1>10, <2>1 DEF IInv, TxnOK
  <2> QED BY <1>6, <1>10, <2>1, <2>2 DEF EvidenceLocked, Locks
<1> QED BY <1>8, <1>9, <1>10 DEF CompleteInv, CountOK

\* A move writes the count it took: with no other verdict on its way, the one
\* that makes the evidence complete promotes the inspection.
LEMMA MoveCommitsComplete ==
  ASSUME IInv, CompleteInv, Apart, NEW a \in Actor, MoveCommits(a)
  PROVE  CompleteInv'
<1> DEFINE t == txn[a]
           r == [ev EXCEPT ![t.e].up = t.to]
           counted == [insp EXCEPT !.received = t.received, !.verified = t.verified]
<1>1. t \in TxnRec /\ TxnOK(t) /\ CountOK(t) /\ t.phase = "holds"
      /\ t.kind \in {"uploaded", "sweep", "verify"}
  <2>1. t \in TxnRec /\ TxnOK(t) /\ CountOK(t) /\ t.phase = "holds"
    BY Fields DEF MoveCommits, CompleteInv
  <2> HIDE DEF t
  <2> QED BY <2>1 DEF TxnOK, TxnRec, Locks
<1>2. /\ insp' = counted \/ insp' = Promoted(counted, Quarantined(r))
      /\ t.kind = "verify" => insp' = Promoted(counted, Quarantined(r))
      /\ ev' = r
  BY DEF MoveCommits
<1>3. \A b \in Actor \ {a} : txn'[b] = txn[b]
  BY <1>1 DEF MoveCommits, IInv, TxnType
<1>4. txn'[a].phase \notin Locks
  <2> DEFINE after == [Idle EXCEPT !.kind = "verify", !.e = t.e, !.phase = "reads",
                                   !.sees = TRUE]
  <2>1. txn' = [txn EXCEPT ![a] = Idle] \/ txn' = [txn EXCEPT ![a] = after]
    BY <1>1 DEF MoveCommits
  <2>2. after.phase = "reads"
    BY IdleIs DEF TxnRec
  <2> HIDE DEF after
  <2>3. txn'[a] = Idle \/ txn'[a] = after
    BY <2>1 DEF IInv, TxnType
  <2> QED BY <2>2, <2>3, IdleIs DEF Locks
<1>5. /\ t.e \in E /\ t.to \in {"uploaded", "verified", "quarantined"}
      /\ ev[t.e].up \in {"pending", "uploaded"}
      /\ t.to = "verified" => t.kind = "verify"
  BY <1>1 DEF TxnOK, TxnRec, Locks
<1>6. /\ counted \in InspRec /\ counted.status = insp.status /\ counted.verified = t.verified
  <2>1. insp \in InspRec /\ t.received \in Nat /\ t.verified \in Nat
    BY <1>1 DEF IInv, DataType, TxnRec
  <2> HIDE DEF t
  <2> QED BY <2>1 DEF InspRec
<1>7. \A b \in Actor \ {a} : txn[b].phase \in Locks => txn[b].e # t.e
  BY <1>1 DEF IInv, AloneInv, Locks
<1>8. ASSUME NEW b \in Actor \ {a}, t.kind = "verify", txn[b].kind = "verify",
             txn[b].phase \in Locks
      PROVE  FALSE
  BY <1>1, <1>8 DEF Apart, Locks
<1> HIDE DEF t, counted
<1>9. /\ ev'[t.e].up = t.to /\ ev'[t.e].inManifest = ev[t.e].inManifest
      /\ \A e \in E \ {t.e} : ev'[e] = ev[e]
  <2>1. ev \in [E -> RowRec]
    BY DEF IInv, DataType
  <2> QED BY <1>2, <1>5, <2>1 DEF RowRec
<1>10. Quarantined(r) \in BOOLEAN /\ Quarantined(r) = Quarantined(ev)'
  BY <1>2 DEF Quarantined
<1> HIDE DEF r
<1>11. /\ insp'.status = "in_progress" <=> insp.status = "in_progress"
       /\ insp'.status = "integrity_failed" =>
            Quarantined(ev)' \/ insp.status = "integrity_failed"
       /\ t.kind = "verify" /\ ~Quarantined(ev)' /\ t.verified >= Cardinality(E)
            /\ insp.status \in {"submitted", "verifying", "under_review"} =>
              insp'.status = "under_review"
  BY <1>2, <1>6, <1>10, PromotedFrom
<1>12. ManifestInv'
  BY <1>5, <1>9, <1>11 DEF CompleteInv, ManifestInv, Submitted
<1>13. FailedInv'
  <2>1. Quarantined(ev) => Quarantined(ev)'
    BY <1>5, <1>9 DEF Quarantined
  <2> QED BY <1>11, <2>1 DEF CompleteInv, FailedInv
<1>14. Complete'
  <2>1. SUFFICES ASSUME Submitted', \A e \in E : ev'[e].up = "verified"
                 PROVE  insp'.status = "under_review"
    BY DEF Complete
  <2>2. Submitted /\ t.to = "verified" /\ t.kind = "verify"
        /\ \A f \in E \ {t.e} : ev[f].up = "verified"
    BY <1>5, <1>9, <1>11, <2>1 DEF Submitted
  <2>3. t.verified >= Cardinality(E)
    BY <1>1, <2>2 DEF CountOK, Locks
  <2>4. ~Quarantined(ev)' /\ ~Quarantined(ev)
    BY <1>5, <2>1, <2>2 DEF Quarantined
  <2>5. insp.status \in {"submitted", "verifying", "under_review"}
    BY <2>2, <2>4 DEF CompleteInv, FailedInv, Submitted, IInv, DataType, InspRec
  <2> QED BY <1>11, <2>2, <2>3, <2>4, <2>5
<1>15. ASSUME NEW b \in Actor, Submitted', txn'[b].kind = "verify", txn'[b].phase \in Locks,
              \A f \in E \ {txn'[b].e} : ev'[f].up = "verified"
       PROVE  FALSE
  <2>1. b # a /\ txn'[b] = txn[b] /\ txn[b].e # t.e
    BY <1>3, <1>4, <1>7, <1>15
  <2>2. t.kind = "verify"
    BY <1>5, <1>9, <1>15, <2>1
  <2> QED BY <1>8, <1>15, <2>1, <2>2
<1> QED BY <1>12, <1>13, <1>14, <1>15 DEF CompleteInv, CountOK

\* The other steps of a request count nothing that matters.
LEMMA RequestStepComplete ==
  ASSUME IInv, CompleteInv, Apart, NEW a \in Request, RequestStep(a)
  PROVE  CompleteInv'
<1>1. a \in Actor /\ txn \in [Actor -> TxnRec]
  BY DEF Actor, IInv, TxnType
<1>2. CASE MetaInserts(a) \/ SubmitCommits(a)
  BY <1>1, <1>2, MetaInsertsComplete, SubmitCommitsComplete
<1>3. ASSUME NEW e \in E, MetaReads(a, e) PROVE CompleteInv'
  <2>1. SameRows
    BY <1>3 DEF MetaReads, SameRows, serverVars
  <2>2. txn' = [txn EXCEPT ![a] = [Idle EXCEPT !.kind = "meta", !.e = e, !.phase = "reads",
                                               !.sees = Submitted]]
    BY <1>3 DEF MetaReads, Begins
  <2>3. txn'[a].kind = "meta" /\ \A b \in Actor \ {a} : txn'[b] = txn[b]
    BY <1>1, <2>2, IdleIs DEF TxnRec
  <2> QED BY <1>1, <2>1, <2>3, OneTxnOK
<1>4. ASSUME NEW e \in E, UploadedApplied(a, e) PROVE CompleteInv'
  <2>1. SameRows
    BY <1>4 DEF UploadedApplied, SameRows, serverVars
  <2>2. CASE UNCHANGED txn
    BY <2>1, <2>2, SameRowsOK
  <2>3. CASE Moves(a, [Idle EXCEPT !.kind = "uploaded"], e, "uploaded")
    <3>1. txn'[a].kind = "uploaded" /\ \A b \in Actor \ {a} : txn'[b] = txn[b]
      BY <1>1, <2>3, IdleIs DEF Moves, TxnRec
    <3> QED BY <1>1, <2>1, <3>1, OneTxnOK
  <2> QED BY <1>4, <2>2, <2>3 DEF UploadedApplied
<1>5. CASE SubmitLocksJob(a) \/ SubmitLocksInspection(a) \/ SubmitAborted(a)
  <2>1. SameRows
    BY <1>5 DEF SubmitLocksJob, SubmitLocksInspection, SubmitAborted, SameRows, serverVars
  <2>2. \A b \in Actor \ {a} : txn'[b] = txn[b]
    BY <1>1, <1>5 DEF SubmitLocksJob, SubmitLocksInspection, SubmitAborted, Begins
  <2>3. \/ txn'[a] = [Idle EXCEPT !.kind = "submit", !.phase = "job"]
        \/ txn'[a] = [txn[a] EXCEPT !.phase = "locked"]
        \/ txn'[a] = Idle
    BY <1>1, <1>5 DEF SubmitLocksJob, SubmitLocksInspection, SubmitAborted, Begins
  <2>4. txn[a] \in TxnRec
    BY <1>1
  <2>5. txn'[a].phase \in {"job", "locked", "idle"}
    BY <2>3, <2>4, IdleIs DEF TxnRec
  <2> QED BY <1>1, <2>1, <2>2, <2>5, OneTxnOK DEF Locks
<1> QED BY <1>2, <1>3, <1>4, <1>5 DEF RequestStep

\* What a drain does: only a verdict counts anything that matters.
LEMMA WorkerStepComplete ==
  ASSUME IInv, CompleteInv, NEW w \in Worker, WorkerStep(w) \/ WorkerDies(w)
  PROVE  CompleteInv'
<1> DEFINE t == txn[w]
           decided == [Idle EXCEPT !.kind = "verify", !.e = t.e, !.phase = "reads",
                                   !.sees = TRUE]
<1>1. /\ w \in Actor /\ txn \in [Actor -> TxnRec] /\ t \in TxnRec /\ TxnOK(t)
      /\ ev \in [E -> RowRec]
  BY Fields DEF Actor, IInv, TxnType, DataType
<1>2. ASSUME NEW e \in E, Sweep(w, e) PROVE CompleteInv'
  <2>1. SameRows
    BY <1>2 DEF Sweep, SameRows, serverVars
  <2>2. Moves(w, [Idle EXCEPT !.kind = "sweep"], e, "uploaded")
    BY <1>2 DEF Sweep
  <2>3. txn'[w].kind = "sweep" /\ \A b \in Actor \ {w} : txn'[b] = txn[b]
    BY <1>1, <2>2, IdleIs DEF Moves, TxnRec
  <2> QED BY <1>1, <2>1, <2>3, OneTxnOK
<1>3. ASSUME NEW e \in E, ReadVerify(w, e) \/ ReadReplicate(w, e) PROVE CompleteInv'
  <2>1. SameRows
    BY <1>3 DEF ReadVerify, ReadReplicate, SameRows, serverVars
  <2>2. \A b \in Actor \ {w} : txn'[b] = txn[b]
    BY <1>1, <1>3 DEF ReadVerify, ReadReplicate, Begins
  <2>3. txn'[w].phase = "reads"
    <3>1. CASE ReadVerify(w, e)
      BY <1>1, <3>1, IdleIs DEF ReadVerify, Begins, TxnRec
    <3>2. CASE ReadReplicate(w, e)
      BY <1>1, <3>2, IdleIs DEF ReadReplicate, Begins, TxnRec
    <3> QED BY <1>3, <3>1, <3>2
  <2> QED BY <1>1, <2>1, <2>2, <2>3, OneTxnOK DEF Locks
<1>4. CASE Fetch(w) \/ FetchFails(w) \/ CopyObject(w)
  <2>1. SameRows
    BY <1>4 DEF Fetch, FetchFails, CopyObject, SameRows, serverVars
  <2>2. t.phase = "reads" /\ \A b \in Actor \ {w} : txn'[b] = txn[b]
    BY <1>1, <1>4 DEF Fetch, FetchFails, CopyObject
  <2>3. txn'[w].phase \in {"reads", "fetched"}
    <3>1. CASE Fetch(w)
      BY <1>1, <2>2, <3>1 DEF Fetch, TxnRec
    <3>2. CASE FetchFails(w)
      BY <1>1, <2>2, <3>2 DEF FetchFails, TxnRec
    <3>3. CASE CopyObject(w)
      BY <1>1, <2>2, <3>3 DEF CopyObject, TxnRec
    <3> QED BY <1>4, <3>1, <3>2, <3>3
  <2> QED BY <1>1, <2>1, <2>2, <2>3, OneTxnOK DEF Locks
<1>5. CASE EvidenceVerified(w)
  <2>1. SameRows /\ UNCHANGED <<ev, insp>> /\ t.kind = "verify"
    BY <1>5 DEF EvidenceVerified, SameRows, serverVars
  <2>2. t.e \in E /\ ev[t.e].up # "none" /\ t.to \in Up
    BY <1>1, <2>1 DEF TxnOK, TxnRec, Up
  <2>3. CASE Moves(w, t, t.e, t.to)
    BY <1>1, <2>1, <2>2, <2>3, VerdictCounts
  <2>4. CASE txn' = [txn EXCEPT ![w] = decided]
    <3>1. txn'[w].phase = "reads" /\ \A b \in Actor \ {w} : txn'[b] = txn[b]
      BY <1>1, <2>4, IdleIs DEF TxnRec
    <3> QED BY <1>1, <2>1, <3>1, OneTxnOK DEF Locks
  <2> QED BY <1>5, <2>3, <2>4 DEF EvidenceVerified
<1>6. CASE Ack(w) \/ Fails(w) \/ WorkerDies(w)
  <2>1. SameRows /\ txn' = [txn EXCEPT ![w] = Idle]
    BY <1>6 DEF Ack, Fails, WorkerDies, SameRows, serverVars
  <2>2. txn'[w].kind = "none" /\ \A b \in Actor \ {w} : txn'[b] = txn[b]
    BY <1>1, <2>1, IdleIs
  <2> QED BY <1>1, <2>1, <2>2, OneTxnOK
<1>7. CASE EvidenceReplicated(w)
  <2>1. /\ insp' = insp /\ t.kind = "replicate"
        /\ txn' = [txn EXCEPT ![w] = [t EXCEPT !.phase = "reads", !.sees = TRUE]]
        /\ ev' = [ev EXCEPT ![t.e].replica =
                           IF copy[t.e] = "good" THEN "replicated" ELSE "failed"]
    BY <1>7 DEF EvidenceReplicated
  <2>2. txn'[w].phase = "reads" /\ \A b \in Actor \ {w} : txn'[b] = txn[b]
    BY <1>1, <2>1 DEF TxnRec
  <2>3. SameRows
    BY <1>1, <2>1 DEF SameRows, TxnOK, RowRec
  <2> QED BY <1>1, <2>2, <2>3, OneTxnOK DEF Locks
<1> QED BY <1>2, <1>3, <1>4, <1>5, <1>6, <1>7 DEF WorkerStep

\* A transaction that waited goes on with the count it has, or is aborted.
LEMMA WaitsComplete ==
  ASSUME IInv, CompleteInv, NEW a \in Actor, GetsInspection(a) \/ MoveAborted(a)
  PROVE  CompleteInv'
<1> DEFINE t == txn[a]
<1>1. txn \in [Actor -> TxnRec] /\ t \in TxnRec /\ CountOK(t)
  BY Fields DEF IInv, TxnType, CompleteInv
<1>2. SameRows /\ \A b \in Actor \ {a} : txn'[b] = txn[b]
  BY <1>1 DEF GetsInspection, MoveAborted, SameRows, serverVars
<1>3. CASE GetsInspection(a)
  <2>1. txn'[a] = [t EXCEPT !.phase = "holds"] /\ t.phase = "waits"
    BY <1>1, <1>3 DEF GetsInspection
  <2>2. txn'[a].kind = t.kind /\ txn'[a].e = t.e /\ txn'[a].to = t.to
        /\ txn'[a].verified = t.verified
    BY <1>1, <2>1 DEF TxnRec
  <2> HIDE DEF t
  <2>3. CountOK(txn'[a])
    BY <1>1, <2>1, <2>2 DEF CountOK, Locks
  <2> QED BY <1>2, <2>3, OneTxnOK
<1>4. CASE MoveAborted(a)
  <2>1. \/ txn'[a] = [t EXCEPT !.phase = "fetched", !.to = "none"]
        \/ txn'[a] = Idle
    BY <1>1, <1>4 DEF MoveAborted
  <2>2. txn'[a].phase \notin Locks
    BY <1>1, <2>1, IdleIs DEF TxnRec, Locks
  <2> QED BY <1>2, <2>2, OneTxnOK
<1> QED BY <1>3, <1>4

\* Every step keeps it, where nothing overlaps.
LEMMA NextComplete ==
  ASSUME IInv, CompleteInv, Apart, [Next]_vars
  PROVE  CompleteInv'
<1>1. CASE DeviceStep \/ (\E e \in E : LeaseEnds(e)) \/ UNCHANGED vars
  <2>1. UNCHANGED <<ev, insp, txn>>
    BY <1>1 DEF DeviceStep, Upload, RecordUploaded, LearnState, LeaseEnds, vars, serverVars
  <2>2. SameRows
    BY <2>1 DEF SameRows
  <2> QED BY <2>1, <2>2, SameRowsOK
<1>2. CASE \E a \in Request : RequestStep(a)
  BY <1>2, RequestStepComplete
<1>3. CASE \E w \in Worker : WorkerStep(w) \/ WorkerDies(w)
  BY <1>3, WorkerStepComplete
<1>4. CASE \E a \in Actor : GetsInspection(a) \/ MoveCommits(a) \/ MoveAborted(a)
  BY <1>4, WaitsComplete, MoveCommitsComplete
<1> QED BY <1>1, <1>2, <1>3, <1>4 DEF Next

\* A submitted inspection whose items are all verified is in review
\* (recount_evidence, promote_inspection), in every behaviour without the two
\* overlaps: each of them alone breaks it.
THEOREM CompleteGoesToReview == Spec /\ []Apart => []CompleteIsReviewed
<1>1. Init => CompleteInv
  BY DEF Init, CompleteInv, ManifestInv, FailedInv, Complete, CountOK, Submitted, Idle
<1>2. IInv /\ CompleteInv /\ Apart /\ [Next]_vars => CompleteInv'
  BY NextComplete
<1>3. CompleteInv => CompleteIsReviewed
  BY DEF CompleteInv, Complete, CompleteIsReviewed
<1> QED BY <1>1, <1>2, <1>3, EvidenceInvariant, PTL DEF Spec

=============================================================================
