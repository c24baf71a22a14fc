---------------------------- MODULE JobSyncProofs ----------------------------
(***************************************************************************)
(* The jobs stream, for any agents, any number of jobs and of rows in a    *)
(* page, and an office that writes meanwhile: what is checked on two jobs  *)
(* and pages of one row is proved here (JobSync).                          *)
(***************************************************************************)
EXTENDS JobSync, FiniteSetTheorems, WellFoundedInduction, TLAPS

JobStatus == {"scheduled", "assigned", "accepted", "unable_to_complete", "cancelled"}
View == [status : JobStatus \cup {"absent"}, mine : BOOLEAN]
Row == [at : Nat, status : JobStatus, owner : User \cup {NoOne}, ever : SUBSET User]
Position == Nat \X Nat

ServerType ==
  /\ clock \in Nat /\ row \in [Job -> Row]
  /\ \A t \in open : t.at \in Nat
PhoneType ==
  /\ user \in User
  /\ local \in [Job -> View] /\ shown \in [Job -> View]
  /\ queue \in [Job -> Seq([kind : Action, by : User])]
  /\ cursor \in Position /\ offered \subseteq Position
PageType ==
  pc = "page" =>
    /\ page.rows \subseteq Job
    /\ \A j \in page.rows : page.views[j] \in View
    /\ page.next \in Position /\ page.covers \subseteq Position
    /\ page = [rows |-> page.rows, views |-> page.views, next |-> page.next,
               more |-> page.more, covers |-> page.covers]

TypeInv == ServerType /\ PhoneType /\ PageType

-----------------------------------------------------------------------------
(* Positions. *)

\* The keyset order is total and transitive.
LEMMA OrderOfPositions ==
  ASSUME NEW p \in Position, NEW q \in Position, NEW r \in Position
  PROVE  /\ Behind(p, p)
         /\ Behind(p, q) /\ Behind(q, r) => Behind(p, r)
         /\ After(p, q) => Behind(q, p)
         /\ Behind(p, q) /\ Behind(q, p) => p = q
<1>1. /\ p[1] \in Nat /\ p[2] \in Nat /\ q[1] \in Nat /\ q[2] \in Nat
      /\ r[1] \in Nat /\ r[2] \in Nat /\ p = <<p[1], p[2]>> /\ q = <<q[1], q[2]>>
  BY DEF Position
<1> QED BY <1>1 DEF Behind, After

\* The jobs are numbers, and finitely many; so have they positions.
LEMMA JobsAreNumbers ==
  /\ Cardinality(Job) \in Nat /\ Job \subseteq Nat
  /\ \A S \in SUBSET Job : IsFiniteSet(S) /\ Cardinality(S) \in Nat
<1>1. IsFiniteSet(Job) /\ Cardinality(Job) \in Nat /\ Job = 1 .. Cardinality(Job)
  BY JobSyncAssumption, FS_CardinalityType
<1>2. \A k \in 1 .. Cardinality(Job) : k \in Nat
  BY <1>1
<1>3. \A S \in SUBSET Job : IsFiniteSet(S) /\ Cardinality(S) \in Nat
  BY <1>1, FS_Subset, FS_CardinalityType
<1> QED BY <1>1, <1>2, <1>3

\* A job's position.
LEMMA PosType ==
  ASSUME ServerType, NEW j \in Job
  PROVE  Pos(j) \in Position /\ Pos(j)[1] = row[j].at
<1>1. row[j].at \in Nat /\ j \in Nat
  BY JobsAreNumbers DEF ServerType, Row
<1> QED BY <1>1 DEF Pos, Position

\* Among some numbers there is a least one.
LEMMA LeastExists ==
  ASSUME NEW T \in SUBSET Nat, T # {}
  PROVE  \E m \in T : \A y \in T : m <= y
<1>1. PICK m \in T : \A y \in T : ~(<<y, m>> \in OpToRel(<, Nat))
  BY NatLessThanWellFounded, WFMin
<1>2. \A y \in T : ~(y < m)
  BY <1>1 DEF OpToRel
<1>3. \A y \in T : m <= y
  BY <1>2
<1> QED BY <1>3

\* Among bounded numbers there is a greatest one.
LEMMA GreatestExists ==
  ASSUME NEW N \in Nat, NEW T \in SUBSET Nat, T # {}, \A y \in T : y <= N
  PROVE  \E m \in T : \A y \in T : y <= m
<1> DEFINE R == {N - y : y \in T}
<1>1. R \in SUBSET Nat /\ R # {}
  <2>1. \A y \in T : N - y \in Nat
    OBVIOUS
  <2> QED BY <2>1
<1>2. PICK r \in R : \A y \in R : r <= y
  BY <1>1, LeastExists
<1>3. PICK m \in T : r = N - m
  BY <1>2
<1>4. ASSUME NEW y \in T PROVE y <= m
  <2>1. N - y \in R
    OBVIOUS
  <2>2. r <= N - y
    BY <1>2, <2>1
  <2> QED BY <1>3, <2>2
<1> QED BY <1>4

\* Some jobs have a first one.
LEMMA FirstExists ==
  ASSUME ServerType, NEW S \in SUBSET Job, S # {}
  PROVE  \E m \in S : \A i \in S : Behind(Pos(m), Pos(i))
<1>1. Job \subseteq Nat /\ \A j \in S : row[j].at \in Nat
  BY JobsAreNumbers DEF ServerType, Row
<1> DEFINE T == {row[j].at : j \in S}
<1>2. PICK a \in T : \A y \in T : a <= y
  <2>1. T \in SUBSET Nat /\ T # {}
    BY <1>1
  <2> HIDE DEF T
  <2> QED BY <2>1, LeastExists
<1> DEFINE R == {j \in S : row[j].at = a}
<1>3. R \in SUBSET Nat /\ R # {}
  BY <1>1, <1>2
<1>4. PICK m \in R : \A y \in R : m <= y
  BY <1>3, LeastExists
<1>5. ASSUME NEW i \in S PROVE Behind(Pos(m), Pos(i))
  <2>1. row[i].at \in T /\ a <= row[i].at /\ row[m].at = a
    BY <1>2, <1>4
  <2>2. row[i].at = a => m <= i
    BY <1>4
  <2> QED BY <1>1, <1>2, <1>3, <1>4, <2>1, <2>2 DEF Behind, After, Pos
<1> QED BY <1>4, <1>5

\* Their last one, if their stamps are of the past.
LEMMA LastExists ==
  ASSUME ServerType, NEW S \in SUBSET Job, S # {}, \A j \in S : row[j].at <= clock
  PROVE  \E m \in S : \A i \in S : Behind(Pos(i), Pos(m))
<1>0. clock \in Nat /\ Cardinality(Job) \in Nat
  BY JobsAreNumbers DEF ServerType
<1>1. Job \subseteq Nat /\ \A j \in S : row[j].at \in Nat
  BY JobsAreNumbers DEF ServerType, Row
<1> DEFINE T == {row[j].at : j \in S}
<1>2. PICK a \in T : \A y \in T : y <= a
  <2>1. T \in SUBSET Nat /\ T # {} /\ \A y \in T : y <= clock
    BY <1>1
  <2> HIDE DEF T
  <2> QED BY <1>0, <2>1, GreatestExists
<1> DEFINE R == {j \in S : row[j].at = a}
<1>3. R \in SUBSET Nat /\ R # {} /\ \A y \in R : y <= Cardinality(Job)
  <2>1. \A y \in Job : y <= Cardinality(Job)
    BY <1>0, JobSyncAssumption
  <2> QED BY <1>1, <1>2, <2>1
<1>4. PICK m \in R : \A y \in R : y <= m
  <2> HIDE DEF R
  <2> QED BY <1>0, <1>3, GreatestExists
<1>5. ASSUME NEW i \in S PROVE Behind(Pos(i), Pos(m))
  <2>1. row[i].at \in T /\ row[i].at <= a /\ row[m].at = a
    BY <1>2, <1>4
  <2>2. row[i].at = a => i <= m
    BY <1>4
  <2> QED BY <1>1, <1>2, <1>3, <1>4, <2>1, <2>2 DEF Behind, After, Pos
<1> QED BY <1>4, <1>5

-----------------------------------------------------------------------------
(* A page. *)

\* Stamps are of the past, and an open transaction's is nobody else's yet.
StampInv ==
  /\ \A j \in Job : row[j].at <= clock
  /\ \A t \in open :
       /\ t.at <= clock
       /\ \A j \in Job : row[j].at # t.at
       /\ \A o \in offered : o[1] # t.at
       /\ pc = "page" => \A o \in page.covers : o[1] # t.at
  /\ \A t, s \in open : t.at = s.at => t = s
  /\ \A o \in offered : o[1] <= clock
  /\ pc = "page" => \A o \in page.covers : o[1] <= clock

\* A page that has rows ends with the last of them.
LEMMA PageEnd ==
  ASSUME ServerType, StampInv, NEW S \in SUBSET Job, S # {}
  PROVE  \E m \in S : LastPos(S) = Pos(m) /\ \A i \in S : Behind(Pos(i), Pos(m))
<1>1. \E m \in S : \A i \in S : Behind(Pos(i), Pos(m))
  BY LastExists DEF StampInv
<1> DEFINE m == CHOOSE j \in S : \A i \in S : Behind(Pos(i), Pos(j))
<1>2. m \in S /\ \A i \in S : Behind(Pos(i), Pos(m))
  BY <1>1
<1>3. LastPos(S) = Pos(m)
  BY DEF LastPos
<1> HIDE DEF m
<1> QED BY <1>2, <1>3

\* A page that holds a row holds what comes before it.
LEMMA PageIsPrefix ==
  ASSUME ServerType, NEW S \in SUBSET Job, NEW m \in First(S), NEW j \in S,
         Behind(Pos(j), Pos(m))
  PROVE  j \in First(S)
<1> DEFINE B(k) == {i \in S : After(Pos(k), Pos(i))}
<1>1. B(j) \subseteq B(m)
  <2>1. ASSUME NEW i \in S, After(Pos(j), Pos(i)) PROVE After(Pos(m), Pos(i))
    <3>1. i \in Job /\ j \in Job /\ m \in Job
      BY DEF First
    <3>2. Pos(i) \in Position /\ Pos(j) \in Position /\ Pos(m) \in Position
      BY <3>1, PosType
    <3> HIDE DEF B
    <3>3. ~Behind(Pos(m), Pos(i))
      <4>1. ASSUME Behind(Pos(m), Pos(i)) PROVE FALSE
        <5>1. Behind(Pos(j), Pos(i))
          BY <3>2, <4>1, OrderOfPositions
        <5> QED BY <2>1, <5>1 DEF Behind
      <4> QED BY <4>1
    <3> QED BY <3>3 DEF Behind
  <2> QED BY <2>1
<1>2. Cardinality(B(m)) < Limit
  BY DEF First
<1>3. B(m) \in SUBSET Job /\ B(j) \in SUBSET Job
  OBVIOUS
<1> HIDE DEF B
<1>4. Cardinality(B(j)) <= Cardinality(B(m))
  BY <1>1, <1>3, JobsAreNumbers, FS_Subset
<1>5. Cardinality(B(j)) < Limit
  BY <1>2, <1>3, <1>4, JobsAreNumbers, JobSyncAssumption
<1> QED BY <1>5 DEF First, B

\* A page that is not full holds all there is.
LEMMA ShortPage ==
  ASSUME ServerType, NEW S \in SUBSET Job, Cardinality(First(S)) < Limit
  PROVE  First(S) = S
<1> DEFINE L == S \ First(S)
<1>1. SUFFICES ASSUME L # {} PROVE FALSE
  BY DEF First
<1>2. PICK m \in L : \A i \in L : Behind(Pos(m), Pos(i))
  <2>1. L \in SUBSET Job
    OBVIOUS
  <2> HIDE DEF L
  <2> QED BY <1>1, <2>1, FirstExists
<1> DEFINE B == {i \in S : After(Pos(m), Pos(i))}
<1>3. B \subseteq First(S)
  BY <1>2 DEF Behind
<1>4. First(S) \in SUBSET Job /\ B \in SUBSET Job
  BY DEF First
<1> HIDE DEF B
<1>5. Cardinality(B) <= Cardinality(First(S))
  BY <1>3, <1>4, JobsAreNumbers, FS_Subset
<1>6. Cardinality(B) < Limit
  BY <1>4, <1>5, JobsAreNumbers, JobSyncAssumption
<1> QED BY <1>2, <1>6 DEF First, B

-----------------------------------------------------------------------------
(* The invariant. *)

\* What waits on the phone is what the phone shows.
WaitInv == \A j \in Job : Waiting(j) => shown[j] # Absent /\ local[j] = shown[j]

\* The cursor has passed what was offered.
CursorInv == \A o \in offered : Behind(o, cursor)

\* A page on its way goes on from the cursor; it holds nothing the cursor has
\* passed, and what it covers and is still there it has as it is.
PageInv ==
  pc = "page" =>
    /\ Behind(cursor, page.next)
    /\ \A o \in page.covers : Behind(o, page.next)
    /\ \A j \in page.rows : Pos(j) \notin offered
    /\ \A j \in Job : Pos(j) \in page.covers => j \in page.rows /\ page.views[j] = ViewOf(j)

IInv == TypeInv /\ StampInv /\ WaitInv /\ CursorInv /\ PageInv /\ BehindCursor

\* The stream is in its initial state.
LEMMA InitOK == ASSUME Init PROVE IInv
<1>1. ServerType
  <2>1. Cardinality(Job) \in Nat
    BY JobsAreNumbers
  <2>2. \A j \in Job : row[j] \in Row
    BY <2>1 DEF Init, Row, JobStatus
  <2>3. row \in [Job -> Row]
    BY <2>2 DEF Init
  <2> QED BY <2>1, <2>3 DEF Init, ServerType
<1>2. PhoneType /\ PageType
  BY DEF Init, PhoneType, PageType, View, Absent, Position
<1>3. StampInv
  BY JobsAreNumbers DEF Init, StampInv
<1>4. WaitInv /\ CursorInv /\ PageInv /\ BehindCursor
  BY DEF Init, WaitInv, Waiting, CursorInv, PageInv, BehindCursor
<1> QED BY <1>1, <1>2, <1>3, <1>4 DEF IInv, TypeInv

\* What the invariant says of a row depends on the row, the agent, and what
\* the phone has of it.
LEMMA RowMoves ==
  ASSUME IInv, UNCHANGED <<user, local, shown, cursor, page, offered>>, pc' = pc,
         row' \in [Job -> Row],
         NEW c \in Nat, \A o \in offered : o[1] # c,
         pc = "page" => \A o \in page.covers : o[1] # c,
         \A j \in Job : row'[j] = row[j] \/ row'[j].at = c
  PROVE  CursorInv' /\ PageInv' /\ BehindCursor'
<1>1. ASSUME NEW j \in Job, Pos(j)' \in offered \/ (pc = "page" /\ Pos(j)' \in page.covers)
      PROVE  row'[j] = row[j]
  BY <1>1 DEF Pos
<1>2. CursorInv'
  BY DEF IInv, CursorInv, Behind, After
<1>3. BehindCursor'
  <2>1. ASSUME NEW j \in Job, Pos(j)' \in offered PROVE Knows(j)'
    <3>1. row'[j] = row[j] /\ Pos(j) \in offered
      BY <1>1, <2>1 DEF Pos
    <3> QED BY <3>1 DEF IInv, BehindCursor, Knows, Visible, ViewOf
  <2> QED BY <2>1 DEF BehindCursor
<1>4. PageInv'
  <2>1. SUFFICES ASSUME pc = "page" PROVE PageInv'
    BY DEF PageInv
  <2>2. page.rows \subseteq Job
    BY <2>1 DEF IInv, TypeInv, PageType
  <2>3. ASSUME NEW j \in page.rows PROVE Pos(j)' \notin offered
    BY <1>1, <2>1, <2>2, <2>3 DEF IInv, PageInv, Pos
  <2>4. ASSUME NEW j \in Job, Pos(j)' \in page.covers
        PROVE  j \in page.rows /\ page.views[j] = ViewOf(j)'
    <3>1. row'[j] = row[j] /\ Pos(j) \in page.covers
      BY <1>1, <2>1, <2>4 DEF Pos
    <3> QED BY <2>1, <3>1 DEF IInv, PageInv, ViewOf
  <2>5. Behind(cursor, page.next)' /\ \A o \in page.covers : Behind(o, page.next)'
    BY <2>1 DEF IInv, PageInv, Behind, After
  <2> QED BY <2>3, <2>4, <2>5 DEF PageInv
<1> QED BY <1>2, <1>3, <1>4

-----------------------------------------------------------------------------
(* The office. *)

\* A transaction begins: its stamp is new.
LEMMA BeginOK ==
  ASSUME IInv, NEW kind, NEW S, Begin(kind, S)
  PROVE  IInv'
<1> DEFINE t == [at |-> clock + 1, kind |-> kind, jobs |-> S]
<1>1. /\ clock' = clock + 1 /\ open' = open \cup {t} /\ t.at = clock + 1
      /\ UNCHANGED <<row, user, phoneVars, runVars, offered>>
  BY DEF Begin
<1> HIDE DEF t
<1>2. UNCHANGED <<row, user, local, cursor, queue, shown, pc, page, pages, offered>>
  BY <1>1 DEF phoneVars, runVars
<1>3. clock \in Nat /\ \A j \in Job : row[j].at \in Nat
  BY DEF IInv, TypeInv, ServerType, Row
<1>4. TypeInv'
  <2>1. clock' \in Nat /\ \A s \in open' : s.at \in Nat
    BY <1>1, <1>3 DEF IInv, TypeInv, ServerType
  <2>2. ServerType'
    BY <1>2, <2>1 DEF IInv, TypeInv, ServerType
  <2> QED BY <1>2, <2>2 DEF IInv, TypeInv, PhoneType, PageType
<1>5. StampInv'
  <2>1. /\ \A o \in offered : o[1] \in Nat
        /\ pc = "page" => \A o \in page.covers : o[1] \in Nat
        /\ \A s \in open : s.at \in Nat
    BY DEF IInv, TypeInv, ServerType, PhoneType, PageType, Position
  <2> QED BY <1>1, <1>2, <1>3, <2>1 DEF IInv, StampInv
<1>6. WaitInv'
  BY <1>2 DEF IInv, WaitInv, Waiting
<1>7. CursorInv' /\ PageInv' /\ BehindCursor'
  <2>1. /\ \A o \in offered : o[1] # clock + 1
        /\ pc = "page" => \A o \in page.covers : o[1] # clock + 1
    BY <1>3 DEF IInv, TypeInv, PhoneType, PageType, Position, StampInv
  <2>2. row' \in [Job -> Row] /\ clock + 1 \in Nat
    BY <1>2, <1>3 DEF IInv, TypeInv, ServerType
  <2> QED BY <1>2, <2>1, <2>2, RowMoves
<1> QED BY <1>4, <1>5, <1>6, <1>7 DEF IInv

\* A transaction leaves a row alone, or stamps it.
LEMMA ChangedRow ==
  ASSUME NEW r \in Row, NEW t, t.at \in Nat, NEW u \in User
  PROVE  Changed(r, t, u) \in Row /\ (Changed(r, t, u) = r \/ Changed(r, t, u).at = t.at)
<1> DEFINE c == Changed(r, t, u)
<1>1. CASE t.kind = "allocate" /\ r.status = "scheduled"
  <2>1. c = Allocate(r, t, u)
    BY <1>1 DEF Changed
  <2>2. Allocate(r, t, u) \in Row /\ Allocate(r, t, u).at = t.at
    BY DEF Allocate, Stamp, Row, JobStatus
  <2> QED BY <2>1, <2>2
<1>2. CASE \/ t.kind = "revoke" /\ r.status \in {"assigned", "accepted"}
           \/ t.kind = "expire" /\ r.status = "assigned"
  <2>1. c = Release(r, t)
    BY <1>2 DEF Changed
  <2>2. Release(r, t) \in Row /\ Release(r, t).at = t.at
    BY DEF Release, Stamp, Row, JobStatus
  <2> QED BY <2>1, <2>2
<1>3. CASE t.kind = "cancel" /\ r.status # "cancelled"
  <2>1. c = [Stamp(r, t) EXCEPT !.status = "cancelled"]
    BY <1>3 DEF Changed
  <2>2. c \in Row /\ c.at = t.at
    BY <2>1 DEF Stamp, Row, JobStatus
  <2> QED BY <2>2
<1>4. CASE t.kind = "reschedule" /\ r.status \in {"scheduled", "assigned", "accepted"}
  <2>1. c = Stamp(r, t)
    BY <1>4 DEF Changed
  <2>2. c \in Row /\ c.at = t.at
    BY <2>1 DEF Stamp, Row
  <2> QED BY <2>2
<1>5. CASE /\ ~(t.kind = "allocate" /\ r.status = "scheduled")
           /\ ~(t.kind = "revoke" /\ r.status \in {"assigned", "accepted"})
           /\ ~(t.kind = "expire" /\ r.status = "assigned")
           /\ ~(t.kind = "cancel" /\ r.status # "cancelled")
           /\ ~(t.kind = "reschedule" /\ r.status \in {"scheduled", "assigned", "accepted"})
  BY <1>5 DEF Changed
<1> QED BY <1>1, <1>2, <1>3, <1>4, <1>5

\* A transaction commits: its rows take its stamp.
LEMMA CommitOK ==
  ASSUME IInv, NEW t \in open, Commit(t)
  PROVE  IInv'
<1>1. PICK u \in User :
        /\ row' = [j \in Job |-> IF j \in t.jobs THEN Changed(row[j], t, u) ELSE row[j]]
        /\ open' = open \ {t}
        /\ UNCHANGED <<clock, user, phoneVars, runVars, offered>>
  BY DEF Commit
<1>2. UNCHANGED <<clock, user, local, cursor, queue, shown, pc, page, pages, offered>>
  BY <1>1 DEF phoneVars, runVars
<1>3. clock \in Nat /\ t.at \in Nat /\ t.at <= clock /\ row \in [Job -> Row]
  BY DEF IInv, TypeInv, ServerType, StampInv
<1>4. ASSUME NEW j \in Job PROVE row'[j] \in Row /\ (row'[j] = row[j] \/ row'[j].at = t.at)
  BY <1>1, <1>3, <1>4, ChangedRow
<1>5. row' \in [Job -> Row]
  BY <1>1, <1>4
<1>6. TypeInv'
  BY <1>1, <1>2, <1>5 DEF IInv, TypeInv, ServerType, PhoneType, PageType
<1>7. StampInv'
  <2>1. \A j \in Job : row'[j].at <= clock
    BY <1>3, <1>4 DEF IInv, StampInv
  <2>2. \A s \in open' : s \in open /\ s.at # t.at
    BY <1>1 DEF IInv, StampInv
  <2>3. \A s \in open', j \in Job : row'[j].at # s.at
    BY <1>4, <2>2 DEF IInv, StampInv
  <2> QED BY <1>2, <2>1, <2>2, <2>3 DEF IInv, StampInv
<1>8. WaitInv'
  BY <1>2 DEF IInv, WaitInv, Waiting
<1>9. CursorInv' /\ PageInv' /\ BehindCursor'
  BY <1>2, <1>3, <1>4, <1>5, RowMoves DEF IInv, StampInv
<1> QED BY <1>6, <1>7, <1>8, <1>9 DEF IInv

-----------------------------------------------------------------------------
(* The agent. *)

\* An action on the phone: its status waits there.
LEMMA RecordOK ==
  ASSUME IInv, NEW j \in Job, NEW kind \in Action, Record(j, kind)
  PROVE  /\ IInv'
         /\ queue'[j] # queue[j] /\ \A i \in Job \ {j} : local'[i] = local[i]
<1> DEFINE v == [status |-> StatusAfter[kind], mine |-> kind # "reject"]
           a == [kind |-> kind, by |-> user]
<1>1. v \in View /\ v # Absent
  BY DEF View, Absent, JobStatus, StatusAfter, Action
<1>2. /\ local' = [local EXCEPT ![j] = v] /\ shown' = [shown EXCEPT ![j] = v]
      /\ queue' = [queue EXCEPT ![j] = Append(@, a)]
      /\ UNCHANGED <<clock, row, open, user, cursor, pc, page, pages, offered>>
  BY DEF Record, serverVars, runVars
<1>3. a \in [kind : Action, by : User]
  BY DEF IInv, TypeInv, PhoneType
<1> HIDE DEF v, a
<1>4. /\ local \in [Job -> View] /\ shown \in [Job -> View]
      /\ queue \in [Job -> Seq([kind : Action, by : User])]
  BY DEF IInv, TypeInv, PhoneType
<1>5. /\ queue' \in [Job -> Seq([kind : Action, by : User])] /\ queue'[j] # queue[j]
  <2>1. queue[j] \in Seq([kind : Action, by : User])
    BY <1>4
  <2>2. Append(queue[j], a) \in Seq([kind : Action, by : User]) /\ Append(queue[j], a) # queue[j]
    <3>1. Len(Append(queue[j], a)) = Len(queue[j]) + 1 /\ Len(queue[j]) \in Nat
      BY <1>3, <2>1
    <3>2. Append(queue[j], a) # queue[j]
      BY <3>1
    <3>3. Append(queue[j], a) \in Seq([kind : Action, by : User])
      BY <1>3, <2>1
    <3> QED BY <3>2, <3>3
  <2> QED BY <1>2, <1>4, <2>2
<1>6. TypeInv'
  <2>1. PhoneType'
    BY <1>1, <1>2, <1>4, <1>5 DEF IInv, TypeInv, PhoneType
  <2> QED BY <1>2, <2>1 DEF IInv, TypeInv, ServerType, PageType
<1>7. \A i \in Job : IF i = j THEN local'[i] = v /\ shown'[i] = v
                     ELSE UNCHANGED <<local[i], shown[i], queue[i]>>
  BY <1>2, <1>4
<1>8. WaitInv'
  BY <1>1, <1>7 DEF IInv, WaitInv, Waiting
<1>9. BehindCursor'
  <2>1. ASSUME NEW i \in Job, Knows(i) PROVE Knows(i)'
    BY <1>1, <1>2, <1>7, <2>1 DEF Knows, Visible, ViewOf
  <2> QED BY <1>2, <2>1 DEF IInv, BehindCursor, Pos
<1>10. StampInv' /\ CursorInv' /\ PageInv'
  BY <1>2 DEF IInv, StampInv, CursorInv, PageInv, Behind, After, Pos, ViewOf
<1> QED BY <1>5, <1>6, <1>7, <1>8, <1>9, <1>10 DEF IInv

\* Another agent signs in: nothing has been offered to him.
LEMMA SignInOK ==
  ASSUME IInv, NEW u \in User, SignIn(u)
  PROVE  IInv'
<1>1. /\ user' = u /\ offered' = {} /\ page' = [page EXCEPT !.covers = {}]
      /\ UNCHANGED <<clock, row, open, local, cursor, queue, shown, pc, pages>>
  BY DEF SignIn, serverVars, phoneVars
<1>2. pc = "page" => /\ page'.rows = page.rows /\ page'.views = page.views
                     /\ page'.next = page.next /\ page'.covers = {}
                     /\ page' = [rows |-> page'.rows, views |-> page'.views,
                                 next |-> page'.next, more |-> page'.more,
                                 covers |-> page'.covers]
  <2>1. SUFFICES ASSUME pc = "page"
                 PROVE  /\ page'.rows = page.rows /\ page'.views = page.views
                        /\ page'.next = page.next /\ page'.covers = {}
                        /\ page' = [rows |-> page'.rows, views |-> page'.views,
                                    next |-> page'.next, more |-> page'.more,
                                    covers |-> page'.covers]
    OBVIOUS
  <2>2. page = [rows |-> page.rows, views |-> page.views, next |-> page.next,
                more |-> page.more, covers |-> page.covers]
    BY <2>1 DEF IInv, TypeInv, PageType
  <2>3. page' = [rows |-> page.rows, views |-> page.views, next |-> page.next,
                 more |-> page.more, covers |-> {}]
    BY <1>1, <2>2
  <2> QED BY <2>3
<1>3. TypeInv'
  <2>1. ServerType' /\ PhoneType'
    BY <1>1 DEF IInv, TypeInv, ServerType, PhoneType
  <2>2. PageType'
    BY <1>1, <1>2 DEF IInv, TypeInv, PageType
  <2> QED BY <2>1, <2>2 DEF TypeInv
<1>4. StampInv' /\ WaitInv' /\ CursorInv' /\ BehindCursor'
  BY <1>1, <1>2 DEF IInv, StampInv, WaitInv, Waiting, CursorInv, BehindCursor
<1>5. PageInv'
  BY <1>1, <1>2 DEF IInv, PageInv, Behind, After
<1> QED BY <1>3, <1>4, <1>5 DEF IInv

-----------------------------------------------------------------------------
(* The sync run. *)

\* The run goes on, or stops, without a page.
LEMMA NoPageOK ==
  ASSUME IInv, UNCHANGED <<serverVars, user, phoneVars, offered>>, pc' # "page"
  PROVE  IInv'
<1>1. UNCHANGED <<clock, row, open, user, local, cursor, queue, shown, offered>>
  BY DEF serverVars, phoneVars
<1>2. TypeInv'
  BY <1>1 DEF IInv, TypeInv, ServerType, PhoneType, PageType
<1>3. StampInv' /\ WaitInv' /\ CursorInv' /\ PageInv'
  BY <1>1 DEF IInv, StampInv, WaitInv, Waiting, CursorInv, PageInv, Behind, After
<1>4. BehindCursor'
  BY <1>1 DEF IInv, BehindCursor, Knows, Visible, ViewOf, Pos
<1> QED BY <1>2, <1>3, <1>4 DEF IInv

\* The server gets an action, and takes it or leaves it.
LEMMA SendOK ==
  ASSUME IInv, NEW j \in Job, SendNext(j)
  PROVE  IInv'
<1> DEFINE a == Head(queue[j])
<1>1. /\ queue' = [queue EXCEPT ![j] = Tail(@)] /\ queue[j] # <<>> /\ pc = "drain"
      /\ UNCHANGED <<open, user, local, cursor, shown, pc, page, pages, offered>>
      /\ \/ /\ clock' = clock + 1 /\ Fits(a, row[j])
            /\ row' = [row EXCEPT ![j] = AfterAction(a, @, clock + 1)]
         \/ UNCHANGED <<clock, row>>
  BY DEF SendNext, runVars
<1>2. /\ queue \in [Job -> Seq([kind : Action, by : User])]
      /\ clock \in Nat /\ row \in [Job -> Row]
  BY DEF IInv, TypeInv, PhoneType, ServerType
<1>3. queue[j] \in Seq([kind : Action, by : User])
  BY <1>2
<1>4. a \in [kind : Action, by : User] /\ Tail(queue[j]) \in Seq([kind : Action, by : User])
  <2> DEFINE A == [kind : Action, by : User]
  <2>1. queue[j] \in Seq(A) /\ queue[j] # <<>>
    BY <1>1, <1>3
  <2> HIDE DEF A
  <2>2. Head(queue[j]) \in A /\ Tail(queue[j]) \in Seq(A)
    BY <2>1
  <2> QED BY <2>2 DEF A
<1> HIDE DEF a
<1>5. row' \in [Job -> Row] /\ \A i \in Job : row'[i] = row[i] \/ row'[i].at = clock'
  <2>1. CASE UNCHANGED <<clock, row>>
    BY <1>2, <2>1
  <2>2. CASE clock' = clock + 1 /\ row' = [row EXCEPT ![j] = AfterAction(a, @, clock + 1)]
    <3>1. AfterAction(a, row[j], clock + 1) \in Row
          /\ AfterAction(a, row[j], clock + 1).at = clock + 1
      <4>1. row[j] \in Row /\ clock + 1 \in Nat
        BY <1>2
      <4>2. CASE a.kind = "reject"
        <5>1. AfterAction(a, row[j], clock + 1) = Release(row[j], [at |-> clock + 1])
          BY <4>2 DEF AfterAction
        <5>2. Release(row[j], [at |-> clock + 1]) \in Row
              /\ Release(row[j], [at |-> clock + 1]).at = clock + 1
          BY <4>1 DEF Release, Stamp, Row, JobStatus
        <5> QED BY <5>1, <5>2
      <4>3. CASE a.kind # "reject"
        <5>1. AfterAction(a, row[j], clock + 1)
                = [row[j] EXCEPT !.at = clock + 1, !.status = StatusAfter[a.kind]]
          BY <4>3 DEF AfterAction
        <5>2. StatusAfter[a.kind] \in JobStatus
          BY <1>4 DEF StatusAfter, JobStatus, Action
        <5> QED BY <4>1, <5>1, <5>2 DEF Row
      <4> QED BY <4>2, <4>3
    <3> QED BY <1>2, <2>2, <3>1
  <2> QED BY <1>1, <2>1, <2>2
<1>6. queue' \in [Job -> Seq([kind : Action, by : User])]
  BY <1>1, <1>2, <1>4
<1>7. TypeInv'
  <2>1. clock' \in Nat
    BY <1>1, <1>2
  <2> QED BY <1>1, <1>5, <1>6, <2>1 DEF IInv, TypeInv, ServerType, PhoneType, PageType
<1>8. WaitInv'
  <2>1. \A i \in Job : Waiting(i)' => Waiting(i)
    BY <1>1, <1>2 DEF Waiting
  <2> QED BY <1>1, <2>1 DEF IInv, WaitInv
<1>9. CASE UNCHANGED <<clock, row>>
  <2>1. StampInv' /\ CursorInv' /\ PageInv'
    BY <1>1, <1>9 DEF IInv, StampInv, CursorInv, PageInv, Behind, After
  <2>2. BehindCursor'
    BY <1>1, <1>9 DEF IInv, BehindCursor, Knows, Visible, ViewOf, Pos
  <2> QED BY <1>7, <1>8, <2>1, <2>2 DEF IInv
<1>10. CASE clock' = clock + 1
  <2>1. \A i \in Job : row[i].at \in Nat /\ row[i].at <= clock
    BY <1>2 DEF IInv, StampInv, Row
  <2>2. \A o \in offered : o[1] \in Nat /\ o[1] <= clock
    BY DEF IInv, TypeInv, PhoneType, Position, StampInv
  <2>3. \A t \in open : t.at \in Nat /\ t.at <= clock
    BY DEF IInv, TypeInv, ServerType, StampInv
  <2>4. StampInv'
    <3>1. \A i \in Job : row'[i].at <= clock + 1
      <4>1. ASSUME NEW i \in Job PROVE row'[i].at <= clock + 1
        <5>1. clock \in Nat /\ row[i].at \in Nat /\ row[i].at <= clock
          BY <1>2, <2>1
        <5>2. row'[i] = row[i] \/ row'[i].at = clock + 1
          BY <1>5, <1>10
        <5>3. row'[i].at = row[i].at \/ row'[i].at = clock + 1
          BY <5>2
        <5> QED BY <5>1, <5>3
      <4> QED BY <4>1
    <3>2. \A t \in open, i \in Job : row'[i].at # t.at
      <4>1. ASSUME NEW t \in open, NEW i \in Job PROVE row'[i].at # t.at
        <5>1. clock \in Nat /\ t.at \in Nat /\ t.at <= clock /\ row[i].at # t.at
          BY <1>2, <2>3 DEF IInv, StampInv
        <5>2. row'[i] = row[i] \/ row'[i].at = clock + 1
          BY <1>5, <1>10
        <5>3. row'[i].at = row[i].at \/ row'[i].at = clock + 1
          BY <5>2
        <5> QED BY <5>1, <5>3
      <4> QED BY <4>1
    <3> QED BY <1>1, <1>2, <1>10, <2>2, <2>3, <3>1, <3>2 DEF IInv, StampInv
  <2>5. CursorInv' /\ PageInv' /\ BehindCursor'
    <3>1. \A o \in offered : o[1] # clock'
      BY <1>2, <1>10, <2>2
    <3>2. clock' \in Nat
      BY <1>2, <1>10
    <3> HIDE <1>10
    <3> QED BY <1>1, <1>5, <3>1, <3>2, RowMoves
  <2> QED BY <1>7, <1>8, <2>4, <2>5 DEF IInv
<1> QED BY <1>1, <1>9, <1>10

\* A page is read: it covers the rows it holds, and nothing the cursor passed.
LEMMA ReadOK ==
  ASSUME IInv, PullRead
  PROVE  /\ IInv'
         /\ ~page'.more => \A j \in Job : Visible(j) => Behind(Pos(j), page'.next)
<1> DEFINE got == First(Due)
           next == IF got = {} THEN cursor ELSE LastPos(got)
           covers == {Pos(j) : j \in {i \in Due : Behind(Pos(i), next)}}
           pg == [rows |-> got, views |-> [j \in got |-> ViewOf(j)],
                  next |-> next, more |-> HasMore(Cardinality(got)), covers |-> covers]
<1>1. /\ page' = pg /\ pc' = "page"
      /\ UNCHANGED <<clock, row, open, user, local, cursor, queue, shown, offered>>
  BY DEF PullRead, serverVars, phoneVars
<1>2. ServerType /\ StampInv /\ Due \in SUBSET Job /\ got \in SUBSET Due
  BY DEF IInv, TypeInv, Due, First
<1>3. \A j \in Job : Pos(j) \in Position /\ Pos(j)[1] = row[j].at
  BY <1>2, PosType
<1>4. cursor \in Position
  BY DEF IInv, TypeInv, PhoneType
<1>5. /\ next \in Position /\ Behind(cursor, next)
      /\ \A j \in got : Behind(Pos(j), next)
      /\ \A j \in Due : Behind(Pos(j), next) => j \in got
  <2>1. CASE got = {}
    <3>1. next = cursor /\ Behind(cursor, cursor)
      BY <1>4, <2>1, OrderOfPositions
    <3>2. \A j \in Due : ~Behind(Pos(j), cursor)
      BY DEF Due, Behind
    <3> QED BY <1>4, <2>1, <3>1, <3>2
  <2>2. CASE got # {}
    <3>1. PICK m \in got : LastPos(got) = Pos(m) /\ \A i \in got : Behind(Pos(i), Pos(m))
      <4>1. got \in SUBSET Job
        BY <1>2
      <4> HIDE DEF got
      <4> QED BY <1>2, <2>2, <4>1, PageEnd
    <3>2. next = Pos(m)
      BY <2>2, <3>1
    <3> HIDE DEF got, next
    <3>3. m \in Job /\ m \in Due /\ Pos(m) \in Position
      BY <1>2, <1>3, <3>1
    <3>4. Behind(cursor, Pos(m))
      BY <1>4, <3>3, OrderOfPositions DEF Due
    <3>5. \A j \in Due : Behind(Pos(j), Pos(m)) => j \in got
      BY <1>2, <3>1, PageIsPrefix DEF got
    <3> QED BY <3>1, <3>2, <3>3, <3>4, <3>5
  <2> QED BY <2>1, <2>2
<1>6. \A o \in covers : \E j \in got : o = Pos(j)
  BY <1>5
<1>7. /\ page'.rows = got /\ page'.views = [j \in got |-> ViewOf(j)]
      /\ page'.next = next /\ page'.covers = covers
      /\ page'.more = HasMore(Cardinality(got))
      /\ page' = [rows |-> page'.rows, views |-> page'.views,
                  next |-> page'.next, more |-> page'.more,
                  covers |-> page'.covers]
  <2> HIDE DEF got, next, covers
  <2> QED BY <1>1
<1> HIDE DEF got, next, covers, pg
<1>8. TypeInv'
  <2>1. \A j \in got : ViewOf(j) \in View
    BY <1>2 DEF ViewOf, View, ServerType, Row
  <2>2. PageType'
    <3>1. page'.rows \subseteq Job /\ \A j \in page'.rows : page'.views[j] \in View
      BY <1>2, <1>7, <2>1
    <3>2. page'.next \in Position /\ page'.covers \subseteq Position
      BY <1>2, <1>3, <1>5, <1>6, <1>7
    <3> QED BY <1>7, <3>1, <3>2 DEF PageType
  <2> QED BY <1>1, <2>2 DEF IInv, TypeInv, ServerType, PhoneType
<1>9. StampInv'
  <2>1. \A o \in page'.covers : \E j \in Job : o[1] = row[j].at
    BY <1>2, <1>3, <1>6, <1>7
  <2> QED BY <1>1, <2>1 DEF IInv, StampInv
<1>10. WaitInv' /\ CursorInv' /\ BehindCursor'
  BY <1>1 DEF IInv, WaitInv, Waiting, CursorInv, BehindCursor, Behind, After, Knows, Visible,
              ViewOf, Pos
<1>11. PageInv'
  <2>1. Behind(cursor, page'.next) /\ \A o \in page'.covers : Behind(o, page'.next)
    BY <1>5, <1>6, <1>7
  <2>2. \A j \in page'.rows : Pos(j) \notin offered
    BY <1>2, <1>7 DEF IInv, CursorInv, Due, Behind
  <2>3. \A j \in Job : Pos(j) \in page'.covers => j \in page'.rows /\ page'.views[j] = ViewOf(j)
    <3>1. ASSUME NEW j \in Job, Pos(j) \in covers PROVE j \in got
      <4>1. PICK i \in got : Pos(j) = Pos(i)
        BY <1>6, <3>1
      <4> QED BY <4>1 DEF Pos
    <3> QED BY <1>7, <3>1
  <2>4. \A j \in Job : Pos(j)' = Pos(j) /\ ViewOf(j)' = ViewOf(j)
    BY <1>1 DEF Pos, ViewOf
  <2> QED BY <1>1, <1>2, <1>7, <2>1, <2>2, <2>3, <2>4 DEF PageInv, Behind, After
<1>12. ASSUME ~page'.more, NEW j \in Job, Visible(j) PROVE Behind(Pos(j), page'.next)
  <2>1. Cardinality(got) < Limit
    <3>1. ~HasMore(Cardinality(got))
      BY <1>7, <1>12
    <3>2. Cardinality(got) \in Nat
      BY <1>2, JobsAreNumbers
    <3> QED BY <3>1, <3>2, JobSyncAssumption DEF HasMore
  <2>2. got = Due
    BY <1>2, <2>1, ShortPage DEF got
  <2>3. CASE j \in Due
    BY <1>5, <1>7, <2>2, <2>3
  <2>4. CASE j \notin Due
    <3>1. Behind(Pos(j), cursor)
      BY <1>12, <2>4 DEF Due, Behind
    <3> QED BY <1>3, <1>4, <1>5, <1>7, <3>1, OrderOfPositions
  <2> QED BY <2>3, <2>4
<1> QED BY <1>8, <1>9, <1>10, <1>11, <1>12 DEF IInv

\* A page is stored, and the cursor with it.
LEMMA ApplyOK ==
  ASSUME IInv, PullApply
  PROVE  /\ IInv'
         /\ \A j \in Job : Waiting(j) => local'[j] = local[j]
<1>1. /\ pc = "page" /\ pc' # "page" /\ cursor' = page.next
      /\ local' = [j \in Job |-> IF j \in Taken THEN page.views[j] ELSE local[j]]
      /\ shown' = [j \in Job |-> IF j \in Taken THEN Absent ELSE shown[j]]
      /\ offered' = {o \in offered \cup page.covers : \E j \in Job : o = Pos(j)}
      /\ UNCHANGED <<clock, row, open, user, queue>>
  BY DEF PullApply, serverVars
<1>2. /\ local \in [Job -> View] /\ shown \in [Job -> View] /\ Absent \in View
      /\ page.rows \subseteq Job /\ \A j \in page.rows : page.views[j] \in View
      /\ page.next \in Position /\ page.covers \subseteq Position
      /\ cursor \in Position /\ offered \subseteq Position
  BY <1>1 DEF IInv, TypeInv, PhoneType, PageType, View, Absent
<1>3. \A j \in Job : Waiting(j) => j \notin Taken
  BY DEF IInv, WaitInv, Taken, Kept
<1>4. TypeInv'
  <2>1. local' \in [Job -> View] /\ shown' \in [Job -> View]
    BY <1>1, <1>2 DEF Taken
  <2>2. offered' \subseteq Position /\ cursor' \in Position
    BY <1>1, <1>2
  <2> QED BY <1>1, <2>1, <2>2 DEF IInv, TypeInv, ServerType, PhoneType, PageType
<1>5. StampInv'
  BY <1>1 DEF IInv, StampInv
<1>6. WaitInv'
  BY <1>1, <1>3 DEF IInv, WaitInv, Waiting
<1>7. CursorInv'
  <2>1. ASSUME NEW o \in offered PROVE Behind(o, page.next)
    BY <1>1, <1>2, OrderOfPositions DEF IInv, CursorInv, PageInv
  <2>2. \A o \in page.covers : Behind(o, page.next)
    BY <1>1 DEF IInv, PageInv
  <2> QED BY <1>1, <2>1, <2>2 DEF CursorInv, Behind, After
<1>8. PageInv'
  BY <1>1 DEF PageInv
<1>9. BehindCursor'
  <2>1. SUFFICES ASSUME NEW j \in Job, Pos(j) \in offered \cup page.covers, Visible(j)
                 PROVE  local'[j] = ViewOf(j) \/ (shown'[j] # Absent /\ local'[j] = shown'[j])
    BY <1>1 DEF BehindCursor, Knows, Visible, ViewOf, Pos
  <2>2. CASE j \in Taken
    <3>1. Pos(j) \in page.covers
      BY <1>1, <2>1, <2>2 DEF IInv, PageInv, Taken
    <3> QED BY <1>1, <2>2, <3>1 DEF IInv, PageInv
  <2>3. CASE j \notin Taken /\ Pos(j) \in page.covers
    <3>1. Waiting(j)
      BY <1>1, <2>3 DEF IInv, PageInv, Taken, Kept
    <3> QED BY <1>1, <2>3, <3>1 DEF IInv, WaitInv
  <2>4. CASE j \notin Taken /\ Pos(j) \in offered
    BY <1>1, <2>1, <2>4 DEF IInv, BehindCursor, Knows
  <2> QED BY <2>1, <2>2, <2>3, <2>4
<1>10. \A j \in Job : Waiting(j) => local'[j] = local[j]
  BY <1>1, <1>3
<1> QED BY <1>4, <1>5, <1>6, <1>7, <1>8, <1>9, <1>10 DEF IInv

-----------------------------------------------------------------------------
(* The theorems. *)

\* Every step keeps the invariant, and no pull undoes what the agent did.
LEMMA NextOK ==
  ASSUME IInv, Next
  PROVE  /\ IInv'
         /\ \A j \in Job : Waiting(j) /\ queue[j] = queue'[j] => local'[j] = local[j]
<1>1. CASE Office
  <2>1. UNCHANGED local
    BY <1>1 DEF Office, Begin, Commit, phoneVars
  <2> QED BY <1>1, <2>1, BeginOK, CommitOK DEF Office
<1>2. CASE \E j \in Job, kind \in Action : Record(j, kind)
  BY <1>2, RecordOK
<1>3. CASE \E u \in User : SignIn(u)
  <2>1. UNCHANGED local
    BY <1>3 DEF SignIn, phoneVars
  <2> QED BY <1>3, <2>1, SignInOK
<1>4. CASE StartRun \/ DrainEnds \/ PullFails
  <2>1. UNCHANGED <<serverVars, user, phoneVars, offered>> /\ pc' # "page"
    BY <1>4 DEF StartRun, DrainEnds, PullFails
  <2>2. UNCHANGED local
    BY <2>1 DEF phoneVars
  <2> QED BY <2>1, <2>2, NoPageOK
<1>5. CASE \E j \in Job : SendNext(j)
  <2>1. UNCHANGED local
    BY <1>5 DEF SendNext
  <2> QED BY <1>5, <2>1, SendOK
<1>6. CASE PullRead
  <2>1. UNCHANGED local
    BY <1>6 DEF PullRead, phoneVars
  <2> QED BY <1>6, <2>1, ReadOK
<1>7. CASE PullApply
  BY <1>7, ApplyOK
<1> QED BY <1>1, <1>2, <1>3, <1>4, <1>5, <1>6, <1>7 DEF Next, Run

\* A step that changes nothing changes nothing.
LEMMA StutterOK == ASSUME IInv, UNCHANGED vars PROVE IInv' /\ UNCHANGED local
<1>1. /\ UNCHANGED <<serverVars, user, phoneVars, offered, pc, page, pages>>
      /\ UNCHANGED <<clock, row, open, local, cursor, queue, shown>>
  BY DEF vars, serverVars, phoneVars, runVars
<1>2. TypeInv'
  BY <1>1 DEF IInv, TypeInv, ServerType, PhoneType, PageType
<1>3. StampInv' /\ WaitInv' /\ CursorInv'
  BY <1>1 DEF IInv, StampInv, WaitInv, Waiting, CursorInv, Behind, After
<1>4. PageInv' /\ BehindCursor'
  BY <1>1 DEF IInv, PageInv, BehindCursor, Knows, Visible, ViewOf, Pos, Behind, After
<1> QED BY <1>1, <1>2, <1>3, <1>4 DEF IInv

\* The invariant of the stream: stamps, pages, the cursor, and what waits.
THEOREM JobSyncInvariant == Spec => []IInv
<1>1. Init => IInv
  BY InitOK
<1>2. IInv /\ [Next]_vars => IInv'
  BY NextOK, StutterOK
<1> QED BY <1>1, <1>2, PTL DEF Spec

\* A row the cursor has passed, and that could be read, is on the phone as it
\* is on the server, or as the agent's waiting action left it (sync_read,
\* PullEngine._apply).
THEOREM KnownBehindCursor == Spec => []BehindCursor
<1>1. IInv => BehindCursor
  BY DEF IInv
<1> QED BY <1>1, JobSyncInvariant, PTL

\* No pull undoes an action that waits (JobsSection.apply).
THEOREM NeverUndoneByPull == Spec => NeverUndone
<1>1. IInv /\ [Next]_vars =>
        [\A j \in Job :
           Waiting(j) /\ Waiting(j)' /\ queue[j] = queue'[j] => local'[j] = local[j]]_vars
  BY NextOK
<1> QED BY <1>1, JobSyncInvariant, PTL DEF Spec, NeverUndone

\* A page that is the last one leaves nothing unread behind it (sync_read's
\* has_more, whatever the limit).
THEOREM LastPageIsLast == Spec => LastIsLast
<1>1. IInv /\ [Next]_vars =>
        [PullRead /\ ~page'.more =>
           \A j \in Job : Visible(j) => Behind(Pos(j), page'.next)]_vars
  BY ReadOK
<1> QED BY <1>1, JobSyncInvariant, PTL DEF Spec, LastIsLast

=============================================================================
