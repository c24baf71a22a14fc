---------------------------- MODULE SessionsProofs ----------------------------
(***************************************************************************)
(* For any mix of disturbances and any number of tokens: a token family    *)
(* has one token that can be redeemed (OneLiveToken of Sessions), an app   *)
(* that is alone and loses no answers presents none it has rotated away    *)
(* (NoSelfReuse), and only a sign-in opens the UI again (SignOutSticks).   *)
(*                                                                         *)
(* One live token: a refresh is two steps, and between them the row it has *)
(* read is locked.  What it read then stays true (LockInv), because every  *)
(* step that revokes or rotates a row waits for its lock.  So the commit   *)
(* rotates away the one live token of the family while it issues another.  *)
(* The ids of new rows are new (IdsInv), and a family begins with the row  *)
(* that has its name (FamilyInv): a sign-in starts a family nobody is in.  *)
(* The rest says that a token the device presents has been issued.         *)
(*                                                                         *)
(* The device: without the task, or without losses, no other copy of the   *)
(* book is older than what is stored (KeeperInv), so what is read again    *)
(* has the flags that were stored last.  Without either, what the app      *)
(* keeps is not rotated but by the refresh whose answer replaces it, and   *)
(* a sign-in brings a token nobody else has (CalmInv).                     *)
(***************************************************************************)
EXTENDS Sessions, FiniteSetTheorems, TLAPS

TypeInv ==
  /\ world \in Worlds
  /\ sess \in [Sid -> Row]
  /\ late \subseteq Sid
  /\ stored \in Entry
  /\ running \subseteq Client
  /\ book \in [Client -> Entry]
  /\ call \in [Client -> [Kind -> Call]]

\* A refresh of c is between its read and its commit, and will issue a token.
Works(c) == /\ call[c]["refresh"].phase = "working"
            /\ call[c]["refresh"].sees = {}
Presents(c) == call[c]["refresh"].sid

IdsInv ==
  /\ Cardinality(Issued) \in Nat
  /\ Issued = 1 .. Cardinality(Issued)
  /\ Cardinality(Issued) + Cardinality(Locked) <= MaxSession[world]

FamilyInv == \A s \in Issued : sess[s].family \in Issued

LockInv ==
  /\ \A c \in Client : Works(c) => Live(Presents(c))
  /\ \A c, d \in Client : Works(c) /\ Works(d) /\ Presents(c) = Presents(d) => c = d

Known(e) == e.ended \/ e.sid \in Issued

DeviceKnown == Known(stored) /\ \A c \in Client : Known(book[c])

CallsKnown ==
  \A c \in Client :
    /\ call[c]["refresh"].phase # "idle" => Presents(c) \in Issued
    /\ call[c]["exchange"].answer = "ok" => call[c]["exchange"].sid \in Issued

KnownInv == late \subseteq Issued /\ DeviceKnown /\ CallsKnown

IInv == TypeInv /\ IdsInv /\ FamilyInv /\ LockInv /\ KnownInv /\ OneLiveToken

-----------------------------------------------------------------------------
(* The kinds of steps: what becomes of the rows and of their locks. *)

\* d's refresh is where it was.
Stays(d) == /\ Works(d)' <=> Works(d)
            /\ Works(d) => Presents(d)' = Presents(d)

LocksStay == \A d \in Client : Stays(d)

\* Rows are revoked or lose scope, but none that is locked is revoked.
Weakens ==
  /\ sess' \in [Sid -> Row]
  /\ \A s \in Sid :
       /\ sess'[s].family = sess[s].family
       /\ sess'[s].rotated = sess[s].rotated
       /\ sess[s].revoked => sess'[s].revoked
       /\ s \in Locked => sess'[s].revoked = sess[s].revoked
  /\ LocksStay

\* A refresh has read a live row, and holds its lock.
Locks ==
  \E c \in Client :
    /\ ~Works(c) /\ Works(c)' /\ Presents(c)' = Presents(c)
    /\ Live(Presents(c)) /\ Presents(c) \notin Locked /\ Spare
    /\ \A d \in Client \ {c} : Stays(d)
    /\ UNCHANGED sess

\* A token is rotated: the row s gives way to a new one.
Rotates(s) ==
  \E scope \in Scope :
    sess' = [sess EXCEPT ![s].rotated = TRUE,
                         ![Fresh] = [family |-> sess[s].family, scope |-> scope,
                                     rotated |-> FALSE, revoked |-> FALSE]]

RotatesLocked ==
  \E c \in Client :
    /\ Works(c) /\ ~Works(c)' /\ Rotates(Presents(c))
    /\ \A d \in Client \ {c} : Stays(d)

RotatesLate ==
  \E s \in Sid : Live(s) /\ s \notin Locked /\ Spare /\ Rotates(s) /\ LocksStay

\* A sign-in starts a family.
StartsFamily ==
  /\ Spare /\ LocksStay
  /\ sess' = [sess EXCEPT ![Fresh] = [family |-> Fresh, scope |-> "full",
                                      rotated |-> FALSE, revoked |-> FALSE]]

-----------------------------------------------------------------------------
(* Rows and locks. *)

\* The ids are numbers, whatever the bounds.
LEMMA SidType == Sid \subseteq Nat \ {0}
<1>1. ASSUME NEW w \in Worlds PROVE 1 .. MaxSession[w] \subseteq Nat \ {0}
  BY <1>1, SessionAssumption
<1> QED BY <1>1 DEF Sid

\* While an id is left, the next one is an id that no row has.
LEMMA FreshIsNew ==
  ASSUME TypeInv, IdsInv, Cardinality(Issued) < MaxSession[world]
  PROVE  Fresh \in Sid /\ Fresh \notin Issued /\ Fresh # 0
         /\ Fresh = Cardinality(Issued) + 1
<1>1. Fresh \in 1 .. MaxSession[world] /\ Fresh = Cardinality(Issued) + 1
  BY SessionAssumption DEF TypeInv, IdsInv, Fresh
<1>2. Fresh \in Sid
  BY <1>1 DEF TypeInv, Sid
<1>3. Fresh \notin Issued /\ Fresh # 0
  BY <1>1 DEF IdsInv
<1> QED BY <1>1, <1>2, <1>3

\* A row is added under the next id: the issued ids are one more.
LEMMA OneMore ==
  ASSUME TypeInv, IdsInv, Cardinality(Issued) < MaxSession[world],
         sess'[Fresh].family # 0,
         \A s \in Sid \ {Fresh} : sess'[s].family = sess[s].family
  PROVE  /\ Issued' = Issued \cup {Fresh}
         /\ Cardinality(Issued)' = Cardinality(Issued) + 1
         /\ Cardinality(Issued)' \in Nat
         /\ Issued' = 1 .. Cardinality(Issued)'
<1> DEFINE n == Cardinality(Issued)
<1>1. n \in Nat /\ Issued = 1 .. n /\ Fresh = n + 1 /\ Fresh \in Sid
  BY FreshIsNew DEF IdsInv
<1>2. Issued' = Issued \cup {Fresh}
  BY <1>1 DEF Issued
<1>3. 1 .. (n + 1) = (1 .. n) \cup {n + 1}
  BY <1>1
<1>4. Issued' = 1 .. (n + 1)
  BY <1>1, <1>2, <1>3
<1>5. Cardinality(1 .. (n + 1)) = n + 1
  BY <1>1, FS_Interval
<1>6. Cardinality(Issued)' = n + 1
  BY <1>4, <1>5
<1>7. Cardinality(Issued)' = Cardinality(Issued) + 1 /\ Cardinality(Issued)' \in Nat
  BY <1>1, <1>6
<1>8. Issued' = 1 .. Cardinality(Issued)'
  BY <1>4, <1>6
<1> QED BY <1>2, <1>7, <1>8

\* The locks are at most one for each client.
LEMMA LockedRows ==
  /\ Locked = {Presents(c) : c \in {d \in Client : Works(d)}}
  /\ IsFiniteSet(Locked) /\ Cardinality(Locked) \in Nat
<1>1. Locked = {Presents(c) : c \in {d \in Client : Works(d)}}
  BY DEF Locked, Presents, Works
<1>2. Locked \subseteq {Presents("app"), Presents("task")}
  BY <1>1 DEF Client
<1>3. IsFiniteSet({Presents("app"), Presents("task")})
  <2>1. \A x, y : IsFiniteSet({x} \cup {y})
    BY FS_Singleton, FS_Union, Zenon
  <2>2. {Presents("app"), Presents("task")} = {Presents("app")} \cup {Presents("task")}
    OBVIOUS
  <2> QED BY <2>1, <2>2, Zenon
<1> QED BY <1>1, <1>2, <1>3, FS_Subset, FS_CardinalityType

\* Locks that stay are the same locks.
LEMMA SameLocks == ASSUME LocksStay PROVE Locked' = Locked
<1>1. Locked' = {Presents(c)' : c \in {d \in Client : Works(d)'}}
  BY DEF Locked, Presents, Works
<1> QED BY <1>1, LockedRows DEF LocksStay, Stays

-----------------------------------------------------------------------------
(* Each kind of step keeps the rows in order. *)

RowInv == IdsInv /\ FamilyInv /\ LockInv /\ OneLiveToken

\* Revoking, and the loss of scope.
LEMMA WeakensKeeps ==
  ASSUME TypeInv, RowInv, Weakens, UNCHANGED world
  PROVE  RowInv' /\ Issued' = Issued
<1>1. Issued' = Issued
  BY DEF Issued, Weakens
<1>2. Locked' = Locked
  BY SameLocks DEF Weakens
<1>3. IdsInv'
  BY <1>1, <1>2 DEF RowInv, IdsInv
<1>4. FamilyInv'
  BY <1>1 DEF RowInv, FamilyInv, Weakens, Issued
<1>5. ASSUME NEW s \in Sid, Live(s)' PROVE Live(s)
  BY <1>5, <1>1 DEF Live, Weakens, TypeInv, Row
<1>6. OneLiveToken'
  BY <1>5 DEF RowInv, OneLiveToken, Weakens
<1>7. ASSUME NEW c \in Client, Works(c) PROVE Live(Presents(c))' /\ Presents(c)' = Presents(c)
  <2>1. Presents(c)' = Presents(c)
    BY <1>7 DEF Weakens, LocksStay, Stays
  <2>2. Live(Presents(c)) /\ Presents(c) \in Locked
    BY <1>7, LockedRows DEF RowInv, LockInv
  <2>3. Presents(c) \in Sid
    BY <2>2 DEF Live, Issued
  <2> QED BY <2>1, <2>2, <2>3, <1>1 DEF Live, Weakens
<1>8. \A c \in Client : Works(c)' <=> Works(c)
  BY DEF Weakens, LocksStay, Stays
<1>9. LockInv'
  BY <1>7, <1>8 DEF RowInv, LockInv
<1> QED BY <1>1, <1>3, <1>4, <1>6, <1>9 DEF RowInv

\* Nothing happens to rows and locks.
LEMMA NothingKeeps ==
  ASSUME TypeInv, RowInv, LocksStay, UNCHANGED <<sess, world>>
  PROVE  RowInv' /\ Issued' = Issued
<1>1. Weakens
  BY DEF Weakens, TypeInv
<1> QED BY <1>1, WeakensKeeps

\* A lock is taken.
LEMMA LocksKeeps ==
  ASSUME TypeInv, RowInv, Locks, UNCHANGED world
  PROVE  RowInv' /\ Issued' = Issued
<1>1. PICK c \in Client :
        /\ ~Works(c) /\ Works(c)' /\ Presents(c)' = Presents(c)
        /\ Live(Presents(c)) /\ Presents(c) \notin Locked /\ Spare
        /\ \A d \in Client \ {c} : Stays(d)
        /\ UNCHANGED sess
  BY DEF Locks
<1>2. Issued' = Issued /\ FamilyInv' /\ OneLiveToken' /\ \A s : Live(s)' <=> Live(s)
  BY <1>1 DEF Issued, RowInv, FamilyInv, OneLiveToken, Live
<1>3. Locked' = Locked \cup {Presents(c)}
  <2>1. Locked' = {Presents(d)' : d \in {x \in Client : Works(x)'}}
    BY DEF Locked, Presents, Works
  <2> QED BY <2>1, <1>1, LockedRows DEF Stays
<1>4. Cardinality(Locked)' = Cardinality(Locked) + 1
  BY <1>1, <1>3, LockedRows, FS_AddElement
<1>5. IdsInv'
  <2>1. Cardinality(Issued) + Cardinality(Locked) < MaxSession[world]
    BY <1>1 DEF Spare
  <2>2. MaxSession[world] \in Nat
    BY SessionAssumption DEF TypeInv
  <2> QED BY <1>1, <1>2, <1>4, <2>1, <2>2, LockedRows DEF RowInv, IdsInv
<1>6. LockInv'
  <2>1. ASSUME NEW d \in Client, Works(d)' PROVE Live(Presents(d))'
    BY <2>1, <1>1, <1>2 DEF RowInv, LockInv, Stays
  <2>2. ASSUME NEW d \in Client, NEW x \in Client, Works(d)', Works(x)', Presents(d)' = Presents(x)'
        PROVE  d = x
    <3>1. CASE d # c /\ x # c
      BY <3>1, <2>2, <1>1 DEF RowInv, LockInv, Stays
    <3>2. ASSUME NEW y \in Client \ {c}, Works(y)', Presents(y)' = Presents(c)' PROVE FALSE
      BY <3>2, <1>1, LockedRows DEF Stays
    <3> QED BY <3>1, <3>2, <2>2
  <2> QED BY <2>1, <2>2 DEF LockInv
<1> QED BY <1>2, <1>5, <1>6 DEF RowInv

\* A rotation leaves the family with one live token, the new one.
LEMMA RotationOfRows ==
  ASSUME TypeInv, RowInv, Cardinality(Issued) < MaxSession[world],
         NEW s \in Sid, Live(s), Rotates(s)
  PROVE  /\ Issued' = Issued \cup {Fresh}
         /\ Cardinality(Issued)' = Cardinality(Issued) + 1
         /\ Cardinality(Issued)' \in Nat
         /\ Issued' = 1 .. Cardinality(Issued)'
         /\ FamilyInv' /\ OneLiveToken'
         /\ \A t \in Issued \ {s} : Live(t) => Live(t)'
<1>1. Fresh \in Sid /\ Fresh \notin Issued /\ Fresh # 0 /\ s \in Issued /\ s # Fresh
  BY FreshIsNew DEF RowInv, Live
<1>2. PICK scope \in Scope :
        sess' = [sess EXCEPT ![s].rotated = TRUE,
                             ![Fresh] = [family |-> sess[s].family, scope |-> scope,
                                         rotated |-> FALSE, revoked |-> FALSE]]
  BY DEF Rotates
<1>3. /\ sess'[Fresh].family = sess[s].family
      /\ \A t \in Sid \ {Fresh} : /\ sess'[t].family = sess[t].family
                                  /\ sess'[t].revoked = sess[t].revoked
                                  /\ t # s => sess'[t].rotated = sess[t].rotated
      /\ sess'[s].rotated
  BY <1>1, <1>2 DEF TypeInv, Row
<1>4. sess'[Fresh].family # 0
  BY <1>1, <1>3 DEF Issued
<1>5. /\ Issued' = Issued \cup {Fresh}
      /\ Cardinality(Issued)' = Cardinality(Issued) + 1
      /\ Cardinality(Issued)' \in Nat
      /\ Issued' = 1 .. Cardinality(Issued)'
  BY <1>3, <1>4, OneMore DEF RowInv
<1>6. \A t \in Issued : t \in Sid /\ t # Fresh
  BY <1>1 DEF Issued
<1>7. FamilyInv'
  BY <1>1, <1>3, <1>5, <1>6 DEF FamilyInv, RowInv
<1>8. ASSUME NEW t \in Sid, Live(t)', t # Fresh
      PROVE  t # s /\ Live(t) /\ sess'[t].family = sess[t].family
  BY <1>3, <1>5, <1>8 DEF Live
<1>9. OneLiveToken'
  <2>1. ASSUME NEW t \in Sid, Live(t)', t # Fresh PROVE sess'[t].family # sess'[Fresh].family
    BY <2>1, <1>8, <1>3 DEF RowInv, OneLiveToken
  <2> QED BY <2>1, <1>8 DEF RowInv, OneLiveToken
<1>10. \A t \in Issued \ {s} : Live(t) => Live(t)'
  BY <1>3, <1>5, <1>6 DEF Live
<1> QED BY <1>5, <1>7, <1>9, <1>10

\* A rotation whose token has been read under its lock: the lock is free.
LEMMA RotatesLockedKeeps ==
  ASSUME TypeInv, RowInv, RotatesLocked, UNCHANGED world
  PROVE  RowInv' /\ Issued' = Issued \cup {Fresh} /\ Fresh \in Sid
<1>1. PICK c \in Client :
        /\ Works(c) /\ ~Works(c)' /\ Rotates(Presents(c))
        /\ \A d \in Client \ {c} : Stays(d)
  BY DEF RotatesLocked
<1> DEFINE s == Presents(c)
<1>2. Live(s) /\ s \in Sid /\ s \in Locked
  BY <1>1, LockedRows DEF RowInv, LockInv, Live, Issued
<1>3. Cardinality(Locked) \in Nat /\ Cardinality(Locked) # 0
  BY <1>2, LockedRows, FS_EmptySet
<1>4. Cardinality(Issued) < MaxSession[world] /\ MaxSession[world] \in Nat
  BY <1>3, SessionAssumption DEF RowInv, IdsInv, TypeInv
<1>5. /\ Issued' = Issued \cup {Fresh}
      /\ Cardinality(Issued)' = Cardinality(Issued) + 1
      /\ Cardinality(Issued)' \in Nat
      /\ Issued' = 1 .. Cardinality(Issued)'
      /\ FamilyInv' /\ OneLiveToken'
      /\ \A t \in Issued \ {s} : Live(t) => Live(t)'
  BY <1>1, <1>2, <1>4, RotationOfRows
<1>6. \A d \in Client \ {c} : Works(d) => Presents(d) # s
  BY <1>1 DEF RowInv, LockInv
<1>7. Locked' = Locked \ {s}
  <2>1. Locked' = {Presents(d)' : d \in {x \in Client : Works(x)'}}
    BY DEF Locked, Presents, Works
  <2> QED BY <2>1, <1>1, <1>6, LockedRows DEF Stays
<1>8. Cardinality(Locked)' = Cardinality(Locked) - 1
  BY <1>2, <1>7, LockedRows, FS_RemoveElement
<1>9. IdsInv'
  <2>1. Cardinality(Issued) \in Nat
        /\ Cardinality(Issued) + Cardinality(Locked) <= MaxSession[world]
    BY DEF RowInv, IdsInv
  <2>2. Cardinality(Issued)' + Cardinality(Locked)' <= MaxSession[world]
    BY <2>1, <1>3, <1>4, <1>5, <1>8
  <2> QED BY <2>2, <1>5 DEF IdsInv
<1>10. LockInv'
  <2>1. ASSUME NEW d \in Client, Works(d)'
        PROVE  d # c /\ Works(d) /\ Presents(d)' = Presents(d) /\ Live(Presents(d))'
    <3>1. d # c /\ Works(d) /\ Presents(d)' = Presents(d)
      BY <2>1, <1>1 DEF Stays
    <3>2. Live(Presents(d)) /\ Presents(d) \in Issued \ {s}
      BY <3>1, <1>6 DEF RowInv, LockInv, Live
    <3> QED BY <3>1, <3>2, <1>5
  <2> QED BY <2>1 DEF RowInv, LockInv
<1>11. Fresh \in Sid
  BY <1>4, FreshIsNew DEF RowInv
<1> QED BY <1>5, <1>9, <1>10, <1>11 DEF RowInv

\* What was locked stays so while a row is added that no lock is on.
LEMMA AddingKeeps ==
  ASSUME TypeInv, RowInv, Spare, LocksStay, UNCHANGED world,
         Issued' = Issued \cup {Fresh},
         Cardinality(Issued)' = Cardinality(Issued) + 1,
         Issued' = 1 .. Cardinality(Issued)',
         FamilyInv', OneLiveToken',
         \A t \in Locked : Live(t)'
  PROVE  RowInv'
<1>1. Locked' = Locked
  BY SameLocks
<1>2. IdsInv'
  <2>1. MaxSession[world] \in Nat /\ Cardinality(Locked) \in Nat /\ Cardinality(Issued) \in Nat
    BY SessionAssumption, LockedRows DEF TypeInv, RowInv, IdsInv
  <2> QED BY <1>1, <2>1 DEF Spare, IdsInv
<1>3. LockInv'
  BY LockedRows DEF RowInv, LockInv, LocksStay, Stays
<1> QED BY <1>2, <1>3 DEF RowInv

\* A late request rotates a token nobody has locked.
LEMMA RotatesLateKeeps ==
  ASSUME TypeInv, RowInv, RotatesLate, UNCHANGED world
  PROVE  RowInv' /\ Issued' = Issued \cup {Fresh} /\ Fresh \in Sid
<1>1. PICK s \in Sid : Live(s) /\ s \notin Locked /\ Spare /\ Rotates(s) /\ LocksStay
  BY DEF RotatesLate
<1>2. Cardinality(Issued) < MaxSession[world]
  BY <1>1, LockedRows, SessionAssumption DEF Spare, RowInv, IdsInv, TypeInv
<1>3. \A t \in Locked : Live(t) /\ t \in Issued \ {s}
  BY <1>1, LockedRows DEF RowInv, LockInv, Live
<1>4. /\ Issued' = Issued \cup {Fresh}
      /\ Cardinality(Issued)' = Cardinality(Issued) + 1
      /\ Issued' = 1 .. Cardinality(Issued)'
      /\ FamilyInv' /\ OneLiveToken'
      /\ \A t \in Issued \ {s} : Live(t) => Live(t)'
  BY <1>1, <1>2, RotationOfRows
<1>5. RowInv'
  BY <1>1, <1>3, <1>4, AddingKeeps
<1> QED BY <1>2, <1>4, <1>5, FreshIsNew DEF RowInv

\* A family begins with a row that nobody's family is.
LEMMA StartsFamilyKeeps ==
  ASSUME TypeInv, RowInv, StartsFamily, UNCHANGED world
  PROVE  RowInv' /\ Issued' = Issued \cup {Fresh} /\ Fresh \in Sid
<1>1. Cardinality(Issued) < MaxSession[world]
  BY LockedRows, SessionAssumption DEF StartsFamily, Spare, RowInv, IdsInv, TypeInv
<1>2. Fresh \in Sid /\ Fresh \notin Issued /\ Fresh # 0
  BY <1>1, FreshIsNew DEF RowInv
<1>3. sess'[Fresh].family = Fresh /\ \A t \in Sid \ {Fresh} : sess'[t] = sess[t]
  BY <1>2 DEF StartsFamily, TypeInv
<1>4. /\ Issued' = Issued \cup {Fresh}
      /\ Cardinality(Issued)' = Cardinality(Issued) + 1
      /\ Issued' = 1 .. Cardinality(Issued)'
  BY <1>1, <1>2, <1>3, OneMore DEF RowInv
<1>5. \A t \in Issued : t \in Sid \ {Fresh}
  BY <1>2 DEF Issued
<1>6. FamilyInv'
  BY <1>2, <1>3, <1>4, <1>5 DEF RowInv, FamilyInv
<1>7. \A t \in Sid \ {Fresh} : /\ Live(t)' <=> Live(t)
                               /\ Live(t) => sess'[t].family # Fresh
  BY <1>2, <1>3, <1>4 DEF Live, RowInv, FamilyInv
<1>8. OneLiveToken'
  BY <1>3, <1>7 DEF RowInv, OneLiveToken
<1>9. \A t \in Locked : Live(t)'
  <2>1. \A t \in Locked : Live(t)
    BY LockedRows DEF RowInv, LockInv
  <2> QED BY <2>1, <1>5, <1>7 DEF Live
<1>10. RowInv'
  BY <1>4, <1>6, <1>8, <1>9, AddingKeeps DEF StartsFamily
<1> QED BY <1>2, <1>4, <1>10

-----------------------------------------------------------------------------
(* Every step is of one of these kinds. *)

Kinds ==
  \/ LocksStay /\ UNCHANGED sess
  \/ Weakens
  \/ Locks
  \/ RotatesLocked
  \/ RotatesLate
  \/ StartsFamily

\* Whatever the kind, the rows stay in order and no id is lost.
LEMMA KindsKeep ==
  ASSUME TypeInv, RowInv, Kinds, UNCHANGED world
  PROVE  RowInv' /\ Issued \subseteq Issued'
<1>1. CASE LocksStay /\ UNCHANGED sess
  BY <1>1, NothingKeeps
<1>2. CASE Weakens
  BY <1>2, WeakensKeeps
<1>3. CASE Locks
  BY <1>3, LocksKeeps
<1>4. CASE RotatesLocked
  BY <1>4, RotatesLockedKeeps
<1>5. CASE RotatesLate
  BY <1>5, RotatesLateKeeps
<1>6. CASE StartsFamily
  BY <1>6, StartsFamilyKeeps
<1> QED BY <1>1, <1>2, <1>3, <1>4, <1>5, <1>6 DEF Kinds

\* A call that is not a refresh at work on its rows leaves the locks.
LEMMA CallMoves ==
  ASSUME TypeInv, NEW c \in Client, NEW k \in Kind, NEW new \in Call, Becomes(c, k, new)
  PROVE  /\ call' \in [Client -> [Kind -> Call]]
         /\ \A d \in Client \ {c} : Stays(d)
         /\ (k = "refresh" => ~Works(c) /\ (new.phase # "working" \/ new.sees # {}))
              => LocksStay
<1>1. call' \in [Client -> [Kind -> Call]]
  BY DEF Becomes, TypeInv
<1>2. \A d \in Client \ {c} : call'[d] = call[d]
  BY DEF Becomes, TypeInv
<1>3. call'[c]["refresh"] = IF k = "refresh" THEN new ELSE call[c]["refresh"]
  BY DEF Becomes, TypeInv, Kind
<1>4. \A d \in Client \ {c} : Stays(d)
  BY <1>2 DEF Stays, Works, Presents
<1>5. ASSUME k = "refresh" => ~Works(c) /\ (new.phase # "working" \/ new.sees # {})
      PROVE  LocksStay
  <2>1. Stays(c)
    BY <1>3, <1>5 DEF Stays, Works, Presents
  <2> QED BY <1>4, <2>1 DEF LocksStay
<1> QED BY <1>1, <1>4, <1>5

\* What a call carries is known when what it becomes carries is.
LEMMA CallStaysKnown ==
  ASSUME TypeInv, CallsKnown, NEW c \in Client, NEW k \in Kind, NEW new \in Call,
         Becomes(c, k, new), Issued \subseteq Issued',
         k = "refresh" /\ new.phase # "idle" => new.sid \in Issued',
         k = "exchange" /\ new.answer = "ok" => new.sid \in Issued'
  PROVE  CallsKnown'
<1>1. \A d \in Client \ {c} : call'[d] = call[d]
  BY DEF Becomes, TypeInv
<1>2. /\ call'[c]["refresh"] = IF k = "refresh" THEN new ELSE call[c]["refresh"]
      /\ call'[c]["exchange"] = IF k = "exchange" THEN new ELSE call[c]["exchange"]
  BY DEF Becomes, TypeInv, Kind
<1> QED BY <1>1, <1>2 DEF CallsKnown, Presents

\* Calls that do not move stay known.
LEMMA CallsStayKnown ==
  ASSUME CallsKnown, UNCHANGED call, Issued \subseteq Issued'
  PROVE  CallsKnown'
BY DEF CallsKnown, Presents

\* So does what the device has stored.
LEMMA DeviceStaysKnown ==
  ASSUME DeviceKnown, UNCHANGED deviceVars, Issued \subseteq Issued'
  PROVE  DeviceKnown'
BY DEF DeviceKnown, deviceVars, Known

\* What c goes by is an entry with a token that was issued, or ended.
LEMMA CurrentType ==
  ASSUME TypeInv, NEW c \in Client
  PROVE  /\ Current(c) \in Entry
         /\ DeviceKnown => Known(Current(c))
BY DEF TypeInv, Current, DeviceKnown, Known

\* Reading the vault.
LEMMA ReadsKnown ==
  ASSUME TypeInv, DeviceKnown, NEW c \in Client, Reads(c), Issued \subseteq Issued'
  PROVE  /\ stored' \in Entry /\ running' \subseteq Client /\ book' \in [Client -> Entry]
         /\ DeviceKnown'
<1>1. Current(c) \in Entry /\ Known(Current(c))
  BY CurrentType
<1>2. \A d \in Client : book'[d] = IF d = c THEN Current(c) ELSE book[d]
  BY DEF Reads, TypeInv
<1> QED BY <1>1, <1>2 DEF Reads, TypeInv, DeviceKnown, Known

\* Writing an entry that is known or ended.
LEMMA UpdateKnown ==
  ASSUME TypeInv, DeviceKnown, NEW c \in Client, NEW e \in Entry, Update(c, e),
         Known(e), Issued \subseteq Issued'
  PROVE  /\ stored' \in Entry /\ running' \subseteq Client /\ book' \in [Client -> Entry]
         /\ DeviceKnown'
<1>1. \A d \in Client : book'[d] = IF d = c THEN e ELSE book[d]
  BY DEF Update, TypeInv
<1> QED BY <1>1 DEF Update, TypeInv, DeviceKnown, Known

-----------------------------------------------------------------------------
(* The device's steps leave the rows and the locks. *)

\* What a step has to show.
StepOK == TypeInv' /\ Kinds /\ (Issued \subseteq Issued' => KnownInv')

\* The empty call and a call that is sent are calls.
LEMMA CallTypes ==
  /\ NoCall \in Call
  /\ NoCall.phase = "idle" /\ NoCall.answer = "none"
  /\ \A s \in Sid0, u \in BOOLEAN :
       LET new == [NoCall EXCEPT !.phase = "sent", !.sid = s, !.ui = u]
       IN new \in Call /\ new.phase = "sent" /\ new.sid = s /\ new.answer = "none"
BY DEF NoCall, Call, Sid0, Scope, Answer

\* Sending a call after reading the vault.
LEMMA SendOK ==
  ASSUME IInv, UNCHANGED <<world, serverVars, late>>, NEW c \in Client, NEW k \in Kind,
         Idle(c, k), Send(c, k), Reads(c), k = "refresh" => Usable(c)
  PROVE  StepOK
<1> DEFINE new == [NoCall EXCEPT !.phase = "sent", !.sid = Current(c).sid,
                                 !.ui = Current(c).ui]
<1>1. TypeInv /\ late \subseteq Issued /\ DeviceKnown /\ CallsKnown
  BY DEF IInv, KnownInv
<1>2. Current(c) \in Entry /\ Known(Current(c))
  BY <1>1, CurrentType
<1>3. new \in Call /\ new.phase = "sent" /\ new.answer = "none" /\ new.sid = Current(c).sid
  <2>1. Current(c).sid \in Sid0 /\ Current(c).ui \in BOOLEAN
    BY <1>2 DEF Entry
  <2> QED BY <2>1, CallTypes
<1>4. Becomes(c, k, new)
  BY DEF Send
<1> HIDE DEF new
<1>5. call' \in [Client -> [Kind -> Call]] /\ LocksStay
  <2>1. k = "refresh" => ~Works(c) /\ (new.phase # "working" \/ new.sees # {})
    BY <1>3 DEF Idle, Works
  <2> QED BY <1>1, <1>3, <1>4, <2>1, CallMoves
<1>6. UNCHANGED sess /\ Issued' = Issued
  BY DEF serverVars, Issued
<1>7. /\ stored' \in Entry /\ running' \subseteq Client /\ book' \in [Client -> Entry]
      /\ DeviceKnown'
  BY <1>1, <1>6, ReadsKnown
<1>8. CallsKnown'
  <2>1. k = "refresh" => new.sid \in Issued'
    BY <1>2, <1>3, <1>6 DEF Usable, Known
  <2> QED BY <1>1, <1>3, <1>4, <1>6, <2>1, CallStaysKnown
<1>9. TypeInv'
  BY <1>1, <1>5, <1>6, <1>7 DEF TypeInv
<1> QED BY <1>1, <1>5, <1>6, <1>7, <1>8, <1>9 DEF StepOK, Kinds, KnownInv

\* A call is over, and an entry is written.
LEMMA TakeOK ==
  ASSUME IInv, UNCHANGED <<world, serverVars, late>>, NEW c \in Client, NEW k \in Kind,
         NEW e \in Entry, Known(e), Update(c, e),
         call[c][k].phase # "working", Becomes(c, k, NoCall)
  PROVE  StepOK
<1>1. TypeInv /\ late \subseteq Issued /\ DeviceKnown /\ CallsKnown
  BY DEF IInv, KnownInv
<1>2. UNCHANGED sess /\ Issued' = Issued
  BY DEF serverVars, Issued
<1>3. call' \in [Client -> [Kind -> Call]] /\ LocksStay
  <2>1. k = "refresh" => ~Works(c) /\ (NoCall.phase # "working" \/ NoCall.sees # {})
    BY CallTypes DEF Works
  <2> QED BY <1>1, <2>1, CallTypes, CallMoves
<1>4. CallsKnown'
  BY <1>1, <1>2, CallTypes, CallStaysKnown
<1>5. /\ stored' \in Entry /\ running' \subseteq Client /\ book' \in [Client -> Entry]
      /\ DeviceKnown'
  BY <1>1, <1>2, UpdateKnown
<1>6. TypeInv'
  BY <1>1, <1>2, <1>3, <1>5 DEF TypeInv
<1> QED BY <1>1, <1>2, <1>3, <1>4, <1>5, <1>6 DEF StepOK, Kinds, KnownInv

\* A call is over, and the device stays as it is; a token may be late.
LEMMA DropOK ==
  ASSUME IInv, UNCHANGED <<world, serverVars, deviceVars>>, NEW c \in Client, NEW k \in Kind,
         late' \subseteq Issued,
         call[c][k].phase # "working", Becomes(c, k, NoCall)
  PROVE  StepOK
<1>1. TypeInv /\ DeviceKnown /\ CallsKnown
  BY DEF IInv, KnownInv
<1>2. UNCHANGED sess /\ Issued' = Issued /\ Issued \subseteq Sid
  BY DEF serverVars, Issued
<1>3. call' \in [Client -> [Kind -> Call]] /\ LocksStay
  <2>1. k = "refresh" => ~Works(c) /\ (NoCall.phase # "working" \/ NoCall.sees # {})
    BY CallTypes DEF Works
  <2> QED BY <1>1, <2>1, CallTypes, CallMoves
<1>4. CallsKnown'
  BY <1>1, <1>2, CallTypes, CallStaysKnown
<1>5. DeviceKnown'
  BY <1>1, <1>2, DeviceStaysKnown
<1>6. TypeInv'
  BY <1>1, <1>2, <1>3 DEF TypeInv, deviceVars
<1> QED BY <1>2, <1>3, <1>4, <1>5, <1>6 DEF StepOK, Kinds, KnownInv

\* No call moves.
LEMMA SameCallsStay == ASSUME UNCHANGED call PROVE LocksStay
BY DEF LocksStay, Stays, Works, Presents

\* An entry is written and no call moves.
LEMMA WriteOK ==
  ASSUME IInv, UNCHANGED <<world, serverVars, late, call>>, NEW c \in Client,
         NEW e \in Entry, Known(e), Update(c, e)
  PROVE  StepOK
<1>1. TypeInv /\ late \subseteq Issued /\ DeviceKnown /\ CallsKnown
  BY DEF IInv, KnownInv
<1>2. UNCHANGED sess /\ Issued' = Issued
  BY DEF serverVars, Issued
<1>3. LocksStay /\ CallsKnown'
  BY <1>1, <1>2, SameCallsStay, CallsStayKnown
<1>4. /\ stored' \in Entry /\ running' \subseteq Client /\ book' \in [Client -> Entry]
      /\ DeviceKnown'
  BY <1>1, <1>2, UpdateKnown
<1>5. TypeInv'
  BY <1>1, <1>2, <1>4 DEF TypeInv
<1> QED BY <1>1, <1>2, <1>3, <1>4, <1>5 DEF StepOK, Kinds, KnownInv

\* The device makes a call.
LEMMA StartsOK ==
  ASSUME IInv, UNCHANGED world, NEW c \in Client, Starts(c)
  PROVE  StepOK
<1>1. CASE StartRefresh(c)
  BY <1>1, SendOK DEF StartRefresh, Kind
<1>2. CASE StartExchange(c)
  BY <1>2, SendOK DEF StartExchange, Kind
<1>3. CASE StartSignOut(c)
  BY <1>3, SendOK DEF StartSignOut, Kind
<1>4. CASE StartAgentCall(c)
  BY <1>4, SendOK DEF StartAgentCall, Kind
<1> QED BY <1>1, <1>2, <1>3, <1>4 DEF Starts

\* The entries the device writes are entries.
LEMMA EntryTypes ==
  ASSUME NEW e \in Entry
  PROVE  /\ EndedEntry(e) \in Entry /\ EndedEntry(e).ended
         /\ UiEnded(e) \in Entry /\ UiEnded(e).sid = e.sid /\ UiEnded(e).ended = e.ended
         /\ \A q \in Call : /\ Merged(q, e) \in Entry /\ Merged(q, e).sid = q.sid
                           /\ SignedIn(q, e) \in Entry /\ SignedIn(q, e).sid = q.sid
<1>1. EndedEntry(e) \in Entry /\ EndedEntry(e).ended
  BY DEF EndedEntry, Entry
<1>2. UiEnded(e) \in Entry /\ UiEnded(e).sid = e.sid /\ UiEnded(e).ended = e.ended
  BY DEF UiEnded, Entry
<1>3. ASSUME NEW q \in Call
      PROVE  SignedIn(q, e) \in Entry /\ SignedIn(q, e).sid = q.sid
  BY <1>3 DEF SignedIn, Entry, Call, Scope
<1>4. ASSUME NEW q \in Call
      PROVE  Merged(q, e) \in Entry /\ Merged(q, e).sid = q.sid
  <2>1. (q.ui /\ q.scope = "full" /\ e.ui) \in BOOLEAN
    OBVIOUS
  <2>2. q.sid \in Sid0 /\ q.scope \in Scope /\ e.pending \in BOOLEAN
    BY <1>4 DEF Entry, Call
  <2> QED BY <2>1, <2>2 DEF Merged, Entry
<1> QED BY <1>1, <1>2, <1>3, <1>4

\* The device takes an answer.
LEMMA TakesOK ==
  ASSUME IInv, UNCHANGED world, NEW c \in Client, Takes(c)
  PROVE  StepOK
<1> DEFINE e == Current(c)
<1>1. TypeInv /\ CallsKnown /\ e \in Entry /\ Known(e)
  BY CurrentType DEF IInv, KnownInv
<1>2. \A k \in Kind : call[c][k] \in Call
  BY <1>1 DEF TypeInv
<1>3. Known(EndedEntry(e)) /\ Known(UiEnded(e))
  BY <1>1, EntryTypes DEF Known
<1> HIDE DEF e
<1>4. CASE TakeRefresh(c)
  <2> DEFINE q == call[c]["refresh"]
             new == IF q.answer = "ok" THEN Merged(q, e) ELSE EndedEntry(e)
  <2>1. q.phase = "answered" /\ Update(c, new) /\ Becomes(c, "refresh", NoCall)
        /\ UNCHANGED <<serverVars, late>>
    BY <1>4 DEF TakeRefresh, e
  <2>2. q \in Call /\ q.sid \in Issued
    BY <1>1, <1>2, <2>1 DEF Kind, CallsKnown, Presents
  <2>3. new \in Entry
    BY <1>1, <2>2, EntryTypes
  <2>4. Known(new)
    BY <1>1, <1>3, <2>2, EntryTypes DEF Known
  <2> HIDE DEF new
  <2> QED BY <2>1, <2>3, <2>4, TakeOK DEF Kind
<1>5. CASE TakeExchange(c)
  <2> DEFINE q == call[c]["exchange"]
             new == IF q.answer = "ok" THEN SignedIn(q, e) ELSE UiEnded(e)
  <2>1. q.phase = "answered" /\ Update(c, new) /\ Becomes(c, "exchange", NoCall)
        /\ UNCHANGED <<serverVars, late>>
    BY <1>5 DEF TakeExchange, e
  <2>2. q \in Call /\ (q.answer = "ok" => q.sid \in Issued)
    BY <1>1, <1>2, <2>1 DEF Kind, CallsKnown
  <2>3. new \in Entry
    BY <1>1, <2>2, EntryTypes
  <2>4. Known(new)
    BY <1>1, <1>3, <2>2, EntryTypes DEF Known
  <2> HIDE DEF new
  <2> QED BY <2>1, <2>3, <2>4, TakeOK DEF Kind
<1>6. CASE TakeSignOut(c)
  <2> DEFINE q == call[c]["signout"]
             narrow == [e EXCEPT !.scope = "ingest_only", !.ui = FALSE, !.pending = FALSE]
             new == IF q.answer = "ended" THEN EndedEntry(e)
                    ELSE IF e.sid = 0 THEN e ELSE narrow
  <2>1. q.phase = "answered" /\ Update(c, new) /\ Becomes(c, "signout", NoCall)
        /\ UNCHANGED <<serverVars, late>>
    BY <1>6 DEF TakeSignOut, e
  <2>2. narrow \in Entry /\ Known(narrow)
    BY <1>1 DEF Entry, Known, Scope
  <2>3. new \in Entry
    BY <1>1, <2>2, EntryTypes
  <2>4. Known(new)
    BY <1>1, <1>3, <2>2
  <2> HIDE DEF new
  <2> QED BY <2>1, <2>3, <2>4, TakeOK DEF Kind
<1>7. CASE TakeAgentCall(c)
  <2> DEFINE q == call[c]["agent"]
             narrow == [e EXCEPT !.scope = "ingest_only", !.ui = FALSE]
  <2>1. q.phase = "answered" /\ Becomes(c, "agent", NoCall)
        /\ UNCHANGED <<serverVars, late>>
    BY <1>7 DEF TakeAgentCall
  <2>2. \/ Update(c, EndedEntry(e)) \/ Update(c, narrow) \/ UNCHANGED deviceVars
    BY <1>7 DEF TakeAgentCall, e
  <2>3. narrow \in Entry /\ Known(narrow)
    BY <1>1 DEF Entry, Known, Scope
  <2>4. CASE Update(c, EndedEntry(e))
    BY <1>1, <1>3, <2>1, <2>4, EntryTypes, TakeOK DEF Kind
  <2>5. CASE Update(c, narrow)
    <3> HIDE DEF narrow
    <3> QED BY <2>1, <2>3, <2>5, TakeOK DEF Kind
  <2>6. CASE UNCHANGED deviceVars
    BY <1>1, <2>1, <2>6, DropOK DEF Kind, IInv, KnownInv
  <2> QED BY <2>2, <2>4, <2>5, <2>6
<1> QED BY <1>4, <1>5, <1>6, <1>7 DEF Takes

\* The exchange did not get through.
LEMMA OfflineOK ==
  ASSUME IInv, UNCHANGED world, NEW c \in Client, OfflineSignIn(c)
  PROVE  StepOK
<1> DEFINE e == Current(c)
           new == [e EXCEPT !.ui = e.scope = "full", !.pending = FALSE]
<1>1. e \in Entry /\ Known(e) /\ late \subseteq Issued
  BY CurrentType DEF IInv, KnownInv
<1>2. new \in Entry /\ Known(new)
  BY <1>1 DEF Entry, Known
<1>3. /\ call[c]["exchange"].phase # "working" /\ Becomes(c, "exchange", NoCall)
      /\ UNCHANGED <<serverVars, late>>
      /\ Update(c, new) \/ UNCHANGED deviceVars
  BY DEF OfflineSignIn
<1> HIDE DEF new
<1>4. CASE Update(c, new)
  BY <1>2, <1>3, <1>4, TakeOK DEF Kind
<1>5. CASE UNCHANGED deviceVars
  BY <1>1, <1>3, <1>5, DropOK DEF Kind
<1> QED BY <1>3, <1>4, <1>5

\* The user signs out.
LEMMA EndUiAccessOK ==
  ASSUME IInv, UNCHANGED world, NEW c \in Client, EndUiAccess(c)
  PROVE  StepOK
<1>1. Current(c) \in Entry /\ Known(Current(c))
  BY CurrentType DEF IInv, KnownInv
<1>2. UiEnded(Current(c)) \in Entry /\ Known(UiEnded(Current(c)))
  BY <1>1, EntryTypes DEF Known
<1> QED BY <1>2, WriteOK DEF EndUiAccess

\* A process dies, and what is stored stays.
LEMMA DiesOK ==
  ASSUME IInv, UNCHANGED world, NEW c \in Client, Dies(c)
  PROVE  StepOK
<1>1. TypeInv /\ late \subseteq Issued /\ DeviceKnown /\ CallsKnown
  BY DEF IInv, KnownInv
<1>2. UNCHANGED <<sess, late, stored, call>> /\ Issued' = Issued
  BY DEF Dies, serverVars, Issued
<1>3. NoEntry \in Entry /\ NoEntry.ended
  BY DEF NoEntry, Entry, Sid0, Scope
<1>4. running' \subseteq Client /\ book' \in [Client -> Entry]
  BY <1>1, <1>3 DEF Dies, TypeInv
<1>5. \A d \in Client : book'[d] = IF d = c THEN NoEntry ELSE book[d]
  BY <1>1 DEF Dies, TypeInv
<1>6. DeviceKnown'
  BY <1>1, <1>2, <1>3, <1>5 DEF DeviceKnown, Known
<1>7. LocksStay /\ CallsKnown'
  BY <1>1, <1>2, SameCallsStay, CallsStayKnown
<1>8. TypeInv'
  BY <1>1, <1>2, <1>4 DEF TypeInv
<1> QED BY <1>1, <1>2, <1>6, <1>7, <1>8 DEF StepOK, Kinds, KnownInv

\* An answer is lost; the token of a refresh was issued, so a late one is.
LEMMA AnswerLostOK ==
  ASSUME IInv, UNCHANGED world, NEW c \in Client, NEW k \in Kind, AnswerLost(c, k)
  PROVE  StepOK
<1>1. late \subseteq Issued /\ CallsKnown
  BY DEF IInv, KnownInv
<1>2. late' \subseteq Issued
  BY <1>1 DEF AnswerLost, CallsKnown, Presents
<1> QED BY <1>2, DropOK DEF AnswerLost

-----------------------------------------------------------------------------
(* The server's steps leave the device, but for the answers. *)

\* A step that leaves the device, moves rows in one of the kinds, and keeps
\* the calls known.
LEMMA ServerOK ==
  ASSUME IInv, UNCHANGED <<world, deviceVars>>, late' \subseteq late,
         sess' \in [Sid -> Row], Kinds,
         call' \in [Client -> [Kind -> Call]],
         Issued \subseteq Issued' => CallsKnown'
  PROVE  StepOK
<1>1. TypeInv /\ late \subseteq Issued /\ DeviceKnown
  BY DEF IInv, KnownInv
<1>2. TypeInv'
  BY <1>1 DEF TypeInv, deviceVars
<1>3. ASSUME Issued \subseteq Issued' PROVE KnownInv'
  BY <1>1, <1>3, DeviceStaysKnown DEF KnownInv
<1> QED BY <1>2, <1>3 DEF StepOK

\* A step that moves one call and no row.
LEMMA AnswerOK ==
  ASSUME IInv, UNCHANGED <<world, serverVars, late, deviceVars>>,
         NEW c \in Client, NEW k \in Kind, NEW new \in Call, Becomes(c, k, new),
         k = "refresh" => /\ ~Works(c) /\ (new.phase # "working" \/ new.sees # {})
                          /\ new.sid \in Issued,
         k = "exchange" => new.answer # "ok"
  PROVE  StepOK
<1>1. TypeInv /\ CallsKnown
  BY DEF IInv, KnownInv
<1>2. UNCHANGED sess /\ Issued' = Issued
  BY DEF serverVars, Issued
<1>3. call' \in [Client -> [Kind -> Call]] /\ LocksStay
  BY <1>1, CallMoves
<1>4. CallsKnown'
  BY <1>1, <1>2, CallStaysKnown
<1>5. sess' \in [Sid -> Row]
  BY <1>1, <1>2 DEF TypeInv
<1> QED BY <1>2, <1>3, <1>4, <1>5, ServerOK DEF Kinds

\* An answered call is a call.
LEMMA AnsweredType ==
  ASSUME NEW q \in Call, NEW a \in Answer
  PROVE  LET new == [q EXCEPT !.phase = "answered", !.answer = a]
         IN /\ new \in Call /\ new.phase = "answered" /\ new.answer = a
            /\ new.sid = q.sid
BY DEF Call

\* Revoking rows that nobody has locked, and narrowing the scope of rows.
LEMMA RevokeWeakens ==
  ASSUME TypeInv, NEW S, S \cap Locked = {}, sess' = Revoke(S), LocksStay
  PROVE  Weakens
BY DEF Weakens, Revoke, TypeInv, Row

\* Narrowing the scope of rows weakens them.
LEMMA NarrowWeakens ==
  ASSUME TypeInv, NEW S, LocksStay,
         sess' = [s \in Sid |-> IF s \in S /\ ~sess[s].revoked
                                THEN [sess[s] EXCEPT !.scope = "ingest_only"] ELSE sess[s]]
  PROVE  Weakens
BY DEF Weakens, TypeInv, Row, Scope

\* The rows after a rotation are rows.
LEMMA RotatesType ==
  ASSUME TypeInv, NEW s \in Sid, Fresh \in Sid, Rotates(s)
  PROVE  sess' \in [Sid -> Row]
<1>1. PICK scope \in Scope :
        sess' = [sess EXCEPT ![s].rotated = TRUE,
                             ![Fresh] = [family |-> sess[s].family, scope |-> scope,
                                         rotated |-> FALSE, revoked |-> FALSE]]
  BY DEF Rotates
<1>2. [family |-> sess[s].family, scope |-> scope, rotated |-> FALSE, revoked |-> FALSE] \in Row
  BY DEF TypeInv, Row
<1>3. [sess[s] EXCEPT !.rotated = TRUE] \in Row
  BY DEF TypeInv, Row
<1> QED BY <1>1, <1>2, <1>3 DEF TypeInv

\* A refresh reads: what it will do is decided, and its row is locked if it
\* will rotate.
LEMMA RefreshReadsOK ==
  ASSUME IInv, UNCHANGED world, NEW c \in Client, RefreshReads(c)
  PROVE  StepOK
<1> DEFINE q == call[c]["refresh"]
           reuses == [q EXCEPT !.phase = "working",
                               !.sees = {s \in Family(sess[q.sid].family) : ~sess[s].revoked}
                                          \cup {q.sid}]
           ends == [q EXCEPT !.phase = "answered", !.answer = "ended"]
           rotates == [q EXCEPT !.phase = "working", !.scope = RotatedScope(q.sid)]
<1>1. TypeInv /\ CallsKnown /\ q \in Call
  BY DEF IInv, KnownInv, TypeInv, Kind
<1>2. q.phase = "sent" /\ ~Works(c) /\ q.sid \in Issued /\ q.sid \in Sid /\ q.sid \notin Locked
  BY <1>1 DEF RefreshReads, Works, CallsKnown, Presents, Issued
<1>3. UNCHANGED <<serverVars, late, deviceVars>>
  BY DEF RefreshReads
<1>4. CASE RefreshOutcome(q.sid) = "reuse"
  <2>1. Becomes(c, "refresh", reuses)
    BY <1>4 DEF RefreshReads
  <2>2. {s \in Family(sess[q.sid].family) : ~sess[s].revoked} \cup {q.sid} \subseteq Sid
    BY <1>2 DEF Family, Issued
  <2>3. reuses \in Call /\ reuses.sees # {} /\ reuses.sid = q.sid
    BY <1>1, <2>2 DEF Call
  <2> HIDE DEF reuses
  <2> QED BY <1>2, <1>3, <2>1, <2>3, AnswerOK DEF Kind
<1>5. CASE RefreshOutcome(q.sid) = "ended"
  <2>1. Becomes(c, "refresh", ends)
    BY <1>5 DEF RefreshReads, Answered
  <2>2. ends \in Call /\ ends.phase = "answered" /\ ends.sid = q.sid
    BY <1>1 DEF Call, Answer
  <2> HIDE DEF ends
  <2> QED BY <1>2, <1>3, <2>1, <2>2, AnswerOK DEF Kind
<1>6. CASE RefreshOutcome(q.sid) = "ok"
  <2>1. Becomes(c, "refresh", rotates) /\ Spare
    BY <1>6 DEF RefreshReads
  <2>2. RotatedScope(q.sid) \in Scope
    BY <1>1, <1>2 DEF RotatedScope, TypeInv, Row, Scope
  <2>3. rotates \in Call /\ rotates.phase = "working" /\ rotates.sees = q.sees
        /\ rotates.sid = q.sid
    BY <1>1, <2>2 DEF Call
  <2>4. Live(q.sid)
    BY <1>2, <1>6 DEF Live, RefreshOutcome
  <2> HIDE DEF rotates
  <2>5. CASE q.sees # {}
    BY <1>2, <1>3, <2>1, <2>3, <2>5, AnswerOK DEF Kind
  <2>6. CASE q.sees = {}
    <3>1. call' \in [Client -> [Kind -> Call]] /\ \A d \in Client \ {c} : Stays(d)
      BY <1>1, <2>1, <2>3, CallMoves DEF Kind
    <3>2. call'[c]["refresh"] = rotates
      BY <1>1, <2>1 DEF Becomes, TypeInv, Kind
    <3>3. Works(c)' /\ Presents(c)' = Presents(c)
      BY <2>3, <2>6, <3>2 DEF Works, Presents
    <3>4. UNCHANGED sess /\ Issued' = Issued /\ sess' \in [Sid -> Row]
      BY <1>1, <1>3 DEF serverVars, Issued, TypeInv
    <3>5. Locks
      BY <1>2, <2>1, <2>4, <3>1, <3>3, <3>4 DEF Locks, Presents
    <3>6. CallsKnown'
      BY <1>1, <1>2, <2>1, <2>3, <3>4, CallStaysKnown DEF Kind
    <3> QED BY <1>3, <3>1, <3>4, <3>5, <3>6, ServerOK DEF Kinds
  <2> QED BY <2>5, <2>6
<1> QED BY <1>4, <1>5, <1>6 DEF RefreshOutcome

\* It commits, and gives up its lock.
LEMMA RefreshCommitsOK ==
  ASSUME IInv, UNCHANGED world, NEW c \in Client, RefreshCommits(c)
  PROVE  StepOK
<1> DEFINE q == call[c]["refresh"]
           rotated == [q EXCEPT !.phase = "answered", !.answer = "ok", !.sid = Fresh]
           ends == [q EXCEPT !.phase = "answered", !.answer = "ended"]
<1>1. TypeInv /\ CallsKnown /\ RowInv /\ q \in Call
  BY DEF IInv, KnownInv, TypeInv, Kind, RowInv
<1>2. q.phase = "working" /\ q.sid \in Issued /\ q.sid \in Sid
  BY <1>1 DEF RefreshCommits, CallsKnown, Presents, Issued
<1>3. UNCHANGED <<late, deviceVars>>
  BY DEF RefreshCommits
<1>4. CASE q.sees = {}
  <2>1. /\ sess' = [sess EXCEPT ![q.sid].rotated = TRUE,
                     ![Fresh] = [family |-> sess[q.sid].family, scope |-> q.scope,
                                 rotated |-> FALSE, revoked |-> FALSE]]
        /\ Becomes(c, "refresh", rotated)
    BY <1>4 DEF RefreshCommits
  <2>2. Works(c) /\ Rotates(Presents(c))
    BY <1>1, <1>2, <1>4, <2>1 DEF Works, Rotates, Presents, Call
  <2>3. Locked # {} /\ Cardinality(Locked) # 0
    BY <2>2, LockedRows, FS_EmptySet
  <2>4. Fresh \in Sid
    <3>1. Cardinality(Locked) \in Nat /\ MaxSession[world] \in Nat
      BY <1>1, LockedRows, SessionAssumption DEF TypeInv
    <3>2. Cardinality(Issued) < MaxSession[world]
      BY <1>1, <2>3, <3>1 DEF RowInv, IdsInv
    <3> QED BY <1>1, <3>2, FreshIsNew DEF RowInv
  <2>5. rotated \in Call /\ rotated.phase = "answered" /\ rotated.sid = Fresh
    BY <1>1, <2>4 DEF Call, Sid0, Answer
  <2> HIDE DEF rotated
  <2>6. call' \in [Client -> [Kind -> Call]] /\ \A d \in Client \ {c} : Stays(d)
    BY <1>1, <2>1, <2>5, CallMoves DEF Kind
  <2>7. call'[c]["refresh"] = rotated
    BY <1>1, <2>1 DEF Becomes, TypeInv, Kind
  <2>8. ~Works(c)'
    BY <2>5, <2>7 DEF Works
  <2>9. RotatesLocked
    BY <2>2, <2>6, <2>8 DEF RotatesLocked
  <2>10. sess' \in [Sid -> Row]
    BY <1>1, <1>2, <2>2, <2>4, RotatesType DEF Presents
  <2>11. Fresh \in Issued'
    BY <1>1, <2>9, RotatesLockedKeeps
  <2>12. ASSUME Issued \subseteq Issued' PROVE CallsKnown'
    BY <1>1, <2>1, <2>5, <2>11, <2>12, CallStaysKnown DEF Kind
  <2> QED BY <1>3, <2>6, <2>9, <2>10, <2>12, ServerOK DEF Kinds
<1>5. CASE q.sees # {}
  <2>1. q.sees \cap Locked = {} /\ sess' = Revoke(q.sees) /\ Becomes(c, "refresh", ends)
    BY <1>5 DEF RefreshCommits, Answered
  <2>2. ends \in Call /\ ends.phase = "answered" /\ ends.sid = q.sid
    BY <1>1 DEF Call, Answer
  <2> HIDE DEF ends
  <2>3. ~Works(c)
    BY <1>5 DEF Works
  <2>4. call' \in [Client -> [Kind -> Call]] /\ LocksStay
    BY <1>1, <2>1, <2>2, <2>3, CallMoves DEF Kind
  <2>5. Weakens
    BY <1>1, <2>1, <2>4, RevokeWeakens
  <2>6. ASSUME Issued \subseteq Issued' PROVE CallsKnown'
    BY <1>1, <1>2, <2>1, <2>2, <2>6, CallStaysKnown DEF Kind
  <2> QED BY <1>3, <2>4, <2>5, <2>6, ServerOK DEF Kinds, Weakens
<1> QED BY <1>4, <1>5

\* A step that moves rows and no call.
LEMMA RowsOK ==
  ASSUME IInv, UNCHANGED <<world, deviceVars, call>>, late' \subseteq late,
         sess' \in [Sid -> Row], Kinds
  PROVE  StepOK
<1>1. call' \in [Client -> [Kind -> Call]]
  BY DEF IInv, TypeInv
<1>2. ASSUME Issued \subseteq Issued' PROVE CallsKnown'
  BY <1>2, CallsStayKnown DEF IInv, KnownInv
<1> QED BY <1>1, <1>2, ServerOK

\* A late request is served whole: what it rotates nobody has locked.
LEMMA LateRefreshOK ==
  ASSUME IInv, UNCHANGED world, NEW s \in Sid, LateRefresh(s)
  PROVE  StepOK
<1>1. TypeInv /\ RowInv /\ s \in Issued
  BY DEF IInv, KnownInv, RowInv, LateRefresh
<1>2. LocksStay
  BY SameCallsStay DEF LateRefresh
<1>3. s \notin Locked /\ late' \subseteq late /\ UNCHANGED <<deviceVars, call>>
  BY DEF LateRefresh
<1>4. CASE RefreshOutcome(s) = "reuse"
  <2>1. Family(sess[s].family) \cap Locked = {} /\ sess' = Revoke(Family(sess[s].family))
    BY <1>4 DEF LateRefresh
  <2>2. Weakens
    BY <1>1, <1>2, <2>1, RevokeWeakens
  <2> QED BY <1>3, <2>2, RowsOK DEF Kinds, Weakens
<1>5. CASE RefreshOutcome(s) = "ended"
  <2>1. UNCHANGED sess
    BY <1>5 DEF LateRefresh
  <2> QED BY <1>1, <1>2, <1>3, <2>1, RowsOK DEF Kinds, TypeInv
<1>6. CASE RefreshOutcome(s) = "ok"
  <2>1. Spare /\ sess' = [sess EXCEPT ![s].rotated = TRUE,
                     ![Fresh] = [family |-> sess[s].family, scope |-> RotatedScope(s),
                                 rotated |-> FALSE, revoked |-> FALSE]]
    BY <1>6 DEF LateRefresh
  <2>2. RotatedScope(s) \in Scope
    BY <1>1 DEF RotatedScope, TypeInv, Row, Scope
  <2>3. Rotates(s) /\ Live(s)
    BY <1>1, <1>6, <2>1, <2>2 DEF Rotates, Live, RefreshOutcome
  <2>4. RotatesLate
    BY <1>2, <1>3, <2>1, <2>3 DEF RotatesLate
  <2>5. sess' \in [Sid -> Row]
    BY <1>1, <2>3, <2>4, RotatesLateKeeps, RotatesType
  <2> QED BY <1>3, <2>4, <2>5, RowsOK DEF Kinds
<1> QED BY <1>4, <1>5, <1>6 DEF RefreshOutcome

\* A late request is lost.
LEMMA LateRefreshLostOK ==
  ASSUME IInv, UNCHANGED world, NEW s \in Sid, LateRefreshLost(s)
  PROVE  StepOK
<1>1. late' \subseteq late /\ UNCHANGED <<sess, deviceVars, call>>
  BY DEF LateRefreshLost, serverVars
<1>2. LocksStay
  BY <1>1, SameCallsStay
<1> QED BY <1>1, <1>2, RowsOK DEF Kinds, IInv, TypeInv

\* A sign-out reads.
LEMMA SignOutReadsOK ==
  ASSUME IInv, UNCHANGED world, NEW c \in Client, SignOutReads(c)
  PROVE  StepOK
<1> DEFINE q == call[c]["signout"]
           ends == [q EXCEPT !.phase = "answered", !.answer = "ended"]
           works == [q EXCEPT !.phase = "working", !.sees = Family(sess[q.sid].family)]
<1>1. q \in Call
  BY DEF IInv, TypeInv, Kind
<1>2. ends \in Call
  BY <1>1 DEF Call, Answer
<1>3. works \in Call
  BY <1>1 DEF Call, Family, Issued
<1>4. Becomes(c, "signout", ends) \/ Becomes(c, "signout", works)
  BY DEF SignOutReads, Answered
<1> HIDE DEF ends, works
<1>5. UNCHANGED <<serverVars, late, deviceVars>>
  BY DEF SignOutReads
<1> QED BY <1>2, <1>3, <1>4, <1>5, AnswerOK DEF Kind

\* It narrows the scope of the rows it read.
LEMMA SignOutCommitsOK ==
  ASSUME IInv, UNCHANGED world, NEW c \in Client, SignOutCommits(c)
  PROVE  StepOK
<1> DEFINE q == call[c]["signout"]
           ok == [q EXCEPT !.phase = "answered", !.answer = "ok"]
<1>1. TypeInv /\ CallsKnown /\ q \in Call
  BY DEF IInv, KnownInv, TypeInv, Kind
<1>2. ok \in Call
  BY <1>1 DEF Call, Answer
<1>3. Becomes(c, "signout", ok) /\ UNCHANGED <<late, deviceVars>>
  BY DEF SignOutCommits, Answered
<1> HIDE DEF ok
<1>4. call' \in [Client -> [Kind -> Call]] /\ LocksStay
  BY <1>1, <1>2, <1>3, CallMoves DEF Kind
<1>5. Weakens
  BY <1>1, <1>4, NarrowWeakens DEF SignOutCommits
<1>6. ASSUME Issued \subseteq Issued' PROVE CallsKnown'
  BY <1>1, <1>2, <1>3, <1>6, CallStaysKnown DEF Kind
<1> QED BY <1>3, <1>4, <1>5, <1>6, ServerOK DEF Kinds, Weakens

\* A sign-in is refused or starts a family.
LEMMA ExchangeServedOK ==
  ASSUME IInv, UNCHANGED world, NEW c \in Client, ExchangeServed(c)
  PROVE  StepOK
<1> DEFINE q == call[c]["exchange"]
           ok == [q EXCEPT !.phase = "answered", !.answer = "ok", !.sid = Fresh]
           refused == [q EXCEPT !.phase = "answered", !.answer = "refused"]
<1>1. TypeInv /\ CallsKnown /\ RowInv /\ q \in Call
  BY DEF IInv, KnownInv, TypeInv, Kind, RowInv
<1>2. CASE active
  <2>1. /\ Spare /\ Becomes(c, "exchange", ok) /\ UNCHANGED <<late, deviceVars>>
        /\ sess' = [sess EXCEPT ![Fresh] = [family |-> Fresh, scope |-> "full",
                                            rotated |-> FALSE, revoked |-> FALSE]]
    BY <1>2 DEF ExchangeServed
  <2>2. Cardinality(Issued) < MaxSession[world]
    BY <1>1, <2>1, LockedRows, SessionAssumption DEF Spare, RowInv, IdsInv, TypeInv
  <2>3. Fresh \in Sid
    BY <1>1, <2>2, FreshIsNew DEF RowInv
  <2>4. ok \in Call /\ ok.sid = Fresh
    BY <1>1, <2>3 DEF Call, Sid0, Answer
  <2> HIDE DEF ok
  <2>5. call' \in [Client -> [Kind -> Call]] /\ LocksStay
    BY <1>1, <2>1, <2>4, CallMoves DEF Kind
  <2>6. StartsFamily
    BY <2>1, <2>5 DEF StartsFamily
  <2>7. sess' \in [Sid -> Row]
    BY <1>1, <2>1, <2>3 DEF TypeInv, Row, Scope, Sid0
  <2>8. Fresh \in Issued'
    BY <1>1, <2>6, StartsFamilyKeeps
  <2>9. ASSUME Issued \subseteq Issued' PROVE CallsKnown'
    BY <1>1, <2>1, <2>4, <2>8, <2>9, CallStaysKnown DEF Kind
  <2> QED BY <2>1, <2>5, <2>6, <2>7, <2>9, ServerOK DEF Kinds
<1>3. CASE ~active
  <2>1. Becomes(c, "exchange", refused) /\ UNCHANGED <<serverVars, late, deviceVars>>
    BY <1>3 DEF ExchangeServed, Answered, serverVars
  <2>2. refused \in Call /\ refused.answer # "ok"
    BY <1>1 DEF Call, Answer
  <2> HIDE DEF refused
  <2> QED BY <2>1, <2>2, AnswerOK DEF Kind
<1> QED BY <1>2, <1>3

\* A call that needs no refresh is answered.
LEMMA AgentCallServedOK ==
  ASSUME IInv, UNCHANGED world, NEW c \in Client, NEW S, AgentCallServed(c, S)
  PROVE  StepOK
<1> DEFINE q == call[c]["agent"]
           a == IF sess[q.sid].revoked THEN "ended"
                ELSE IF sess[q.sid].scope \in S THEN "ok" ELSE "scope"
           new == [q EXCEPT !.phase = "answered", !.answer = a]
<1>1. q \in Call
  BY DEF IInv, TypeInv, Kind
<1>2. a \in Answer
  BY DEF Answer
<1>3. Becomes(c, "agent", new) /\ UNCHANGED <<serverVars, late, deviceVars>>
  BY DEF AgentCallServed, Answered
<1> HIDE DEF a
<1>4. new \in Call
  BY <1>1, <1>2, AnsweredType
<1> HIDE DEF new
<1> QED BY <1>3, <1>4, AnswerOK DEF Kind

\* An administrator revokes a family nobody has locked.
LEMMA AdminRevokesOK ==
  ASSUME IInv, UNCHANGED world, NEW f, AdminRevokes(f)
  PROVE  StepOK
<1>1. TypeInv /\ LocksStay
  BY SameCallsStay DEF IInv, AdminRevokes
<1>2. Weakens
  BY <1>1, RevokeWeakens DEF AdminRevokes
<1> QED BY <1>2, RowsOK DEF AdminRevokes, Kinds, Weakens

\* An administrator deactivates the user.
LEMMA AdminDeactivatesOK ==
  ASSUME IInv, UNCHANGED world, AdminDeactivates
  PROVE  StepOK
<1>1. TypeInv /\ LocksStay
  BY SameCallsStay DEF IInv, AdminDeactivates
<1>2. UNCHANGED <<late, deviceVars, call>> /\ Locked = {}
  BY DEF AdminDeactivates
<1>3. ASSUME sess' = Revoke(Issued) PROVE Weakens
  BY <1>1, <1>2, <1>3, RevokeWeakens
<1>4. ASSUME sess' = [s \in Sid |-> IF s \in Issued /\ ~sess[s].revoked
                                    THEN [sess[s] EXCEPT !.scope = "ingest_only"] ELSE sess[s]]
      PROVE  Weakens
  BY <1>1, <1>4, NarrowWeakens
<1>5. Weakens
  BY <1>3, <1>4 DEF AdminDeactivates
<1> QED BY <1>2, <1>5, RowsOK DEF Kinds, Weakens

-----------------------------------------------------------------------------
(* All of it. *)

\* Every step does what a step has to show.
LEMMA NextOK == ASSUME IInv, Next, UNCHANGED world PROVE StepOK
<1>1. ASSUME NEW c \in Client, Server(c) PROVE StepOK
  BY <1>1, RefreshReadsOK, RefreshCommitsOK, SignOutReadsOK, SignOutCommitsOK,
     ExchangeServedOK, AgentCallServedOK DEF Server
<1>2. ASSUME NEW c \in Client,
             Takes(c) \/ Starts(c) \/ EndUiAccess(c) \/ OfflineSignIn(c) \/ Dies(c)
      PROVE  StepOK
  BY <1>2, TakesOK, StartsOK, EndUiAccessOK, OfflineOK, DiesOK
<1>3. ASSUME NEW c \in Client, NEW k \in Kind, AnswerLost(c, k) PROVE StepOK
  BY <1>3, AnswerLostOK
<1>4. ASSUME NEW s \in Sid, LateRefresh(s) \/ LateRefreshLost(s) \/ AdminRevokes(s) PROVE StepOK
  BY <1>4, LateRefreshOK, LateRefreshLostOK, AdminRevokesOK
<1>5. CASE AdminDeactivates
  BY <1>5, AdminDeactivatesOK
<1> QED BY <1>1, <1>2, <1>3, <1>4, <1>5 DEF Next

\* Nothing is issued, locked or under way at the start.
LEMMA InitOK == ASSUME Init PROVE IInv
<1>1. Issued = {} /\ Cardinality(Issued) = 0
  <2>1. Issued = {}
    BY DEF Init, Issued, NoRow
  <2> QED BY <2>1, FS_EmptySet
<1>2. \A c \in Client, k \in Kind : call[c][k] = NoCall
  BY DEF Init
<1>3. \A c \in Client : ~Works(c) /\ call[c]["refresh"].phase = "idle"
                       /\ call[c]["exchange"].answer = "none"
  BY <1>2, CallTypes DEF Works, Kind
<1>4. Locked = {} /\ Cardinality(Locked) = 0
  <2>1. Locked = {}
    BY <1>3, LockedRows
  <2> QED BY <2>1, FS_EmptySet
<1>5. TypeInv
  <2>1. NoRow \in Row /\ NoEntry \in Entry /\ NoCall \in Call
    BY CallTypes DEF NoRow, Row, NoEntry, Entry, Sid0, Scope
  <2> QED BY <2>1 DEF Init, TypeInv
<1>6. IdsInv
  <2>1. MaxSession[world] \in Nat
    BY <1>5, SessionAssumption DEF TypeInv
  <2>2. 1 .. 0 = {}
    OBVIOUS
  <2> QED BY <1>1, <1>4, <2>1, <2>2 DEF IdsInv
<1>7. FamilyInv /\ LockInv /\ OneLiveToken
  BY <1>1, <1>3 DEF FamilyInv, LockInv, OneLiveToken, Live
<1>8. KnownInv
  BY <1>3 DEF Init, KnownInv, DeviceKnown, Known, CallsKnown, NoEntry
<1> QED BY <1>5, <1>6, <1>7, <1>8 DEF IInv

\* The invariant, for any bound on the tokens and any disturbances: types,
\* ids, families, locks, and which tokens the device can present.
THEOREM SessionsInvariant == Spec => []IInv
<1>1. Init => IInv
  BY InitOK
<1>2. IInv /\ [Next /\ UNCHANGED world]_<<vars, world>> => IInv'
  <2>1. ASSUME IInv, Next, UNCHANGED world PROVE IInv'
    <3>1. StepOK
      BY <2>1, NextOK
    <3>2. RowInv' /\ Issued \subseteq Issued'
      BY <2>1, <3>1, KindsKeep DEF IInv, RowInv, StepOK
    <3> QED BY <3>1, <3>2 DEF StepOK, IInv, RowInv
  <2>2. ASSUME IInv, UNCHANGED <<vars, world>> PROVE IInv'
    <3>1. UNCHANGED <<world, sess, late, stored, running, book, call>>
      BY <2>2 DEF vars
    <3>2. Issued' = Issued /\ Locked' = Locked
      BY <3>1 DEF Issued, Locked
    <3>3. TypeInv' /\ FamilyInv' /\ LockInv' /\ OneLiveToken'
      BY <2>2, <3>1, <3>2 DEF IInv, TypeInv, FamilyInv, LockInv, OneLiveToken, Live, Works, Presents
    <3>4. IdsInv'
      BY <2>2, <3>1, <3>2 DEF IInv, IdsInv
    <3>5. KnownInv'
      BY <2>2, <3>1, <3>2 DEF IInv, KnownInv, DeviceKnown, Known, CallsKnown, Presents
    <3> QED BY <3>3, <3>4, <3>5 DEF IInv
  <2> QED BY <2>1, <2>2
<1> QED BY <1>1, <1>2, PTL DEF Spec

\* auth_refresh keeps a family at one token that can be redeemed, whatever
\* rotates it at once: the app, the task beside it, requests that arrive late
\* (rpc_auth_sync.sql:137-204).
THEOREM SessionsOneLiveToken == Spec => []OneLiveToken
<1>1. IInv => OneLiveToken
  BY DEF IInv
<1> QED BY <1>1, SessionsInvariant, PTL

-----------------------------------------------------------------------------
(* What the app goes by.  The book is written as a whole, so what keeps the  *)
(* app's copy and the storage together is that no other process writes, or   *)
(* that the app, once it has read the book, does not die.                    *)

OneKeeper == ~(May("lost") /\ May("task"))

KeeperInv ==
  /\ ~May("task") => /\ "task" \notin running
                     /\ \A k \in Kind : Idle("task", k)
                     /\ "app" \in running => stored = book["app"]
  /\ ~May("lost") /\ "app" \notin running =>
       /\ running = {} /\ stored = NoEntry
       /\ \A c \in Client, k \in Kind : Idle(c, k)

\* What a step has to show: the app's entry comes to open the UI only as a
\* sign-in ends.
StickOK == KeeperInv' /\ (~Current("app").ui /\ Current("app").ui' => SignedInNow)

\* A step that leaves the device's entries alone.
LEMMA QuietSticks ==
  ASSUME KeeperInv, UNCHANGED <<world, deviceVars>>,
         \A c \in Client, k \in Kind :
           Idle(c, k) => Idle(c, k)'
  PROVE  StickOK
<1>1. Current("app")' = Current("app")
  BY DEF Current, deviceVars
<1>2. "task" \in Client /\ (May("lost")' <=> May("lost")) /\ (May("task")' <=> May("task"))
  BY DEF Client, May
<1>3. KeeperInv'
  BY <1>2 DEF KeeperInv, deviceVars
<1> QED BY <1>1, <1>3 DEF StickOK

\* The vault is read, for a call.
LEMMA SendSticks ==
  ASSUME TypeInv, KeeperInv, OneKeeper, UNCHANGED world, NEW c \in Client, NEW k \in Kind,
         Send(c, k), Reads(c), c = "app" \/ Usable(c)
  PROVE  StickOK
<1>1. /\ "app" \in Client /\ "task" \in Client /\ c \in {"app", "task"}
      /\ (May("lost")' <=> May("lost")) /\ (May("task")' <=> May("task"))
  BY DEF Client, May
<1>2. \A d \in Client : book'[d] = IF d = c THEN Current(c) ELSE book[d]
  BY DEF Reads, TypeInv
<1>3. running' = running \cup {c} /\ stored' = stored
  BY DEF Reads
<1>4. CASE c = "app"
  <2>1. Current("app")' = Current("app")
    BY <1>1, <1>2, <1>3, <1>4 DEF Current
  <2>2. \A j \in Kind : Idle("task", j)' <=> Idle("task", j)
    BY <1>1, <1>4 DEF Send, Becomes, TypeInv, Idle
  <2>3. KeeperInv'
    BY <1>1, <1>2, <1>3, <1>4, <2>2 DEF KeeperInv, Current
  <2> QED BY <2>1, <2>3 DEF StickOK
<1>5. CASE c = "task"
  <2>1. May("task") /\ ~May("lost")
    BY <1>5 DEF Send, OneKeeper
  <2>2. "app" \in running
    BY <1>5, <2>1 DEF KeeperInv, Usable, Current, NoEntry
  <2>3. Current("app")' = Current("app")
    BY <1>1, <1>2, <1>3, <1>5, <2>2 DEF Current
  <2>4. KeeperInv'
    BY <1>1, <1>3, <2>1, <2>2 DEF KeeperInv
  <2> QED BY <2>3, <2>4 DEF StickOK
<1> QED BY <1>1, <1>4, <1>5

\* An entry is written by the app, or by the task as an answer comes.
LEMMA WriteSticks ==
  ASSUME TypeInv, KeeperInv, OneKeeper, UNCHANGED world, NEW c \in Client, NEW e,
         Update(c, e),
         \A k \in Kind : c = "app" => (Idle("task", k)' <=> Idle("task", k)),
         c = "app" /\ e.ui /\ ~Current("app").ui => SignedInNow,
         c = "app" \/ \E k \in Kind : ~Idle(c, k)
  PROVE  StickOK
<1>1. /\ "app" \in Client /\ "task" \in Client /\ c \in {"app", "task"}
      /\ (May("lost")' <=> May("lost")) /\ (May("task")' <=> May("task"))
  BY DEF Client, May
<1>2. \A d \in Client : book'[d] = IF d = c THEN e ELSE book[d]
  BY DEF Update, TypeInv
<1>3. running' = running \cup {c} /\ stored' = e
  BY DEF Update
<1>4. CASE c = "app"
  <2>1. Current("app")' = e
    BY <1>1, <1>2, <1>3, <1>4 DEF Current
  <2>2. KeeperInv'
    BY <1>1, <1>2, <1>3, <1>4 DEF KeeperInv
  <2> QED BY <1>4, <2>1, <2>2 DEF StickOK
<1>5. CASE c = "task"
  <2>1. May("task") /\ ~May("lost")
    BY <1>5 DEF KeeperInv, OneKeeper
  <2>2. "app" \in running
    BY <1>1, <1>5, <2>1 DEF KeeperInv
  <2>3. Current("app")' = Current("app")
    BY <1>1, <1>2, <1>3, <1>5, <2>2 DEF Current
  <2>4. KeeperInv'
    BY <1>1, <1>3, <2>1, <2>2 DEF KeeperInv
  <2> QED BY <2>3, <2>4 DEF StickOK
<1> QED BY <1>1, <1>4, <1>5

\* A process dies; of the app, only where nobody else writes.
LEMMA DiesSticks ==
  ASSUME TypeInv, KeeperInv, OneKeeper, UNCHANGED world, NEW c \in Client, Dies(c)
  PROVE  StickOK
<1>1. /\ "app" \in Client /\ "task" \in Client /\ c \in {"app", "task"}
      /\ (May("lost")' <=> May("lost")) /\ (May("task")' <=> May("task"))
      /\ "app" # "task"
  BY DEF Client, May
<1>2. \A d \in Client : book'[d] = IF d = c THEN NoEntry ELSE book[d]
  BY DEF Dies, TypeInv
<1>3. /\ c \in running /\ running' = running \ {c} /\ stored' = stored
      /\ May("lost") \/ c = "task"
  BY DEF Dies
<1>4. \A d \in Client, k \in Kind : Idle(d, k)' <=> Idle(d, k)
  BY DEF Dies, Idle
<1>5. Current("app")' = Current("app")
  BY <1>1, <1>2, <1>3 DEF Current, KeeperInv, OneKeeper
<1>6. KeeperInv'
  BY <1>1, <1>2, <1>3, <1>4 DEF KeeperInv, OneKeeper
<1> QED BY <1>5, <1>6 DEF StickOK

\* A call ends: the others, and those of the other process, stay.
LEMMA OthersIdle ==
  ASSUME TypeInv, NEW c \in Client, NEW k \in Kind, NEW new, Becomes(c, k, new)
  PROVE  /\ \A d \in Client, j \in Kind : d # c \/ j # k => (Idle(d, j)' <=> Idle(d, j))
         /\ new.phase = "idle" => Idle(c, k)'
         /\ new.phase # "idle" => ~Idle(c, k)'
BY DEF TypeInv, Becomes, Idle

\* An answer is taken.
LEMMA TakesSticks ==
  ASSUME TypeInv, KeeperInv, OneKeeper, UNCHANGED world, NEW c \in Client, Takes(c)
  PROVE  StickOK
<1> DEFINE e == Current(c)
<1>0. ASSUME NEW k \in Kind, Becomes(c, k, NoCall)
      PROVE  /\ Idle(c, k)'
             /\ \A d \in Client, j \in Kind : d # c \/ j # k => (Idle(d, j)' <=> Idle(d, j))
  <2>1. NoCall.phase = "idle"
    BY DEF NoCall
  <2> QED BY <1>0, <2>1, OthersIdle
<1>1. ASSUME NEW k \in Kind, call[c][k].phase = "answered", Becomes(c, k, NoCall),
             UNCHANGED deviceVars
      PROVE  StickOK
  <2>1. \A d \in Client, j \in Kind : Idle(d, j) => Idle(d, j)'
    BY <1>0, <1>1
  <2>2. UNCHANGED <<world, deviceVars>>
    BY <1>1
  <2> QED BY <2>1, <2>2, QuietSticks
<1>2. ASSUME NEW k \in Kind, call[c][k].phase = "answered", Becomes(c, k, NoCall), NEW new,
             Update(c, new), new.ui => e.ui \/ k = "exchange"
      PROVE  StickOK
  <2>1. ~Idle(c, k)
    BY <1>2 DEF Idle
  <2>2. Idle(c, k)' /\ \A j \in Kind : c = "app" => (Idle("task", j)' <=> Idle("task", j))
    BY <1>0, <1>2 DEF Client
  <2>3. c = "app" /\ new.ui /\ ~Current("app").ui => SignedInNow
    BY <1>2, <2>1, <2>2 DEF SignedInNow
  <2> QED BY <1>2, <2>1, <2>2, <2>3, WriteSticks
<1>3. e \in Entry /\ "app" \in Client
  BY CurrentType DEF Client
<1>4. EndedEntry(e).ui => e.ui
  BY <1>3 DEF EndedEntry, Entry
<1>5. CASE TakeRefresh(c)
  <2>1. \A q : Merged(q, e).ui => e.ui
    BY DEF Merged
  <2> QED BY <1>2, <1>4, <1>5, <2>1 DEF TakeRefresh, Kind
<1>6. CASE TakeExchange(c)
  <2>1. UiEnded(e).ui => e.ui
    BY <1>3 DEF UiEnded, Entry
  <2> QED BY <1>2, <1>6, <2>1 DEF TakeExchange, Kind
<1>7. CASE TakeSignOut(c)
  <2> DEFINE out == [e EXCEPT !.scope = "ingest_only", !.ui = FALSE, !.pending = FALSE]
  <2>1. out.ui => e.ui
    BY <1>3 DEF Entry
  <2> QED BY <1>2, <1>4, <1>7, <2>1 DEF TakeSignOut, Kind
<1>8. CASE TakeAgentCall(c)
  <2> DEFINE out == [e EXCEPT !.scope = "ingest_only", !.ui = FALSE]
  <2>1. out.ui => e.ui
    BY <1>3 DEF Entry
  <2> QED BY <1>1, <1>2, <1>4, <1>8, <2>1 DEF TakeAgentCall, Kind
<1> QED BY <1>5, <1>6, <1>7, <1>8 DEF Takes

\* The server works on a call that is under way, or answers it.
LEMMA ServerSticks ==
  ASSUME TypeInv, KeeperInv, UNCHANGED world, NEW c \in Client, Server(c)
  PROVE  StickOK
<1>1. UNCHANGED deviceVars
  BY DEF Server, RefreshReads, RefreshCommits, SignOutReads, SignOutCommits,
         ExchangeServed, AgentCallServed
<1>2. ASSUME NEW k \in Kind, ~Idle(c, k), NEW new, Becomes(c, k, new)
      PROVE  StickOK
  <2>1. \A d \in Client, j \in Kind : Idle(d, j) => Idle(d, j)'
    BY <1>2, OthersIdle
  <2>2. UNCHANGED <<world, deviceVars>>
    BY <1>1
  <2> QED BY <2>1, <2>2, QuietSticks
<1>3. \E k \in Kind : \E new : ~Idle(c, k) /\ Becomes(c, k, new)
  <2>1. CASE RefreshReads(c)
    <3>1. \E new : Becomes(c, "refresh", new)
      BY <2>1 DEF RefreshReads, RefreshOutcome, Answered
    <3> QED BY <2>1, <3>1 DEF RefreshReads, Idle, Kind
  <2>2. CASE RefreshCommits(c)
    <3>1. \E new : Becomes(c, "refresh", new)
      BY <2>2 DEF RefreshCommits, Answered
    <3> QED BY <2>2, <3>1 DEF RefreshCommits, Idle, Kind
  <2>3. CASE SignOutReads(c)
    <3>1. \E new : Becomes(c, "signout", new)
      BY <2>3 DEF SignOutReads, Answered
    <3> QED BY <2>3, <3>1 DEF SignOutReads, Idle, Kind
  <2>4. CASE SignOutCommits(c)
    BY <2>4 DEF SignOutCommits, Answered, Idle, Kind
  <2>5. CASE ExchangeServed(c)
    <3>1. \E new : Becomes(c, "exchange", new)
      BY <2>5 DEF ExchangeServed, Answered
    <3> QED BY <2>5, <3>1 DEF ExchangeServed, Idle, Kind
  <2>6. ASSUME NEW S, AgentCallServed(c, S)
        PROVE  \E k \in Kind : \E new : ~Idle(c, k) /\ Becomes(c, k, new)
    BY <2>6 DEF AgentCallServed, Answered, Idle, Kind
  <2> QED BY <2>1, <2>2, <2>3, <2>4, <2>5, <2>6 DEF Server
<1> QED BY <1>2, <1>3

\* Every step.
LEMMA NextSticks ==
  ASSUME TypeInv, KeeperInv, OneKeeper, Next, UNCHANGED world
  PROVE  StickOK
<1>1. ASSUME NEW c \in Client, Server(c) \/ Takes(c) \/ Dies(c) PROVE StickOK
  BY <1>1, ServerSticks, TakesSticks, DiesSticks
<1>2. ASSUME NEW c \in Client, Starts(c) PROVE StickOK
  <2>1. CASE StartRefresh(c)
    BY <2>1, SendSticks DEF StartRefresh, Kind
  <2>2. CASE StartExchange(c)
    BY <2>2, SendSticks DEF StartExchange, Kind
  <2>3. CASE StartSignOut(c)
    BY <2>3, SendSticks DEF StartSignOut, Kind
  <2>4. CASE StartAgentCall(c)
    BY <2>4, SendSticks DEF StartAgentCall, Kind
  <2> QED BY <1>2, <2>1, <2>2, <2>3, <2>4 DEF Starts
<1>3. ASSUME NEW c \in Client, EndUiAccess(c) PROVE StickOK
  <2>1. c = "app" /\ Current(c).ui /\ Update(c, UiEnded(Current(c))) /\ UNCHANGED call
    BY <1>3 DEF EndUiAccess
  <2>2. \A k \in Kind : Idle("task", k)' <=> Idle("task", k)
    BY <2>1 DEF Idle
  <2> QED BY <2>1, <2>2, WriteSticks
<1>4. ASSUME NEW c \in Client, OfflineSignIn(c) PROVE StickOK
  <2>1. c = "app" /\ ~Idle(c, "exchange") /\ Becomes(c, "exchange", NoCall) /\ "exchange" \in Kind
    BY <1>4 DEF OfflineSignIn, Kind
  <2>2. Idle(c, "exchange")' /\ \A k \in Kind : Idle("task", k)' <=> Idle("task", k)
    <3>1. NoCall.phase = "idle"
      BY DEF NoCall
    <3> QED BY <2>1, <3>1, OthersIdle DEF Client
  <2>3. SignedInNow
    BY <2>1, <2>2 DEF SignedInNow
  <2>4. CASE UNCHANGED deviceVars
    <3>1. \A d \in Client, k \in Kind : Idle(d, k) => Idle(d, k)'
      BY <2>1, <2>2, OthersIdle
    <3> QED BY <2>4, <3>1, QuietSticks
  <2>5. ASSUME NEW e, Update(c, e) PROVE StickOK
    BY <2>1, <2>2, <2>3, <2>5, WriteSticks
  <2> QED BY <1>4, <2>4, <2>5 DEF OfflineSignIn
<1>5. ASSUME NEW c \in Client, NEW k \in Kind, AnswerLost(c, k) PROVE StickOK
  <2>1. Becomes(c, k, NoCall) /\ UNCHANGED <<world, deviceVars>> /\ NoCall.phase = "idle"
    BY <1>5 DEF AnswerLost, NoCall
  <2>2. \A d \in Client, j \in Kind : Idle(d, j) => Idle(d, j)'
    BY <2>1, OthersIdle
  <2> QED BY <2>1, <2>2, QuietSticks
<1>6. ASSUME UNCHANGED <<deviceVars, call>> PROVE StickOK
  <2>1. \A d \in Client, j \in Kind : Idle(d, j) => Idle(d, j)'
    BY <1>6 DEF Idle
  <2> QED BY <1>6, <2>1, QuietSticks
<1>7. ASSUME NEW s \in Sid, LateRefresh(s) \/ LateRefreshLost(s) \/ AdminRevokes(s) PROVE StickOK
  BY <1>6, <1>7 DEF LateRefresh, LateRefreshLost, AdminRevokes
<1>8. CASE AdminDeactivates
  BY <1>6, <1>8 DEF AdminDeactivates
<1> QED BY <1>1, <1>2, <1>3, <1>4, <1>5, <1>7, <1>8 DEF Next

\* Where answers are lost or the task runs, but not both: once signed out,
\* only a sign-in opens the UI again (pos_api_client.dart:199, _merge).
THEOREM SignOutStays ==
  ASSUME \A w \in Worlds : ~("lost" \in w /\ "task" \in w)
  PROVE  Spec => SignOutSticks
<1>1. Init => KeeperInv
  BY DEF Init, KeeperInv, Client, Idle, NoCall
<1>2. IInv => OneKeeper
  BY DEF IInv, TypeInv, OneKeeper, May
<1>3. IInv /\ KeeperInv /\ [Next /\ UNCHANGED world]_<<vars, world>> => KeeperInv'
  <2>1. ASSUME IInv, KeeperInv, UNCHANGED <<vars, world>> PROVE KeeperInv'
    BY <2>1 DEF KeeperInv, May, Idle, vars
  <2> QED BY <1>2, <2>1, NextSticks DEF IInv, StickOK
<1>4. IInv /\ KeeperInv /\ [Next /\ UNCHANGED world]_<<vars, world>> =>
        [~Current("app").ui /\ Current("app").ui' => SignedInNow]_vars
  BY <1>2, NextSticks DEF IInv, StickOK
<1> QED BY <1>1, <1>3, <1>4, SessionsInvariant, PTL DEF Spec, SignOutSticks

-----------------------------------------------------------------------------
(* One process that loses no answers presents no token it has rotated away.  *)

Calm == ~May("lost") /\ ~May("task")
Rotated(s) == sess[s].rotated

\* The token the app keeps has not been rotated, unless the answer that
\* replaces it is on its way; nor has one that an answer brings, and the
\* answer to a sign-in brings one that nobody else has.
FreshTokens(e, q, x) ==
  /\ q.phase = "sent" => ~Rotated(q.sid)
  /\ q.phase \in {"sent", "working"} => q.sees = {}
  /\ q.phase = "answered" /\ q.answer = "ok" => ~Rotated(q.sid)
  /\ q.phase = "answered" => q.answer \in {"ok", "ended"}
  /\ ~e.ended /\ ~(q.phase = "answered" /\ q.answer = "ok") => ~Rotated(e.sid)
  /\ x.answer = "ok" => /\ ~Rotated(x.sid)
                        /\ q.phase # "idle" => q.sid # x.sid
                        /\ ~e.ended => e.sid # x.sid

CalmInv ==
  Calm => /\ late = {} /\ reuse = {}
          /\ FreshTokens(Current("app"), call["app"]["refresh"], call["app"]["exchange"])

\* What the app goes by after it has read or written the book.
LEMMA CurrentMoves ==
  ASSUME TypeInv, NEW c \in Client
  PROVE  /\ Reads(c) => Current(c)' = Current(c)
         /\ \A e : Update(c, e) => Current(c)' = e
         /\ UNCHANGED deviceVars => Current(c)' = Current(c)
BY DEF TypeInv, Reads, Update, Current, deviceVars

\* The calls of the app after one of them moved.
LEMMA AppCalls ==
  ASSUME TypeInv, NEW k \in Kind, NEW new, Becomes("app", k, new)
  PROVE  /\ call'["app"]["refresh"] = IF k = "refresh" THEN new ELSE call["app"]["refresh"]
         /\ call'["app"]["exchange"] = IF k = "exchange" THEN new ELSE call["app"]["exchange"]
BY DEF TypeInv, Becomes, Client, Kind

\* What the device holds are tokens that were issued.
LEMMA IssuedTokens ==
  ASSUME IInv
  PROVE  /\ ~Current("app").ended => Current("app").sid \in Issued
         /\ call["app"]["refresh"].phase # "idle" => call["app"]["refresh"].sid \in Issued
         /\ call["app"]["exchange"].answer = "ok" => call["app"]["exchange"].sid \in Issued
         /\ Issued \subseteq Sid
<1>1. "app" \in Client
  BY DEF Client
<1>2. Known(Current("app"))
  BY <1>1, CurrentType DEF IInv, KnownInv
<1> QED BY <1>1, <1>2 DEF IInv, KnownInv, CallsKnown, Presents, Known, Issued

\* A step that leaves the entry's token and both calls, and rotates nothing.
LEMMA CalmStays ==
  ASSUME CalmInv, Calm, UNCHANGED <<late, reuse>>,
         Current("app")'.ended \/ (/\ Current("app")'.sid = Current("app").sid
                                   /\ Current("app")'.ended = Current("app").ended),
         UNCHANGED <<call["app"]["refresh"], call["app"]["exchange"]>>,
         \A s : Rotated(s)' <=> Rotated(s)
  PROVE  CalmInv'
BY DEF CalmInv, FreshTokens

\* A call of another kind, or of no kind that brings tokens, moves.
LEMMA OtherCall ==
  ASSUME TypeInv, NEW k \in Kind, k \notin {"refresh", "exchange"}, NEW new, Becomes("app", k, new)
  PROVE  UNCHANGED <<call["app"]["refresh"], call["app"]["exchange"]>>
BY AppCalls

\* A call goes out with the token that the app keeps.
LEMMA CalmStarts ==
  ASSUME IInv, KeeperInv, CalmInv, Calm, NEW c \in Client, Starts(c)
  PROVE  CalmInv'
<1>1. c = "app"
  BY DEF Starts, StartRefresh, StartExchange, StartSignOut, StartAgentCall, Send, Calm, Client
<1>2. TypeInv /\ "app" \in Client /\ UNCHANGED <<sess, late, reuse>>
  BY DEF IInv, Starts, StartRefresh, StartExchange, StartSignOut, StartAgentCall, serverVars, Client
<1>3. Current("app")' = Current("app")
  BY <1>1, <1>2, CurrentMoves
     DEF Starts, StartRefresh, StartExchange, StartSignOut, StartAgentCall
<1>4. \A s : Rotated(s)' <=> Rotated(s)
  BY <1>2 DEF Rotated
<1> DEFINE new == [NoCall EXCEPT !.phase = "sent", !.sid = Current("app").sid,
                                 !.ui = Current("app").ui]
<1>5. new.phase = "sent" /\ new.sid = Current("app").sid /\ new.answer = "none" /\ new.sees = {}
  BY DEF NoCall
<1>6. CASE StartRefresh(c)
  <2>1. Becomes("app", "refresh", new) /\ "refresh" \in Kind
    BY <1>1, <1>6 DEF StartRefresh, Send, Kind
  <2>2. call["app"]["refresh"].phase = "idle" /\ ~Current("app").ended
    BY <1>1, <1>6 DEF StartRefresh, Idle, Usable
  <2> HIDE DEF new
  <2>3. /\ call'["app"]["refresh"] = new
        /\ call'["app"]["exchange"] = call["app"]["exchange"]
    BY <1>2, <2>1, AppCalls
  <2> QED BY <1>2, <1>3, <1>4, <1>5, <2>2, <2>3 DEF CalmInv, FreshTokens
<1>7. CASE StartExchange(c)
  <2>1. Becomes("app", "exchange", new) /\ "exchange" \in Kind
    BY <1>1, <1>7 DEF StartExchange, Send, Kind
  <2> HIDE DEF new
  <2>3. /\ call'["app"]["refresh"] = call["app"]["refresh"]
        /\ call'["app"]["exchange"] = new
    BY <1>2, <2>1, AppCalls
  <2> QED BY <1>2, <1>3, <1>4, <1>5, <2>3 DEF CalmInv, FreshTokens
<1>8. CASE StartSignOut(c) \/ StartAgentCall(c)
  <2>1. PICK k \in {"signout", "agent"} : Becomes("app", k, new)
    BY <1>1, <1>8 DEF StartSignOut, StartAgentCall, Send
  <2> HIDE DEF new
  <2>2. UNCHANGED <<call["app"]["refresh"], call["app"]["exchange"]>>
    BY <1>2, <2>1, OtherCall DEF Kind
  <2> QED BY <1>2, <1>3, <1>4, <2>2, CalmStays
<1> QED BY <1>6, <1>7, <1>8 DEF Starts

\* An answer replaces the token, or ends the session.
LEMMA CalmTakes ==
  ASSUME IInv, KeeperInv, CalmInv, Calm, NEW c \in Client, Takes(c)
  PROVE  CalmInv'
<1> DEFINE e == Current("app")
           q == call["app"]["refresh"]
           x == call["app"]["exchange"]
<1>1. c = "app" /\ "app" \in Client
  BY DEF Takes, TakeRefresh, TakeExchange, TakeSignOut, TakeAgentCall, KeeperInv, Calm, Client,
         Idle, Kind
<1>2. TypeInv /\ UNCHANGED <<sess, late, reuse>>
  BY DEF IInv, Takes, TakeRefresh, TakeExchange, TakeSignOut, TakeAgentCall, serverVars
<1>3. \A s : Rotated(s)' <=> Rotated(s)
  BY <1>2 DEF Rotated
<1>4. NoCall.phase = "idle" /\ NoCall.answer = "none"
  BY DEF NoCall
<1>5. e \in Entry /\ q \in Call /\ x \in Call
  BY <1>1, <1>2, CurrentType DEF TypeInv, Kind
<1>6. /\ EndedEntry(e).ended
      /\ UiEnded(e).sid = e.sid /\ UiEnded(e).ended = e.ended
      /\ Merged(q, e).sid = q.sid /\ SignedIn(x, e).sid = x.sid
  BY <1>5, EntryTypes
<1>7. FreshTokens(e, q, x) /\ late = {} /\ reuse = {}
  BY DEF CalmInv
<1>8. ASSUME NEW k \in {"signout", "agent"}, Becomes("app", k, NoCall),
             \/ Current("app")'.ended
             \/ Current("app")'.sid = e.sid /\ Current("app")'.ended = e.ended
      PROVE  CalmInv'
  <2>1. UNCHANGED <<call["app"]["refresh"], call["app"]["exchange"]>>
    BY <1>2, <1>8, OtherCall DEF Kind
  <2> QED BY <1>2, <1>3, <1>8, <2>1, CalmStays
<1>9. CASE TakeRefresh(c)
  <2>1. /\ q.phase = "answered" /\ Becomes("app", "refresh", NoCall) /\ "refresh" \in Kind
        /\ Update("app", IF q.answer = "ok" THEN Merged(q, e) ELSE EndedEntry(e))
    BY <1>1, <1>9 DEF TakeRefresh, Kind
  <2>2. /\ call'["app"]["refresh"] = NoCall
        /\ call'["app"]["exchange"] = x
    BY <1>2, <2>1, AppCalls
  <2>3. Current("app")' = IF q.answer = "ok" THEN Merged(q, e) ELSE EndedEntry(e)
    BY <1>1, <1>2, <2>1, CurrentMoves
  <2> HIDE DEF e, q, x
  <2>4. CASE q.answer = "ok"
    <3>1. Current("app")'.sid = q.sid /\ ~Rotated(q.sid)
      BY <1>6, <1>7, <2>1, <2>3, <2>4 DEF FreshTokens
    <3> QED BY <1>2, <1>3, <1>4, <1>7, <2>1, <2>2, <3>1 DEF CalmInv, FreshTokens
  <2>5. CASE q.answer # "ok"
    <3>1. Current("app")'.ended
      BY <1>6, <2>3, <2>5
    <3> QED BY <1>2, <1>3, <1>4, <1>7, <2>1, <2>2, <3>1 DEF CalmInv, FreshTokens
  <2> QED BY <2>4, <2>5
<1>10. CASE TakeExchange(c)
  <2>1. /\ Becomes("app", "exchange", NoCall) /\ "exchange" \in Kind
        /\ Update("app", IF x.answer = "ok" THEN SignedIn(x, e) ELSE UiEnded(e))
    BY <1>1, <1>10 DEF TakeExchange, Kind
  <2>2. /\ call'["app"]["refresh"] = q
        /\ call'["app"]["exchange"] = NoCall
    BY <1>2, <2>1, AppCalls
  <2>3. Current("app")' = IF x.answer = "ok" THEN SignedIn(x, e) ELSE UiEnded(e)
    BY <1>1, <1>2, <2>1, CurrentMoves
  <2> HIDE DEF e, q, x
  <2>4. CASE x.answer = "ok"
    <3>1. Current("app")'.sid = x.sid /\ ~Rotated(x.sid)
      BY <1>6, <1>7, <2>3, <2>4 DEF FreshTokens
    <3> QED BY <1>2, <1>3, <1>4, <1>7, <2>2, <3>1 DEF CalmInv, FreshTokens
  <2>5. CASE x.answer # "ok"
    <3>1. Current("app")'.sid = e.sid /\ Current("app")'.ended = e.ended
      BY <1>6, <2>3, <2>5
    <3> QED BY <1>2, <1>3, <1>4, <1>7, <2>2, <3>1 DEF CalmInv, FreshTokens
  <2> QED BY <2>4, <2>5
<1>11. CASE TakeSignOut(c)
  <2> DEFINE out == [e EXCEPT !.scope = "ingest_only", !.ui = FALSE, !.pending = FALSE]
  <2>1. out.sid = e.sid /\ out.ended = e.ended
    BY <1>5 DEF Entry
  <2>2. PICK new \in {EndedEntry(e), e, out} : Update("app", new)
    BY <1>1, <1>11 DEF TakeSignOut
  <2>3. Current("app")' = new
    BY <1>1, <1>2, <2>2, CurrentMoves
  <2> QED BY <1>1, <1>6, <1>8, <1>11, <2>1, <2>2, <2>3 DEF TakeSignOut
<1>12. CASE TakeAgentCall(c)
  <2> DEFINE out == [e EXCEPT !.scope = "ingest_only", !.ui = FALSE]
  <2>1. out.sid = e.sid /\ out.ended = e.ended
    BY <1>5 DEF Entry
  <2>2. CASE UNCHANGED deviceVars
    <3>1. Current("app")' = e
      BY <1>1, <1>2, <2>2, CurrentMoves
    <3> QED BY <1>1, <1>8, <1>12, <3>1 DEF TakeAgentCall
  <2>3. ASSUME NEW new \in {EndedEntry(e), out}, Update("app", new) PROVE CalmInv'
    <3>1. Current("app")' = new
      BY <1>1, <1>2, <2>3, CurrentMoves
    <3> QED BY <1>1, <1>6, <1>8, <1>12, <2>1, <2>3, <3>1 DEF TakeAgentCall
  <2> QED BY <1>1, <1>12, <2>2, <2>3 DEF TakeAgentCall
<1> QED BY <1>9, <1>10, <1>11, <1>12 DEF Takes

\* The server rotates what the app presents, and no other token it has.
LEMMA CalmServer ==
  ASSUME IInv, KeeperInv, CalmInv, Calm, NEW c \in Client, Server(c),
         NEW e, e = Current("app"), NEW q, q = call["app"]["refresh"],
         NEW x, x = call["app"]["exchange"]
  PROVE  CalmInv'
<1>1. c = "app" /\ "app" \in Client
  BY DEF Server, RefreshReads, RefreshCommits, SignOutReads, SignOutCommits, ExchangeServed,
         AgentCallServed, KeeperInv, Calm, Client, Idle, Kind
<1>2. TypeInv /\ UNCHANGED <<deviceVars, late>>
  BY DEF IInv, Server, RefreshReads, RefreshCommits, SignOutReads, SignOutCommits,
         ExchangeServed, AgentCallServed
<1>3. Current("app")' = e
  BY <1>1, <1>2, CurrentMoves
<1>4. q \in Call /\ x \in Call
  BY <1>1, <1>2 DEF TypeInv, Kind
<1>5. FreshTokens(e, q, x) /\ late = {} /\ reuse = {}
  BY DEF CalmInv
<1>6. /\ ~e.ended => e.sid \in Issued
      /\ q.phase # "idle" => q.sid \in Issued
      /\ x.answer = "ok" => x.sid \in Issued
      /\ Issued \subseteq Sid
  BY IssuedTokens
<1>7. sess \in [Sid -> Row]
  BY <1>2 DEF TypeInv
<1>8. CASE RefreshReads(c)
  <2> DEFINE waits == [q EXCEPT !.phase = "working", !.scope = RotatedScope(q.sid)]
             ends == [q EXCEPT !.phase = "answered", !.answer = "ended"]
  <2>1. q.phase = "sent" /\ UNCHANGED <<sess, reuse>>
    BY <1>1, <1>8 DEF RefreshReads, serverVars
  <2>2. ~Rotated(q.sid) /\ q.sees = {}
    BY <1>5, <2>1 DEF FreshTokens
  <2>3. Becomes("app", "refresh", waits) \/ Becomes("app", "refresh", ends)
    BY <1>1, <1>8, <2>2 DEF RefreshReads, RefreshOutcome, Rotated, Answered
  <2>4. /\ waits.phase = "working" /\ waits.sees = q.sees /\ waits.sid = q.sid
        /\ ends.phase = "answered" /\ ends.answer = "ended" /\ ends.sid = q.sid
    BY <1>4 DEF Call
  <2> HIDE DEF waits, ends
  <2>5. PICK new \in {waits, ends} : Becomes("app", "refresh", new)
    BY <2>3
  <2>6. call'["app"]["refresh"] = new /\ call'["app"]["exchange"] = x
    BY <1>2, <2>5, AppCalls DEF Kind
  <2>7. \A s : Rotated(s)' <=> Rotated(s)
    BY <2>1 DEF Rotated
  <2> QED BY <1>2, <1>3, <1>5, <2>1, <2>2, <2>4, <2>5, <2>6, <2>7 DEF CalmInv, FreshTokens
<1>9. ASSUME NEW n \in Sid \ Issued, ~sess'[n].rotated,
             \A s \in Issued \ {q.sid} : sess'[s].rotated = sess[s].rotated,
             UNCHANGED reuse, q.phase = "working",
             NEW new, Becomes("app", "refresh", new),
             new.phase = "answered", new.answer = "ok", new.sid = n
      PROVE  CalmInv'
  <2>1. call'["app"]["refresh"] = new /\ call'["app"]["exchange"] = x
    BY <1>2, <1>9, AppCalls DEF Kind
  <2>2. x.answer = "ok" => x.sid # n /\ ~sess'[x.sid].rotated
    BY <1>5, <1>6, <1>9 DEF Rotated, FreshTokens
  <2>3. x.answer = "ok" /\ ~e.ended => e.sid # x.sid
    BY <1>5 DEF FreshTokens
  <2> QED BY <1>2, <1>3, <1>5, <1>9, <2>1, <2>2, <2>3 DEF CalmInv, FreshTokens, Rotated
<1>10. CASE RefreshCommits(c)
  <2>1. q.phase = "working" /\ q.sees = {}
    BY <1>1, <1>5, <1>10 DEF RefreshCommits, FreshTokens
  <2>2. /\ sess' = [sess EXCEPT ![q.sid].rotated = TRUE,
                       ![Fresh] = [family |-> sess[q.sid].family, scope |-> q.scope,
                                   rotated |-> FALSE, revoked |-> FALSE]]
        /\ Becomes("app", "refresh",
                   [q EXCEPT !.phase = "answered", !.answer = "ok", !.sid = Fresh])
        /\ UNCHANGED reuse
    BY <1>1, <1>10, <2>1 DEF RefreshCommits
  <2>3. Works(c) /\ q.sid \in Issued /\ Issued \subseteq Sid
    BY <1>1, <1>6, <2>1 DEF Works
  <2>4. Locked # {} /\ IsFiniteSet(Locked) /\ Cardinality(Locked) \in Nat
    BY <1>2, <2>3, LockedRows
  <2>5. Cardinality(Locked) # 0
    BY <2>4, FS_EmptySet
  <2>6. Cardinality(Issued) < MaxSession[world]
    <3>1. Cardinality(Issued) + Cardinality(Locked) =< MaxSession[world]
      BY DEF IInv, IdsInv
    <3>2. MaxSession[world] \in Nat /\ Cardinality(Issued) \in Nat
      BY <1>2, SessionAssumption DEF TypeInv, IInv, IdsInv
    <3> QED BY <2>4, <2>5, <3>1, <3>2
  <2>7. PICK n : n = Fresh
    OBVIOUS
  <2>8. n \in Sid \ Issued
    BY <1>2, <2>6, <2>7, FreshIsNew DEF IInv
  <2>9. ~sess'[n].rotated /\ \A s \in Issued \ {q.sid} : sess'[s].rotated = sess[s].rotated
    BY <1>7, <2>2, <2>3, <2>7, <2>8
  <2>10. PICK new : new = [q EXCEPT !.phase = "answered", !.answer = "ok", !.sid = n]
    OBVIOUS
  <2>11. new.phase = "answered" /\ new.answer = "ok" /\ new.sid = n
    BY <1>4, <2>10 DEF Call
  <2> QED BY <1>9, <2>1, <2>2, <2>7, <2>8, <2>9, <2>10, <2>11
<1>11. ASSUME UNCHANGED reuse, NEW k \in {"signout", "agent"}, NEW new, Becomes("app", k, new),
              \A s \in Sid : sess'[s].rotated = sess[s].rotated
       PROVE  CalmInv'
  <2>1. call'["app"]["refresh"] = q /\ call'["app"]["exchange"] = x
    BY <1>2, <1>11, AppCalls DEF Kind
  <2>2. /\ q.phase # "idle" => (Rotated(q.sid)' <=> Rotated(q.sid))
        /\ x.answer = "ok" => (Rotated(x.sid)' <=> Rotated(x.sid))
        /\ ~e.ended => (Rotated(e.sid)' <=> Rotated(e.sid))
    BY <1>6, <1>11 DEF Rotated
  <2> QED BY <1>2, <1>3, <1>5, <1>11, <2>1, <2>2 DEF CalmInv, FreshTokens
<1>12. CASE SignOutReads(c)
  <2>1. UNCHANGED <<sess, reuse>> /\ \E new : Becomes("app", "signout", new)
    BY <1>1, <1>12 DEF SignOutReads, Answered, serverVars
  <2> QED BY <1>11, <2>1
<1>13. CASE SignOutCommits(c)
  <2>1. UNCHANGED reuse /\ \E new : Becomes("app", "signout", new)
    BY <1>1, <1>13 DEF SignOutCommits, Answered
  <2>2. \A s \in Sid : sess'[s].rotated = sess[s].rotated
    BY <1>7, <1>13 DEF SignOutCommits, Row
  <2> QED BY <1>11, <2>1, <2>2
<1>14. ASSUME NEW S, AgentCallServed(c, S) PROVE CalmInv'
  <2>1. UNCHANGED <<sess, reuse>> /\ \E new : Becomes("app", "agent", new)
    BY <1>1, <1>14 DEF AgentCallServed, Answered, serverVars
  <2> QED BY <1>11, <2>1
<1>15. CASE ExchangeServed(c)
  <2>1. x.phase = "sent" /\ UNCHANGED reuse
    BY <1>1, <1>15 DEF ExchangeServed
  <2>2. CASE active
    <3>1. PICK n, ok : /\ n = Fresh
                       /\ ok = [x EXCEPT !.phase = "answered", !.answer = "ok", !.sid = n]
      OBVIOUS
    <3>2. /\ Spare /\ Becomes("app", "exchange", ok)
          /\ sess' = [sess EXCEPT ![n] = [family |-> n, scope |-> "full",
                                          rotated |-> FALSE, revoked |-> FALSE]]
      BY <1>1, <1>15, <2>2, <3>1 DEF ExchangeServed
    <3>3. Cardinality(Issued) < MaxSession[world]
      <4>1. Cardinality(Issued) + Cardinality(Locked) < MaxSession[world]
        BY <3>2 DEF Spare
      <4>2. /\ MaxSession[world] \in Nat /\ Cardinality(Issued) \in Nat
            /\ Cardinality(Locked) \in Nat
        BY <1>2, LockedRows, SessionAssumption DEF TypeInv, IInv, IdsInv
      <4> QED BY <4>1, <4>2
    <3>4. n \in Sid \ Issued
      BY <1>2, <3>1, <3>3, FreshIsNew DEF IInv
    <3>5. ~sess'[n].rotated /\ \A s \in Issued : sess'[s].rotated = sess[s].rotated
      BY <1>6, <1>7, <3>2, <3>4
    <3>6. ok.answer = "ok" /\ ok.sid = n
      BY <1>4, <3>1 DEF Call
    <3>7. call'["app"]["refresh"] = q /\ call'["app"]["exchange"] = ok
      BY <1>2, <3>2, AppCalls DEF Kind
    <3>8. /\ q.phase # "idle" => sess'[q.sid].rotated = sess[q.sid].rotated /\ q.sid # n
          /\ ~e.ended => sess'[e.sid].rotated = sess[e.sid].rotated /\ e.sid # n
      BY <1>6, <3>4, <3>5
    <3> QED BY <1>2, <1>3, <1>5, <2>1, <3>5, <3>6, <3>7, <3>8 DEF CalmInv, FreshTokens, Rotated
  <2>3. CASE ~active
    <3>1. PICK no : no = [x EXCEPT !.phase = "answered", !.answer = "refused"]
      OBVIOUS
    <3>2. Becomes("app", "exchange", no) /\ no.answer = "refused" /\ UNCHANGED sess
      BY <1>1, <1>4, <1>15, <2>3, <3>1 DEF ExchangeServed, Answered, Call
    <3>3. call'["app"]["refresh"] = q /\ call'["app"]["exchange"] = no
      BY <1>2, <3>2, AppCalls DEF Kind
    <3>4. \A s : Rotated(s)' <=> Rotated(s)
      BY <3>2 DEF Rotated
    <3> QED BY <1>2, <1>3, <1>5, <2>1, <3>2, <3>3, <3>4 DEF CalmInv, FreshTokens
  <2> QED BY <2>2, <2>3
<1> QED BY <1>8, <1>10, <1>12, <1>13, <1>14, <1>15 DEF Server

\* Every step.
LEMMA NextCalm ==
  ASSUME IInv, KeeperInv, CalmInv, Next, UNCHANGED world
  PROVE  CalmInv'
<1>1. SUFFICES ASSUME Calm PROVE CalmInv'
  BY DEF CalmInv, Calm, May
<1>2. TypeInv /\ "app" \in Client
  BY DEF IInv, Client
<1>3. ASSUME UNCHANGED <<late, reuse, deviceVars, call>>,
             \A s \in Sid : sess'[s].rotated = sess[s].rotated
      PROVE  CalmInv'
  <2>1. PICK e, q, x : /\ e = Current("app") /\ q = call["app"]["refresh"]
                       /\ x = call["app"]["exchange"]
    OBVIOUS
  <2>2. /\ Current("app")' = e /\ call'["app"]["refresh"] = q
        /\ call'["app"]["exchange"] = x
    BY <1>2, <1>3, <2>1, CurrentMoves
  <2>3. /\ ~e.ended => e.sid \in Sid
        /\ q.phase # "idle" => q.sid \in Sid
        /\ x.answer = "ok" => x.sid \in Sid
    BY <1>2, <2>1, IssuedTokens
  <2>4. FreshTokens(e, q, x) /\ late = {} /\ reuse = {}
    BY <1>1, <2>1 DEF CalmInv
  <2> QED BY <1>3, <2>2, <2>3, <2>4 DEF CalmInv, FreshTokens, Rotated
<1>4. ASSUME NEW c \in Client, Server(c) \/ Takes(c) \/ Starts(c) PROVE CalmInv'
  BY <1>1, <1>4, CalmServer, CalmTakes, CalmStarts
<1>5. ASSUME NEW c \in Client, EndUiAccess(c) PROVE CalmInv'
  <2>1. Current("app") \in Entry /\ c = "app" /\ Update(c, UiEnded(Current("app")))
        /\ UNCHANGED <<sess, reuse, late, call>>
    BY <1>2, <1>5, CurrentType DEF EndUiAccess, serverVars
  <2>2. /\ Current("app")' = UiEnded(Current("app"))
        /\ UiEnded(Current("app")).sid = Current("app").sid
        /\ UiEnded(Current("app")).ended = Current("app").ended
    BY <1>2, <2>1, CurrentMoves, EntryTypes
  <2>3. \A s : Rotated(s)' <=> Rotated(s)
    BY <2>1 DEF Rotated
  <2> QED BY <1>1, <2>1, <2>2, <2>3, CalmStays
<1>6. ASSUME NEW c \in Client, OfflineSignIn(c) \/ \E k \in Kind : AnswerLost(c, k) PROVE FALSE
  BY <1>1, <1>6 DEF OfflineSignIn, AnswerLost, Calm
<1>7. ASSUME NEW c \in Client, Dies(c) PROVE FALSE
  BY <1>1, <1>7 DEF Dies, Calm, KeeperInv, Client
<1>8. ASSUME NEW s \in Sid, LateRefresh(s) \/ LateRefreshLost(s) PROVE FALSE
  BY <1>1, <1>8 DEF LateRefresh, LateRefreshLost, CalmInv
<1>9. ASSUME NEW s \in Sid, AdminRevokes(s) PROVE CalmInv'
  <2>1. \A t \in Sid : sess'[t].rotated = sess[t].rotated
    BY <1>2, <1>9 DEF AdminRevokes, Revoke, TypeInv, Row
  <2> QED BY <1>3, <1>9, <2>1 DEF AdminRevokes
<1>10. CASE AdminDeactivates
  <2>1. \A t \in Sid : sess'[t].rotated = sess[t].rotated
    BY <1>2, <1>10 DEF AdminDeactivates, Revoke, TypeInv, Row
  <2> QED BY <1>3, <1>10, <2>1 DEF AdminDeactivates
<1> QED BY <1>4, <1>5, <1>6, <1>7, <1>8, <1>9, <1>10 DEF Next

\* A process that is alone and loses no answers never presents a token it has
\* rotated away (pos_api_client.dart:32).
THEOREM NobodyReuses == Spec => []NoSelfReuse
<1>1. Init => (Calm => KeeperInv) /\ CalmInv
  BY DEF Init, KeeperInv, CalmInv, FreshTokens, Current, Client, Kind, Idle, NoCall, NoEntry
<1>2. IInv /\ (Calm => KeeperInv) /\ CalmInv /\ [Next /\ UNCHANGED world]_<<vars, world>> =>
        (Calm => KeeperInv)' /\ CalmInv'
  <2>1. SUFFICES ASSUME IInv, Calm => KeeperInv, CalmInv,
                        [Next /\ UNCHANGED world]_<<vars, world>>
                 PROVE  (Calm => KeeperInv)' /\ CalmInv'
    OBVIOUS
  <2>2. UNCHANGED world /\ (Calm' <=> Calm)
    BY <2>1 DEF Calm, May
  <2>3. SUFFICES ASSUME Calm PROVE KeeperInv' /\ CalmInv'
    BY <2>1, <2>2 DEF CalmInv
  <2>4. CASE UNCHANGED <<vars, world>>
    <3>1. UNCHANGED <<world, sess, reuse, late, call>> /\ UNCHANGED <<stored, running, book>>
      BY <2>4 DEF vars
    <3>2. KeeperInv'
      BY <2>1, <2>3, <3>1 DEF KeeperInv, May, Idle
    <3>3. \A s : Rotated(s)' <=> Rotated(s)
      BY <3>1 DEF Rotated
    <3>4. Current("app")' = Current("app")
      BY <3>1 DEF Current
    <3> QED BY <2>1, <2>3, <3>1, <3>2, <3>3, <3>4 DEF CalmInv, FreshTokens
  <2>5. CASE Next /\ UNCHANGED world
    <3>1. StickOK
      BY <2>1, <2>3, <2>5, NextSticks DEF IInv, OneKeeper, Calm
    <3>2. CalmInv'
      BY <2>1, <2>3, <2>5, NextCalm
    <3> QED BY <3>1, <3>2 DEF StickOK
  <2> QED BY <2>1, <2>4, <2>5
<1>3. CalmInv => NoSelfReuse
  BY DEF CalmInv, NoSelfReuse, Calm
<1> QED BY <1>1, <1>2, <1>3, SessionsInvariant, PTL DEF Spec

=============================================================================
