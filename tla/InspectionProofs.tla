--------------------------- MODULE InspectionProofs ---------------------------
(***************************************************************************)
(* Proofs about the form engine and the inspection it serves.              *)
(*                                                                         *)
(* For any form that the compiler accepts and any answers: the order of    *)
(* evaluation puts each field after what it reads; there is one resolution *)
(* of the answers, and both the full resolution and its incremental twin   *)
(* give it; so a session that was kept up to date answer by answer is what *)
(* the server makes of what is sent.                                       *)
(*                                                                         *)
(* For any worlds that the publish gate lets through, any answers and any  *)
(* number of pages: what the phone finds is what the server finds, a       *)
(* refused submission leads to a page, and none is sent before the         *)
(* location check has passed.                                              *)
(***************************************************************************)
EXTENDS Inspection, Integers, FiniteSetTheorems, SequenceTheorems, WellFoundedInduction, TLAPS

-----------------------------------------------------------------------------
(* Induction over the places of a finite list, and functions defined by it. *)

\* Of a set of numbers that is not empty one is the least.
LEMMA LeastNumber ==
  ASSUME NEW S \in SUBSET Nat, S # {}
  PROVE  \E x \in S : \A y \in S : x <= y
<1>1. PICK x \in S : \A y \in S : <<y, x>> \notin OpToRel(<, Nat)
  BY NatLessThanWellFounded, WFMin, Zenon
<1>2. \A y \in S : ~(y < x)
  BY <1>1 DEF OpToRel
<1> QED BY <1>2

\* Min is that one.
LEMMA MinIsLeast ==
  ASSUME NEW S \in SUBSET Nat, S # {}
  PROVE  Min(S) \in S /\ \A y \in S : Min(S) <= y
BY LeastNumber DEF Min

\* A set with 0, and with the successor of each number below N it has.
LEMMA UpTo ==
  ASSUME NEW N \in Nat, NEW T, 0 \in T, \A n \in 0 .. N - 1 : n \in T => n + 1 \in T
  PROVE  0 .. N \subseteq T
<1>1. SUFFICES ASSUME (0 .. N) \ T # {} PROVE FALSE
  OBVIOUS
<1>2. PICK x \in (0 .. N) \ T : \A y \in (0 .. N) \ T : x <= y
  <2>1. PICK M : M = (0 .. N) \ T
    OBVIOUS
  <2>2. M \in SUBSET Nat /\ M # {}
    BY <1>1, <2>1
  <2> QED BY <2>1, <2>2, LeastNumber
<1>3. x - 1 \in 0 .. N - 1 /\ (x - 1) + 1 = x /\ ~(x <= x - 1)
  BY <1>2
<1>4. x - 1 \in T
  BY <1>2, <1>3
<1> QED BY <1>2, <1>3, <1>4

\* A state that each of N steps maps to one of the same set has a history.
IsHistory(f, N, S, base, step) ==
  f \in [0 .. N -> S] /\ f[0] = base /\ \A n \in 1 .. N : f[n] = step[n][f[n - 1]]

LEMMA Iterates ==
  ASSUME NEW N \in Nat, NEW S, NEW base \in S, NEW step \in [1 .. N -> [S -> S]]
  PROVE  \E f : IsHistory(f, N, S, base, step)
<1> DEFINE Upto(m) == \E f \in [0 .. m -> S] :
                        f[0] = base /\ \A n \in 1 .. m : f[n] = step[n][f[n - 1]]
           T == {m \in 0 .. N : Upto(m)}
<1>1. 0 \in T
  <2>1. PICK f : f = [n \in 0 .. 0 |-> base]
    OBVIOUS
  <2>2. f \in [0 .. 0 -> S] /\ f[0] = base
    BY <2>1
  <2>3. \A n \in 1 .. 0 : f[n] = step[n][f[n - 1]]
    OBVIOUS
  <2>4. Upto(0)
    BY <2>2, <2>3
  <2> QED BY <2>4
<1>2. ASSUME NEW m \in 0 .. N - 1, m \in T PROVE m + 1 \in T
  <2>1. PICK f \in [0 .. m -> S] : f[0] = base /\ \A n \in 1 .. m : f[n] = step[n][f[n - 1]]
    BY <1>2
  <2> DEFINE g == [n \in 0 .. m + 1 |-> IF n = m + 1 THEN step[m + 1][f[m]] ELSE f[n]]
  <2>2. m + 1 \in 1 .. N /\ f[m] \in S
    OBVIOUS
  <2>3. g \in [0 .. m + 1 -> S]
    BY <2>2
  <2>4. g[0] = base
    BY <2>1
  <2>5. \A n \in 1 .. m + 1 : g[n] = step[n][g[n - 1]]
    <3>1. ASSUME NEW n \in 1 .. m PROVE g[n] = step[n][g[n - 1]]
      BY <2>1
    <3>2. g[m + 1] = step[m + 1][g[m + 1 - 1]]
      OBVIOUS
    <3>3. \A n \in 1 .. m + 1 : n \in 1 .. m \/ n = m + 1
      OBVIOUS
    <3> HIDE DEF g
    <3> QED BY <3>1, <3>2, <3>3
  <2> HIDE DEF g
  <2>6. Upto(m + 1)
    BY <2>3, <2>4, <2>5
  <2> QED BY <2>6
<1> HIDE DEF Upto
<1>3. N \in T
  <2>1. 0 .. N \subseteq T
    BY <1>1, <1>2, UpTo
  <2> QED BY <2>1
<1>4. Upto(N)
  BY <1>3
<1> QED BY <1>4 DEF Upto, IsHistory

-----------------------------------------------------------------------------
(* Types.                                                                   *)

Value == {Null, Hidden, "date", "text"}
Raws(defn) == [Keys(defn) -> {Null, "date", "text"}]
Field(defn) == [visible: BOOLEAN, value: Value, required: BOOLEAN, trouble: BOOLEAN]
Res(defn) ==
  [values: [Keys(defn) -> Value], visible: SUBSET Keys(defn), trouble: SUBSET Keys(defn),
   fields: [Keys(defn) -> Field(defn)],
   sections: SUBSET DOMAIN defn.sections, sectionTrouble: SUBSET DOMAIN defn.sections]

\* The parts of a form.
LEMMA FormParts ==
  ASSUME NEW defn, IsForm(defn)
  PROVE  /\ Len(defn.fields) \in Nat /\ Keys(defn) = 1 .. Len(defn.fields)
         /\ \A k \in Keys(defn) :
              /\ SectionOf(defn, k) \in DOMAIN defn.sections
              /\ defn.fields[k].visible \in Conditions(Keys(defn))
              /\ defn.fields[k].required \in Conditions(Keys(defn))
              /\ defn.fields[k].value \in {Entered} \cup {Shifted(j) : j \in Keys(defn)}
         /\ \A s \in DOMAIN defn.sections : defn.sections[s] \in Conditions(Keys(defn))
<1>1. Len(defn.fields) \in Nat /\ Keys(defn) = 1 .. Len(defn.fields)
  BY DEF IsForm, Keys
<1>2. ASSUME NEW k \in Keys(defn)
      PROVE  defn.fields[k] \in
               [section: DOMAIN defn.sections, type: {"text", "date", "declaration"},
                visible: Conditions(DOMAIN defn.fields),
                required: Conditions(DOMAIN defn.fields),
                value: {Entered} \cup {Shifted(j) : j \in DOMAIN defn.fields}]
  BY <1>1, ElementOfSeq DEF IsForm, Keys
<1>3. ASSUME NEW s \in DOMAIN defn.sections PROVE defn.sections[s] \in Conditions(Keys(defn))
  BY <1>3 DEF IsForm, Keys
<1> QED BY <1>1, <1>2, <1>3 DEF Keys, SectionOf

\* What a rule says depends on the one answer it reads.
LEMMA RulesReadOneKey ==
  ASSUME NEW defn, IsForm(defn), NEW v \in [Keys(defn) -> Value], NEW w \in [Keys(defn) -> Value]
  PROVE  /\ \A r \in Conditions(Keys(defn)) :
              (\A j \in Reads({r}) : v[j] = w[j]) =>
                /\ \A e \in BOOLEAN : Holds(r, v, e) <=> Holds(r, w, e)
                /\ Fails(r, v) <=> Fails(r, w)
         /\ \A r \in {Entered} \cup {Shifted(j) : j \in Keys(defn)} :
              (\A j \in Reads({r}) : v[j] = w[j]) =>
                /\ r # Entered => Given(r, v) = Given(r, w)
                /\ Fails(r, v) <=> Fails(r, w)
<1>1. \A r : r.key # 0 => r.key \in Reads({r})
  BY DEF Reads
<1>2. 0 \notin Keys(defn)
  BY FormParts
<1>3. ASSUME NEW r \in Conditions(Keys(defn)), \A j \in Reads({r}) : v[j] = w[j]
      PROVE  r.op = "always" \/ v[r.key] = w[r.key]
  BY <1>1, <1>2, <1>3 DEF Conditions, Always, Filled, Dated
<1>4. ASSUME NEW r \in {Entered} \cup {Shifted(j) : j \in Keys(defn)},
             \A j \in Reads({r}) : v[j] = w[j]
      PROVE  r = Entered \/ (r.op = "shifted" /\ v[r.key] = w[r.key])
  BY <1>1, <1>2, <1>4 DEF Shifted
<1>5. Entered.op = "entered"
  BY DEF Entered
<1> QED BY <1>3, <1>4, <1>5 DEF Holds, Fails, Given

-----------------------------------------------------------------------------
(* One field.                                                               *)

ShownBy(defn, v, k) == \A r \in VisibleRules(defn, k) : Holds(r, v, TRUE)
FailsBy(defn, v, k) ==
  \/ \E r \in VisibleRules(defn, k) : Fails(r, v)
  \/ ShownBy(defn, v, k) /\ Fails(defn.fields[k].value, v)
ValueBy(defn, raw, v, k) ==
  CASE ~ShownBy(defn, v, k) -> Hidden
    [] ShownBy(defn, v, k) /\ Computed(defn, k) -> Given(defn.fields[k].value, v)
    [] OTHER -> raw[k]

\* Evaluating the field again would change nothing.
Settled(defn, raw, res, k) ==
  /\ res.values[k] = ValueBy(defn, raw, res.values, k)
  /\ k \in res.visible <=> ShownBy(defn, res.values, k)
  /\ k \in res.trouble <=> FailsBy(defn, res.values, k)

\* What evaluating a field leaves of the rest.
LEMMA EvaluateParts ==
  ASSUME NEW defn, IsForm(defn), NEW raw \in Raws(defn), NEW res \in Res(defn),
         NEW k \in Keys(defn), NEW after, after = EvaluateValue(defn, raw, res, k)
  PROVE  /\ after \in Res(defn)
         /\ after.values = [res.values EXCEPT ![k] = ValueBy(defn, raw, res.values, k)]
         /\ k \in after.visible <=> ShownBy(defn, res.values, k)
         /\ k \in after.trouble <=> FailsBy(defn, res.values, k)
         /\ \A j : j # k => /\ j \in after.visible <=> j \in res.visible
                            /\ j \in after.trouble <=> j \in res.trouble
         /\ after.fields = res.fields /\ after.sections = res.sections
         /\ after.sectionTrouble = res.sectionTrouble
<1>1. PICK v : v = ValueBy(defn, raw, res.values, k)
  OBVIOUS
<1>2. PICK vis : vis = IF ShownBy(defn, res.values, k) THEN res.visible \cup {k}
                            ELSE res.visible \ {k}
  OBVIOUS
<1>3. PICK tr : tr = IF FailsBy(defn, res.values, k) THEN res.trouble \cup {k}
                            ELSE res.trouble \ {k}
  OBVIOUS
<1>4. after = [res EXCEPT !.values[k] = v, !.visible = vis, !.trouble = tr]
  BY <1>1, <1>2, <1>3 DEF EvaluateValue, ShownBy, FailsBy, ValueBy
<1>5. v \in Value
  BY <1>1 DEF ValueBy, Raws, Given, Value
<1>6. vis \in SUBSET Keys(defn) /\ tr \in SUBSET Keys(defn)
  BY <1>2, <1>3 DEF Res
<1> HIDE DEF Value, Field, Keys
<1>7. after \in Res(defn)
  <2>1. [res.values EXCEPT ![k] = v] \in [Keys(defn) -> Value]
    BY <1>5 DEF Res
  <2>2. PICK w : w = [res.values EXCEPT ![k] = v]
    OBVIOUS
  <2>3. after = [res EXCEPT !.values = w, !.visible = vis, !.trouble = tr]
    BY <1>4, <2>2
  <2> QED BY <1>6, <2>1, <2>2, <2>3 DEF Res
<1>8. /\ after.values = [res.values EXCEPT ![k] = v] /\ after.visible = vis /\ after.trouble = tr
      /\ after.fields = res.fields /\ after.sections = res.sections
      /\ after.sectionTrouble = res.sectionTrouble
  BY <1>4 DEF Res
<1>9. /\ k \in vis <=> ShownBy(defn, res.values, k)
      /\ k \in tr <=> FailsBy(defn, res.values, k)
      /\ \A j : j # k => (j \in vis <=> j \in res.visible) /\ (j \in tr <=> j \in res.trouble)
  BY <1>2, <1>3
<1> QED BY <1>1, <1>7, <1>8, <1>9

\* It reads the values of its dependencies, and its own answer.
Agree(defn, v, w, k) ==
  /\ v \in [Keys(defn) -> Value] /\ w \in [Keys(defn) -> Value]
  /\ \A j \in HardDeps(defn, k) : v[j] = w[j]
SameVerdict(defn, v, w, k) ==
  /\ ShownBy(defn, v, k) <=> ShownBy(defn, w, k)
  /\ FailsBy(defn, v, k) <=> FailsBy(defn, w, k)
  /\ \A raw, ans :
       (ShownBy(defn, v, k) /\ ~Computed(defn, k) => raw[k] = ans[k]) =>
         ValueBy(defn, raw, v, k) = ValueBy(defn, ans, w, k)

LEMMA Local ==
  ASSUME NEW defn, IsForm(defn), NEW k \in Keys(defn), NEW v, NEW w, Agree(defn, v, w, k)
  PROVE  SameVerdict(defn, v, w, k)
<1>1. \A r \in VisibleRules(defn, k) : r \in Conditions(Keys(defn))
  BY FormParts DEF VisibleRules
<1>2. defn.fields[k].value \in {Entered} \cup {Shifted(j) : j \in Keys(defn)}
  BY FormParts
<1>3. \A r \in VisibleRules(defn, k) \cup {defn.fields[k].value} :
        \A j \in Reads({r}) : v[j] = w[j]
  BY DEF HardDeps, Reads, Agree
<1>4. \A r \in VisibleRules(defn, k) :
        (Holds(r, v, TRUE) <=> Holds(r, w, TRUE)) /\ (Fails(r, v) <=> Fails(r, w))
  BY <1>1, <1>3, RulesReadOneKey DEF Agree
<1>5. /\ Computed(defn, k) => Given(defn.fields[k].value, v) = Given(defn.fields[k].value, w)
      /\ Fails(defn.fields[k].value, v) <=> Fails(defn.fields[k].value, w)
  <2>1. PICK r \in {Entered} \cup {Shifted(j) : j \in Keys(defn)} : r = defn.fields[k].value
    BY <1>2
  <2>2. \A j \in Reads({r}) : v[j] = w[j]
    BY <1>3, <2>1
  <2>3. (r # Entered => Given(r, v) = Given(r, w)) /\ (Fails(r, v) <=> Fails(r, w))
    BY <2>2, RulesReadOneKey DEF Agree
  <2> QED BY <2>1, <2>3 DEF Computed
<1>6. /\ ShownBy(defn, v, k) <=> ShownBy(defn, w, k)
      /\ FailsBy(defn, v, k) <=> FailsBy(defn, w, k)
  BY <1>4, <1>5 DEF ShownBy, FailsBy
<1> QED BY <1>5, <1>6 DEF ValueBy, SameVerdict

-----------------------------------------------------------------------------
(* The order of evaluation.                                                 *)

Ready(defn, before) ==
  {k \in Keys(defn) \ Range(before) : HardDeps(defn, k) \subseteq Range(before)}

\* The next place goes to a field that is ready, if one is.
LEMMA PlaceNextParts ==
  ASSUME NEW defn, IsForm(defn), NEW before \in Seq(Keys(defn))
  PROVE  /\ PlaceNext(defn, before) \in Seq(Keys(defn))
         /\ Ready(defn, before) = {} => PlaceNext(defn, before) = before
         /\ Ready(defn, before) # {} =>
              \E k \in Ready(defn, before) : PlaceNext(defn, before) = Append(before, k)
<1>1. PICK ready : ready = Ready(defn, before)
  OBVIOUS
<1>2. ready \in SUBSET Nat /\ ready \subseteq Keys(defn)
  BY <1>1, FormParts DEF Ready
<1>3. PlaceNext(defn, before) = IF ready = {} THEN before ELSE Append(before, Min(ready))
  BY <1>1 DEF PlaceNext, Ready
<1>4. ready # {} => Min(ready) \in ready
  BY <1>2, MinIsLeast
<1> QED BY <1>1, <1>2, <1>3, <1>4

\* The recursion of Placed, unfolded.
LEMMA PlacedHistory ==
  ASSUME NEW defn, IsForm(defn)
  PROVE  /\ Placed(defn)[0] = <<>>
         /\ \A n \in 1 .. Len(defn.fields) :
              Placed(defn)[n] = PlaceNext(defn, Placed(defn)[n - 1])
         /\ \A n \in 0 .. Len(defn.fields) : Placed(defn)[n] \in Seq(Keys(defn))
<1> DEFINE N == Len(defn.fields)
           S == Seq(Keys(defn))
           step == [n \in 1 .. N |-> [s \in S |-> PlaceNext(defn, s)]]
<1>1. N \in Nat /\ <<>> \in S /\ \A s \in S : PlaceNext(defn, s) \in S
  BY FormParts, PlaceNextParts
<1>2. \E f : f = [n \in 0 .. N |-> IF n = 0 THEN <<>> ELSE PlaceNext(defn, f[n - 1])]
  <2>1. step \in [1 .. N -> [S -> S]]
    BY <1>1
  <2>2. PICK f \in [0 .. N -> S] : f[0] = <<>> /\ \A n \in 1 .. N : f[n] = step[n][f[n - 1]]
    <3> HIDE DEF S, N, step
    <3>1. \E f : IsHistory(f, N, S, <<>>, step)
      BY <1>1, <2>1, Iterates
    <3> QED BY <3>1 DEF IsHistory
  <2> HIDE DEF S, N
  <2>3. \A n \in 1 .. N : f[n] = PlaceNext(defn, f[n - 1])
    <3>1. \A n \in 1 .. N : n - 1 \in 0 .. N
      BY <1>1
    <3> QED BY <2>2, <3>1
  <2>4. f = [n \in 0 .. N |-> IF n = 0 THEN <<>> ELSE PlaceNext(defn, f[n - 1])]
    BY <1>1, <2>2, <2>3
  <2> QED BY <2>4
<1>3. Placed(defn) = [n \in 0 .. N |-> IF n = 0 THEN <<>> ELSE PlaceNext(defn, Placed(defn)[n - 1])]
  BY <1>2 DEF Placed
<1>4. /\ Placed(defn)[0] = <<>>
      /\ \A n \in 1 .. N : Placed(defn)[n] = PlaceNext(defn, Placed(defn)[n - 1])
  BY <1>1, <1>3
<1>5. \A n \in 0 .. N : Placed(defn)[n] \in S
  <2> DEFINE T == {n \in 0 .. N : Placed(defn)[n] \in S}
  <2> HIDE DEF S, N
  <2>1. 0 \in T
    BY <1>1, <1>4
  <2>2. ASSUME NEW n \in 0 .. N - 1, n \in T PROVE n + 1 \in T
    <3>1. n + 1 \in 1 .. N /\ (n + 1) - 1 = n
      BY <1>1
    <3> QED BY <1>1, <1>4, <2>2, <3>1
  <2>3. 0 .. N \subseteq T
    <3> HIDE DEF T
    <3> QED BY <1>1, <2>1, <2>2, UpTo
  <2> QED BY <2>3
<1> QED BY <1>4, <1>5

\* A list of the fields in which each comes once, after what it depends on.
Sound(defn, order) ==
  /\ order \in Seq(Keys(defn))
  /\ Cardinality(Range(order)) = Len(order) /\ IsFiniteSet(Range(order))
  /\ \A i, j \in DOMAIN order : order[i] = order[j] => i = j
  /\ \A i \in DOMAIN order : \A d \in HardDeps(defn, order[i]) :
       \E j \in 1 .. i - 1 : order[j] = d

\* A field whose dependencies have a place can have the next.
LEMMA PlaceNextSound ==
  ASSUME NEW defn, IsForm(defn), NEW before, Sound(defn, before)
  PROVE  Sound(defn, PlaceNext(defn, before))
<1>1. CASE Ready(defn, before) = {}
  BY <1>1, PlaceNextParts DEF Sound
<1>2. CASE Ready(defn, before) # {}
  <2>1. before \in Seq(Keys(defn)) /\ DOMAIN before = 1 .. Len(before) /\ Len(before) \in Nat
    BY DEF Sound
  <2>2. PICK k \in Ready(defn, before) : PlaceNext(defn, before) = Append(before, k)
    BY <1>2, <2>1, PlaceNextParts
  <2>3. PICK after : after = Append(before, k)
    OBVIOUS
  <2>4. k \in Keys(defn) /\ k \notin Range(before) /\ HardDeps(defn, k) \subseteq Range(before)
    BY DEF Ready
  <2>5. /\ after \in Seq(Keys(defn)) /\ Len(after) = Len(before) + 1
        /\ DOMAIN after = 1 .. Len(before) + 1
        /\ \A i \in 1 .. Len(before) : after[i] = before[i]
        /\ after[Len(before) + 1] = k
    BY <2>1, <2>3, <2>4, AppendProperties
  <2>6. Range(after) = Range(before) \cup {k}
    BY <2>1, <2>5 DEF Range
  <2>7. Cardinality(Range(after)) = Len(after) /\ IsFiniteSet(Range(after))
    <3>1. IsFiniteSet(Range(before)) /\ Cardinality(Range(before)) = Len(before)
      BY DEF Sound
    <3>2. /\ IsFiniteSet(Range(before) \cup {k})
          /\ Cardinality(Range(before) \cup {k}) = Cardinality(Range(before)) + 1
      BY <2>4, <3>1, FS_AddElement
    <3> QED BY <2>5, <2>6, <3>1, <3>2
  <2>8. \A i, j \in DOMAIN after : after[i] = after[j] => i = j
    <3>1. \A i \in 1 .. Len(before) : after[i] # k
      BY <2>1, <2>4, <2>5 DEF Range
    <3>2. \A i, j \in 1 .. Len(before) : after[i] = after[j] => i = j
      BY <2>1, <2>5 DEF Sound
    <3>3. \A i \in DOMAIN after : i \in 1 .. Len(before) \/ i = Len(before) + 1
      BY <2>1, <2>5
    <3> QED BY <2>5, <3>1, <3>2, <3>3
  <2>9. ASSUME NEW i \in DOMAIN after, NEW d \in HardDeps(defn, after[i])
        PROVE  \E j \in 1 .. i - 1 : after[j] = d
    <3>1. CASE i \in 1 .. Len(before)
      <4>1. PICK j \in 1 .. i - 1 : before[j] = d
        BY <2>1, <2>5, <2>9, <3>1 DEF Sound
      <4>2. j \in 1 .. Len(before)
        BY <2>1, <3>1, <4>1
      <4> QED BY <2>5, <4>1, <4>2
    <3>2. CASE i = Len(before) + 1
      <4>1. PICK j \in 1 .. Len(before) : before[j] = d
        BY <2>1, <2>4, <2>5, <2>9, <3>2 DEF Range
      <4> QED BY <2>1, <2>5, <3>2, <4>1
    <3> QED BY <2>1, <2>5, <3>1, <3>2
  <2>10. Sound(defn, after)
    BY <2>5, <2>7, <2>8, <2>9 DEF Sound
  <2> QED BY <2>2, <2>3, <2>10
<1> QED BY <1>1, <1>2

\* What the compiler accepts is ordered: every field, once, after what it
\* depends on.
THEOREM OrderIsSound ==
  ASSUME NEW defn, IsForm(defn), Compiles(defn)
  PROVE  /\ Sound(defn, Order(defn))
         /\ Range(Order(defn)) = Keys(defn)
         /\ DOMAIN Order(defn) = Keys(defn) /\ Len(Order(defn)) = Len(defn.fields)
<1> DEFINE N == Len(defn.fields)
           T == {n \in 0 .. N : Sound(defn, Placed(defn)[n])}
<1>1. N \in Nat /\ Keys(defn) = 1 .. N
  BY FormParts
<1>2. 0 \in T
  <2>1. Range(<<>>) = {}
    BY DEF Range
  <2>2. Sound(defn, <<>>)
    BY <2>1, FS_EmptySet DEF Sound
  <2> QED BY <1>1, <2>2, PlacedHistory
<1>3. ASSUME NEW n \in 0 .. N - 1, n \in T PROVE n + 1 \in T
  <2>1. n + 1 \in 1 .. N /\ (n + 1) - 1 = n
    BY <1>1
  <2>2. Placed(defn)[n + 1] = PlaceNext(defn, Placed(defn)[n])
    BY <2>1, PlacedHistory
  <2> QED BY <1>3, <2>1, <2>2, PlaceNextSound
<1>4. N \in T
  <2> HIDE DEF T
  <2>1. 0 .. N \subseteq T
    BY <1>1, <1>2, <1>3, UpTo
  <2> QED BY <1>1, <2>1
<1>5. Sound(defn, Order(defn))
  BY <1>4 DEF Order
<1>6. Len(Order(defn)) = N
  BY DEF Compiles
<1>7. Range(Order(defn)) \subseteq Keys(defn) /\ DOMAIN Order(defn) = Keys(defn)
  BY <1>1, <1>5, <1>6 DEF Sound, Range
<1>8. Range(Order(defn)) = Keys(defn)
  <2>1. IsFiniteSet(Keys(defn)) /\ Cardinality(Keys(defn)) = N
    BY <1>1, FS_Interval
  <2>2. Cardinality(Range(Order(defn))) = N
    BY <1>5, <1>6 DEF Sound
  <2> QED BY <1>7, <2>1, <2>2, FS_Subset
<1> QED BY <1>5, <1>6, <1>7, <1>8

\* The same, place by place.
Places(defn, order, N) ==
  /\ Sound(defn, order) /\ N \in Nat /\ DOMAIN order = 1 .. N
  /\ \A n \in 1 .. N : order[n] \in Keys(defn)
  /\ \A k \in Keys(defn) : \E n \in 1 .. N : order[n] = k
  /\ \A n \in 1 .. N : \A d \in HardDeps(defn, order[n]) :
       \E j \in 1 .. N : j < n /\ order[j] = d

LEMMA OrderPlaces ==
  ASSUME NEW defn, IsForm(defn), Compiles(defn)
  PROVE  \E order, N : /\ Places(defn, order, N)
                       /\ order = Order(defn) /\ N = Len(order)
<1>1. PICK order, N : order = Order(defn) /\ N = Len(order)
  OBVIOUS
<1>2. Sound(defn, order) /\ Range(order) = Keys(defn)
  BY <1>1, OrderIsSound
<1>3. order \in Seq(Keys(defn)) /\ N \in Nat /\ DOMAIN order = 1 .. N
  BY <1>1, <1>2 DEF Sound
<1>4. \A n \in 1 .. N : order[n] \in Keys(defn)
  BY <1>3
<1>5. \A k \in Keys(defn) : \E n \in 1 .. N : order[n] = k
  BY <1>2, <1>3 DEF Range
<1>6. ASSUME NEW n \in 1 .. N, NEW d \in HardDeps(defn, order[n])
      PROVE  \E j \in 1 .. N : j < n /\ order[j] = d
  <2>1. PICK j \in 1 .. n - 1 : order[j] = d
    BY <1>2, <1>3 DEF Sound
  <2>2. j \in 1 .. N /\ j < n
    BY <1>3
  <2> QED BY <2>1, <2>2
<1>7. Places(defn, order, N)
  BY <1>2, <1>3, <1>4, <1>5, <1>6 DEF Places
<1> QED BY <1>1, <1>7

\* So there is induction over what fields depend on.
LEMMA ByDependency ==
  ASSUME NEW defn, IsForm(defn), Compiles(defn), NEW P,
         \A k \in Keys(defn) : HardDeps(defn, k) \subseteq P => k \in P
  PROVE  Keys(defn) \subseteq P
<1>1. PICK order, N : Places(defn, order, N)
  BY OrderPlaces
<1>2. N \in Nat
  BY <1>1 DEF Places
<1> DEFINE T == {n \in 0 .. N : \A i \in 1 .. N : i <= n => order[i] \in P}
<1>3. 0 \in T
  BY <1>2
<1>4. ASSUME NEW n \in 0 .. N - 1, n \in T PROVE n + 1 \in T
  <2>1. PICK m : m = n + 1
    OBVIOUS
  <2>2. m \in 1 .. N /\ \A j \in 1 .. N : (j < m => j <= n) /\ (j <= m => j <= n \/ j = m)
    BY <1>2, <2>1
  <2>3. order[m] \in Keys(defn)
    BY <1>1, <2>2 DEF Places
  <2>4. ASSUME NEW d \in HardDeps(defn, order[m]) PROVE d \in P
    <3>1. PICK j \in 1 .. N : j < m /\ order[j] = d
      BY <1>1, <2>2 DEF Places
    <3> QED BY <1>4, <2>2, <3>1
  <2>5. order[m] \in P
    BY <2>3, <2>4
  <2>6. m \in 0 .. N /\ \A i \in 1 .. N : i <= m => order[i] \in P
    BY <1>2, <1>4, <2>2, <2>5
  <2> QED BY <2>1, <2>6
<1>5. N \in T
  <2> HIDE DEF T
  <2>1. 0 .. N \subseteq T
    BY <1>2, <1>3, <1>4, UpTo
  <2> QED BY <1>2, <2>1
<1> QED BY <1>1, <1>5 DEF Places

\* What a field of a form that compiles depends on is among its fields.
LEMMA DepsAreFields ==
  ASSUME NEW defn, IsForm(defn), Compiles(defn), NEW k \in Keys(defn)
  PROVE  HardDeps(defn, k) \subseteq Keys(defn)
<1>1. PICK order, N : Places(defn, order, N)
  BY OrderPlaces
<1>2. PICK n \in 1 .. N : order[n] = k
  BY <1>1 DEF Places
<1> QED BY <1>1, <1>2 DEF Places

-----------------------------------------------------------------------------
(* Resolution as a whole.                                                   *)

\* What comes later in the order is read by nothing before it.
LEMMA LaterIsUnread ==
  ASSUME NEW defn, NEW order, Sound(defn, order),
         NEW n \in DOMAIN order, NEW i \in DOMAIN order, i <= n
  PROVE  /\ order[n] \notin HardDeps(defn, order[i])
         /\ i # n => order[i] # order[n]
<1>1. DOMAIN order = 1 .. Len(order) /\ Len(order) \in Nat
  BY DEF Sound
<1>2. \A j \in 1 .. i - 1 : j \in DOMAIN order /\ j # n
  BY <1>1
<1> QED BY <1>2 DEF Sound

\* Evaluating one field leaves another settled that does not read it.
LEMMA StaysSettled ==
  ASSUME NEW defn, IsForm(defn), NEW raw \in Raws(defn), NEW res \in Res(defn),
         NEW k \in Keys(defn), NEW j \in Keys(defn), j # k, k \notin HardDeps(defn, j),
         Settled(defn, raw, res, j)
  PROVE  Settled(defn, raw, EvaluateValue(defn, raw, res, k), j)
<1>1. PICK after : after = EvaluateValue(defn, raw, res, k)
  OBVIOUS
<1>2. /\ after \in Res(defn)
      /\ after.values = [res.values EXCEPT ![k] = ValueBy(defn, raw, res.values, k)]
      /\ j \in after.visible <=> j \in res.visible
      /\ j \in after.trouble <=> j \in res.trouble
  BY <1>1, EvaluateParts
<1>3. res.values \in [Keys(defn) -> Value] /\ after.values \in [Keys(defn) -> Value]
  BY <1>2 DEF Res
<1>4. \A d \in HardDeps(defn, j) : after.values[d] = res.values[d]
  BY <1>2, <1>3
<1>5. after.values[j] = res.values[j]
  BY <1>2, <1>3
<1>6. SameVerdict(defn, after.values, res.values, j)
  BY <1>3, <1>4, Local DEF Agree
<1> QED BY <1>1, <1>2, <1>5, <1>6 DEF Settled, SameVerdict

\* It settles the field itself.
LEMMA BecomesSettled ==
  ASSUME NEW defn, IsForm(defn), NEW raw \in Raws(defn), NEW res \in Res(defn),
         NEW k \in Keys(defn), k \notin HardDeps(defn, k)
  PROVE  Settled(defn, raw, EvaluateValue(defn, raw, res, k), k)
<1>1. PICK after : after = EvaluateValue(defn, raw, res, k)
  OBVIOUS
<1>2. /\ after \in Res(defn)
      /\ after.values = [res.values EXCEPT ![k] = ValueBy(defn, raw, res.values, k)]
      /\ k \in after.visible <=> ShownBy(defn, res.values, k)
      /\ k \in after.trouble <=> FailsBy(defn, res.values, k)
  BY <1>1, EvaluateParts
<1>3. res.values \in [Keys(defn) -> Value] /\ after.values \in [Keys(defn) -> Value]
  BY <1>2 DEF Res
<1>4. \A d \in HardDeps(defn, k) : after.values[d] = res.values[d]
  BY <1>2, <1>3
<1>5. after.values[k] = ValueBy(defn, raw, res.values, k)
  BY <1>2, <1>3
<1>6. SameVerdict(defn, after.values, res.values, k)
  BY <1>3, <1>4, Local DEF Agree
<1> QED BY <1>1, <1>2, <1>5, <1>6 DEF Settled, SameVerdict

\* The recursion of Evaluated, unfolded.
LEMMA EvaluatedHistory ==
  ASSUME NEW defn, IsForm(defn), Compiles(defn), NEW raw \in Raws(defn),
         NEW order, order = Order(defn)
  PROVE  /\ \A n \in 1 .. Len(order) :
              Evaluated(defn, raw)[n]
                = EvaluateValue(defn, raw, Evaluated(defn, raw)[n - 1], order[n])
         /\ \A n \in 0 .. Len(order) : Evaluated(defn, raw)[n] \in Res(defn)
<1> DEFINE N == Len(order)
           S == Res(defn)
           base == Unresolved(defn)
           step == [n \in 1 .. N |-> [s \in S |-> EvaluateValue(defn, raw, s, order[n])]]
           E == Evaluated(defn, raw)
<1>1. N \in Nat /\ \A n \in 1 .. N : order[n] \in Keys(defn)
  BY OrderIsSound DEF Sound
<1>2. base \in S
  BY DEF Unresolved, Res, Value, Field
<1>3. \A n \in 1 .. N : \A s \in S : EvaluateValue(defn, raw, s, order[n]) \in S
  BY <1>1, EvaluateParts
<1>4. step \in [1 .. N -> [S -> S]]
  BY <1>3
<1>5. PICK f : IsHistory(f, N, S, base, step)
  <2> HIDE DEF N, S, base, step
  <2> QED BY <1>1, <1>2, <1>4, Iterates
<1>6. /\ f \in [0 .. N -> S] /\ f[0] = base
      /\ \A n \in 1 .. N : f[n] = step[n][f[n - 1]]
  BY <1>5 DEF IsHistory
<1>7. \A n \in 1 .. N : n - 1 \in 0 .. N
  BY <1>1
<1> HIDE DEF N, S, base
<1>8. \A n \in 1 .. N : f[n] = EvaluateValue(defn, raw, f[n - 1], order[n])
  BY <1>6, <1>7
<1>9. f = [n \in 0 .. N |-> IF n = 0 THEN base ELSE EvaluateValue(defn, raw, f[n - 1], order[n])]
  BY <1>1, <1>6, <1>8
<1>10. E = [n \in 0 .. N |-> IF n = 0 THEN base ELSE EvaluateValue(defn, raw, E[n - 1], order[n])]
  BY <1>9 DEF Evaluated, N, base
<1> HIDE DEF E
<1>11. E[0] = base /\ \A n \in 1 .. N : E[n] = EvaluateValue(defn, raw, E[n - 1], order[n])
  BY <1>1, <1>10
<1>12. \A n \in 0 .. N : E[n] \in S
  <2> DEFINE T == {n \in 0 .. N : E[n] \in S}
  <2>1. 0 \in T
    BY <1>1, <1>2, <1>11
  <2>2. ASSUME NEW n \in 0 .. N - 1, n \in T PROVE n + 1 \in T
    <3>1. n + 1 \in 1 .. N /\ (n + 1) - 1 = n
      BY <1>1
    <3> QED BY <1>1, <1>3, <1>11, <2>2, <3>1
  <2>3. 0 .. N \subseteq T
    <3> HIDE DEF T
    <3> QED BY <1>1, <2>1, <2>2, UpTo
  <2> QED BY <2>3
<1> QED BY <1>11, <1>12 DEF E, N, S

\* The resolution of a form's answers: every field is settled, and phase 2
\* is that of these values.
Phase2(defn, res) ==
  /\ res.fields = [k \in Keys(defn) |-> ResolveField(defn, res, k)]
  /\ res.sections = {s \in DOMAIN defn.sections : SectionHolds(defn, res, s)}
  /\ res.sectionTrouble = {s \in DOMAIN defn.sections : SectionFails(defn, res, s)}
Whole(defn, raw, res) ==
  /\ res \in Res(defn)
  /\ \A k \in Keys(defn) : Settled(defn, raw, res, k)
  /\ Phase2(defn, res)

\* Phase 2 reads the values and what is visible.
LEMMA Phase2Reads ==
  ASSUME NEW defn, NEW res, NEW one, res.values = one.values, res.visible = one.visible
  PROVE  /\ \A k : ResolveField(defn, res, k) = ResolveField(defn, one, k)
         /\ \A s : SectionHolds(defn, res, s) = SectionHolds(defn, one, s)
         /\ \A s : SectionFails(defn, res, s) = SectionFails(defn, one, s)
BY DEF ResolveField, SectionHolds, SectionFails

\* Phase 2 of a field, by whether it is shown.
LEMMA Resolved ==
  ASSUME NEW defn, NEW res, NEW k
  PROVE  /\ k \in res.visible => ResolveField(defn, res, k) =
              [visible |-> TRUE, value |-> res.values[k],
               required |-> Holds(defn.fields[k].required, res.values, FALSE),
               trouble |-> Fails(defn.fields[k].required, res.values)]
         /\ k \notin res.visible => ResolveField(defn, res, k) =
              [visible |-> FALSE, value |-> Null, required |-> FALSE, trouble |-> FALSE]
<1>1. PICK r, h, f : r = defn.fields[k].required /\ h = Holds(r, res.values, FALSE)
                     /\ f = Fails(r, res.values)
  OBVIOUS
<1>2. h \in BOOLEAN /\ f \in BOOLEAN
  BY <1>1 DEF Holds, Fails
<1>3. PICK b \in BOOLEAN : b <=> k \in res.visible
  OBVIOUS
<1>4. b = (k \in res.visible)
  BY <1>3, Zenon
<1>5. ResolveField(defn, res, k) =
        [visible |-> b, value |-> IF b THEN res.values[k] ELSE Null,
         required |-> b /\ h, trouble |-> b /\ f]
  BY <1>1, <1>4, Zenon DEF ResolveField
<1>6. CASE b = TRUE
  <2>1. (b /\ h) = h /\ (b /\ f) = f
    BY <1>2, <1>6
  <2> QED BY <1>1, <1>3, <1>5, <1>6, <2>1
<1>7. CASE b = FALSE
  BY <1>3, <1>5, <1>7
<1> QED BY <1>3, <1>6, <1>7

\* It gives the record of a field.
LEMMA ResolvedType ==
  ASSUME NEW defn, IsForm(defn), NEW res \in Res(defn), NEW k \in Keys(defn)
  PROVE  ResolveField(defn, res, k) \in Field(defn)
<1>1. res.values[k] \in Value /\ Null \in Value
  BY DEF Res, Value
<1>2. \A v, e : Holds(defn.fields[k].required, v, e) \in BOOLEAN
  BY DEF Holds
<1>3. \A v : Fails(defn.fields[k].required, v) \in BOOLEAN
  BY DEF Fails
<1> QED BY <1>1, <1>2, <1>3 DEF ResolveField, Field

\* Each field in the order is settled as it is evaluated, and stays so.
LEMMA EvaluatesAll ==
  ASSUME NEW defn, IsForm(defn), Compiles(defn), NEW raw \in Raws(defn)
  PROVE  /\ Evaluated(defn, raw)[Len(Order(defn))] \in Res(defn)
         /\ \A k \in Keys(defn) : Settled(defn, raw, Evaluated(defn, raw)[Len(Order(defn))], k)
<1>1. PICK E : E = Evaluated(defn, raw)
  OBVIOUS
<1>2. PICK order, N : Places(defn, order, N) /\ order = Order(defn) /\ N = Len(order)
  BY OrderPlaces
<1>3. /\ Sound(defn, order) /\ N \in Nat /\ DOMAIN order = 1 .. N
      /\ \A n \in 1 .. N : order[n] \in Keys(defn)
      /\ \A k \in Keys(defn) : \E n \in 1 .. N : order[n] = k
  BY <1>2 DEF Places
<1>4. /\ \A n \in 1 .. N : E[n] = EvaluateValue(defn, raw, E[n - 1], order[n])
      /\ \A n \in 0 .. N : E[n] \in Res(defn)
  BY <1>1, <1>2, EvaluatedHistory
<1> DEFINE T == {n \in 0 .. N : \A i \in 1 .. n : Settled(defn, raw, E[n], order[i])}
<1>5. 0 \in T
  BY <1>3
<1>6. ASSUME NEW n \in 0 .. N - 1, n \in T PROVE n + 1 \in T
  <2>1. n + 1 \in 1 .. N /\ (n + 1) - 1 = n /\ n \in 0 .. N
    BY <1>3
  <2>2. E[n + 1] = EvaluateValue(defn, raw, E[n], order[n + 1]) /\ E[n] \in Res(defn)
    BY <1>4, <2>1
  <2>3. ASSUME NEW i \in 1 .. n + 1 PROVE Settled(defn, raw, E[n + 1], order[i])
    <3>1. /\ i \in 1 .. N /\ i <= n + 1 /\ order[i] \in Keys(defn) /\ order[n + 1] \in Keys(defn)
      BY <1>3, <2>1
    <3>2. order[n + 1] \notin HardDeps(defn, order[i]) /\ (i # n + 1 => order[i] # order[n + 1])
      BY <1>3, <2>1, <3>1, LaterIsUnread
    <3>3. CASE i = n + 1
      BY <2>2, <3>1, <3>2, <3>3, BecomesSettled
    <3>4. CASE i # n + 1
      <4>1. Settled(defn, raw, E[n], order[i])
        BY <1>6, <3>1, <3>4
      <4> QED BY <2>2, <3>1, <3>2, <3>4, <4>1, StaysSettled
    <3> QED BY <3>3, <3>4
  <2> QED BY <2>1, <2>3
<1>7. N \in T
  <2> HIDE DEF T
  <2>1. 0 .. N \subseteq T
    BY <1>3, <1>5, <1>6, UpTo
  <2> QED BY <1>3, <2>1
<1> QED BY <1>1, <1>2, <1>3, <1>4, <1>7

\* A full resolution is whole.
LEMMA RunAllIsWhole ==
  ASSUME NEW defn, IsForm(defn), Compiles(defn), NEW raw \in Raws(defn)
  PROVE  Whole(defn, raw, RunAll(defn, raw))
<1>1. PICK one : one = Evaluated(defn, raw)[Len(Order(defn))]
  OBVIOUS
<1>2. one \in Res(defn) /\ \A k \in Keys(defn) : Settled(defn, raw, one, k)
  BY <1>1, EvaluatesAll
<1>3. PICK fs, ss, st : /\ fs = [k \in Keys(defn) |-> ResolveField(defn, one, k)]
                        /\ ss = {s \in DOMAIN defn.sections : SectionHolds(defn, one, s)}
                        /\ st = {s \in DOMAIN defn.sections : SectionFails(defn, one, s)}
  OBVIOUS
<1>4. PICK res : res = RunAll(defn, raw)
  OBVIOUS
<1>5. res = [one EXCEPT !.fields = fs, !.sections = ss, !.sectionTrouble = st]
  BY <1>1, <1>3, <1>4 DEF RunAll
<1>6. fs \in [Keys(defn) -> Field(defn)]
  BY <1>2, <1>3, ResolvedType
<1>7. ss \in SUBSET DOMAIN defn.sections /\ st \in SUBSET DOMAIN defn.sections
  BY <1>3
<1>8. /\ res \in Res(defn) /\ res.values = one.values /\ res.visible = one.visible
      /\ res.trouble = one.trouble
      /\ res.fields = fs /\ res.sections = ss /\ res.sectionTrouble = st
  BY <1>2, <1>5, <1>6, <1>7 DEF Res
<1>9. \A k \in Keys(defn) : Settled(defn, raw, res, k)
  BY <1>2, <1>8 DEF Settled
<1>10. Phase2(defn, res)
  BY <1>3, <1>8, Phase2Reads DEF Phase2
<1> QED BY <1>4, <1>8, <1>9, <1>10 DEF Whole

\* Answers to fields that are not shown, or computed, make no difference; so
\* there is one resolution.
LEMMA WholeIsUnique ==
  ASSUME NEW defn, IsForm(defn), Compiles(defn), NEW raw, NEW ans, NEW res, NEW one,
         Whole(defn, raw, res), Whole(defn, ans, one),
         \A k \in Keys(defn) : k \in res.visible /\ ~Computed(defn, k) => raw[k] = ans[k]
  PROVE  res = one
<1>1. /\ res \in Res(defn) /\ one \in Res(defn)
      /\ res.values \in [Keys(defn) -> Value] /\ one.values \in [Keys(defn) -> Value]
      /\ res.visible \subseteq Keys(defn) /\ one.visible \subseteq Keys(defn)
      /\ res.trouble \subseteq Keys(defn) /\ one.trouble \subseteq Keys(defn)
  BY DEF Whole, Res
<1>2. ASSUME NEW k \in Keys(defn), \A d \in HardDeps(defn, k) : res.values[d] = one.values[d]
      PROVE  /\ res.values[k] = one.values[k]
             /\ k \in res.visible <=> k \in one.visible
             /\ k \in res.trouble <=> k \in one.trouble
  <2>1. SameVerdict(defn, res.values, one.values, k)
    BY <1>1, <1>2, Local DEF Agree
  <2>2. Settled(defn, raw, res, k) /\ Settled(defn, ans, one, k)
    BY DEF Whole
  <2> QED BY <2>1, <2>2 DEF SameVerdict, Settled
<1>3. \A k \in Keys(defn) : res.values[k] = one.values[k]
  <2>1. PICK P : P = {k \in Keys(defn) : res.values[k] = one.values[k]}
    OBVIOUS
  <2>2. \A k \in Keys(defn) : HardDeps(defn, k) \subseteq P => k \in P
    BY <1>2, <2>1
  <2> QED BY <2>1, <2>2, ByDependency
<1>4. \A k \in Keys(defn) : /\ k \in res.visible <=> k \in one.visible
                            /\ k \in res.trouble <=> k \in one.trouble
  BY <1>2, <1>3, DepsAreFields
<1>5. res.values = one.values /\ res.visible = one.visible /\ res.trouble = one.trouble
  BY <1>1, <1>3, <1>4
<1>6. /\ res.fields = one.fields /\ res.sections = one.sections
      /\ res.sectionTrouble = one.sectionTrouble
  BY <1>5, Phase2Reads DEF Whole, Phase2
<1> QED BY <1>1, <1>5, <1>6 DEF Res

-----------------------------------------------------------------------------
(* Resolution answer by answer.                                             *)

Acc(defn) == [res: Res(defn), moved: SUBSET Keys(defn)]

Again(defn, acc, changed, k) == k = changed \/ HardDeps(defn, k) \cap acc.moved # {}

\* What reads a change is evaluated, and moves if it came out differently.
LEMMA UpdateValueParts ==
  ASSUME NEW defn, IsForm(defn), NEW raw \in Raws(defn), NEW acc \in Acc(defn),
         NEW changed, NEW k \in Keys(defn), Again(defn, acc, changed, k),
         NEW next, next = UpdateValue(defn, raw, acc, changed, k),
         NEW after, after = EvaluateValue(defn, raw, acc.res, k)
  PROVE  /\ next \in Acc(defn) /\ next.res = after
         /\ next.moved = IF Moved(acc.res, after, k) THEN acc.moved \cup {k} ELSE acc.moved
<1>1. acc.res \in Res(defn) /\ acc.moved \subseteq Keys(defn)
  BY DEF Acc
<1>2. after \in Res(defn)
  BY <1>1, EvaluateParts
<1>3. next = [res |-> after,
              moved |-> IF Moved(acc.res, after, k) THEN acc.moved \cup {k} ELSE acc.moved]
  BY DEF UpdateValue, Again
<1> QED BY <1>1, <1>2, <1>3 DEF Acc

\* What does not is left alone.
LEMMA UpdateValueSkips ==
  ASSUME NEW defn, NEW raw, NEW acc, NEW changed, NEW k, ~Again(defn, acc, changed, k)
  PROVE  UpdateValue(defn, raw, acc, changed, k) = acc
BY DEF UpdateValue, Again

\* Either way the update goes on from a resolution.
LEMMA UpdateValueType ==
  ASSUME NEW defn, IsForm(defn), NEW raw \in Raws(defn), NEW acc \in Acc(defn),
         NEW changed, NEW k \in Keys(defn)
  PROVE  UpdateValue(defn, raw, acc, changed, k) \in Acc(defn)
<1>1. CASE Again(defn, acc, changed, k)
  <2>1. PICK next, after : /\ next = UpdateValue(defn, raw, acc, changed, k)
                           /\ after = EvaluateValue(defn, raw, acc.res, k)
    OBVIOUS
  <2> QED BY <1>1, <2>1, UpdateValueParts
<1>2. CASE ~Again(defn, acc, changed, k)
  BY <1>2, UpdateValueSkips
<1> QED BY <1>1, <1>2

\* Answers that differ at one field.
SameBut(defn, raw, old, changed) == \A k \in Keys(defn) : k # changed => raw[k] = old[k]

\* Where an update stands after the first n fields of the order: these are
\* settled, the others as they were, and what changed has moved.
Untouched(one, res, k) ==
  /\ one.values[k] = res.values[k]
  /\ k \in one.visible <=> k \in res.visible
  /\ k \in one.trouble <=> k \in res.trouble
Half(defn, raw, res, changed, order, N, acc, n) ==
  /\ acc \in Acc(defn)
  /\ changed \in acc.moved
  /\ \A i \in 1 .. N : i <= n => Settled(defn, raw, acc.res, order[i])
  /\ \A i \in 1 .. N : n < i => Untouched(acc.res, res, order[i])
  /\ \A k \in Keys(defn) \ acc.moved : ~Moved(res, acc.res, k)
  /\ acc.res.fields = res.fields /\ acc.res.sections = res.sections
  /\ acc.res.sectionTrouble = res.sectionTrouble

\* A field that is not evaluated again is settled as it is.
LEMMA SettledAsItIs ==
  ASSUME NEW defn, IsForm(defn), NEW old, NEW raw, NEW res \in Res(defn), NEW one \in Res(defn),
         NEW k \in Keys(defn), raw[k] = old[k], Untouched(one, res, k),
         \A d \in HardDeps(defn, k) : one.values[d] = res.values[d],
         Settled(defn, old, res, k)
  PROVE  Settled(defn, raw, one, k)
<1>1. SameVerdict(defn, one.values, res.values, k)
  BY Local DEF Agree, Res
<1> QED BY <1>1 DEF Settled, SameVerdict, Untouched

\* The step from one field of the order to the next.
LEMMA UpdateHalf ==
  ASSUME NEW defn, IsForm(defn), Compiles(defn), NEW order, NEW N, Places(defn, order, N),
         NEW old, NEW raw \in Raws(defn), NEW changed \in Keys(defn),
         SameBut(defn, raw, old, changed),
         NEW res, Whole(defn, old, res),
         NEW n \in Nat, NEW m \in 1 .. N, m = n + 1,
         NEW acc, Half(defn, raw, res, changed, order, N, acc, n)
  PROVE  Half(defn, raw, res, changed, order, N,
              UpdateValue(defn, raw, acc, changed, order[m]), m)
<1>1. PICK k \in Keys(defn) : k = order[m]
  BY DEF Places
<1>2. PICK after, next : /\ after = EvaluateValue(defn, raw, acc.res, k)
                         /\ next = UpdateValue(defn, raw, acc, changed, k)
  OBVIOUS
<1>3. /\ Sound(defn, order) /\ N \in Nat /\ DOMAIN order = 1 .. N
      /\ \A i \in 1 .. N : order[i] \in Keys(defn)
  BY DEF Places
<1>4. acc \in Acc(defn) /\ acc.res \in Res(defn) /\ res \in Res(defn)
  BY DEF Half, Acc, Whole
<1>5. \A i \in 1 .. N : (i <= m <=> i <= n \/ i = m) /\ (m < i => n < i)
  BY <1>3
<1>6. ASSUME NEW i \in 1 .. N, i <= m PROVE k \notin HardDeps(defn, order[i])
  BY <1>1, <1>3, <1>6, LaterIsUnread
<1>7. ASSUME NEW i \in 1 .. N, i # m PROVE order[i] # k
  BY <1>1, <1>3, <1>7 DEF Sound
<1>8. Untouched(acc.res, res, k)
  <2>1. n < m
    OBVIOUS
  <2> QED BY <1>1, <2>1 DEF Half
<1>9. next \in Acc(defn)
  BY <1>2, <1>4, UpdateValueType
<1>10. CASE Again(defn, acc, changed, k)
  <2>1. /\ next.res = after
        /\ next.moved = IF Moved(acc.res, after, k) THEN acc.moved \cup {k} ELSE acc.moved
    BY <1>2, <1>4, <1>10, UpdateValueParts
  <2>2. /\ after \in Res(defn)
        /\ \A j \in Keys(defn) : j # k => Untouched(after, acc.res, j)
        /\ after.fields = acc.res.fields /\ after.sections = acc.res.sections
        /\ after.sectionTrouble = acc.res.sectionTrouble
    <3>1. PICK res1 \in Res(defn) : res1 = acc.res
      BY <1>4
    <3>2. PICK v : v = ValueBy(defn, raw, res1.values, k)
      OBVIOUS
    <3>3. res1.values \in [Keys(defn) -> Value]
      BY DEF Res
    <3>4. /\ after \in Res(defn) /\ after.values = [res1.values EXCEPT ![k] = v]
          /\ \A j : j # k => /\ j \in after.visible <=> j \in res1.visible
                             /\ j \in after.trouble <=> j \in res1.trouble
          /\ after.fields = res1.fields /\ after.sections = res1.sections
          /\ after.sectionTrouble = res1.sectionTrouble
      BY <1>2, <3>1, <3>2, EvaluateParts
    <3> QED BY <3>1, <3>3, <3>4 DEF Untouched
  <2>3. ASSUME NEW i \in 1 .. N, i <= m PROVE Settled(defn, raw, next.res, order[i])
    <3>1. CASE i = m
      <4>1. k \notin HardDeps(defn, k)
        BY <1>1, <1>6, <2>3, <3>1
      <4> QED BY <1>1, <1>2, <1>4, <2>1, <3>1, <4>1, BecomesSettled
    <3>2. CASE i # m
      <4>1. Settled(defn, raw, acc.res, order[i])
        BY <1>5, <2>3, <3>2 DEF Half
      <4>2. order[i] # k /\ k \notin HardDeps(defn, order[i]) /\ order[i] \in Keys(defn)
        BY <1>3, <1>6, <1>7, <2>3, <3>2
      <4> QED BY <1>2, <1>4, <2>1, <4>1, <4>2, StaysSettled
    <3> QED BY <3>1, <3>2
  <2>4. ASSUME NEW i \in 1 .. N, m < i PROVE Untouched(next.res, res, order[i])
    <3>1. order[i] # k /\ order[i] \in Keys(defn)
      BY <1>3, <1>7, <2>4
    <3>2. Untouched(acc.res, res, order[i])
      BY <1>5, <2>4 DEF Half
    <3> QED BY <2>1, <2>2, <3>1, <3>2 DEF Untouched
  <2>5. ASSUME NEW j \in Keys(defn) \ next.moved PROVE ~Moved(res, next.res, j)
    <3>1. CASE j = k
      <4>1. ~Moved(acc.res, after, k)
        BY <2>1, <2>5, <3>1
      <4> QED BY <1>8, <2>1, <3>1, <4>1 DEF Moved, Untouched
    <3>2. CASE j # k
      <4>1. ~Moved(res, acc.res, j)
        BY <2>1, <2>5, <3>2 DEF Half
      <4>2. Untouched(after, acc.res, j)
        BY <2>2, <3>2
      <4> QED BY <2>1, <4>1, <4>2 DEF Moved, Untouched
    <3> QED BY <3>1, <3>2
  <2>6. changed \in next.moved
    BY <2>1 DEF Half
  <2>7. /\ next.res.fields = res.fields /\ next.res.sections = res.sections
        /\ next.res.sectionTrouble = res.sectionTrouble
    BY <2>1, <2>2 DEF Half
  <2>8. Half(defn, raw, res, changed, order, N, next, m)
    BY <1>9, <2>3, <2>4, <2>5, <2>6, <2>7 DEF Half
  <2> QED BY <1>1, <1>2, <2>8
<1>11. CASE ~Again(defn, acc, changed, k)
  <2>1. next = acc
    BY <1>2, <1>11, UpdateValueSkips
  <2>2. \A d \in HardDeps(defn, k) : acc.res.values[d] = res.values[d]
    <3>1. ASSUME NEW d \in HardDeps(defn, k) PROVE acc.res.values[d] = res.values[d]
      <4>1. d \in Keys(defn) \ acc.moved
        BY <1>11, DepsAreFields DEF Again
      <4> QED BY <4>1 DEF Half, Moved
    <3> QED BY <3>1
  <2>3. Settled(defn, raw, acc.res, k)
    <3>1. Settled(defn, old, res, k)
      BY DEF Whole
    <3>2. raw[k] = old[k]
      BY <1>11 DEF Again, SameBut
    <3> QED BY <1>4, <1>8, <2>2, <3>1, <3>2, SettledAsItIs
  <2>4. \A i \in 1 .. N : i <= m => Settled(defn, raw, acc.res, order[i])
    BY <1>1, <1>5, <2>3 DEF Half
  <2>5. Half(defn, raw, res, changed, order, N, acc, m)
    BY <1>5, <2>4 DEF Half
  <2> QED BY <1>1, <1>2, <2>1, <2>5
<1> QED BY <1>10, <1>11

\* The recursion of Updated, unfolded.
LEMMA UpdatedHistory ==
  ASSUME NEW defn, IsForm(defn), Compiles(defn), NEW raw \in Raws(defn),
         NEW order, order = Order(defn), NEW res \in Res(defn), NEW changed \in Keys(defn)
  PROVE  /\ Updated(defn, raw, res, changed)[0] = [res |-> res, moved |-> {changed}]
         /\ \A n \in 1 .. Len(order) :
              Updated(defn, raw, res, changed)[n]
                = UpdateValue(defn, raw, Updated(defn, raw, res, changed)[n - 1], changed, order[n])
<1> DEFINE N == Len(order)
           S == Acc(defn)
           base == [res |-> res, moved |-> {changed}]
           step == [n \in 1 .. N |-> [s \in S |-> UpdateValue(defn, raw, s, changed, order[n])]]
           E == Updated(defn, raw, res, changed)
<1>1. N \in Nat /\ \A n \in 1 .. N : order[n] \in Keys(defn)
  BY OrderIsSound DEF Sound
<1>2. base \in S
  BY DEF Acc
<1>3. \A n \in 1 .. N : \A s \in S : UpdateValue(defn, raw, s, changed, order[n]) \in S
  BY <1>1, UpdateValueType
<1>4. step \in [1 .. N -> [S -> S]]
  BY <1>3
<1>5. PICK f : IsHistory(f, N, S, base, step)
  <2> HIDE DEF N, S, base, step
  <2> QED BY <1>1, <1>2, <1>4, Iterates
<1>6. /\ f \in [0 .. N -> S] /\ f[0] = base
      /\ \A n \in 1 .. N : f[n] = step[n][f[n - 1]]
  BY <1>5 DEF IsHistory
<1>7. \A n \in 1 .. N : n - 1 \in 0 .. N
  BY <1>1
<1> HIDE DEF N, S, base
<1>8. \A n \in 1 .. N : f[n] = UpdateValue(defn, raw, f[n - 1], changed, order[n])
  BY <1>6, <1>7
<1>9. f = [n \in 0 .. N |-> IF n = 0 THEN base
                            ELSE UpdateValue(defn, raw, f[n - 1], changed, order[n])]
  BY <1>1, <1>6, <1>8
<1>10. E = [n \in 0 .. N |-> IF n = 0 THEN base
                             ELSE UpdateValue(defn, raw, E[n - 1], changed, order[n])]
  BY <1>9 DEF Updated, N, base
<1> HIDE DEF E
<1>11. E[0] = base /\ \A n \in 1 .. N : E[n] = UpdateValue(defn, raw, E[n - 1], changed, order[n])
  BY <1>1, <1>10
<1> QED BY <1>11 DEF E, N, base

\* After the last field all are settled.
LEMMA UpdatedAll ==
  ASSUME NEW defn, IsForm(defn), Compiles(defn),
         NEW old, NEW raw \in Raws(defn), NEW changed \in Keys(defn),
         SameBut(defn, raw, old, changed),
         NEW res, Whole(defn, old, res),
         NEW acc, acc = Updated(defn, raw, res, changed)[Len(Order(defn))]
  PROVE  /\ acc \in Acc(defn) /\ changed \in acc.moved
         /\ \A k \in Keys(defn) : Settled(defn, raw, acc.res, k)
         /\ \A k \in Keys(defn) \ acc.moved : ~Moved(res, acc.res, k)
         /\ acc.res.fields = res.fields /\ acc.res.sections = res.sections
         /\ acc.res.sectionTrouble = res.sectionTrouble
<1>1. PICK E : E = Updated(defn, raw, res, changed)
  OBVIOUS
<1>2. PICK order, N : Places(defn, order, N) /\ order = Order(defn) /\ N = Len(order)
  BY OrderPlaces
<1>3. N \in Nat
  BY <1>2 DEF Places
<1>4. res \in Res(defn)
  BY DEF Whole
<1>5. /\ E[0] = [res |-> res, moved |-> {changed}]
      /\ \A n \in 1 .. N : E[n] = UpdateValue(defn, raw, E[n - 1], changed, order[n])
  BY <1>1, <1>2, <1>4, UpdatedHistory
<1> DEFINE T == {n \in 0 .. N : Half(defn, raw, res, changed, order, N, E[n], n)}
<1>6. 0 \in T
  <2>1. \A i \in 1 .. N : ~(i <= 0)
    BY <1>3
  <2>2. Half(defn, raw, res, changed, order, N, E[0], 0)
    BY <1>4, <1>5, <2>1 DEF Half, Acc, Untouched, Moved
  <2> QED BY <1>3, <2>2
<1>7. ASSUME NEW n \in 0 .. N - 1, n \in T PROVE n + 1 \in T
  <2>1. PICK m : m = n + 1
    OBVIOUS
  <2>2. m \in 1 .. N /\ m \in 0 .. N /\ m - 1 = n /\ n \in Nat
    BY <1>3, <2>1
  <2>3. E[m] = UpdateValue(defn, raw, E[n], changed, order[m])
    BY <1>5, <2>2
  <2>4. Half(defn, raw, res, changed, order, N, E[m], m)
    BY <1>2, <1>7, <2>1, <2>2, <2>3, UpdateHalf
  <2> QED BY <2>1, <2>2, <2>4
<1>8. N \in T
  <2> HIDE DEF T
  <2>1. 0 .. N \subseteq T
    BY <1>3, <1>6, <1>7, UpTo
  <2> QED BY <1>3, <2>1
<1>9. Half(defn, raw, res, changed, order, N, acc, N)
  BY <1>1, <1>2, <1>8
<1>10. ASSUME NEW k \in Keys(defn) PROVE Settled(defn, raw, acc.res, k)
  <2>1. PICK n \in 1 .. N : order[n] = k
    BY <1>2 DEF Places
  <2>2. n <= N
    BY <1>3
  <2> QED BY <1>9, <2>1, <2>2 DEF Half
<1> QED BY <1>9, <1>10 DEF Half

\* A rule of phase 2 that reads nothing that moved says what it said.
LEMMA Unmoved ==
  ASSUME NEW defn, IsForm(defn), NEW res \in Res(defn), NEW one \in Res(defn),
         NEW moved, \A k \in Keys(defn) \ moved : ~Moved(res, one, k)
  PROVE  /\ \A k \in Keys(defn) : k \notin moved /\ SoftDeps(defn, k) \cap moved = {} =>
              ResolveField(defn, one, k) = ResolveField(defn, res, k)
         /\ \A s \in DOMAIN defn.sections : SectionDeps(defn, s) \cap moved = {} =>
              /\ SectionHolds(defn, one, s) <=> SectionHolds(defn, res, s)
              /\ SectionFails(defn, one, s) <=> SectionFails(defn, res, s)
<1>1. PICK v, w : v = one.values /\ w = res.values
  OBVIOUS
<1>2. v \in [Keys(defn) -> Value] /\ w \in [Keys(defn) -> Value]
  BY <1>1 DEF Res
<1>3. \A k \in Keys(defn) \ moved : v[k] = w[k] /\ (k \in one.visible <=> k \in res.visible)
  BY <1>1 DEF Moved
<1>4. ASSUME NEW r \in Conditions(Keys(defn)), Reads({r}) \cap moved = {}
      PROVE  /\ \A e \in BOOLEAN : Holds(r, v, e) <=> Holds(r, w, e)
             /\ Fails(r, v) <=> Fails(r, w)
  <2>1. Reads({r}) \subseteq Keys(defn)
    BY DEF Reads, Conditions, Always, Filled, Dated
  <2>2. \A j \in Reads({r}) : v[j] = w[j]
    BY <1>3, <1>4, <2>1
  <2> QED BY <1>2, <2>2, RulesReadOneKey
<1>5. ASSUME NEW k \in Keys(defn), k \notin moved, SoftDeps(defn, k) \cap moved = {}
      PROVE  ResolveField(defn, one, k) = ResolveField(defn, res, k)
  <2>1. PICK r \in Conditions(Keys(defn)) : r = defn.fields[k].required
    BY FormParts
  <2>2. /\ Holds(r, v, FALSE) <=> Holds(r, w, FALSE)
        /\ Fails(r, v) <=> Fails(r, w)
    BY <1>4, <1>5, <2>1 DEF SoftDeps
  <2>3. v[k] = w[k] /\ (k \in one.visible <=> k \in res.visible)
    BY <1>3, <1>5
  <2>4. /\ Holds(r, v, FALSE) = Holds(r, w, FALSE)
        /\ Fails(r, v) = Fails(r, w)
    <3>1. Holds(r, v, FALSE) \in BOOLEAN /\ Holds(r, w, FALSE) \in BOOLEAN
      BY DEF Holds
    <3>2. Fails(r, v) \in BOOLEAN /\ Fails(r, w) \in BOOLEAN
      BY DEF Fails
    <3> QED BY <2>2, <3>1, <3>2
  <2> QED BY <1>1, <2>1, <2>3, <2>4, Resolved
<1>6. ASSUME NEW s \in DOMAIN defn.sections, SectionDeps(defn, s) \cap moved = {}
      PROVE  /\ SectionHolds(defn, one, s) <=> SectionHolds(defn, res, s)
             /\ SectionFails(defn, one, s) <=> SectionFails(defn, res, s)
  <2>1. PICK r \in Conditions(Keys(defn)) : r = defn.sections[s]
    BY FormParts
  <2>2. /\ Holds(r, v, TRUE) <=> Holds(r, w, TRUE)
        /\ Fails(r, v) <=> Fails(r, w)
    BY <1>4, <1>6, <2>1 DEF SectionDeps
  <2> QED BY <1>1, <2>1, <2>2 DEF SectionHolds, SectionFails
<1> QED BY <1>5, <1>6

\* The update of a resolution is the resolution of the updated answers, and
\* what it does not name is as it was.
KeepsRest(defn, res, upd) ==
  \A k \in Keys(defn) \ upd.again : upd.res.fields[k] = res.fields[k]

LEMMA UpdateIsWhole ==
  ASSUME NEW defn, IsForm(defn), Compiles(defn),
         NEW old, NEW raw \in Raws(defn), NEW changed \in Keys(defn),
         SameBut(defn, raw, old, changed),
         NEW res, Whole(defn, old, res),
         NEW upd, upd = Update(defn, raw, res, changed)
  PROVE  /\ Whole(defn, raw, upd.res)
         /\ KeepsRest(defn, res, upd)
<1>1. PICK acc : acc = Updated(defn, raw, res, changed)[Len(Order(defn))]
  OBVIOUS
<1>2. /\ acc \in Acc(defn) /\ changed \in acc.moved
      /\ \A k \in Keys(defn) : Settled(defn, raw, acc.res, k)
      /\ \A k \in Keys(defn) \ acc.moved : ~Moved(res, acc.res, k)
      /\ acc.res.fields = res.fields /\ acc.res.sections = res.sections
      /\ acc.res.sectionTrouble = res.sectionTrouble
  BY <1>1, UpdatedAll
<1>3. PICK one, moved : one = acc.res /\ moved = acc.moved
  OBVIOUS
<1>4. one \in Res(defn) /\ moved \subseteq Keys(defn) /\ res \in Res(defn) /\ Phase2(defn, res)
  BY <1>2, <1>3 DEF Acc, Whole
<1>5. PICK again, read :
        /\ again = {k \in Keys(defn) : k \in moved \/ SoftDeps(defn, k) \cap moved # {}}
        /\ read = {s \in DOMAIN defn.sections : SectionDeps(defn, s) \cap moved # {}}
  OBVIOUS
<1>6. PICK fs, ss, st :
        /\ fs = [k \in Keys(defn) |->
                   IF k \in again THEN ResolveField(defn, one, k) ELSE res.fields[k]]
        /\ ss = (res.sections \ read) \cup {s \in read : SectionHolds(defn, one, s)}
        /\ st = (res.sectionTrouble \ read) \cup {s \in read : SectionFails(defn, one, s)}
  OBVIOUS
<1>7. /\ upd.again = again
      /\ upd.res = [one EXCEPT !.fields = fs, !.sections = ss, !.sectionTrouble = st]
  BY <1>1, <1>3, <1>5, <1>6 DEF Update
<1>8. /\ \A k \in Keys(defn) : k \notin moved /\ SoftDeps(defn, k) \cap moved = {} =>
           ResolveField(defn, one, k) = ResolveField(defn, res, k)
      /\ \A s \in DOMAIN defn.sections : SectionDeps(defn, s) \cap moved = {} =>
           /\ SectionHolds(defn, one, s) <=> SectionHolds(defn, res, s)
           /\ SectionFails(defn, one, s) <=> SectionFails(defn, res, s)
  BY <1>2, <1>3, <1>4, Unmoved
<1>9. fs = [k \in Keys(defn) |-> ResolveField(defn, one, k)]
  BY <1>4, <1>5, <1>6, <1>8 DEF Phase2
<1>10. /\ ss = {s \in DOMAIN defn.sections : SectionHolds(defn, one, s)}
       /\ st = {s \in DOMAIN defn.sections : SectionFails(defn, one, s)}
  BY <1>4, <1>5, <1>6, <1>8 DEF Phase2
<1>11. fs \in [Keys(defn) -> Field(defn)]
  BY <1>4, <1>9, ResolvedType
<1>12. ss \in SUBSET DOMAIN defn.sections /\ st \in SUBSET DOMAIN defn.sections
  BY <1>10
<1>13. PICK new : new = upd.res
  OBVIOUS
<1>14. /\ new \in Res(defn) /\ new.values = one.values /\ new.visible = one.visible
       /\ new.trouble = one.trouble
       /\ new.fields = fs /\ new.sections = ss /\ new.sectionTrouble = st
  BY <1>4, <1>7, <1>11, <1>12, <1>13 DEF Res
<1>15. \A k \in Keys(defn) : Settled(defn, raw, new, k)
  BY <1>2, <1>3, <1>14 DEF Settled
<1>16. Phase2(defn, new)
  BY <1>9, <1>10, <1>14, Phase2Reads DEF Phase2
<1>17. \A k \in Keys(defn) \ again : new.fields[k] = res.fields[k]
  BY <1>6, <1>14
<1> QED BY <1>7, <1>13, <1>14, <1>15, <1>16, <1>17 DEF Whole, KeepsRest

\* The resolution kept up to date answer by answer is the one of all answers:
\* re-evaluating only what reads a change leaves nothing stale.
THEOREM IncrementalIsFull ==
  ASSUME NEW defn, IsForm(defn), Compiles(defn), NEW old \in Raws(defn),
         NEW k \in Keys(defn), NEW value \in {Null, "date", "text"},
         NEW raw, raw = [old EXCEPT ![k] = value]
  PROVE  Update(defn, raw, RunAll(defn, old), k).res = RunAll(defn, raw)
<1>1. raw \in Raws(defn) /\ SameBut(defn, raw, old, k)
  BY DEF Raws, SameBut
<1>2. PICK res, upd : res = RunAll(defn, old) /\ upd = Update(defn, raw, res, k)
  OBVIOUS
<1>3. Whole(defn, old, res)
  BY <1>2, RunAllIsWhole
<1>4. Whole(defn, raw, upd.res)
  BY <1>1, <1>2, <1>3, UpdateIsWhole
<1>5. Whole(defn, raw, RunAll(defn, raw))
  BY <1>1, RunAllIsWhole
<1>6. upd.res = RunAll(defn, raw)
  BY <1>4, <1>5, WholeIsUnique
<1> QED BY <1>2, <1>6

-----------------------------------------------------------------------------
(* The session of a form.                                                   *)

Sess(defn) ==
  [raw: Raws(defn), res: Res(defn), entries: Raws(defn),
   errors: [Keys(defn) -> SUBSET {"HIDDEN_FIELD_PRESENT", "COMPUTED_MISMATCH", "REQUIRED"}]]

\* Nothing in a session is stale.
Fresh(defn, ses) ==
  /\ ses \in Sess(defn)
  /\ Whole(defn, ses.raw, ses.res)
  /\ \A k \in Keys(defn) :
       /\ ses.entries[k] = EntryFor(defn, ses.raw, ses.res, k)
       /\ ses.errors[k] = CheckField(defn, ses.res, ses.entries, k)

\* What a whole resolution keeps of a field.
LEMMA WholeField ==
  ASSUME NEW defn, NEW raw, NEW res, Whole(defn, raw, res), NEW k \in Keys(defn)
  PROVE  /\ res.fields[k].visible <=> k \in res.visible
         /\ k \in res.visible => res.fields[k].value = res.values[k]
         /\ k \in res.visible /\ ~Computed(defn, k) => res.values[k] = raw[k]
         /\ k \in res.visible /\ Computed(defn, k) => res.values[k] \in {Null, "date"}
         /\ res.fields[k].required => res.fields[k].visible
<1>1. res.fields[k] = ResolveField(defn, res, k)
  BY DEF Whole, Phase2
<1>2. Settled(defn, raw, res, k)
  BY DEF Whole
<1>3. /\ k \in res.visible => res.fields[k].visible /\ res.fields[k].value = res.values[k]
      /\ k \notin res.visible => ~res.fields[k].visible /\ ~res.fields[k].required
  <2>1. CASE k \in res.visible
    <3>1. res.fields[k] =
              [visible |-> TRUE, value |-> res.values[k],
               required |-> Holds(defn.fields[k].required, res.values, FALSE),
               trouble |-> Fails(defn.fields[k].required, res.values)]
      BY <1>1, <2>1, Resolved
    <3> QED BY <2>1, <3>1
  <2>2. CASE k \notin res.visible
    <3>1. res.fields[k] =
              [visible |-> FALSE, value |-> Null, required |-> FALSE, trouble |-> FALSE]
      BY <1>1, <2>2, Resolved
    <3> QED BY <2>2, <3>1
  <2> QED BY <2>1, <2>2
<1>4. k \in res.visible => ShownBy(defn, res.values, k)
  BY <1>2 DEF Settled
<1>5. k \in res.visible /\ ~Computed(defn, k) => res.values[k] = raw[k]
  BY <1>2, <1>4 DEF Settled, ValueBy
<1>6. k \in res.visible /\ Computed(defn, k) => res.values[k] \in {Null, "date"}
  BY <1>2, <1>4 DEF Settled, ValueBy, Given
<1> QED BY <1>3, <1>5, <1>6

\* What is sent for a field is an answer.
LEMMA EntryType ==
  ASSUME NEW defn, NEW raw \in Raws(defn), NEW res, Whole(defn, raw, res), NEW k \in Keys(defn)
  PROVE  EntryFor(defn, raw, res, k) \in {Null, "date", "text"}
BY WholeField DEF EntryFor, Raws

\* A check leaves the answers and what they resolve to alone.
LEMMA CheckParts ==
  ASSUME NEW defn, IsForm(defn), NEW ses, NEW keys \in SUBSET Keys(defn),
         ses \in [raw: Raws(defn), res: Res(defn), entries: Raws(defn),
                      errors: [Keys(defn) -> SUBSET {"HIDDEN_FIELD_PRESENT",
                                                     "COMPUTED_MISMATCH", "REQUIRED"}]],
         Whole(defn, ses.raw, ses.res),
         \A k \in Keys(defn) \ keys :
           /\ ses.entries[k] = EntryFor(defn, ses.raw, ses.res, k)
           /\ ses.errors[k] = CheckField(defn, ses.res, ses.entries, k)
  PROVE  /\ Fresh(defn, Check(defn, ses, keys))
         /\ Check(defn, ses, keys).raw = ses.raw
         /\ Check(defn, ses, keys).res = ses.res
<1>1. PICK raw, res : raw = ses.raw /\ res = ses.res
  OBVIOUS
<1>2. PICK entries : entries = [k \in Keys(defn) |-> IF k \in keys THEN EntryFor(defn, raw, res, k)
                                                     ELSE ses.entries[k]]
  OBVIOUS
<1>3. PICK errors :
        errors = [k \in Keys(defn) |-> IF k \in keys THEN CheckField(defn, res, entries, k)
                                       ELSE ses.errors[k]]
  OBVIOUS
<1>4. PICK after : after = Check(defn, ses, keys)
  OBVIOUS
<1>5. after = [ses EXCEPT !.entries = entries, !.errors = errors]
  BY <1>1, <1>2, <1>3, <1>4 DEF Check
<1>6. \A k \in Keys(defn) : entries[k] = EntryFor(defn, raw, res, k)
  BY <1>1, <1>2
<1>7. entries \in Raws(defn)
  BY <1>1, <1>2, <1>6, EntryType DEF Raws
<1>8. \A k \in Keys(defn) : CheckField(defn, res, entries, k)
        \in SUBSET {"HIDDEN_FIELD_PRESENT", "COMPUTED_MISMATCH", "REQUIRED"}
  BY DEF CheckField
<1>9. ASSUME NEW k \in Keys(defn) PROVE errors[k] = CheckField(defn, res, entries, k)
  <2>1. CASE k \in keys
    BY <1>3, <2>1
  <2>2. CASE k \notin keys
    <3>1. entries[k] = ses.entries[k]
      BY <1>2, <2>2
    <3> QED BY <1>1, <1>3, <2>2, <3>1 DEF CheckField
  <2> QED BY <2>1, <2>2
<1>10. errors \in [Keys(defn) -> SUBSET {"HIDDEN_FIELD_PRESENT", "COMPUTED_MISMATCH", "REQUIRED"}]
  BY <1>3, <1>8, <1>9
<1>11. /\ after \in Sess(defn) /\ after.raw = raw /\ after.res = res
       /\ after.entries = entries /\ after.errors = errors
  BY <1>1, <1>5, <1>7, <1>10 DEF Sess
<1> QED BY <1>1, <1>4, <1>6, <1>9, <1>11 DEF Fresh

\* A session starts fresh, and stays so with every answer.
LEMMA SessionStartsFresh ==
  ASSUME NEW defn, IsForm(defn), Compiles(defn), NEW raw \in Raws(defn)
  PROVE  Fresh(defn, FormSession(defn, raw)) /\ FormSession(defn, raw).raw = raw
<1>1. PICK bare : bare = [raw |-> raw, res |-> RunAll(defn, raw),
                          entries |-> [k \in Keys(defn) |-> Null],
                          errors |-> [k \in Keys(defn) |-> {}]]
  OBVIOUS
<1>2. Whole(defn, raw, RunAll(defn, raw)) /\ RunAll(defn, raw) \in Res(defn)
  BY RunAllIsWhole DEF Whole
<1>3. bare \in [raw: Raws(defn), res: Res(defn), entries: Raws(defn),
                errors: [Keys(defn) -> SUBSET {"HIDDEN_FIELD_PRESENT",
                                               "COMPUTED_MISMATCH", "REQUIRED"}]]
  BY <1>1, <1>2 DEF Raws
<1>4. FormSession(defn, raw) = Check(defn, bare, Keys(defn))
  BY <1>1 DEF FormSession
<1>5. bare.raw = raw /\ bare.res = RunAll(defn, raw)
  BY <1>1
<1> QED BY <1>2, <1>3, <1>4, <1>5, CheckParts

LEMMA SessionStaysFresh ==
  ASSUME NEW defn, IsForm(defn), Compiles(defn), NEW ses, Fresh(defn, ses),
         NEW k \in Keys(defn), NEW value \in {Null, "date", "text"}
  PROVE  /\ Fresh(defn, SetValue(defn, ses, k, value))
         /\ SetValue(defn, ses, k, value).raw = [ses.raw EXCEPT ![k] = value]
<1>1. PICK old, res, raw : /\ old = ses.raw /\ res = ses.res
                           /\ raw = [old EXCEPT ![k] = value]
  OBVIOUS
<1> PICK upd : upd = Update(defn, raw, res, k)
  OBVIOUS
<1>2. ses \in Sess(defn) /\ old \in Raws(defn) /\ res \in Res(defn) /\ Whole(defn, old, res)
  BY <1>1 DEF Fresh, Sess
<1>3. raw \in Raws(defn) /\ SameBut(defn, raw, old, k)
  BY <1>1, <1>2 DEF Raws, SameBut
<1>4. Whole(defn, raw, upd.res) /\ KeepsRest(defn, res, upd)
  BY <1>2, <1>3, UpdateIsWhole
<1>5. upd.again \in SUBSET Keys(defn)
  BY DEF Update
<1>6. PICK next : next = [ses EXCEPT !.raw = raw, !.res = upd.res]
  OBVIOUS
<1>7. SetValue(defn, ses, k, value) = Check(defn, next, upd.again \cup {k})
  BY <1>1, <1>6 DEF SetValue
<1>8. /\ next \in Sess(defn) /\ next.raw = raw /\ next.res = upd.res
      /\ next.entries = ses.entries /\ next.errors = ses.errors
  BY <1>2, <1>3, <1>4, <1>6 DEF Sess, Whole
<1>9. ASSUME NEW j \in Keys(defn) \ (upd.again \cup {k})
      PROVE  /\ next.entries[j] = EntryFor(defn, next.raw, next.res, j)
             /\ next.errors[j] = CheckField(defn, next.res, next.entries, j)
  <2>1. raw[j] = old[j] /\ upd.res.fields[j] = res.fields[j]
    BY <1>3, <1>4 DEF SameBut, KeepsRest
  <2>2. /\ ses.entries[j] = EntryFor(defn, old, res, j)
        /\ ses.errors[j] = CheckField(defn, res, ses.entries, j)
    BY <1>1 DEF Fresh
  <2>3. EntryFor(defn, raw, upd.res, j) = EntryFor(defn, old, res, j)
    BY <2>1 DEF EntryFor
  <2>4. CheckField(defn, upd.res, ses.entries, j) = CheckField(defn, res, ses.entries, j)
    BY <2>1 DEF CheckField
  <2> QED BY <1>8, <2>2, <2>3, <2>4
<1>10. upd.again \cup {k} \in SUBSET Keys(defn)
  BY <1>5
<1>11. Fresh(defn, Check(defn, next, upd.again \cup {k}))
       /\ Check(defn, next, upd.again \cup {k}).raw = next.raw
  BY <1>4, <1>8, <1>9, <1>10, CheckParts DEF Sess
<1> QED BY <1>1, <1>7, <1>8, <1>11

\* What is sent resolves, and is found wrong, on the server as on the phone.
THEOREM SentAsWhole ==
  ASSUME NEW defn, IsForm(defn), Compiles(defn), NEW ses, Fresh(defn, ses)
  PROVE  /\ SessionProblems(defn, ses) = ValidateAnswers(defn, ses.entries).problems
         /\ ses.res = ValidateAnswers(defn, ses.entries).res
<1>1. PICK res, entries, one :
        res = ses.res /\ entries = ses.entries /\ one = RunAll(defn, entries)
  OBVIOUS
<1>2. ses \in Sess(defn) /\ entries \in Raws(defn) /\ Whole(defn, ses.raw, res)
  BY <1>1 DEF Fresh, Sess
<1>3. Whole(defn, entries, one)
  BY <1>1, <1>2, RunAllIsWhole
<1>4. ASSUME NEW k \in Keys(defn), k \in res.visible, ~Computed(defn, k)
      PROVE  ses.raw[k] = entries[k]
  <2>1. entries[k] = EntryFor(defn, ses.raw, res, k)
    BY <1>1 DEF Fresh
  <2>2. res.fields[k].visible
    BY <1>2, <1>4, WholeField
  <2> QED BY <1>4, <2>1, <2>2 DEF EntryFor
<1>5. res = one
  BY <1>2, <1>3, <1>4, WholeIsUnique
<1>6. ses.errors = [k \in Keys(defn) |-> CheckField(defn, res, entries, k)]
  BY <1>1, <1>2 DEF Fresh, Sess
<1> QED BY <1>1, <1>5, <1>6 DEF SessionProblems, ValidateAnswers

-----------------------------------------------------------------------------
(* The world of an inspection.                                              *)

\* What the gate guarantees of the world of an inspection.
LEMMA WorldParts ==
  ASSUME world \in Worlds
  PROVE  IsForm(form) /\ Compiles(form) /\ IsFlow(flow, form) /\ Accepted(flow, form)
BY InspectionAssumption DEF form, flow

-----------------------------------------------------------------------------
(* The session on screen, and the one its draft gives back.                 *)

SessionInv ==
  /\ world \in Worlds
  /\ Fresh(form, session)
  /\ draft.raw \in Raws(form)

\* A form without answers.
LEMMA EmptyRaw == [k \in Keys(form) |-> Null] \in Raws(form)
BY DEF Raws

\* An inspection starts with a fresh session.
LEMMA SessionInit == Init => SessionInv
<1> SUFFICES ASSUME Init PROVE SessionInv
  OBVIOUS
<1>1. world \in Worlds /\ IsForm(form) /\ Compiles(form)
  BY WorldParts DEF Init
<1>2. Fresh(form, session) /\ session.raw \in Raws(form)
  BY <1>1, EmptyRaw, SessionStartsFresh DEF Init
<1>3. draft.raw = session.raw
  BY DEF Init
<1> QED BY <1>1, <1>2, <1>3 DEF SessionInv

\* No step makes it stale.
LEMMA SessionNext == SessionInv /\ [Next]_vars => SessionInv'
<1> SUFFICES ASSUME SessionInv, [Next]_vars PROVE SessionInv'
  OBVIOUS
<1>1. world \in Worlds /\ IsForm(form) /\ Compiles(form)
  BY WorldParts DEF SessionInv
<1>2. Fresh(form, session) /\ session.raw \in Raws(form) /\ draft.raw \in Raws(form)
  BY DEF SessionInv, Fresh, Sess
<1>3. SUFFICES /\ world' = world
               /\ Fresh(form, session')
               /\ draft'.raw \in Raws(form)
  BY <1>1 DEF SessionInv, form
<1>4. \A s, passed, way : Drafted(s, passed, way).raw = s.raw
  BY DEF Drafted
<1>5. ASSUME NEW k \in Keys(form), NEW value \in Raw(k), Answer(k, value)
      PROVE  world' = world /\ Fresh(form, session') /\ draft'.raw \in Raws(form)
  <2>1. value \in {Null, "date", "text"}
    BY DEF Raw
  <2>2. Fresh(form, SetValue(form, session, k, value))
    BY <1>1, <1>2, <2>1, SessionStaysFresh
  <2> QED BY <1>2, <1>5, <2>2 DEF Answer
<1>6. ASSUME NEW way, Go(way), UNCHANGED <<world, session>>
      PROVE  world' = world /\ Fresh(form, session') /\ draft'.raw \in Raws(form)
  BY <1>2, <1>4, <1>6 DEF Go
<1>7. CASE Save
  BY <1>2, <1>4, <1>7 DEF Save
<1>8. CASE Next_
  BY <1>6, <1>8 DEF Next_
<1>9. CASE Back
  BY <1>6, <1>9 DEF Back
<1>10. ASSUME NEW s \in DOMAIN form.sections, JumpTo(s)
       PROVE  world' = world /\ Fresh(form, session') /\ draft'.raw \in Raws(form)
  BY <1>6, <1>10 DEF JumpTo
<1>11. CASE LocationDone
  BY <1>6, <1>11 DEF LocationDone
<1>12. CASE Submit
  BY <1>2, <1>4, <1>12 DEF Submit
<1>13. CASE Reopen
  BY <1>1, <1>2, <1>13, SessionStartsFresh DEF Reopen
<1>14. CASE UNCHANGED vars
  BY <1>2, <1>14 DEF vars
<1> QED BY <1>5, <1>7, <1>8, <1>9, <1>10, <1>11, <1>12, <1>13, <1>14 DEF Next

\* So it is never stale.
LEMMA SessionAlways == Spec => []SessionInv
BY SessionInit, SessionNext, PTL DEF Spec

\* A fresh session was evaluated in an order that is right.
LEMMA FinalValues == SessionInv => RulesSeeFinalValues
<1> SUFFICES ASSUME SessionInv, NEW k \in Keys(form)
             PROVE  LET values == session.res.values
                        shown == \A r \in VisibleRules(form, k) : Holds(r, values, TRUE)
                    IN values[k] = CASE ~shown -> Hidden
                         [] shown /\ Computed(form, k) -> Given(form.fields[k].value, values)
                         [] OTHER -> session.raw[k]
  BY DEF RulesSeeFinalValues
<1>1. Settled(form, session.raw, session.res, k)
  BY DEF SessionInv, Fresh, Whole
<1> QED BY <1>1 DEF Settled, ValueBy, ShownBy

\* A fresh session is that of the whole form.
LEMMA Agreement == SessionInv => SessionAsWhole
<1> SUFFICES ASSUME SessionInv PROVE SessionAsWhole
  OBVIOUS
<1>1. IsForm(form) /\ Compiles(form) /\ Fresh(form, session)
  BY WorldParts DEF SessionInv
<1> QED BY <1>1, SentAsWhole DEF SessionAsWhole, Found

\* Each field was shown or hidden, and computed, by rules that read the
\* values as they ended up, whatever order the document has.
THEOREM FinalValuesAlways == Spec => []RulesSeeFinalValues
BY SessionAlways, FinalValues, PTL

\* What the phone finds, answer by answer, is what the server finds in what
\* is sent.
THEOREM AgreementAlways == Spec => []SessionAsWhole
BY SessionAlways, Agreement, PTL

-----------------------------------------------------------------------------
(* A page for each problem.                                                 *)

\* A field with a problem is shown, and so is its section.
LEMMA ProblemIsShown ==
  ASSUME SessionInv, NEW k \in Found.fields
  PROVE  /\ k \in Keys(form) /\ SectionOf(form, k) \in DOMAIN form.sections
         /\ session.res.fields[k].visible
         /\ SectionOf(form, k) \in session.res.sections
<1>1. IsForm(form) /\ Fresh(form, session)
  BY WorldParts DEF SessionInv
<1>2. PICK res, raw : res = session.res /\ raw = session.raw
  OBVIOUS
<1>3. Whole(form, raw, res)
  BY <1>1, <1>2 DEF Fresh
<1>4. k \in Keys(form)
  BY DEF Found, SessionProblems, Problems
<1>5. res.fields[k].visible
  <2>1. SUFFICES ASSUME ~res.fields[k].visible PROVE FALSE
    OBVIOUS
  <2>2. session.errors[k] # {}
    BY <1>2, <2>1 DEF Found, SessionProblems, Problems
  <2>3. session.entries[k] = Null
    BY <1>1, <1>2, <1>4, <2>1 DEF Fresh, EntryFor
  <2>4. session.errors[k] = CheckField(form, res, session.entries, k)
    BY <1>1, <1>2, <1>4 DEF Fresh
  <2> QED BY <2>1, <2>2, <2>3, <2>4 DEF CheckField
<1>6. SectionOf(form, k) \in DOMAIN form.sections
  BY <1>1, <1>4, FormParts
<1>7. Holds(form.sections[SectionOf(form, k)], res.values, TRUE)
  <2>1. k \in res.visible
    BY <1>3, <1>4, <1>5, WholeField
  <2>2. ShownBy(form, res.values, k)
    BY <1>3, <1>4, <2>1 DEF Whole, Settled
  <2> QED BY <2>2 DEF ShownBy, VisibleRules
<1>8. SectionOf(form, k) \in res.sections
  BY <1>3, <1>6, <1>7 DEF Whole, Phase2, SectionHolds
<1> QED BY <1>2, <1>4, <1>5, <1>6, <1>8

\* The parts of a flow.
LEMMA FlowParts ==
  ASSUME world \in Worlds
  PROVE  /\ Len(flow) \in Nat /\ DOMAIN flow = 1 .. Len(flow)
         /\ \A i \in DOMAIN flow :
              /\ flow[i].type \in StepType /\ flow[i].paged \in BOOLEAN
              /\ Len(flow[i].sections) \in Nat
              /\ DOMAIN flow[i].sections = 1 .. Len(flow[i].sections)
              /\ flow[i].next.then \in 0 .. Len(flow) /\ flow[i].next.other \in 0 .. Len(flow)
<1>1. IsFlow(flow, form)
  BY WorldParts
<1>2. PICK Step : Step = [type: StepType, sections: Seq(DOMAIN form.sections), paged: BOOLEAN,
                visible: Conditions(Keys(form)),
                next: [rule: Conditions(Keys(form)),
                       then: 0 .. Len(flow), other: 0 .. Len(flow)]]
  OBVIOUS
<1>3. flow \in Seq(Step)
  BY <1>1, <1>2 DEF IsFlow
<1>4. Len(flow) \in Nat /\ DOMAIN flow = 1 .. Len(flow) /\ \A i \in DOMAIN flow : flow[i] \in Step
  BY <1>3
<1> QED BY <1>2, <1>4

\* The page is that of the section, or of the declaration.
LEMMA RefusalPage == SessionInv => RefusalHasAPage
<1> SUFFICES ASSUME SessionInv,
                    \A i \in DOMAIN flow : flow[i].type \in {"form", "declaration"} =>
                      flow[i].visible = Always,
                    NEW k \in Found.fields
             PROVE  \E at \in Shown(flow, data) : k \in KeysAt(at)
  BY DEF RefusalHasAPage
<1>1. world \in Worlds /\ Accepted(flow, form)
  BY WorldParts DEF SessionInv
<1>2. PICK s : s = SectionOf(form, k)
  OBVIOUS
<1>3. /\ k \in Keys(form) /\ s \in DOMAIN form.sections
      /\ session.res.fields[k].visible /\ s \in session.res.sections
  BY <1>2, ProblemIsShown
<1>4. \A v : Holds(Always, v, TRUE)
  BY DEF Holds, Always
<1>5. CASE HasDeclarationStep /\ Declares(form, k)
  <2>1. PICK i \in DOMAIN flow : flow[i].type = "declaration"
    BY <1>5 DEF HasDeclarationStep, StepsOf
  <2>2. PICK at : at = <<i, 1>>
    OBVIOUS
  <2>3. at \in Positions(flow)
    BY <2>1, <2>2 DEF Positions, Pages
  <2>4. Shows(flow, data, at)
    BY <1>4, <2>1, <2>2 DEF Shows
  <2>5. k \in KeysAt(at)
    BY <1>3, <1>5, <2>1, <2>2 DEF KeysAt
  <2> QED BY <2>3, <2>4, <2>5 DEF Shown
<1>6. CASE ~(HasDeclarationStep /\ Declares(form, k))
  <2>1. PICK i \in StepsOf(flow, "form") : s \in Range(flow[i].sections)
    <3>1. s \in UNION {Range(flow[i].sections) : i \in StepsOf(flow, "form")}
      BY <1>1, <1>3 DEF Accepted
    <3> QED BY <3>1
  <2>2. i \in DOMAIN flow /\ flow[i].type = "form" /\ flow[i].visible = Always
    BY <2>1 DEF StepsOf
  <2>3. PICK p \in 1 .. Len(flow[i].sections) : flow[i].sections[p] = s
    BY <1>1, <2>1, <2>2, FlowParts DEF Range
  <2>4. Len(flow[i].sections) \in Nat /\ flow[i].paged \in BOOLEAN
    BY <1>1, <2>2, FlowParts
  <2>5. PICK at : at = IF flow[i].paged THEN <<i, p>> ELSE <<i, 1>>
    OBVIOUS
  <2>6. at \in Positions(flow)
    BY <2>2, <2>4, <2>5 DEF Positions, Pages
  <2>7. at[1] = i /\ s \in SectionsAt(flow, at)
    <3>1. CASE flow[i].paged
      BY <2>2, <2>3, <2>5, <3>1 DEF SectionsAt
    <3>2. CASE ~flow[i].paged
      BY <2>1, <2>2, <2>5, <3>2 DEF SectionsAt
    <3> QED BY <3>1, <3>2
  <2>8. OnFormPages(k)
    BY <1>6 DEF OnFormPages
  <2>9. s \in data.sections
    BY <1>2, <1>3, <2>8 DEF data, FlowData, SectionShown
  <2>10. Shows(flow, data, at)
    BY <1>4, <2>2, <2>7, <2>9 DEF Shows
  <2>11. k \in KeysAt(at)
    BY <1>2, <1>3, <2>2, <2>7, <2>8 DEF KeysAt
  <2> QED BY <2>6, <2>10, <2>11 DEF Shown
<1> QED BY <1>5, <1>6

\* A refused submission never leaves the agent without a page to put it
\* right on.
THEOREM RefusalAlways == Spec => []RefusalHasAPage
BY SessionAlways, RefusalPage, PTL

-----------------------------------------------------------------------------
(* Positions and their order.                                               *)

Pos == Nat \X Nat

\* Before is a strict order of positions.
LEMMA Order2 ==
  /\ \A a \in Pos : ~Before(a, a)
  /\ \A a, b \in Pos : a = b \/ Before(a, b) \/ Before(b, a)
  /\ \A a, b \in Pos : Before(a, b) => ~Before(b, a)
  /\ \A a, b, c \in Pos : Before(a, b) /\ Before(b, c) => Before(a, c)
BY DEF Pos, Before

\* A flow has finitely many positions.
LEMMA PositionsType ==
  ASSUME world \in Worlds
  PROVE  /\ Positions(flow) \subseteq Pos /\ IsFiniteSet(Positions(flow))
         /\ \A at \in Positions(flow) :
              at[1] \in DOMAIN flow /\ at[2] \in 1 .. Pages(flow[at[1]])
         /\ \A i \in DOMAIN flow : Pages(flow[i]) \in Nat
<1>1. \A i \in DOMAIN flow : i \in Nat /\ Pages(flow[i]) \in Nat
  BY FlowParts DEF Pages
<1>2. DOMAIN flow = 1 .. Len(flow) /\ Len(flow) \in Nat
  BY FlowParts
<1>3. PICK row : row = [i \in DOMAIN flow |-> {<<i, p>> : p \in 1 .. Pages(flow[i])}]
  OBVIOUS
<1>4. Positions(flow) = UNION {row[i] : i \in DOMAIN flow}
  BY <1>3 DEF Positions
<1>5. ASSUME NEW i \in DOMAIN flow PROVE IsFiniteSet(row[i])
  <2>1. PICK f : f = [p \in 1 .. Pages(flow[i]) |-> <<i, p>>]
    OBVIOUS
  <2>2. f \in Surjection(1 .. Pages(flow[i]), row[i])
    BY <1>3, <2>1 DEF Surjection
  <2>3. IsFiniteSet(1 .. Pages(flow[i]))
    BY <1>1, FS_Interval
  <2> QED BY <2>2, <2>3, FS_Surjection
<1>6. IsFiniteSet({row[i] : i \in DOMAIN flow})
  <2>1. row \in Surjection(DOMAIN flow, {row[i] : i \in DOMAIN flow})
    BY <1>3 DEF Surjection
  <2>2. IsFiniteSet(DOMAIN flow)
    BY <1>2, FS_Interval
  <2> QED BY <2>1, <2>2, FS_Surjection
<1>7. IsFiniteSet(Positions(flow))
  BY <1>4, <1>5, <1>6, FS_UNION
<1>8. ASSUME NEW at \in Positions(flow)
      PROVE  at \in Pos /\ at[1] \in DOMAIN flow /\ at[2] \in 1 .. Pages(flow[at[1]])
  <2>1. PICK i \in DOMAIN flow : \E p \in 1 .. Pages(flow[i]) : at = <<i, p>>
    BY DEF Positions
  <2>2. PICK p \in 1 .. Pages(flow[i]) : at = <<i, p>>
    BY <2>1
  <2> QED BY <1>1, <2>2 DEF Pos
<1> QED BY <1>1, <1>7, <1>8

\* Of pages that are not none one is the first.
LEMMA FirstOf ==
  ASSUME NEW pages \in SUBSET Pos, pages # {}
  PROVE  First(pages) \in pages /\ \A to \in pages : ~Before(to, First(pages))
<1>1. PICK rows : rows = {at[1] : at \in pages}
  OBVIOUS
<1>2. PICK r \in rows : \A x \in rows : r <= x
  <2>1. rows \in SUBSET Nat /\ rows # {}
    BY <1>1 DEF Pos
  <2> QED BY <2>1, LeastNumber
<1>3. PICK cols : cols = {at[2] : at \in {to \in pages : to[1] = r}}
  OBVIOUS
<1>4. PICK c \in cols : \A x \in cols : c <= x
  <2>1. cols \in SUBSET Nat /\ cols # {}
    BY <1>1, <1>2, <1>3 DEF Pos
  <2> QED BY <2>1, LeastNumber
<1>5. PICK at \in pages : at[1] = r /\ at[2] = c
  BY <1>3, <1>4
<1>6. \A to \in pages \ {at} : Before(at, to)
  <2> SUFFICES ASSUME NEW to \in pages, to # at PROVE Before(at, to)
    OBVIOUS
  <2>1. to \in Pos /\ at \in Pos /\ r <= to[1] /\ (to[1] = r => c <= to[2])
    BY <1>1, <1>2, <1>3, <1>4
  <2> QED BY <1>5, <2>1 DEF Pos, Before
<1>7. First(pages) \in pages /\ \A to \in pages \ {First(pages)} : Before(First(pages), to)
  BY <1>6 DEF First
<1> QED BY <1>7, Order2

\* Of a bounded set of numbers that is not empty one is the greatest.
LEMMA Greatest ==
  ASSUME NEW N \in Nat, NEW S \in SUBSET (0 .. N), S # {}
  PROVE  \E x \in S : \A y \in S : y <= x
<1>1. PICK T : T = {N - x : x \in S}
  OBVIOUS
<1>2. T \in SUBSET Nat /\ T # {}
  <2>1. \A x \in S : N - x \in Nat
    OBVIOUS
  <2> QED BY <1>1, <2>1
<1>3. PICK t \in T : \A y \in T : t <= y
  BY <1>2, LeastNumber
<1>4. PICK x \in S : t = N - x
  BY <1>1
<1>5. \A y \in S : N - x <= N - y
  BY <1>1, <1>3, <1>4
<1> QED BY <1>5

\* Of pages of the flow that are not none one is the last.
LEMMA FinalOf ==
  ASSUME world \in Worlds, NEW pages \in SUBSET Positions(flow), pages # {}
  PROVE  Final(pages) \in pages
<1>1. /\ \A at \in pages : at \in Pos /\ at[1] \in DOMAIN flow /\ at[2] \in 1 .. Pages(flow[at[1]])
      /\ \A i \in DOMAIN flow : Pages(flow[i]) \in Nat
      /\ Len(flow) \in Nat /\ DOMAIN flow = 1 .. Len(flow)
  BY PositionsType, FlowParts
<1>2. PICK rows : rows = {at[1] : at \in pages}
  OBVIOUS
<1>3. PICK N : N = Len(flow)
  OBVIOUS
<1>4. rows \in SUBSET (0 .. N) /\ rows # {} /\ N \in Nat
  BY <1>1, <1>2, <1>3
<1>5. PICK r \in rows : \A x \in rows : x <= r
  BY <1>4, Greatest
<1>6. PICK cols : cols = {at[2] : at \in {to \in pages : to[1] = r}}
  OBVIOUS
<1>7. PICK M : M = Pages(flow[r])
  OBVIOUS
<1>8. cols \in SUBSET (0 .. M) /\ cols # {} /\ M \in Nat
  BY <1>1, <1>2, <1>5, <1>6, <1>7
<1>9. PICK c \in cols : \A x \in cols : x <= c
  BY <1>8, Greatest
<1>10. PICK at \in pages : at[1] = r /\ at[2] = c
  BY <1>6, <1>9
<1>11. \A to \in pages \ {at} : Before(to, at)
  <2> SUFFICES ASSUME NEW to \in pages, to # at PROVE Before(to, at)
    OBVIOUS
  <2>1. to \in Pos /\ at \in Pos /\ to[1] <= r /\ (to[1] = r => to[2] <= c)
    BY <1>1, <1>2, <1>5, <1>6, <1>9
  <2> QED BY <1>10, <2>1 DEF Pos, Before
<1> QED BY <1>11 DEF Final

\* The page at the place of `at`: it is not after a page that `at` is not
\* after.
LEMMA AtPlaceOf ==
  ASSUME NEW pages \in SUBSET Pos, IsFiniteSet(pages), NEW at \in Pos,
         NEW low \in pages, ~Before(low, at),
         NEW n, n = Cardinality(Earlier(pages, at)) + 1
  PROVE  /\ n \in Nat /\ n <= Cardinality(pages)
         /\ AtPlace(pages, n) \in pages /\ ~Before(low, AtPlace(pages, n))
<1>1. \A to : /\ IsFiniteSet(Earlier(pages, to)) /\ Earlier(pages, to) \subseteq pages
              /\ Cardinality(Earlier(pages, to)) \in Nat
              /\ Cardinality(Earlier(pages, to)) <= Cardinality(pages)
              /\ Earlier(pages, to) # pages =>
                   Cardinality(Earlier(pages, to)) # Cardinality(pages)
  <2> TAKE to
  <2>1. Earlier(pages, to) \in SUBSET pages
    BY DEF Earlier
  <2> QED BY <2>1, FS_Subset, FS_CardinalityType
<1>2. low \notin Earlier(pages, at) /\ Cardinality(pages) \in Nat
  BY FS_CardinalityType DEF Earlier
<1>3. n \in Nat /\ n <= Cardinality(pages)
  BY <1>1, <1>2
<1>4. PICK rest : rest = pages \ Earlier(pages, at)
  OBVIOUS
<1>5. PICK q : q = First(rest)
  OBVIOUS
<1>6. q \in pages /\ ~Before(q, at) /\ \A to \in rest : ~Before(to, q)
  <2>1. rest \in SUBSET Pos /\ rest # {}
    BY <1>2, <1>4
  <2>2. q \in rest /\ \A to \in rest : ~Before(to, q)
    BY <1>5, <2>1, FirstOf
  <2> QED BY <1>4, <2>2 DEF Earlier
<1>7. Earlier(pages, q) = Earlier(pages, at)
  BY <1>4, <1>6, Order2 DEF Earlier
<1>8. Cardinality(Earlier(pages, q)) = n - 1
  BY <1>1, <1>7
<1>9. PICK a : a = AtPlace(pages, n)
  OBVIOUS
<1>10. a \in pages /\ Cardinality(Earlier(pages, a)) = n - 1
  BY <1>6, <1>8, <1>9 DEF AtPlace
<1>11. ASSUME Before(low, a) PROVE FALSE
  <2>1. Earlier(pages, at) \subseteq Earlier(pages, a) \ {low}
    BY <1>2, <1>10, <1>11, Order2 DEF Earlier
  <2>2. low \in Earlier(pages, a)
    BY <1>11 DEF Earlier
  <2>3. Cardinality(Earlier(pages, a) \ {low}) = Cardinality(Earlier(pages, a)) - 1
        /\ IsFiniteSet(Earlier(pages, a) \ {low})
    BY <1>1, <2>2, FS_RemoveElement
  <2>4. Cardinality(Earlier(pages, at)) <= Cardinality(Earlier(pages, a) \ {low})
    BY <2>1, <2>3, FS_Subset
  <2> QED BY <1>1, <1>10, <2>3, <2>4
<1> QED BY <1>3, <1>9, <1>10, <1>11

\* A way of one page.
LEMMA OnePage ==
  ASSUME NEW S, NEW x \in S
  PROVE  <<x>> \in Seq(S)
OBVIOUS

\* What is kept of a way is of the same pages.
LEMMA AlongType ==
  ASSUME NEW S, NEW way \in Seq(S), NEW pages
  PROVE  Along(way, pages) \in Seq(S)
<1> DEFINE N == Len(way)
           keep(n, kept) == IF way[n] \in pages THEN Append(kept, way[n]) ELSE kept
           step == [n \in 1 .. N |-> [kept \in Seq(S) |-> keep(n, kept)]]
<1>1. N \in Nat /\ \A n \in 1 .. N : way[n] \in S
  OBVIOUS
<1>2. <<>> \in Seq(S)
  OBVIOUS
<1>3. \A n \in 1 .. N : \A kept \in Seq(S) : keep(n, kept) \in Seq(S)
  BY <1>1
<1>4. step \in [1 .. N -> [Seq(S) -> Seq(S)]]
  BY <1>3
<1>5. PICK f : IsHistory(f, N, Seq(S), <<>>, step)
  <2> HIDE DEF N, step
  <2> QED BY <1>1, <1>2, <1>4, Iterates
<1>6. /\ f \in [0 .. N -> Seq(S)] /\ f[0] = <<>>
      /\ \A n \in 1 .. N : f[n] = step[n][f[n - 1]]
  BY <1>5 DEF IsHistory
<1>7. \A n \in 1 .. N : n - 1 \in 0 .. N
  BY <1>1
<1> HIDE DEF N
<1>8. \A n \in 1 .. N : f[n] = keep(n, f[n - 1])
  <2> HIDE DEF keep
  <2> QED BY <1>6, <1>7
<1> HIDE DEF keep
<1>9. f = [n \in 0 .. N |-> IF n = 0 THEN <<>> ELSE keep(n, f[n - 1])]
  BY <1>1, <1>6, <1>8
<1> DEFINE kept == CHOOSE g : g = [n \in 0 .. N |-> IF n = 0 THEN <<>> ELSE keep(n, g[n - 1])]
<1>10. kept = [n \in 0 .. N |-> IF n = 0 THEN <<>> ELSE keep(n, kept[n - 1])]
  BY <1>9
<1>11. Along(way, pages) = kept[N]
  BY DEF Along, N, keep
<1> HIDE DEF kept
<1>12. kept[0] = <<>> /\ \A n \in 1 .. N : kept[n] = keep(n, kept[n - 1])
  BY <1>1, <1>10
<1> DEFINE T == {n \in 0 .. N : kept[n] \in Seq(S)}
<1>13. 0 \in T
  <2>1. 0 \in 0 .. N
    BY <1>1
  <2>2. kept[0] \in Seq(S)
    BY <1>2, <1>12, Zenon
  <2> QED BY <2>1, <2>2
<1>14. ASSUME NEW n \in 0 .. N - 1, n \in T PROVE n + 1 \in T
  <2>1. n + 1 \in 1 .. N /\ (n + 1) - 1 = n
    BY <1>1
  <2>2. kept[n + 1] = keep(n + 1, kept[n])
    BY <1>12, <2>1
  <2> QED BY <1>3, <1>14, <2>1, <2>2
<1>15. N \in T
  <2> HIDE DEF T
  <2>1. 0 .. N \subseteq T
    BY <1>1, <1>13, <1>14, UpTo
  <2> QED BY <1>1, <2>1
<1> QED BY <1>11, <1>15

-----------------------------------------------------------------------------
(* The location check comes first.                                          *)

\* The pages not after that of step i, the check.
Upto(i) == {at \in Positions(flow) : ~Before(<<i, 1>>, at)}

\* What was shown as the draft was written, the check still to pass.
DraftPages == Shown(flow, FlowData(FormSession(form, draft.raw), FALSE))

AtOrBefore(i, pages, n) ==
  \E at \in Pos : ~Before(<<i, 1>>, at) /\ n = Cardinality(Earlier(pages, at)) + 1
CheckInv(i) ==
  /\ sent = <<>>
  /\ path \in Seq(Upto(i)) /\ draft.path \in Seq(Upto(i))
  /\ AtOrBefore(i, DraftPages, draft.step)

\* Until the check passes, neither the way nor the draft is past it.
WayInv ==
  /\ located \in BOOLEAN
  /\ Plain /\ ~located => \A i \in StepsOf(flow, "location_check") : CheckInv(i)

\* The check has one step, which comes before the submission.
LEMMA CheckStep ==
  ASSUME world \in Worlds
  PROVE  /\ \E i : StepsOf(flow, "location_check") = {i}
         /\ \A i \in StepsOf(flow, "location_check") :
              /\ i \in DOMAIN flow /\ i \in Nat /\ flow[i].type = "location_check"
              /\ \A s \in StepsOf(flow, "submit") : i < s
              /\ \A s \in DOMAIN flow : flow[s].type = "location_check" => s = i
<1>1. Accepted(flow, form)
  BY WorldParts
<1>2. PICK at : at = StepsOf(flow, "location_check")
  OBVIOUS
<1>3. Cardinality(at) = 1 /\ \A i \in at, s \in StepsOf(flow, "submit") : i < s
  BY <1>1, <1>2 DEF Accepted
<1>4. DOMAIN flow = 1 .. Len(flow) /\ Len(flow) \in Nat
  BY FlowParts
<1>5. IsFiniteSet(at)
  <2>1. at \in SUBSET DOMAIN flow
    BY <1>2 DEF StepsOf
  <2>2. IsFiniteSet(DOMAIN flow)
    BY <1>4, FS_Interval
  <2> QED BY <2>1, <2>2, FS_Subset
<1>6. PICK i : at = {i}
  BY <1>3, <1>5, FS_Singleton
<1>7. \A j \in at : j \in DOMAIN flow /\ j \in Nat /\ flow[j].type = "location_check"
  BY <1>2, <1>4 DEF StepsOf
<1>8. \A s \in DOMAIN flow : flow[s].type = "location_check" => s \in at
  BY <1>2 DEF StepsOf
<1> QED BY <1>2, <1>3, <1>6, <1>7, <1>8

\* It is shown until it has passed.
LEMMA CheckIsShown ==
  ASSUME world \in Worlds, NEW i \in StepsOf(flow, "location_check"), NEW s
  PROVE  /\ <<i, 1>> \in Shown(flow, FlowData(s, FALSE))
         /\ <<i, 1>> \in Pos /\ <<i, 1>> \in Upto(i)
         /\ Shown(flow, FlowData(s, FALSE)) \in SUBSET Pos
         /\ Shown(flow, FlowData(s, FALSE)) \subseteq Positions(flow)
         /\ IsFiniteSet(Shown(flow, FlowData(s, FALSE)))
<1>1. i \in DOMAIN flow /\ i \in Nat /\ flow[i].type = "location_check"
  BY CheckStep
<1>2. PICK at : at = <<i, 1>>
  OBVIOUS
<1>3. at \in Pos /\ at[1] = i
  BY <1>1, <1>2 DEF Pos
<1>4. at \in Positions(flow)
  <2>1. 1 \in 1 .. Pages(flow[i])
    BY <1>1 DEF Pages
  <2> QED BY <1>1, <1>2, <2>1 DEF Positions
<1>5. ~FlowData(s, FALSE).located
  BY DEF FlowData
<1>6. at \in Shown(flow, FlowData(s, FALSE))
  BY <1>1, <1>3, <1>4, <1>5 DEF Shown, Shows
<1>7. Shown(flow, FlowData(s, FALSE)) \subseteq Positions(flow)
  BY DEF Shown
<1>8. Positions(flow) \subseteq Pos /\ IsFiniteSet(Positions(flow))
  BY PositionsType
<1>9. ~Before(at, at)
  BY <1>3, Order2
<1> QED BY <1>2, <1>3, <1>4, <1>6, <1>7, <1>8, <1>9, FS_Subset DEF Upto

\* A page not after the check is of its step, the check itself, or of an
\* earlier one.
LEMMA UptoParts ==
  ASSUME world \in Worlds, NEW i \in StepsOf(flow, "location_check"), NEW at \in Upto(i)
  PROVE  /\ at \in Positions(flow) /\ at \in Pos /\ at[1] \in DOMAIN flow /\ at[1] \in Nat
         /\ at[1] <= i
<1>1. i \in Nat
  BY CheckStep
<1>2. at \in Positions(flow) /\ at \in Pos /\ at[1] \in DOMAIN flow
  BY PositionsType DEF Upto
<1>3. ~Before(<<i, 1>>, at)
  BY DEF Upto
<1> QED BY <1>1, <1>2, <1>3 DEF Pos, Before

\* A page before one of these is one of these.
LEMMA BeforeUpto ==
  ASSUME world \in Worlds, NEW i \in StepsOf(flow, "location_check"),
         NEW at \in Positions(flow), NEW low \in Upto(i), ~Before(low, at)
  PROVE  at \in Upto(i)
<1>1. low \in Pos /\ ~Before(<<i, 1>>, low) /\ at \in Pos /\ <<i, 1>> \in Pos
  BY UptoParts, PositionsType, CheckIsShown DEF Upto
<1>2. ~Before(<<i, 1>>, at)
  BY <1>1, Order2
<1> QED BY <1>2 DEF Upto

\* The page that a step leads to, while what it leads to is not after the
\* check.
LEMMA FirstFromUpto ==
  ASSUME world \in Worlds, NEW i \in StepsOf(flow, "location_check"), NEW s,
         NEW j \in Nat, j <= i
  PROVE  FirstFrom(flow, FlowData(s, FALSE), j) \in Seq(Upto(i))
<1>1. PICK pages : pages = {at \in Shown(flow, FlowData(s, FALSE)) : at[1] >= j}
  OBVIOUS
<1>2. PICK low : low = <<i, 1>>
  OBVIOUS
<1>3. i \in Nat
  BY CheckStep
<1>4. low \in pages /\ low \in Upto(i)
  BY <1>1, <1>2, <1>3, CheckIsShown
<1>5. pages \in SUBSET Pos /\ pages \subseteq Positions(flow)
  BY <1>1, CheckIsShown
<1>6. First(pages) \in pages /\ ~Before(low, First(pages))
  BY <1>4, <1>5, FirstOf
<1>7. First(pages) \in Upto(i)
  BY <1>4, <1>5, <1>6, BeforeUpto
<1>8. FirstFrom(flow, FlowData(s, FALSE), j) = <<First(pages)>>
  BY <1>1, <1>4 DEF FirstFrom, Start
<1> QED BY <1>7, <1>8, OnePage

\* No step before the check leads past it, by its pages or its `next`.
LEMMA NextFromUpto ==
  ASSUME world \in Worlds, NEW i \in StepsOf(flow, "location_check"), NEW s,
         Plain, NEW at \in Upto(i), flow[at[1]].type # "location_check"
  PROVE  NextFrom(flow, FlowData(s, FALSE), at) \in Seq(Upto(i))
<1>1. i \in Nat /\ i \in DOMAIN flow /\ flow[i].type = "location_check"
  BY CheckStep
<1>2. at \in Pos /\ at[1] \in DOMAIN flow /\ at[1] \in Nat /\ at[1] <= i
  BY UptoParts
<1>3. at[1] < i
  BY <1>1, <1>2
<1>4. PICK own, target :
        /\ own = {to \in Shown(flow, FlowData(s, FALSE)) : to[1] = at[1] /\ Before(at, to)}
        /\ target = Target(flow[at[1]], FlowData(s, FALSE))
  OBVIOUS
<1>5. CASE own # {}
  <2>1. own \in SUBSET Pos /\ own \subseteq Positions(flow)
    BY <1>4, CheckIsShown
  <2>2. First(own) \in own
    BY <1>5, <2>1, FirstOf
  <2>3. First(own) \in Positions(flow) /\ First(own) \in Pos /\ First(own)[1] < i
    BY <1>3, <1>4, <2>1, <2>2
  <2>4. First(own) \in Upto(i)
    BY <1>1, <2>3 DEF Upto, Pos, Before
  <2>5. NextFrom(flow, FlowData(s, FALSE), at) = <<First(own)>>
    BY <1>4, <1>5 DEF NextFrom, Start
  <2> QED BY <2>4, <2>5, OnePage
<1>6. CASE own = {}
  <2>1. PICK j : j = IF target = 0 THEN at[1] + 1 ELSE target
    OBVIOUS
  <2>2. NextFrom(flow, FlowData(s, FALSE), at) = FirstFrom(flow, FlowData(s, FALSE), j)
    BY <1>4, <1>6, <2>1 DEF NextFrom
  <2>3. target \in {0, flow[at[1]].next.then, flow[at[1]].next.other}
    BY <1>4 DEF Target
  <2>4. target = 0 \/ target \in Targets(flow[at[1]])
    BY <2>3 DEF Targets
  <2>5. at[1] \in 1 .. i - 1
    BY <1>1, <1>2, <1>3, FlowParts
  <2>6. Targets(flow[at[1]]) \subseteq 1 .. i
    BY <2>5 DEF Plain
  <2>7. j \in Nat /\ j <= i
    BY <1>1, <1>2, <1>3, <2>1, <2>4, <2>6
  <2> QED BY <2>2, <2>7, FirstFromUpto
<1> QED BY <1>5, <1>6

\* The draft holds what the session resolves to.
LEMMA SameAsReopened ==
  ASSUME SessionInv, NEW passed
  PROVE  FlowData(FormSession(form, session.raw), passed) = FlowData(session, passed)
<1>1. /\ IsForm(form) /\ Compiles(form) /\ Fresh(form, session)
      /\ session.raw \in Raws(form)
  BY WorldParts DEF SessionInv, Fresh, Sess
<1>2. PICK one : one = FormSession(form, session.raw)
  OBVIOUS
<1>3. Fresh(form, one) /\ one.raw = session.raw
  BY <1>1, <1>2, SessionStartsFresh
<1>4. Whole(form, session.raw, session.res) /\ Whole(form, session.raw, one.res)
  BY <1>1, <1>3 DEF Fresh
<1>5. session.res = one.res
  BY <1>1, <1>4, WholeIsUnique
<1> QED BY <1>2, <1>5 DEF FlowData

\* Where the draft of a page not after the check is.
LEMMA ProgressUpto ==
  ASSUME world \in Worlds, NEW i \in StepsOf(flow, "location_check"), NEW s, NEW at \in Upto(i)
  PROVE  AtOrBefore(i, Shown(flow, FlowData(s, FALSE)), Progress(s, FALSE, at))
<1>1. PICK pages : pages = Shown(flow, FlowData(s, FALSE))
  OBVIOUS
<1>2. pages \in SUBSET Pos /\ IsFiniteSet(pages) /\ <<i, 1>> \in pages
  BY <1>1, CheckIsShown
<1>3. at \in Pos /\ ~Before(<<i, 1>>, at)
  BY UptoParts DEF Upto
<1>4. PICK n : n = Cardinality(Earlier(pages, at)) + 1
  OBVIOUS
<1>5. n \in Nat /\ n <= Cardinality(pages)
  BY <1>2, <1>3, <1>4, AtPlaceOf
<1>6. Cardinality(Earlier(pages, at)) \in Nat /\ Cardinality(pages) \in Nat
  <2>1. Earlier(pages, at) \in SUBSET pages
    BY DEF Earlier
  <2> QED BY <1>2, <2>1, FS_Subset, FS_CardinalityType
<1>7. Progress(s, FALSE, at) = n
  <2>1. PICK place, all : place = Cardinality(Earlier(pages, at)) /\ all = Cardinality(pages)
    OBVIOUS
  <2>2. place < all /\ place + 1 = n
    BY <1>4, <1>5, <1>6, <2>1
  <2>3. Progress(s, FALSE, at) = IF place < all THEN place + 1 ELSE place
    BY <1>1, <2>1 DEF Progress
  <2> QED BY <2>2, <2>3
<1> QED BY <1>1, <1>3, <1>4, <1>7 DEF AtOrBefore

\* An inspection opened again before its check has passed is not past it.
LEMMA ResumedUpto ==
  ASSUME world \in Worlds, NEW i \in StepsOf(flow, "location_check"), NEW d, NEW s,
         d.path \in Seq(Upto(i)), AtOrBefore(i, Shown(flow, FlowData(s, FALSE)), d.step)
  PROVE  Resumed(d, s, FALSE) \in Seq(Upto(i))
<1>1. PICK pages : pages = Shown(flow, FlowData(s, FALSE))
  OBVIOUS
<1>2. PICK kept : kept = Along(d.path, pages)
  OBVIOUS
<1>3. /\ pages \in SUBSET Pos /\ pages \subseteq Positions(flow) /\ IsFiniteSet(pages)
      /\ <<i, 1>> \in pages /\ <<i, 1>> \in Upto(i)
  BY <1>1, CheckIsShown
<1>4. kept \in Seq(Upto(i))
  BY <1>2, AlongType
<1>5. CASE kept # <<>>
  BY <1>1, <1>2, <1>4, <1>5 DEF Resumed
<1>6. CASE kept = <<>>
  <2>1. PICK at \in Pos : ~Before(<<i, 1>>, at) /\ d.step = Cardinality(Earlier(pages, at)) + 1
    BY <1>1 DEF AtOrBefore
  <2>2. /\ d.step \in Nat /\ d.step <= Cardinality(pages)
        /\ AtPlace(pages, d.step) \in pages /\ ~Before(<<i, 1>>, AtPlace(pages, d.step))
    BY <1>3, <2>1, AtPlaceOf
  <2>3. Cardinality(pages) \in Nat
    BY <1>3, FS_CardinalityType
  <2>4. Min({d.step, Cardinality(pages)}) = d.step
    <3>1. {d.step, Cardinality(pages)} \in SUBSET Nat /\ {d.step, Cardinality(pages)} # {}
      BY <2>2, <2>3
    <3>2. PICK m : m = Min({d.step, Cardinality(pages)})
      OBVIOUS
    <3>3. m \in {d.step, Cardinality(pages)} /\ m <= d.step
      BY <3>1, <3>2, MinIsLeast
    <3> QED BY <2>2, <2>3, <3>2, <3>3
  <2>5. Resumed(d, s, FALSE) = <<AtPlace(pages, d.step)>>
    BY <1>1, <1>2, <1>3, <1>6, <2>4 DEF Resumed
  <2>6. AtPlace(pages, d.step) \in Upto(i)
    BY <1>3, <2>2 DEF Upto
  <2> QED BY <2>5, <2>6, OnePage
<1> QED BY <1>5, <1>6

\* An inspection starts at the check or before it.
LEMMA WayInit == Init => WayInv
<1> SUFFICES ASSUME Init PROVE WayInv
  OBVIOUS
<1>1. world \in Worlds /\ located = FALSE /\ sent = <<>>
  BY DEF Init
<1> SUFFICES ASSUME NEW i \in StepsOf(flow, "location_check") PROVE CheckInv(i)
  BY <1>1 DEF WayInv
<1>2. /\ session = FormSession(form, [k \in Keys(form) |-> Null])
      /\ draft = [raw |-> session.raw, path |-> <<>>, step |-> 1]
      /\ path = Resumed(draft, session, FALSE)
  BY DEF Init
<1>3. SessionInv
  BY SessionInit
<1>4. DraftPages = Shown(flow, FlowData(session, FALSE))
  BY <1>2, <1>3, SameAsReopened DEF DraftPages
<1>5. AtOrBefore(i, DraftPages, draft.step)
  <2>1. PICK at : at = <<0, 0>>
    OBVIOUS
  <2>2. at \in Pos /\ i \in Nat /\ i # 0
    BY <1>1, <2>1, CheckStep, FlowParts DEF Pos
  <2>3. ~Before(<<i, 1>>, at)
    BY <2>1, <2>2 DEF Before
  <2>4. Earlier(DraftPages, at) = {}
    <3>1. DraftPages \in SUBSET Pos
      BY <1>1, <1>4, CheckIsShown
    <3> QED BY <2>1, <3>1 DEF Earlier, Before, Pos
  <2>5. draft.step = Cardinality(Earlier(DraftPages, at)) + 1
    BY <1>2, <2>4, FS_EmptySet
  <2> QED BY <2>2, <2>3, <2>5 DEF AtOrBefore
<1>6. draft.path \in Seq(Upto(i))
  BY <1>2
<1>7. path \in Seq(Upto(i))
  BY <1>1, <1>2, <1>4, <1>5, <1>6, ResumedUpto
<1> QED BY <1>1, <1>5, <1>6, <1>7 DEF CheckInv

\* Max is the greatest.
LEMMA MaxIsOne ==
  ASSUME NEW N \in Nat, NEW S \in SUBSET (0 .. N), S # {}
  PROVE  Max(S) \in S
<1>1. PICK x \in S : \A y \in S : y <= x
  BY Greatest
<1>2. \A y \in S : x >= y
  BY <1>1
<1> QED BY <1>2 DEF Max

\* A draft of a way not past the check is not past it.
LEMMA DraftedUpto ==
  ASSUME SessionInv, NEW i \in StepsOf(flow, "location_check"),
         NEW way \in Seq(Upto(i)), way # <<>>, NEW d, d = Drafted(session, FALSE, way)
  PROVE  /\ d.path \in Seq(Upto(i))
         /\ AtOrBefore(i, Shown(flow, FlowData(FormSession(form, d.raw), FALSE)), d.step)
<1>1. world \in Worlds
  BY DEF SessionInv
<1>2. PICK at : at = way[Len(way)]
  OBVIOUS
<1>3. at \in Upto(i)
  BY <1>2
<1>4. d.raw = session.raw /\ d.path = way /\ d.step = Progress(session, FALSE, at)
  BY <1>2 DEF Drafted
<1>5. FlowData(FormSession(form, d.raw), FALSE) = FlowData(session, FALSE)
  BY <1>4, SameAsReopened
<1>6. AtOrBefore(i, Shown(flow, FlowData(session, FALSE)), d.step)
  BY <1>1, <1>3, <1>4, ProgressUpto
<1> QED BY <1>4, <1>5, <1>6

\* What a step keeps of CheckInv.
KeepsCheck(i) ==
  /\ sent' = <<>>
  /\ path' \in Seq(Upto(i)) /\ draft'.path \in Seq(Upto(i))
  /\ AtOrBefore(i, Shown(flow, FlowData(FormSession(form, draft'.raw), FALSE)), draft'.step)

\* A move to a way not past the check keeps the draft there too.
LEMMA GoUpto ==
  ASSUME SessionInv, NEW i \in StepsOf(flow, "location_check"), CheckInv(i),
         NEW way \in Seq(Upto(i)), way # <<>>, Go(way), located' = FALSE,
         UNCHANGED sent
  PROVE  KeepsCheck(i)
<1>1. path' = way /\ draft' = Drafted(session, FALSE, way) /\ sent' = <<>>
  BY DEF Go, CheckInv
<1> QED BY <1>1, DraftedUpto DEF KeepsCheck

\* The page on screen while the check is still to pass.
LEMMA AtUpto ==
  ASSUME world \in Worlds, NEW i \in StepsOf(flow, "location_check"), CheckInv(i), Open
  PROVE  /\ At \in Upto(i) /\ Len(path) \in Nat /\ Len(path) > 0
         /\ AtType # "submit"
         /\ Plain => AtType # "summary_review"
<1>1. At \in Upto(i) /\ Len(path) \in Nat /\ Len(path) > 0
  BY DEF CheckInv, Open, At
<1>2. At[1] \in DOMAIN flow /\ At[1] \in Nat /\ At[1] <= i /\ i \in Nat
  BY <1>1, UptoParts, CheckStep
<1>3. \A s \in StepsOf(flow, "submit") : i < s
  BY CheckStep
<1>4. Plain => \A s \in StepsOf(flow, "summary_review") : i < s
  BY DEF Plain
<1>5. AtType = "submit" => At[1] \in StepsOf(flow, "submit")
  BY <1>2 DEF AtType, StepsOf
<1>6. AtType = "summary_review" => At[1] \in StepsOf(flow, "summary_review")
  BY <1>2 DEF AtType, StepsOf
<1> QED BY <1>1, <1>2, <1>3, <1>4, <1>5, <1>6

\* Nor does the way back lead past the check,
LEMMA BackUpto ==
  ASSUME SessionInv, NEW i \in StepsOf(flow, "location_check"), CheckInv(i),
         located = FALSE, Back
  PROVE  KeepsCheck(i)
<1>1. world \in Worlds /\ Open
  BY DEF SessionInv, Back
<1>2. PICK seen : seen = {n \in 1 .. Len(path) - 1 : Shows(flow, data, path[n])}
  OBVIOUS
<1>3. PICK before : before = Earlier(Shown(flow, data), At)
  OBVIOUS
<1>4. PICK way : way = IF seen # {} THEN SubSeq(path, 1, Max(seen)) ELSE <<Final(before)>>
  OBVIOUS
<1>5. (seen # {} \/ before # {}) /\ Go(way) /\ UNCHANGED <<located, sent>>
  BY <1>2, <1>3, <1>4 DEF Back
<1>6. At \in Upto(i) /\ Len(path) \in Nat /\ path \in Seq(Upto(i))
  BY <1>1, AtUpto DEF CheckInv
<1>7. CASE seen # {}
  <2>1. PICK N : N = Len(path)
    OBVIOUS
  <2>2. seen \in SUBSET (0 .. N) /\ N \in Nat
    BY <1>2, <1>6, <2>1
  <2>3. PICK m : m = Max(seen)
    OBVIOUS
  <2>4. m \in 1 .. Len(path) - 1
    BY <1>2, <1>7, <2>2, <2>3, MaxIsOne
  <2>5. way = SubSeq(path, 1, m)
    BY <1>4, <1>7, <2>3
  <2>6. way \in Seq(Upto(i)) /\ Len(way) = m /\ way # <<>>
    BY <1>6, <2>4, <2>5, SubSeqProperties
  <2> QED BY <1>5, <2>6, GoUpto
<1>8. CASE seen = {}
  <2>1. before # {} /\ way = <<Final(before)>>
    BY <1>4, <1>5, <1>8
  <2>2. before \in SUBSET Positions(flow)
    BY <1>3 DEF Earlier, Shown
  <2>3. PICK q : q = Final(before)
    OBVIOUS
  <2>4. q \in before /\ q \in Positions(flow) /\ Before(q, At)
    BY <1>1, <1>3, <2>1, <2>2, <2>3, FinalOf DEF Earlier
  <2>5. ~Before(At, q)
    BY <1>1, <1>6, <2>4, Order2, UptoParts, PositionsType
  <2>6. q \in Upto(i)
    BY <1>1, <1>6, <2>4, <2>5, BeforeUpto
  <2>7. way \in Seq(Upto(i)) /\ way # <<>>
    BY <2>1, <2>3, <2>6, OnePage
  <2> QED BY <1>5, <2>7, GoUpto
<1> QED BY <1>7, <1>8

\* nor the way on, which waits at the check,
LEMMA NextUpto ==
  ASSUME SessionInv, NEW i \in StepsOf(flow, "location_check"), CheckInv(i),
         located = FALSE, Plain, Next_
  PROVE  KeepsCheck(i)
<1>1. world \in Worlds /\ Open /\ AtType # "location_check"
  BY DEF SessionInv, Next_
<1>2. PICK on : on = NextFrom(flow, FlowData(session, FALSE), At)
  OBVIOUS
<1>3. on # <<>> /\ Go(path \o on) /\ UNCHANGED <<located, sent>>
  BY <1>2 DEF Next_, data
<1>4. At \in Upto(i) /\ path \in Seq(Upto(i))
  BY <1>1, AtUpto DEF CheckInv
<1>5. on \in Seq(Upto(i))
  BY <1>1, <1>2, <1>4, NextFromUpto DEF AtType
<1>6. PICK way : way = path \o on
  OBVIOUS
<1>7. way \in Seq(Upto(i)) /\ way # <<>>
  BY <1>3, <1>4, <1>5, <1>6, ConcatProperties, EmptySeq
<1> QED BY <1>3, <1>6, <1>7, GoUpto

\* nor opening the inspection again.
LEMMA ReopenUpto ==
  ASSUME SessionInv, NEW i \in StepsOf(flow, "location_check"), CheckInv(i),
         located' = FALSE, Reopen
  PROVE  KeepsCheck(i)
<1>1. world \in Worlds
  BY DEF SessionInv
<1>2. /\ session' = FormSession(form, draft.raw) /\ path' = Resumed(draft, session', FALSE)
      /\ draft' = draft /\ sent' = sent
  BY DEF Reopen
<1>3. PICK s : s = FormSession(form, draft.raw)
  OBVIOUS
<1>4. /\ sent = <<>> /\ draft.path \in Seq(Upto(i))
      /\ AtOrBefore(i, Shown(flow, FlowData(s, FALSE)), draft.step)
  BY <1>3 DEF CheckInv, DraftPages
<1>5. Resumed(draft, s, FALSE) \in Seq(Upto(i))
  BY <1>1, <1>4, ResumedUpto
<1> QED BY <1>2, <1>3, <1>4, <1>5 DEF KeepsCheck

\* The check is passed by LocationDone, or by having passed when the app died.
LEMMA WayNext == SessionInv /\ WayInv /\ [Next]_vars => WayInv'
<1> SUFFICES ASSUME SessionInv, WayInv, [Next]_vars PROVE WayInv'
  OBVIOUS
<1>1. world \in Worlds /\ located \in BOOLEAN
  BY DEF SessionInv, WayInv
<1>2. world' = world
  BY DEF Next, Answer, Save, Next_, Back, JumpTo, LocationDone, Submit, Reopen, vars
<1>3. located' \in BOOLEAN /\ (~located' => located = FALSE /\ located' = FALSE)
  <2>1. located' = located \/ located' = TRUE
        \/ located' \in {located, AtType = "location_check" \/ located}
    BY DEF Next, Answer, Save, Next_, Back, JumpTo, LocationDone, Submit, Reopen, vars
  <2> QED BY <1>1, <2>1
<1>4. ASSUME Plain, ~located', NEW i \in StepsOf(flow, "location_check") PROVE KeepsCheck(i)
  <2>1. located = FALSE /\ located' = FALSE /\ CheckInv(i)
    BY <1>3, <1>4 DEF WayInv
  <2>2. ASSUME NEW k \in Keys(form), NEW value \in Raw(k), Answer(k, value) PROVE KeepsCheck(i)
    BY <2>1, <2>2 DEF Answer, CheckInv, KeepsCheck, DraftPages
  <2>3. CASE Save
    <3>1. path \in Seq(Upto(i)) /\ path # <<>> /\ sent = <<>>
      BY <2>1, <2>3 DEF Save, Open, CheckInv
    <3>2. draft' = Drafted(session, FALSE, path) /\ path' = path /\ sent' = sent
      BY <2>1, <2>3 DEF Save
    <3> QED BY <3>1, <3>2, DraftedUpto DEF KeepsCheck
  <2>4. CASE Next_
    BY <1>4, <2>1, <2>4, NextUpto
  <2>5. CASE Back
    BY <2>1, <2>5, BackUpto
  <2>6. ASSUME NEW s \in DOMAIN form.sections, JumpTo(s) PROVE KeepsCheck(i)
    BY <1>1, <1>4, <2>1, <2>6, AtUpto DEF JumpTo
  <2>7. CASE LocationDone
    BY <2>1, <2>7 DEF LocationDone
  <2>8. CASE Submit
    BY <1>1, <2>1, <2>8, AtUpto DEF Submit
  <2>9. CASE Reopen
    BY <2>1, <2>9, ReopenUpto
  <2>10. CASE UNCHANGED vars
    BY <2>1, <2>10 DEF vars, CheckInv, KeepsCheck, DraftPages
  <2> QED BY <2>2, <2>3, <2>4, <2>5, <2>6, <2>7, <2>8, <2>9, <2>10 DEF Next
<1>5. flow' = flow /\ form' = form
  BY <1>2 DEF flow, form
<1>6. Plain' <=> Plain
  BY <1>5 DEF Plain
<1>7. \A i : Upto(i)' = Upto(i)
  BY <1>5 DEF Upto
<1>8. DraftPages' = Shown(flow, FlowData(FormSession(form, draft'.raw), FALSE))
  BY <1>5 DEF DraftPages, FlowData, SectionShown, OnFormPages, HasDeclarationStep
<1>9. \A i : KeepsCheck(i) => CheckInv(i)'
  BY <1>7, <1>8 DEF KeepsCheck, CheckInv
<1> QED BY <1>3, <1>4, <1>5, <1>6, <1>9 DEF WayInv

\* Before it is passed nothing is sent.
LEMMA WayIsFirst == SessionInv /\ WayInv => LocationFirst
<1> SUFFICES ASSUME SessionInv, WayInv, Plain, sent # <<>>, ~located PROVE FALSE
  BY DEF LocationFirst
<1>1. PICK i : i \in StepsOf(flow, "location_check")
  BY CheckStep DEF SessionInv
<1>2. CheckInv(i)
  BY <1>1 DEF WayInv
<1> QED BY <1>2 DEF CheckInv

\* An inspection is submitted only after its location check has passed,
\* whatever the branches, the hidden steps, the way back and the restarts.
THEOREM LocationFirstAlways == Spec => []LocationFirst
<1>1. Init => SessionInv /\ WayInv
  BY SessionInit, WayInit
<1>2. (SessionInv /\ WayInv) /\ [Next]_vars => (SessionInv /\ WayInv)'
  BY SessionNext, WayNext
<1> QED BY <1>1, <1>2, WayIsFirst, PTL DEF Spec

=============================================================================
