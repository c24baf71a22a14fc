-------------------------------- MODULE Forms --------------------------------
(***************************************************************************)
(* The form engine: a form's rules compiled to an evaluation order, the    *)
(* resolution of its answers, its incremental twin that the device keeps   *)
(* up to date answer by answer, and the validation that both sides run     *)
(* (packages/fess_pos_engine/lib/src/forms, packages/fess_pos_engine_ts).  *)
(*                                                                         *)
(* A field is named by its place in document order.  A rule reads one      *)
(* answer: "filled" asks whether it has one (not_empty), "dated" compares  *)
(* it as a date and fails on what is not one (date_diff), and the value    *)
(* rule "shifted" computes a date from it and fails likewise (date_add).   *)
(* A field's containers are its section's rule; a group's rule joins them  *)
(* in the same way.  What an answer is made of, options, prefilled and     *)
(* repeatable fields are left out.                                         *)
(***************************************************************************)
EXTENDS Naturals, Sequences, FiniteSetsExt

Null   == "null"    \* visible, not answered
Hidden == "hidden"  \* not among the values rules read

Always   == [op |-> "always", key |-> 0]  \* the property is not given
Filled(k)  == [op |-> "filled", key |-> k]
Dated(k)   == [op |-> "dated", key |-> k]
Shifted(k) == [op |-> "shifted", key |-> k]
Entered  == [op |-> "entered", key |-> 0] \* no value rule: the agent answers

\* What may be a form: the property rules are `always`, `filled` or `dated`,
\* value rules `entered` or `shifted`, each over a field of the form.
Conditions(keys) == {Always} \cup {Filled(k) : k \in keys} \cup {Dated(k) : k \in keys}
IsForm(form) ==
  /\ form.sections \in Seq(Conditions(DOMAIN form.fields))
  /\ form.fields \in
       Seq([section: DOMAIN form.sections, type: {"text", "date", "declaration"},
            visible: Conditions(DOMAIN form.fields), required: Conditions(DOMAIN form.fields),
            value: {Entered} \cup {Shifted(k) : k \in DOMAIN form.fields}])

Keys(form) == DOMAIN form.fields
SectionOf(form, k) == form.fields[k].section
Computed(form, k) == form.fields[k].value # Entered
Declares(form, k) == form.fields[k].type = "declaration"

-----------------------------------------------------------------------------
(* Rules.                                                                  *)

\* Whether evaluating the rule fails on what it reads.
Fails(rule, values) ==
  rule.op \in {"dated", "shifted"} /\ values[rule.key] = "text"

\* A boolean property: an error counts as onError, no answer as false.
Holds(rule, values, onError) ==
  \/ rule.op = "always"
  \/ rule.op = "filled" /\ values[rule.key] \notin {Null, Hidden}
  \/ rule.op = "dated" /\ values[rule.key] = "date"
  \/ onError /\ Fails(rule, values)

\* What a value rule gives: an error or a missing date is null.
Given(rule, values) ==
  IF values[rule.key] = "date" THEN "date" ELSE Null

-----------------------------------------------------------------------------
(* Compilation.                                                            *)

\* The visibility of the section and of the field itself.
VisibleRules(form, k) ==
  {form.sections[SectionOf(form, k)], form.fields[k].visible}

Reads(rules) == {rule.key : rule \in rules} \ {0}

HardDepsOwn(form, k) ==
  Reads({form.fields[k].visible, form.fields[k].value})
\* What a field's visibility and value depend on.
HardDeps(form, k) ==
  Reads(VisibleRules(form, k) \cup {form.fields[k].value})

SoftDeps(form, k) == Reads({form.fields[k].required})
SectionDeps(form, s) == Reads({form.sections[s]})

OrderByDocument(form) == [k \in Keys(form) |-> k]
\* The first field in document order whose dependencies all have a place,
\* again and again; a cycle leaves the order short.
PlaceNext(form, before) ==
  LET ready == {k \in Keys(form) \ Range(before) :
                  HardDeps(form, k) \subseteq Range(before)}
  IN IF ready = {} THEN before ELSE Append(before, Min(ready))

Placed(form) ==
  LET placed[n \in 0 .. Len(form.fields)] ==
        IF n = 0 THEN <<>> ELSE PlaceNext(form, placed[n - 1])
  IN placed
Order(form) == Placed(form)[Len(form.fields)]

Compiles(form) == Len(Order(form)) = Len(form.fields)

-----------------------------------------------------------------------------
(* Resolution.  values, visible and trouble are what rules read and what   *)
(* phase 1 keeps; fields and sections are what phase 2 makes of them.      *)

Unresolved(form) ==
  [values |-> [k \in Keys(form) |-> Hidden], visible |-> {}, trouble |-> {},
   fields |-> [k \in Keys(form) |->
                 [visible |-> FALSE, value |-> Null, required |-> FALSE,
                  trouble |-> FALSE]],
   sections |-> {}, sectionTrouble |-> {}]

\* Phase 1: the field's visibility and effective value.
EvaluateValue(form, raw, res, k) ==
  LET rules == VisibleRules(form, k)
      rule == form.fields[k].value
      shown == \A r \in rules : Holds(r, res.values, TRUE)
      failing == \/ \E r \in rules : Fails(r, res.values)
                 \/ shown /\ Fails(rule, res.values)
      value == CASE ~shown -> Hidden
                 [] shown /\ Computed(form, k) -> Given(rule, res.values)
                 [] OTHER -> raw[k]
  IN [res EXCEPT !.values[k] = value,
                 !.visible = IF shown THEN @ \cup {k} ELSE @ \ {k},
                 !.trouble = IF failing THEN @ \cup {k} ELSE @ \ {k}]

\* Phase 2: what reads the final values.
ResolveField(form, res, k) ==
  LET required == form.fields[k].required
      shown == k \in res.visible
  IN [visible |-> shown,
      value |-> IF shown THEN res.values[k] ELSE Null,
      required |-> shown /\ Holds(required, res.values, FALSE),
      trouble |-> shown /\ Fails(required, res.values)]

SectionHolds(form, res, s) == Holds(form.sections[s], res.values, TRUE)
SectionFails(form, res, s) == Fails(form.sections[s], res.values)

\* What phase 1 has after each field of the order.
Evaluated(form, raw) ==
  LET order == Order(form)
      after[n \in 0 .. Len(order)] ==
        IF n = 0 THEN Unresolved(form) ELSE EvaluateValue(form, raw, after[n - 1], order[n])
  IN after

RunAll(form, raw) ==
  LET res == Evaluated(form, raw)[Len(Order(form))]
  IN [res EXCEPT
       !.fields = [k \in Keys(form) |-> ResolveField(form, res, k)],
       !.sections = {s \in DOMAIN form.sections : SectionHolds(form, res, s)},
       !.sectionTrouble = {s \in DOMAIN form.sections : SectionFails(form, res, s)}]

\* After the answer to `changed` changed: what reads it, directly or
\* through what moved on the way.
Moved(before, after, k) ==
  \/ (k \in before.visible) # (k \in after.visible)
  \/ before.values[k] # after.values[k]

UpdateValue(form, raw, acc, changed, k) ==
  IF k = changed \/ HardDeps(form, k) \cap acc.moved # {}
  THEN LET after == EvaluateValue(form, raw, acc.res, k)
       IN [res |-> after,
           moved |-> IF Moved(acc.res, after, k) THEN acc.moved \cup {k} ELSE acc.moved]
  ELSE acc

Updated(form, raw, res, changed) ==
  LET order == Order(form)
      after[n \in 0 .. Len(order)] ==
        IF n = 0 THEN [res |-> res, moved |-> {changed}]
        ELSE UpdateValue(form, raw, after[n - 1], changed, order[n])
  IN after

Update(form, raw, res, changed) ==
  LET valued == Updated(form, raw, res, changed)[Len(Order(form))]
      again == {k \in Keys(form) :
                  k \in valued.moved \/ SoftDeps(form, k) \cap valued.moved # {}}
      read == {s \in DOMAIN form.sections : SectionDeps(form, s) \cap valued.moved # {}}
  IN [again |-> again,
      res |-> [valued.res EXCEPT
        !.fields = [k \in Keys(form) |->
          IF k \in again THEN ResolveField(form, valued.res, k) ELSE res.fields[k]],
        !.sections = (res.sections \ read)
          \cup {s \in read : SectionHolds(form, valued.res, s)},
        !.sectionTrouble = (res.sectionTrouble \ read)
          \cup {s \in read : SectionFails(form, valued.res, s)}]]

-----------------------------------------------------------------------------
(* Validation.  An answers map has an entry, or Null, for each field.      *)

CheckField(form, res, answers, k) ==
  LET field == res.fields[k]
      entry == answers[k]
  IN CASE ~field.visible ->
            IF entry # Null THEN {"HIDDEN_FIELD_PRESENT"} ELSE {}
       [] field.visible /\ Computed(form, k) ->
            IF entry # field.value THEN {"COMPUTED_MISMATCH"} ELSE {}
       [] OTHER ->
            IF entry = Null /\ field.required THEN {"REQUIRED"} ELSE {}

\* The fields and the sections with a problem: a failed check, or a rule
\* that failed, unless it is a rule of a field that is not shown.
Problems(form, res, errors) ==
  [fields |-> {k \in Keys(form) :
     \/ errors[k] # {}
     \/ res.fields[k].visible /\ (k \in res.trouble \/ res.fields[k].trouble)},
   sections |-> res.sectionTrouble]

ValidateAnswers(form, answers) ==
  LET res == RunAll(form, answers)
  IN [res |-> res,
      problems |-> Problems(form, res,
        [k \in Keys(form) |-> CheckField(form, res, answers, k)])]

-----------------------------------------------------------------------------
(* A session: the raw answers, hidden ones too, what they resolve to, and  *)
(* the entries and problems of each field as it was last checked.          *)

\* What is sent for a field.
EntryFor(form, raw, res, k) ==
  CASE ~res.fields[k].visible -> Null
    [] res.fields[k].visible /\ Computed(form, k) -> res.fields[k].value
    [] OTHER -> raw[k]

Check(form, session, keys) ==
  LET entries == [k \in Keys(form) |->
        IF k \in keys THEN EntryFor(form, session.raw, session.res, k)
        ELSE session.entries[k]]
  IN [session EXCEPT
       !.entries = entries,
       !.errors = [k \in Keys(form) |->
         IF k \in keys THEN CheckField(form, session.res, entries, k)
         ELSE @[k]]]

FormSession(form, raw) ==
  Check(form,
        [raw |-> raw, res |-> RunAll(form, raw),
         entries |-> [k \in Keys(form) |-> Null],
         errors |-> [k \in Keys(form) |-> {}]],
        Keys(form))

SetValue(form, session, k, value) ==
  LET raw == [session.raw EXCEPT ![k] = value]
      updated == Update(form, raw, session.res, k)
  IN Check(form, [session EXCEPT !.raw = raw, !.res = updated.res],
           updated.again \cup {k})

SessionProblems(form, session) == Problems(form, session.res, session.errors)

=============================================================================
