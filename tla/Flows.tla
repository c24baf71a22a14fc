-------------------------------- MODULE Flows --------------------------------
(***************************************************************************)
(* Flows: the steps that lead an agent through a form.  The first part is  *)
(* the runner on the device (domain/flows/flow_runner.dart), the second    *)
(* what the publish gate demands of a flow (analyser.ts).                  *)
(*                                                                         *)
(* data is what a flow reads while it runs: the answers that rules see,    *)
(* the sections with something to show, and whether the location check has *)
(* passed.  A step's `next` is the record of its rule and two targets, 0   *)
(* for null: a literal target is both targets of a rule that always holds. *)
(* Branches to other flows and to app pages, and dynamic targets, are left *)
(* out; the receipt, which has no page, too.                               *)
(***************************************************************************)
EXTENDS Forms

StepType == {"form", "summary_review", "location_check", "declaration", "submit"}
\* What may be a flow: the sections and the rules are those of the form, and
\* a target is a step.
IsFlow(flow, form) ==
  flow \in Seq([type: StepType, sections: Seq(DOMAIN form.sections), paged: BOOLEAN,
                visible: Conditions(Keys(form)),
                next: [rule: Conditions(Keys(form)),
                       then: 0 .. Len(flow), other: 0 .. Len(flow)]])

Follow == [rule |-> Always, then |-> 0, other |-> 0]   \* no `next`
GoTo(i) == [rule |-> Always, then |-> i, other |-> i]
If(rule, i, j) == [rule |-> rule, then |-> i, other |-> j]

-----------------------------------------------------------------------------
(* The runner.                                                             *)

Pages(step) ==
  IF step.type = "form" /\ step.paged THEN Len(step.sections) ELSE 1

\* The sections of the page, by the place of its step and its own.
SectionsAt(flow, at) ==
  LET step == flow[at[1]]
  IN IF step.type = "form" /\ step.paged THEN {step.sections[at[2]]}
     ELSE Range(step.sections)

ShowsByRule(flow, data, at) ==
  LET step == flow[at[1]]
  IN /\ Holds(step.visible, data.values, TRUE)
     /\ step.type # "location_check" \/ ~data.located
     /\ \/ step.type # "form"
        \/ SectionsAt(flow, at) \cap data.sections # {}
\* Whether the page is shown now: the location check until it has passed,
\* whatever its rule; a form page while one of its sections is.
Shows(flow, data, at) ==
  LET step == flow[at[1]]
  IN IF step.type = "location_check" THEN ~data.located
     ELSE /\ Holds(step.visible, data.values, TRUE)
          /\ \/ step.type # "form"
             \/ SectionsAt(flow, at) \cap data.sections # {}

Before(at, to) == at[1] < to[1] \/ (at[1] = to[1] /\ at[2] < to[2])

\* Every position shown now; their document order is Before.
Positions(flow) == UNION {{<<i, p>> : p \in 1 .. Pages(flow[i])} : i \in DOMAIN flow}
Shown(flow, data) == {at \in Positions(flow) : Shows(flow, data, at)}

First(pages) == CHOOSE at \in pages : \A to \in pages \ {at} : Before(at, to)
Final(pages) == CHOOSE at \in pages : \A to \in pages \ {at} : Before(to, at)
\* As a path: the first of the pages, or nothing.
Start(pages) == IF pages = {} THEN <<>> ELSE <<First(pages)>>

\* As a path: the first position shown at or after step i.
FirstFrom(flow, data, i) == Start({at \in Shown(flow, data) : at[1] >= i})

\* Where a `next` leads; 0, as when its rule fails, to the step after.
Target(step, data) ==
  CASE Fails(step.next.rule, data.values) -> 0
    [] Holds(step.next.rule, data.values, FALSE) -> step.next.then
    [] OTHER -> step.next.other

\* As a path: the step's next page shown, else its target, else what is
\* shown after it.
NextFrom(flow, data, at) ==
  LET own == {to \in Shown(flow, data) : to[1] = at[1] /\ Before(at, to)}
      target == Target(flow[at[1]], data)
  IN IF own # {} THEN Start(own)
     ELSE FirstFrom(flow, data, IF target = 0 THEN at[1] + 1 ELSE target)

-----------------------------------------------------------------------------
(* The publish gate.                                                       *)

Targets(step) == {step.next.then, step.next.other} \ {0}

\* A step without `next`, or whose conditional `next` has no else.
FallsThrough(step) == step.next.other = 0

Edges(flow, i) ==
  Targets(flow[i]) \cup
    (IF FallsThrough(flow[i]) /\ i < Len(flow) THEN {i + 1} ELSE {})

\* The steps that can be reached from the first one without `removed`.
Reach(flow, removed) ==
  LET after[n \in Nat] ==
        IF n = 0 THEN {1} \ removed
        ELSE after[n - 1] \cup
               (UNION {Edges(flow, i) : i \in after[n - 1]} \ removed)
  IN after[Len(flow)]

StepsOf(flow, type) == {i \in DOMAIN flow : flow[i].type = type}

\* What analyseFlowBody raises no error for.
Accepted(flow, form) ==
  LET submits == StepsOf(flow, "submit")
      covered == UNION {Range(flow[i].sections) : i \in StepsOf(flow, "form")}
  IN /\ Reach(flow, {}) = DOMAIN flow
     /\ Cardinality(submits) = 1
     /\ \A type \in {"location_check", "declaration"} :
          LET at == StepsOf(flow, type)
          IN /\ Cardinality(at) = 1
             /\ \A i \in at, s \in submits : i < s
             /\ Reach(flow, at) \cap submits = {}
     /\ covered = DOMAIN form.sections
     /\ Cardinality({k \in Keys(form) : Declares(form, k)}) = 1
     /\ \A i \in StepsOf(flow, "form"), s \in submits : i < s

=============================================================================
