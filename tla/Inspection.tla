------------------------------ MODULE Inspection ------------------------------
(***************************************************************************)
(* An inspection being filled in (features/inspections/                    *)
(* inspection_page.dart): the session of its form, the agent's way through *)
(* its flow, the draft that survives the app, and the submission.          *)
(*                                                                         *)
(* A move between pages writes the draft at once: a process that dies      *)
(* before the write is one that dies before the move.  Typing is written a *)
(* moment later, so the answers to at most one field are not in the draft  *)
(* yet.  Acknowledgements, declaration versions, the fence that pauses the *)
(* page and the dialog before the submission are left out.                 *)
(***************************************************************************)
EXTENDS Flows

CONSTANTS
  Worlds,   \* the forms, and the flows over them, with the section's pages
  MaxPath   \* bound on the pages the agent went through

\* The gate lets through what compiles, and flows that it accepts.
ASSUME InspectionAssumption ==
  /\ MaxPath \in Nat
  /\ \A w \in Worlds :
       /\ IsForm(w.form) /\ Compiles(w.form)
       /\ IsFlow(w.flow, w.form) /\ Accepted(w.flow, w.form)

VARIABLES
  world,    \* the form and flow that the inspection is pinned to
  session,  \* the form session on screen
  path,     \* the pages gone through; the last one is on screen
  located,  \* the location check has passed
  draft,    \* what the phone keeps: raw answers, path, place among the pages
  sent      \* the answers submitted, <<>> before

vars == <<world, session, path, located, draft, sent>>

form == world.form
flow == world.flow

\* Only a text field takes what is not a date.
Raw(k) == {Null, "date"} \cup
          (IF form.fields[k].type = "text" THEN {"text"} ELSE {})

-----------------------------------------------------------------------------
(* What the flow reads, and what a page asks.                              *)

HasDeclarationStep == StepsOf(flow, "declaration") # {}

\* A declaration has a step of its own.
OnFormPages(k) == ~(HasDeclarationStep /\ Declares(form, k))

SectionShown(res, s) ==
  /\ s \in res.sections
  /\ \E k \in Keys(form) :
       SectionOf(form, k) = s /\ res.fields[k].visible /\ OnFormPages(k)

FlowData(s, passed) ==
  [values |-> s.res.values, located |-> passed,
   sections |-> {x \in DOMAIN form.sections : SectionShown(s.res, x)}]

data == FlowData(session, located)

KeysOfSections(at) ==
  IF flow[at[1]].type # "form" THEN {}
  ELSE {k \in Keys(form) : SectionOf(form, k) \in SectionsAt(flow, at)
                           /\ OnFormPages(k)}
\* The fields that the page at `at` shows.
KeysAt(at) ==
  CASE flow[at[1]].type = "form" ->
         {k \in Keys(form) : SectionOf(form, k) \in SectionsAt(flow, at)
                             /\ OnFormPages(k)}
    [] flow[at[1]].type = "declaration" -> {k \in Keys(form) : Declares(form, k)}
    [] OTHER -> {}

\* The place of page `at` among the pages shown: that of the first one not
\* before it, or else the last place.
Earlier(pages, at) == {to \in pages : Before(to, at)}
Progress(s, passed, at) ==
  LET shown == Shown(flow, FlowData(s, passed))
      place == Cardinality(Earlier(shown, at))
  IN IF place < Cardinality(shown) THEN place + 1 ELSE place
AtPlace(pages, n) == CHOOSE at \in pages : Cardinality(Earlier(pages, at)) = n - 1

Drafted(s, passed, way) ==
  [raw |-> s.raw, path |-> way, step |-> Progress(s, passed, way[Len(way)])]

\* The way without the pages that are not among `pages`.
Along(way, pages) ==
  LET kept[n \in 0 .. Len(way)] ==
        IF n = 0 THEN <<>>
        ELSE IF way[n] \in pages THEN Append(kept[n - 1], way[n]) ELSE kept[n - 1]
  IN kept[Len(way)]

\* Where a reopened inspection continues.
Resumed(d, s, passed) ==
  LET shown == Shown(flow, FlowData(s, passed))
      kept == Along(d.path, shown)
  IN CASE kept # <<>> -> kept
       [] kept = <<>> /\ shown = {} -> <<>>
       [] OTHER -> <<AtPlace(shown, Min({d.step, Cardinality(shown)}))>>

Open == sent = <<>> /\ path # <<>>
At == path[Len(path)]
AtType == flow[At[1]].type
Found == SessionProblems(form, session)

Go(way) ==
  /\ Len(way) <= MaxPath
  /\ path' = way
  /\ draft' = Drafted(session, located', way)

-----------------------------------------------------------------------------
Init ==
  /\ world \in Worlds
  /\ located = FALSE
  /\ session = FormSession(form, [k \in Keys(form) |-> Null])
  /\ draft = [raw |-> session.raw, path |-> <<>>, step |-> 1]
  /\ path = Resumed(draft, session, FALSE)
  /\ sent = <<>>

\* An answer on the page is given, changed or cleared.
Answer(k, value) ==
  /\ Open
  /\ k \in KeysAt(At)
  /\ session.res.fields[k].visible /\ ~Computed(form, k)
  /\ session.raw[k] # value
  /\ \A j \in Keys(form) \ {k} : draft.raw[j] = session.raw[j]
  /\ session' = SetValue(form, session, k, value)
  /\ UNCHANGED <<world, path, located, draft, sent>>

\* The typing stopped a moment ago, or the app leaves the screen.
Save ==
  /\ Open
  /\ draft # Drafted(session, located, path)
  /\ draft' = Drafted(session, located, path)
  /\ UNCHANGED <<world, session, path, located, sent>>

\* Next, when the page has no problem and is not a check still to pass.
Next_ ==
  /\ Open
  /\ AtType # "submit" /\ (AtType = "location_check" => located)
  /\ KeysAt(At) \cap Found.fields = {}
  /\ NextFrom(flow, data, At) # <<>>
  /\ UNCHANGED <<world, session, located, sent>>
  /\ Go(path \o NextFrom(flow, data, At))

\* Back along the way, over the pages no longer shown; else to the page
\* shown before this one.
Back ==
  LET seen == {n \in 1 .. Len(path) - 1 : Shows(flow, data, path[n])}
      before == Earlier(Shown(flow, data), At)
  IN /\ Open
     /\ seen # {} \/ before # {}
     /\ UNCHANGED <<world, session, located, sent>>
     /\ Go(IF seen # {} THEN SubSeq(path, 1, Max(seen)) ELSE <<Final(before)>>)

\* From the review, back to the first page that shows a section.
JumpTo(s) ==
  LET pages == {at \in Shown(flow, data) :
                  flow[at[1]].type = "form" /\ s \in SectionsAt(flow, at)}
  IN /\ Open
     /\ AtType = "summary_review"
     /\ pages # {}
     /\ UNCHANGED <<world, session, located, sent>>
     /\ Go(Append(path, First(pages)))

\* The check passes: on to what is shown after its step.
LocationDone ==
  /\ Open
  /\ AtType = "location_check" /\ ~located
  /\ located' = TRUE
  /\ UNCHANGED <<world, session, sent>>
  /\ LET to == FirstFrom(flow, FlowData(session, TRUE), At[1] + 1)
     IN Go(IF to = <<>> THEN path ELSE to)

\* Refused while there is a problem, and on to a page that shows one.
Submit ==
  LET bad == {at \in Shown(flow, data) : KeysAt(at) \cap Found.fields # {}}
  IN /\ Open
     /\ AtType = "submit"
     /\ IF Found.fields # {} \/ Found.sections # {}
        THEN /\ Len(path) < MaxPath
             /\ bad # {}
             /\ path' = Append(path, First(bad))
             /\ UNCHANGED <<draft, sent>>
        ELSE /\ draft' = Drafted(session, located, path)
             /\ sent' = session.entries
             /\ UNCHANGED path
     /\ UNCHANGED <<world, session, located>>

\* The process ends and the inspection is opened again from its draft; the
\* check may have passed without the page having moved on.
Reopen ==
  /\ Open
  /\ located' \in {located, AtType = "location_check" \/ located}
  /\ session' = FormSession(form, draft.raw)
  /\ path' = Resumed(draft, session', located')
  /\ UNCHANGED <<world, draft, sent>>

Next ==
  \/ \E k \in Keys(form) : \E value \in Raw(k) : Answer(k, value)
  \/ Save
  \/ Next_
  \/ Back
  \/ \E s \in DOMAIN form.sections : JumpTo(s)
  \/ LocationDone
  \/ Submit
  \/ Reopen

Spec == Init /\ [][Next]_vars

-----------------------------------------------------------------------------
(* Properties.                                                             *)

\* The order of evaluation is right: each field was shown or hidden, and
\* computed, by rules that read the values as they ended up
\* (resolver.ts:172, whatever order the fields have in the document).
RulesSeeFinalValues ==
  \A k \in Keys(form) :
    LET values == session.res.values
        shown == \A r \in VisibleRules(form, k) : Holds(r, values, TRUE)
    IN values[k] = CASE ~shown -> Hidden
                     [] shown /\ Computed(form, k) -> Given(form.fields[k].value, values)
                     [] OTHER -> session.raw[k]

\* After any sequence of answers the session is what resolving and
\* validating the whole form with the answers as they would be sent gives:
\* nothing is left stale by re-evaluating only what reads a change, and an
\* answer under a hidden field has no effect (session.dart:1).  So the
\* server finds no problem in what the phone lets through.
SessionAsWhole ==
  LET whole == ValidateAnswers(form, session.entries)
  IN /\ Found = whole.problems
     /\ session.res.fields = whole.res.fields
     /\ session.res.values = whole.res.values

\* No `next` before the check leads past it, and the review, from where any
\* section is a jump away, comes after it.
Plain ==
  \A i \in StepsOf(flow, "location_check") :
    /\ \A j \in 1 .. i - 1 : Targets(flow[j]) \subseteq 1 .. i
    /\ \A j \in StepsOf(flow, "summary_review") : i < j

\* An inspection is submitted only after its location check has passed,
\* whatever the branches, the hidden steps, the way back, the jumps and the
\* restarts (analyser.ts:601, flow_runner.dart:122).
LocationFirst == Plain /\ sent # <<>> => located

\* When the submission is refused for the answer to a field, a page that
\* is shown asks for that field (inspection_page.dart:618), in a flow that
\* hides no form step and no declaration by a rule.
RefusalHasAPage ==
  /\ Open
  /\ \A i \in DOMAIN flow : flow[i].type \in {"form", "declaration"} =>
       flow[i].visible = Always
  => \A k \in Found.fields :
       \E at \in Shown(flow, data) : k \in KeysAt(at)

=============================================================================
