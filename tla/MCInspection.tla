----------------------------- MODULE MCInspection -----------------------------
(* Small instances of Inspection for TLC: many forms over a plain flow, and *)
(* many flows that the gate accepts over a plain form.                      *)
EXTENDS Inspection

Field(section, type, visible, value, required) ==
  [section |-> section, type |-> type, visible |-> visible, value |-> value,
   required |-> required]

Declaration(section) == Field(section, "declaration", Always, Entered, Always)

\* Three fields in two sections, with rules that read either way.
MCForms ==
  {f \in
    {[sections |-> <<Always, s>>,
      fields |-> <<Field(1, "text", v1, c1, Always),
                   Field(1, "text", v2, c2, r2),
                   Field(2, "date", v3, c3, r3),
                   Declaration(2)>>] :
      s \in {Always, Dated(1)},
      v1 \in {Always, Filled(3)}, c1 \in {Entered, Shifted(2)},
      v2 \in {Always, Filled(1), Dated(3)}, c2 \in {Entered, Shifted(3)},
      r2 \in {Always, Dated(1)},
      v3 \in {Always, Dated(2), Filled(1)}, c3 \in {Entered, Shifted(1)},
      r3 \in {Filled(1), Filled(2)}} : Compiles(f)}

Step(type, sections, visible, next) ==
  [type |-> type, sections |-> sections, paged |-> TRUE, visible |-> visible,
   next |-> next]

MCFlow == <<Step("location_check", <<>>, Always, Follow),
            Step("form", <<1, 2>>, Always, Follow),
            Step("declaration", <<>>, Always, Follow),
            Step("submit", <<>>, Always, Follow)>>

MCForm == [sections |-> <<Always, Dated(1)>>,
           fields |-> <<Field(1, "text", Always, Entered, Always),
                        Field(2, "date", Filled(1), Shifted(1), Always),
                        Declaration(1)>>]

\* The steps in every order with the submission last; at most one has a
\* `next`, and at most one, which the branch leaves or meets, is hidden.
Types == {"location_check", "form", "summary_review", "declaration"}
Arrangements ==
  {Append(t, "submit") : t \in {t \in [1 .. 4 -> Types] : Range(t) = Types}}

Arranged(t, hidden, branch, next) ==
  [i \in 1 .. 5 |->
    Step(t[i], IF t[i] = "form" THEN <<1, 2>> ELSE <<>>,
         IF i = hidden THEN Dated(1) ELSE Always,
         IF i = branch THEN next ELSE Follow)]

MCFlows ==
  {f \in
    {Arranged(t, hidden, 0, Follow) : t \in Arrangements, hidden \in 0 .. 4}
    \cup
    UNION {{Arranged(t, 0, branch, If(Dated(1), to, 0)) : t \in Arrangements}
           \cup {Arranged(t, hidden, branch, GoTo(to)) :
                    t \in Arrangements, hidden \in {0, to}} :
             branch \in 1 .. 4, to \in 1 .. 5} : Accepted(f, MCForm)}

MCWorlds == {[form |-> f, flow |-> MCFlow] : f \in MCForms}
       \cup {[form |-> MCForm, flow |-> f] : f \in MCFlows}

=============================================================================
