-------------------------- MODULE MCGenerationHarness --------------------------
(***************************************************************************)
(* GenerationHarness with two NFRs at most and rubrics of one or two       *)
(* criteria.  TLC evaluates GraphAssumption and HarnessAssumption on them  *)
(* when the run begins.  A rubric with a text that does not come back      *)
(* from the markdown (SheetText) is one check_rendered has findings for.   *)
(***************************************************************************)
EXTENDS GenerationHarness

NFR(id) == [id |-> id, complete |-> TRUE, evidence |-> {"d"}]

Selected(nfrs) == [nfrs |-> nfrs, tradeoffs |-> <<>>]

MCTooFew == {Selected(<<NFR("a")>>)}

MCSelections == MCTooFew \cup {
  Selected(<<NFR("a"), NFR("b")>>), Selected(<<NFR("a"), NFR("a")>>),
  Selected(<<NFR("a"), [NFR("b") EXCEPT !.evidence = {}]>>)}

Worded(id, related, weight, text) ==
  [id |-> id, related |-> related, weight |-> weight,
   levels |-> <<[score |-> 0, text |-> "no"], [score |-> 1, text |-> text]>>]

Criterion(id, related, weight) == Worded(id, related, weight, "yes")

Garbled == <<Criterion("c", <<"a">>, 1), Worded("e", <<"b">>, 1, "a <br> of its own")>>

MCRubrics == {Garbled} \cup {
  <<Criterion("c", <<"a">>, 1), Criterion("e", <<"b">>, 1)>>,
  <<Criterion("c", <<"a">>, 1), Criterion("e", <<"a">>, 1)>>,
  <<Criterion("c", <<"a">>, 1), Criterion("e", <<"x">>, 1)>>,
  <<Criterion("c", <<"a">>, 1), Criterion("e", <<"b">>, 2)>>,
  <<Criterion("c", <<>>, 2)>>}

MCChecks == [e \in MCSelections \X MCRubrics |-> Told(Harness!Findings(e[1], e[2]))]

MCRenderable == {e \in MCSelections \X MCRubrics : Harness!Renders(e[1], e[2])}

Finding(severity, root) == [severity |-> severity, root |-> root, code |-> "other"]

RubricError == Finding("ERROR", "rubric")
SelectionError == Finding("ERROR", "selection")

MCMismatches ==
  [e \in MCSelections \X MCRubrics |->
     IF e[2] = Garbled THEN {RubricError, SelectionError} ELSE {}]

MCReports == {{}, {Finding("WARN", "rubric")}, {RubricError}, {SelectionError},
              {RubricError, SelectionError}}
=============================================================================
