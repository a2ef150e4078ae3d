-------------------------- MODULE GenerationHarness --------------------------
(***************************************************************************)
(* The generation graph with the checks of RubricChecks in the place of    *)
(* its constants: what the validate node finds is what the harness finds   *)
(* of the export, and the render node raises where render_rubric raises.   *)
(* What check_rendered finds and what the judge says is left open.         *)
(***************************************************************************)
EXTENDS GenerationGraph, Sequences, Integers

CONSTANTS Known, CriteriaMin, CriteriaMax, WeightTotal, Scores, Ids, Texts, Blank

Harness == INSTANCE RubricChecks

\* A finding of the harness as the graph tells findings apart.
Told(F) ==
  {[severity |-> "ERROR",
    root |-> IF f.root = "rubric" THEN "rubric" ELSE "selection",
    code |-> IF f.code = "NFR_NOT_COVERED" THEN f.code ELSE "other"] : f \in F}

ASSUME HarnessAssumption ==
  /\ Harness!ChecksAssumption
  /\ checks = [e \in Exports |-> Told(Harness!Findings(e[1], e[2]))]
  /\ Renderable = {e \in Exports : Harness!Renders(e[1], e[2])}

\* The sheet in nfr_rubric.md is whole, and its marks add up, whatever was
\* repaired on the way and whenever the run was interrupted.
DeliveredSheetIsWhole ==
  published # None =>
    /\ Harness!Whole(published[1], published[2])
    /\ Harness!TotalWeight(published[2]) = WeightTotal

\* A run that ends for errors of the selection could not have been saved: the
\* checks find fault with every rubric for it, or the judge with the selection.
GivesUpOnTheHopeless ==
  statusFile # None /\ statusFile.reason = "selection_errors" =>
    \/ \A r \in Rubrics : HasErrors(checks[<<selection, r>>])
    \/ options.judge /\ reports[repairs] # None
         /\ \E f \in reports[repairs] : f.root = "selection"
=============================================================================
