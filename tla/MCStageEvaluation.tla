-------------------------- MODULE MCStageEvaluation --------------------------
(* StageEvaluation with two processes, two stages and three commands.      *)
EXTENDS StageEvaluation, TLC

CONSTANTS research, keep

TwoStages == {research, keep}
TwoOrder == <<research, keep>>

\* The processes are alike, and so are the texts.
Symmetry == Permutations(Processes) \cup Permutations(Texts)
=============================================================================
