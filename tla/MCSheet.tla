------------------------------- MODULE MCSheet -------------------------------
(***************************************************************************)
(* ScoringSheet for TLC: the drafts of MCRubricChecks, and texts of up to  *)
(* five characters.                                                        *)
(***************************************************************************)
EXTENDS ScoringSheet, MCRubricChecks
=============================================================================
