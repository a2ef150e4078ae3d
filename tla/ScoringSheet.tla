----------------------------- MODULE ScoringSheet -----------------------------
(***************************************************************************)
(* The two things the run does to a draft on its own: the checks of the    *)
(* harness, and the writing and re-reading of its texts.  They share no    *)
(* state: a behavior is one of either, as part says.  A text is written    *)
(* character by character, and read back after each.                       *)
(***************************************************************************)
EXTENDS RubricChecks, SheetText

CONSTANT MaxLength   \* bound on the length of a text

ASSUME TextAssumption == MaxLength \in Nat

VARIABLES
  part,   \* "checks" or "text"
  text    \* a descriptor or a description, as far as it is written

sheetVars == <<part, vars, text>>

\* While texts are written the draft is a fixed one.
SheetInit ==
  /\ Init /\ part \in {"checks", "text"} /\ text = <<>>
  /\ part = "text" =>
       <<selection, rubric>> = CHOOSE d \in Selections \X Rubrics : TRUE

CheckStep == part = "checks" /\ Next /\ UNCHANGED <<part, text>>

\* The author's text grows by a character.
Write(c) ==
  /\ part = "text" /\ Len(text) < MaxLength
  /\ text' = Append(text, c)
  /\ UNCHANGED <<part, vars>>

Written == part = "text" /\ Len(text) = MaxLength /\ UNCHANGED sheetVars

SheetNext == CheckStep \/ (\E c \in Characters : Write(c)) \/ Written

SheetSpec == SheetInit /\ [][SheetNext]_sheetVars

-----------------------------------------------------------------------------
(* Properties                                                              *)

TextTypeOK == text \in Seq(Characters) /\ Len(text) <= MaxLength

\* No descriptor breaks the table it is written in, and every text but those
\* of the kinds named in SheetText is read back as it was and disturbs nothing
\* around it: post_render.py finds nothing to complain of because of it.
TextComesBack ==
  TextTypeOK /\ DescriptorComesBack(text) /\ DescriptionComesBack(text)
=============================================================================
