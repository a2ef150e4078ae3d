------------------------------ MODULE SheetText ------------------------------
(***************************************************************************)
(* How a text gets into the scoring sheet and is read back from it         *)
(* (render/renderer.py with nfr_rubric.md.j2, render/post_render.py): the  *)
(* cells of its tables, and the block of a description.  A text that does  *)
(* not come back as it went in fails the run, and no repair is tried.      *)
(*                                                                         *)
(* A text is a sequence of characters, of which those that mean something  *)
(* to the sheet are told apart. What its reader looks for counts as one:   *)
(* "<br>"; the "###" and "##" that begin a heading, with their blank, but  *)
(* for the line "## NFR", which is passed over; the "label" of a           *)
(* description; the "header" of a table of levels, two lines without the   *)
(* last newline; the "boxes" that end the rows of the summary. "break" is  *)
(* any line break of str.splitlines but the newline, a "\r\n" being one.   *)
(* What the sheet makes of a text is computed.                             *)
(***************************************************************************)
EXTENDS Integers, Sequences, FiniteSets, SequencesExt

Characters ==
  {"a", "|", "\\", "space", "newline", "break", "<br>", "##", "###", "label", "header", "boxes"}

LineBreaks == {"newline", "break"}
Blanks == {"space"} \cup LineBreaks

-----------------------------------------------------------------------------
(* Python's strip, splitlines, join and replace.                           *)

\* What is left of s without characters of S at its ends.
Trim(s, S) ==
  LET kept == {i \in 1..Len(s) : s[i] \notin S}
  IN IF kept = {} THEN <<>>
     ELSE SubSeq(s, CHOOSE i \in kept : \A j \in kept : i <= j,
                    CHOOSE i \in kept : \A j \in kept : j <= i)

Strip(s) == Trim(s, Blanks)

\* The lines of s joined again by this character: the last break is dropped.
JoinLines(s, by) ==
  LET t == IF s # <<>> /\ Last(s) \in LineBreaks THEN Front(s) ELSE s
  IN [i \in DOMAIN t |-> IF t[i] \in LineBreaks THEN by ELSE t[i]]

-----------------------------------------------------------------------------
(* Rendering.                                                              *)

Escape(c) == IF c = "|" THEN <<"\\", "|">> ELSE <<c>>

EscapeBars(s) == FlattenSeq([i \in DOMAIN s |-> Escape(s[i])])

Cell(s) == JoinLines(EscapeBars(s), "<br>")

\* A row of the table of levels: the score and the descriptor.
Row(s) == <<"|", "space", "a", "space", "|", "space">> \o Cell(s) \o <<"space", "|">>

\* A criterion, from its heading on: the description stands below its label
\* and a blank line above the table.  The bar stands for the levels.
SectionOf(s) ==
  <<"newline", "###", "a", "newline", "newline", "label", "newline">> \o s
    \o <<"newline", "newline", "header", "newline", "|">>

-----------------------------------------------------------------------------
(* Reading back.                                                           *)

Inner(row) ==
  LET r == Strip(row)
      s == IF r # <<>> /\ Head(r) = "|" THEN Tail(r) ELSE r
  IN IF s # <<>> /\ Last(s) = "|" THEN Front(s) ELSE s

\* The n-th of a set of numbers in order.
Nth(S, n) == CHOOSE i \in S : Cardinality({j \in S : j < i}) = n - 1

\* Where the cells are parted: at a bar that no backslash comes before.
Bars(s) == {i \in DOMAIN s : s[i] = "|" /\ (i = 1 \/ s[i - 1] # "\\")}

Parts(s) ==
  LET ends == Bars(s) \cup {0, Len(s) + 1}
  IN [n \in 1..Cardinality(ends) - 1 |->
        SubSeq(s, Nth(ends, n) + 1, Nth(ends, n + 1) - 1)]

\* The backslash goes where a bar follows it, and each <br> is a newline again.
Unescape(s) ==
  LET escapes == {i \in DOMAIN s : s[i] = "\\" /\ i < Len(s) /\ s[i + 1] = "|"}
      kept == DOMAIN s \ escapes
  IN [n \in 1..Cardinality(kept) |->
        IF s[Nth(kept, n)] = "<br>" THEN "newline" ELSE s[Nth(kept, n)]]

Cells(row) ==
  LET parts == Parts(Inner(row))
  IN [n \in DOMAIN parts |-> Unescape(Strip(parts[n]))]

ReadCell(s) == Cells(Row(s))[2]

\* Where the marker of these two characters is.
At(t, a, b) == {i \in 1..Len(t) - 1 : t[i] = a /\ t[i + 1] = b}

\* t.split(marker, 1): all of t and nothing, if the marker is not in it.
Before(t, a, b) == IF At(t, a, b) = {} THEN t ELSE SubSeq(t, 1, Min(At(t, a, b)) - 1)

After(t, a, b) ==
  IF At(t, a, b) = {} THEN <<>> ELSE SubSeq(t, Min(At(t, a, b)) + 2, Len(t))

\* What is read as the section of the criterion: up to the next heading.
Chunk(t) == Before(After(t, "newline", "###"), "newline", "###")

\* Mutant: one line is read.
_block_Line(chunk) ==
  LET b == After(chunk, "label", "newline")
  IN SubSeq(b, 1, Min({i \in DOMAIN b : b[i] = "newline"}) - 1)

\* The lines from the label to the first blank one; none without the label.
_block(chunk) ==
  JoinLines(Before(After(chunk, "label", "newline"), "newline", "newline"), "newline")

LevelsTable(chunk) == Before(After(chunk, "header", "newline"), "newline", "newline")

\* The lines taken for rows of the summary.
SummaryRows(t) ==
  {i \in 1..Len(t) - 2 : /\ t[i] = "boxes" /\ t[i + 1] = "space" /\ t[i + 2] = "|"
                         /\ (i + 2 = Len(t) \/ t[i + 3] \in LineBreaks)}

-----------------------------------------------------------------------------
(* What is asked of a text                                                 *)

\* Whatever a descriptor says, it cannot break the table it is written in:
\* its row is one line, and reads as two cells.
TableIsWhole(s) ==
  /\ \A i \in DOMAIN Row(s) : Row(s)[i] \notin LineBreaks
  /\ Len(Cells(Row(s))) = 2

\* The descriptors that may be misread: those that have a <br> of their own, a
\* break that is no newline or one at an end, or that end like a summary row.
Unlucky(s) ==
  \/ \E i \in DOMAIN s : s[i] \in {"<br>", "break"}
  \/ s # <<>> /\ Last(s) = "boxes"
  \/ LET t == Trim(s, {"space"})
     IN \E i \in {1, Len(t)} : i \in DOMAIN t /\ t[i] \in LineBreaks

\* Every other descriptor comes back as it is compared, bars, backslashes,
\* newlines and all, and its row is none of the summary.  The header of a table
\* is no character of a descriptor, which writes its bars and its newline otherwise.
DescriptorComesBack(s) ==
  (\A i \in DOMAIN s : s[i] # "header") =>
    /\ TableIsWhole(s)
    /\ ~Unlucky(s) => ReadCell(s) = Strip(s) /\ SummaryRows(Row(s)) = {}

\* The descriptions that may be misread: those with a break that is no newline,
\* or a line that is blank, begins like a heading, or ends like the header of a
\* table or a row of the summary.
Ambiguous(s) ==
  \/ \E i \in DOMAIN s : s[i] = "break"
  \/ \E i \in DOMAIN s : /\ (i = 1 \/ s[i - 1] = "newline")
                        /\ s[i] \in {"newline", "##", "###"}
  \/ \E i \in DOMAIN s : /\ s[i] = "header"
                        /\ (i = Len(s) \/ s[i + 1] = "newline")
  \/ SummaryRows(s) # {}

\* Every other description, which has no blanks at its ends, comes back, and so
\* do the levels below it; nothing of it is taken for a criterion, an NFR or a
\* row of the summary.
DescriptionComesBack(s) ==
  s = Strip(s) /\ ~Ambiguous(s) =>
    LET md == SectionOf(s) IN
    /\ _block(Chunk(md)) = s /\ LevelsTable(Chunk(md)) = <<"|">>
    /\ At(md, "newline", "###") = {1} /\ At(md, "newline", "##") = {}
    /\ SummaryRows(md) = {}
=============================================================================
