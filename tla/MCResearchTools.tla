--------------------------- MODULE MCResearchTools ---------------------------
(* ResearchTools for TLC: two documents of three and two sentences. *)
EXTENDS ResearchTools, TLC

CONSTANTS d1, d2

MCDocs == {d1, d2}

\* Budget 10, separator 2: the first two sentences of d1 fill it exactly,
\* the last of d2 does so alone, the first of d2 never fits.
MCSize == d1 :> <<3, 5, 6>> @@ d2 :> <<11, 10>>
=============================================================================
