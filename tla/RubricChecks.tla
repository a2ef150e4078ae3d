----------------------------- MODULE RubricChecks -----------------------------
(***************************************************************************)
(* The deterministic checks of harness/checks.py, the scoring sheet of     *)
(* render/renderer.py, and a draft that goes from one rewrite of its       *)
(* rubric to the next while the checks find something to repair.           *)
(*                                                                         *)
(* An export is a selection, which no rewrite touches, and a rubric.  A    *)
(* text is a value, with Blank for one without a visible character; of a   *)
(* finding there is its code, the root of its path and the item it is      *)
(* about.  All findings of these checks have severity ERROR.               *)
(***************************************************************************)
EXTENDS Integers, Sequences, FiniteSets, Functions

CONSTANTS
  Selections,   \* selections of NFRs and trade-offs
  Rubrics,      \* rubrics: sequences of criteria
  Known,        \* ids of the documents research kept
  CriteriaMin,  \* CRITERIA_MIN
  CriteriaMax,  \* CRITERIA_MAX
  WeightTotal,  \* WEIGHT_TOTAL
  Scores,       \* SCORES
  Ids, Texts,
  Blank         \* a descriptor of white space only

NFRs == [id : Ids, complete : BOOLEAN, evidence : SUBSET Ids]

Tradeoffs == [id : Ids, related : SUBSET Ids, evidence : SUBSET Ids]

Levels == [score : Scores, text : Texts \cup {Blank}]

Criteria == [id : Ids, related : Seq(Ids), weight : Int, levels : Seq(Levels)]

ASSUME ChecksAssumption ==
  /\ Selections \subseteq [nfrs : Seq(NFRs), tradeoffs : Seq(Tradeoffs)]
  /\ Rubrics \subseteq Seq(Criteria)
  /\ WeightTotal \in Nat /\ CriteriaMin \in Nat /\ CriteriaMax \in Nat

VARIABLES selection, rubric

vars == <<selection, rubric>>

-----------------------------------------------------------------------------
(* The checks                                                              *)

Error(code, root, item) == [code |-> code, root |-> root, item |-> item]

Errors(code, root, items) == {Error(code, root, i) : i \in items}

IdsOf(seq) == {seq[i].id : i \in DOMAIN seq}

TotalWeight(r) ==
  FoldFunction(LAMBDA x, y : x + y, 0, [i \in DOMAIN r |-> r[i].weight])

check_targets(s) ==
  Errors("TARGET_INCOMPLETE", "confirmed_nfrs",
         {k \in DOMAIN s.nfrs : ~s.nfrs[k].complete})

\* Mutant: each weight is looked at, their sum is not.
check_weight_sum_NoSum(r) ==
  Errors("WEIGHT_OUT_OF_RANGE", "rubric",
         {i \in DOMAIN r : r[i].weight \notin 1..WeightTotal})

check_weight_sum(r) ==
  Errors("WEIGHT_OUT_OF_RANGE", "rubric",
         {i \in DOMAIN r : r[i].weight \notin 1..WeightTotal})
  \cup Errors("WEIGHT_SUM_INVALID", "rubric",
              {i \in {0} : TotalWeight(r) # WeightTotal})

\* Mutant: the upper bound is taken as exclusive.
check_criteria_count_Exclusive(r) ==
  Errors("CRITERIA_COUNT_OUT_OF_RANGE", "rubric",
         {i \in {0} : Len(r) \notin CriteriaMin..(CriteriaMax - 1)})

check_criteria_count(r) ==
  Errors("CRITERIA_COUNT_OUT_OF_RANGE", "rubric",
         {i \in {0} : Len(r) \notin CriteriaMin..CriteriaMax})

ScoredAs(c, n) == {j \in DOMAIN c.levels : c.levels[j].score = n}

RepeatsText(c, j) ==
  c.levels[j].text # Blank /\ \E h \in 1..(j - 1) : c.levels[h].text = c.levels[j].text

check_levels(r) ==
  Errors("LEVEL_MISSING", "rubric",
         {i \in DOMAIN r : \E n \in Scores : ScoredAs(r[i], n) = {}})
  \cup Errors("LEVEL_DUPLICATED", "rubric",
         {i \in DOMAIN r : \E h, j \in DOMAIN r[i].levels :
            h # j /\ r[i].levels[h].score = r[i].levels[j].score})
  \cup Errors("LEVEL_DESCRIPTOR_MISSING", "rubric",
         {i \in DOMAIN r : \E j \in DOMAIN r[i].levels : r[i].levels[j].text = Blank})
  \cup Errors("LEVEL_DESCRIPTOR_DUPLICATED", "rubric",
         {i \in DOMAIN r : \E j \in DOMAIN r[i].levels : RepeatsText(r[i], j)})

\* From the second on, items whose id an earlier one has.
Repeated(seq) == {i \in DOMAIN seq : \E j \in 1..(i - 1) : seq[j].id = seq[i].id}

\* Mutant: NFRs may share an id.
_duplicated_ids_NotOfNFRs(s, r) ==
  Errors("ID_DUPLICATED", "tradeoffs", Repeated(s.tradeoffs))
  \cup Errors("ID_DUPLICATED", "rubric", Repeated(r))

_duplicated_ids(s, r) ==
  Errors("ID_DUPLICATED", "confirmed_nfrs", Repeated(s.nfrs))
  \cup Errors("ID_DUPLICATED", "tradeoffs", Repeated(s.tradeoffs))
  \cup Errors("ID_DUPLICATED", "rubric", Repeated(r))

_criterion_links(s, r) ==
  Errors("CRITERION_NFR_REFERENCE_MISSING", "rubric",
         {i \in DOMAIN r : r[i].related = <<>>})
  \cup Errors("CRITERION_MULTI_NFR", "rubric", {i \in DOMAIN r : Len(r[i].related) > 1})
  \cup Errors("NFR_REFERENCE_INVALID", "rubric",
         {i \in DOMAIN r : \E m \in DOMAIN r[i].related :
            r[i].related[m] \notin IdsOf(s.nfrs)})

_tradeoff_links(s) ==
  Errors("TRADEOFF_NFR_REFERENCE_MISSING", "tradeoffs",
         {k \in DOMAIN s.tradeoffs : s.tradeoffs[k].related = {}})
  \cup Errors("NFR_REFERENCE_INVALID", "tradeoffs",
         {k \in DOMAIN s.tradeoffs : ~(s.tradeoffs[k].related \subseteq IdsOf(s.nfrs))})

_coverage(s, r) ==
  Errors("NFR_NOT_COVERED", "confirmed_nfrs",
         {k \in DOMAIN s.nfrs : \A i \in DOMAIN r : \A m \in DOMAIN r[i].related :
            r[i].related[m] # s.nfrs[k].id})

EvidenceErrors(seq, root) ==
  Errors("EVIDENCE_REF_MISSING", root, {k \in DOMAIN seq : seq[k].evidence = {}})
  \cup Errors("EVIDENCE_REF_UNKNOWN", root,
              {k \in DOMAIN seq : ~(seq[k].evidence \subseteq Known)})

_evidence(s) ==
  EvidenceErrors(s.nfrs, "confirmed_nfrs") \cup EvidenceErrors(s.tradeoffs, "tradeoffs")

\* Runner([...]).run: every check runs, whatever the others say.
Findings(s, r) ==
  check_weight_sum(r) \cup check_criteria_count(r) \cup check_levels(r)
  \cup check_targets(s) \cup _duplicated_ids(s, r) \cup _criterion_links(s, r)
  \cup _tradeoff_links(s) \cup _coverage(s, r) \cup _evidence(s)

\* Mutant: whatever is said of the selection is out of the author's hands.
rubric_repair_findings_Roots(F) == {f \in F : f.root = "rubric"}

rubric_repair_findings(F) == {f \in F : f.root = "rubric" \/ f.code = "NFR_NOT_COVERED"}

-----------------------------------------------------------------------------
(* The scoring sheet                                                       *)

\* render_rubric raises on a criterion without an NFR it can look up.
Renders(s, r) ==
  \A i \in DOMAIN r : r[i].related # <<>> /\ r[i].related[1] \in IdsOf(s.nfrs)

\* The criteria printed in the section of the k-th NFR; its requirement is
\* printed with the first of them.
Section(s, r, k) == {i \in DOMAIN r : r[i].related[1] = s.nfrs[k].id}

-----------------------------------------------------------------------------
(* The draft: generate_rubric answers anew to what is to be repaired       *)

Init == selection \in Selections /\ rubric \in Rubrics

Rewrite ==
  /\ rubric_repair_findings(Findings(selection, rubric)) # {}
  /\ rubric' \in Rubrics
  /\ UNCHANGED selection

Settled ==
  /\ rubric_repair_findings(Findings(selection, rubric)) = {}
  /\ UNCHANGED vars

Next == Rewrite \/ Settled

Spec == Init /\ [][Next]_vars

-----------------------------------------------------------------------------
(* Properties                                                              *)

Passes == Findings(selection, rubric) = {}

TypeOK == selection \in Selections /\ rubric \in Rubrics

\* render_rubric does not raise, every criterion is printed in one section and
\* no other, no section is left without its requirement, and every criterion
\* has one row per score.
Whole(s, r) ==
  /\ Renders(s, r)
  /\ \A i \in DOMAIN r : \E k \in DOMAIN s.nfrs : \A n \in DOMAIN s.nfrs :
       i \in Section(s, r, n) <=> n = k
  /\ \A k \in DOMAIN s.nfrs : Section(s, r, k) # {}
  /\ \A i \in DOMAIN r : \A n \in Scores :
       \E j \in DOMAIN r[i].levels : ScoredAs(r[i], n) = {j}

\* The sheet of a draft that passes the checks of harness/checks.py is whole.
PassedSheetIsWhole == Passes => Whole(selection, rubric)

\* Full marks on the sheet of a draft that passes are WEIGHT_TOTAL points, and
\* no criterion is worth nothing or takes points away.
PassedMarksAddUp ==
  Passes => /\ TotalWeight(rubric) = WeightTotal
            /\ \A i \in DOMAIN rubric : rubric[i].weight > 0

\* What passes is a sheet to be scored by.
PassedSheetIsSound == PassedSheetIsWhole /\ PassedMarksAddUp

Unrepairable(s, r) == Findings(s, r) \ rubric_repair_findings(Findings(s, r))

\* What the author is not told of cannot be mended by a rubric, and no rubric
\* brings about an error of that kind: repair_route never gives up too early.
SelectionErrorsStand ==
  [][Unrepairable(selection, rubric') = Unrepairable(selection, rubric)]_vars

Mendable == \E r \in Rubrics : Findings(selection, r) = {}

\* If all errors of a draft can be repaired and there are not more NFRs than
\* there may be criteria, some rubric does repair them.
RepairHasAWayOut ==
  /\ Unrepairable(selection, rubric) = {}
  /\ Len(selection.nfrs) \in CriteriaMin..CriteriaMax
  => Mendable

\* export/agent.py: only errors that can be mended are passed to the author.
\* With more NFRs than CRITERIA_MAX every rubric leaves one uncovered or has
\* too many criteria, and the author is still asked.
OnlyMendableIsPassedOn ==
  /\ Unrepairable(selection, rubric) = {}
  /\ rubric_repair_findings(Findings(selection, rubric)) # {}
  => Mendable
=============================================================================
