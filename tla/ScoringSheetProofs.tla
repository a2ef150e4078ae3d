-------------------------- MODULE ScoringSheetProofs --------------------------
(***************************************************************************)
(* Proofs about the checks, the sheet they admit, and the texts of the     *)
(* sheet.  None needs an induction over a behavior: what the checks        *)
(* promise holds of each draft and what the sheet makes of a text holds of *)
(* each text, and only the types of the draft and of the text are kept.    *)
(***************************************************************************)
EXTENDS ScoringSheet, SequenceTheorems, FiniteSetTheorems, WellFoundedInduction, TLAPS

\* A group of errors is empty when there is no item to report.
LEMMA NoErrors ==
  ASSUME NEW code, NEW root, NEW items, Errors(code, root, items) = {}
  PROVE  items = {}
BY DEF Errors

\* A sequence that is not empty and has no second element.
LEMMA Singleton ==
  ASSUME NEW S, NEW q \in Seq(S), q # <<>>, ~(Len(q) > 1)
  PROVE  Len(q) = 1 /\ 1 \in DOMAIN q
<1>1. Len(q) \in Nat \ {0} /\ DOMAIN q = 1..Len(q)
  BY EmptySeq, LenProperties
<1>2. Len(q) = 1
  BY <1>1
<1> QED
  BY <1>1, <1>2

\* A draft that passes draws no error from any of the checks.
LEMMA PassesEach ==
  ASSUME NEW s, NEW r, Findings(s, r) = {}
  PROVE  /\ check_weight_sum(r) = {} /\ check_levels(r) = {}
         /\ _duplicated_ids(s, r) = {} /\ _criterion_links(s, r) = {}
         /\ _coverage(s, r) = {}
BY Zenon DEF Findings

\* References of a draft that passes: each criterion has one, to an NFR.
LEMMA PassedLinks ==
  ASSUME NEW s \in Selections, NEW r \in Rubrics, Findings(s, r) = {}
  PROVE  \A i \in DOMAIN r :
           /\ r[i].related \in Seq(Ids) /\ Len(r[i].related) = 1
           /\ r[i].related[1] \in IdsOf(s.nfrs)
<1>1. _criterion_links(s, r) = {}
  BY PassesEach
<1>2. /\ {i \in DOMAIN r : r[i].related = <<>>} = {}
      /\ {i \in DOMAIN r : Len(r[i].related) > 1} = {}
      /\ {i \in DOMAIN r : \E m \in DOMAIN r[i].related :
            r[i].related[m] \notin IdsOf(s.nfrs)} = {}
  <2>1. /\ Errors("CRITERION_NFR_REFERENCE_MISSING", "rubric",
                   {i \in DOMAIN r : r[i].related = <<>>}) = {}
        /\ Errors("CRITERION_MULTI_NFR", "rubric",
                   {i \in DOMAIN r : Len(r[i].related) > 1}) = {}
        /\ Errors("NFR_REFERENCE_INVALID", "rubric",
                   {i \in DOMAIN r : \E m \in DOMAIN r[i].related :
                      r[i].related[m] \notin IdsOf(s.nfrs)}) = {}
    BY <1>1, Zenon DEF _criterion_links
  <2> QED
    BY <2>1, NoErrors, Zenon
<1>3. TAKE i \in DOMAIN r
<1>4. r[i] \in Criteria
  BY ChecksAssumption, <1>3
<1>5. r[i].related \in Seq(Ids)
  BY <1>4 DEF Criteria
<1>6. r[i].related # <<>> /\ ~(Len(r[i].related) > 1)
  BY <1>2, <1>3
<1>7. Len(r[i].related) = 1 /\ 1 \in DOMAIN r[i].related
  BY <1>5, <1>6, Singleton
<1> QED
  BY <1>2, <1>3, <1>5, <1>7

\* The NFRs of a draft that passes have ids of their own.
LEMMA PassedIds ==
  ASSUME NEW s \in Selections, NEW r \in Rubrics, Findings(s, r) = {}
  PROVE  \A k, n \in DOMAIN s.nfrs : s.nfrs[k].id = s.nfrs[n].id => k = n
<1>1. _duplicated_ids(s, r) = {}
  BY PassesEach
<1>2. Repeated(s.nfrs) = {}
  BY <1>1, NoErrors, Zenon DEF _duplicated_ids
<1>3. s.nfrs \in Seq(NFRs)
  BY ChecksAssumption
<1>4. \A k, n \in DOMAIN s.nfrs : n \in 1..(k - 1) => s.nfrs[k].id # s.nfrs[n].id
  BY <1>2 DEF Repeated
<1> QED
  BY <1>3, <1>4

\* The cells of the level table of a criterion that passes: one per score.
LEMMA PassedLevels ==
  ASSUME NEW r \in Rubrics, check_levels(r) = {}
  PROVE  \A i \in DOMAIN r : \A n \in Scores :
           \E j \in DOMAIN r[i].levels : ScoredAs(r[i], n) = {j}
<1>1. /\ {i \in DOMAIN r : \E n \in Scores : ScoredAs(r[i], n) = {}} = {}
      /\ {i \in DOMAIN r : \E h, j \in DOMAIN r[i].levels :
            h # j /\ r[i].levels[h].score = r[i].levels[j].score} = {}
  <2>1. /\ Errors("LEVEL_MISSING", "rubric",
                   {i \in DOMAIN r : \E n \in Scores : ScoredAs(r[i], n) = {}}) = {}
        /\ Errors("LEVEL_DUPLICATED", "rubric",
                   {i \in DOMAIN r : \E h, j \in DOMAIN r[i].levels :
                      h # j /\ r[i].levels[h].score = r[i].levels[j].score}) = {}
    BY Zenon DEF check_levels
  <2> QED
    BY <2>1, NoErrors, Zenon
<1>2. TAKE i \in DOMAIN r
<1>3. TAKE n \in Scores
<1>4. ScoredAs(r[i], n) # {}
  BY <1>1
<1>5. PICK j \in DOMAIN r[i].levels : r[i].levels[j].score = n
  BY <1>4 DEF ScoredAs
<1>6. \A h \in DOMAIN r[i].levels : r[i].levels[h].score = n => h = j
  BY <1>1, <1>5
<1>7. ScoredAs(r[i], n) = {j}
  BY <1>5, <1>6 DEF ScoredAs
<1> QED
  BY <1>5, <1>7

\* What holds of any draft that passes.
LEMMA PassedSheet ==
  ASSUME NEW s \in Selections, NEW r \in Rubrics, Findings(s, r) = {}
  PROVE  Whole(s, r)
<1>1. Renders(s, r)
  <2>1. \A i \in DOMAIN r : r[i].related # <<>>
    BY PassedLinks, EmptySeq
  <2> QED
    BY <2>1, PassedLinks DEF Renders
<1>2. ASSUME NEW i \in DOMAIN r
      PROVE  \E k \in DOMAIN s.nfrs : \A n \in DOMAIN s.nfrs :
               i \in Section(s, r, n) <=> n = k
  <2>1. PICK k \in DOMAIN s.nfrs : s.nfrs[k].id = r[i].related[1]
    BY PassedLinks DEF IdsOf
  <2>2. \A n \in DOMAIN s.nfrs : s.nfrs[n].id = s.nfrs[k].id <=> n = k
    BY <2>1, PassedIds
  <2> QED
    BY <2>1, <2>2 DEF Section
<1>3. ASSUME NEW k \in DOMAIN s.nfrs
      PROVE  Section(s, r, k) # {}
  <2>1. Errors("NFR_NOT_COVERED", "confirmed_nfrs",
               {n \in DOMAIN s.nfrs : \A i \in DOMAIN r : \A m \in DOMAIN r[i].related :
                  r[i].related[m] # s.nfrs[n].id}) = {}
    BY PassesEach, Zenon DEF _coverage
  <2>2. PICK i \in DOMAIN r : \E m \in DOMAIN r[i].related :
               r[i].related[m] = s.nfrs[k].id
    <3>1. {n \in DOMAIN s.nfrs : \A i \in DOMAIN r : \A m \in DOMAIN r[i].related :
             r[i].related[m] # s.nfrs[n].id} = {}
      BY <2>1, NoErrors, Zenon
    <3> QED
      BY <3>1
  <2>3. DOMAIN r[i].related = 1..1
    BY PassedLinks, LenProperties
  <2>4. r[i].related[1] = s.nfrs[k].id
    BY <2>2, <2>3
  <2> QED
    BY <2>4 DEF Section
<1>4. check_levels(r) = {}
  BY PassesEach
<1> QED
  BY <1>1, <1>2, <1>3, <1>4, PassedLevels DEF Whole

\* So do the marks of any draft that passes.
LEMMA PassedMarks ==
  ASSUME NEW s, NEW r, Findings(s, r) = {}
  PROVE  /\ TotalWeight(r) = WeightTotal
         /\ \A i \in DOMAIN r : r[i].weight \in 1..WeightTotal
<1>1. /\ Errors("WEIGHT_OUT_OF_RANGE", "rubric",
                {i \in DOMAIN r : r[i].weight \notin 1..WeightTotal}) = {}
      /\ Errors("WEIGHT_SUM_INVALID", "rubric",
                {i \in {0} : TotalWeight(r) # WeightTotal}) = {}
  BY PassesEach, Zenon DEF check_weight_sum
<1>2. /\ {i \in DOMAIN r : r[i].weight \notin 1..WeightTotal} = {}
      /\ {i \in {0} : TotalWeight(r) # WeightTotal} = {}
  BY <1>1, NoErrors, Zenon
<1> QED
  BY <1>2

\* What is said of the selection alone: no rubric enters into it.
OfSelection(s) ==
  check_targets(s) \cup Errors("ID_DUPLICATED", "confirmed_nfrs", Repeated(s.nfrs))
  \cup Errors("ID_DUPLICATED", "tradeoffs", Repeated(s.tradeoffs))
  \cup _tradeoff_links(s) \cup _evidence(s)

OfAuthor(s, r) ==
  check_weight_sum(r) \cup check_criteria_count(r) \cup check_levels(r)
  \cup Errors("ID_DUPLICATED", "rubric", Repeated(r))
  \cup _criterion_links(s, r) \cup _coverage(s, r)

ToAuthor(f) == f.root = "rubric" \/ f.code = "NFR_NOT_COVERED"

LEMMA ErrorFields ==
  ASSUME NEW code, NEW root, NEW items, NEW f \in Errors(code, root, items)
  PROVE  f.code = code /\ f.root = root
BY DEF Errors, Error

\* The author is told of everything that depends on the rubric, and of nothing else.
LEMMA UnrepairableIsOfSelection ==
  ASSUME NEW s, NEW r
  PROVE  Unrepairable(s, r) = OfSelection(s)
<1>1. Findings(s, r) = OfSelection(s) \cup OfAuthor(s, r)
  BY Zenon DEF Findings, OfSelection, OfAuthor, _duplicated_ids
<1>2. ASSUME NEW f \in OfAuthor(s, r)
      PROVE  ToAuthor(f)
  <2>1. CASE f \in check_weight_sum(r)
    BY <2>1, ErrorFields DEF check_weight_sum, ToAuthor
  <2>2. CASE f \in check_criteria_count(r)
    BY <2>2, ErrorFields DEF check_criteria_count, ToAuthor
  <2>3. CASE f \in check_levels(r)
    BY <2>3, ErrorFields DEF check_levels, ToAuthor
  <2>4. CASE f \in Errors("ID_DUPLICATED", "rubric", Repeated(r))
    BY <2>4, ErrorFields DEF ToAuthor
  <2>5. CASE f \in _criterion_links(s, r)
    BY <2>5, ErrorFields DEF _criterion_links, ToAuthor
  <2>6. CASE f \in _coverage(s, r)
    BY <2>6, ErrorFields DEF _coverage, ToAuthor
  <2> QED
    BY <1>2, <2>1, <2>2, <2>3, <2>4, <2>5, <2>6, Zenon DEF OfAuthor
<1>3. ASSUME NEW f \in OfSelection(s)
      PROVE  ~ToAuthor(f)
  <2>1. CASE f \in check_targets(s)
    BY <2>1, ErrorFields DEF check_targets, ToAuthor
  <2>2. CASE f \in Errors("ID_DUPLICATED", "confirmed_nfrs", Repeated(s.nfrs))
    BY <2>2, ErrorFields DEF ToAuthor
  <2>3. CASE f \in Errors("ID_DUPLICATED", "tradeoffs", Repeated(s.tradeoffs))
    BY <2>3, ErrorFields DEF ToAuthor
  <2>4. CASE f \in _tradeoff_links(s)
    BY <2>4, ErrorFields DEF _tradeoff_links, ToAuthor
  <2>5. CASE f \in _evidence(s)
    BY <2>5, ErrorFields DEF _evidence, EvidenceErrors, ToAuthor
  <2> QED
    BY <1>3, <2>1, <2>2, <2>3, <2>4, <2>5, Zenon DEF OfSelection
<1>4. rubric_repair_findings(Findings(s, r)) = {f \in Findings(s, r) : ToAuthor(f)}
  BY DEF rubric_repair_findings, ToAuthor
<1> QED
  BY <1>1, <1>2, <1>3, <1>4 DEF Unrepairable

-----------------------------------------------------------------------------
(* A way out.  For NFRs with ids of their own there is a rubric the checks  *)
(* find nothing in: a criterion for each, of one point, but the first takes *)
(* the points that are left.  That these are WeightTotal in all, in         *)
(* whatever order FoldFunction adds them, is shown by a least               *)
(* counterexample to the sum it should have over some of the criteria.      *)

LEMMA Least ==
  ASSUME NEW T \in SUBSET Nat, T # {}
  PROVE  \E m \in T : \A k \in T : ~(k < m)
<1>1. \E m \in T : \A k \in T : <<k, m>> \notin OpToRel(<, Nat)
  BY NatLessThanWellFounded, WFMin
<1> QED
  BY <1>1 DEF OpToRel

First(x) == CHOOSE i \in x : TRUE

\* g adds up f over the subsets of its domain.
Adds(g, f) ==
  g = [x \in SUBSET DOMAIN f |-> IF x = {} THEN 0 ELSE f[First(x)] + g[x \ {First(x)}]]

\* There is one function at most that adds up f.
LEMMA OneSum ==
  ASSUME NEW f, IsFiniteSet(DOMAIN f), NEW g, Adds(g, f), NEW h, Adds(h, f)
  PROVE  g[DOMAIN f] = h[DOMAIN f]
<1> DEFINE Bad == {n \in Nat : \E x \in SUBSET DOMAIN f : Cardinality(x) = n /\ g[x] # h[x]}
<1>1. ASSUME Bad # {} PROVE FALSE
  <2>1. PICK n \in Bad : \A m \in Bad : ~(m < n)
    BY <1>1, Least
  <2>2. PICK x \in SUBSET DOMAIN f : Cardinality(x) = n /\ g[x] # h[x]
    BY <2>1
  <2>3. /\ g[x] = IF x = {} THEN 0 ELSE f[First(x)] + g[x \ {First(x)}]
        /\ h[x] = IF x = {} THEN 0 ELSE f[First(x)] + h[x \ {First(x)}]
    BY DEF Adds
  <2>4. x # {} /\ g[x \ {First(x)}] # h[x \ {First(x)}]
    BY <2>2, <2>3
  <2>5. First(x) \in x
    BY <2>4 DEF First
  <2>6. IsFiniteSet(x) /\ IsFiniteSet(x \ {First(x)})
    BY FS_Subset
  <2>7. Cardinality(x \ {First(x)}) = n - 1 /\ n - 1 \in Nat
    BY <2>2, <2>5, <2>6, FS_RemoveElement, FS_CardinalityType
  <2> QED
    BY <2>1, <2>4, <2>7
<1>2. Cardinality(DOMAIN f) \in Nat
  BY FS_CardinalityType
<1> QED
  BY <1>1, <1>2

LEMMA SumIs ==
  ASSUME NEW f, IsFiniteSet(DOMAIN f), NEW g, Adds(g, f)
  PROVE  FoldFunction(LAMBDA x, y : x + y, 0, f) = g[DOMAIN f]
<1>1. FoldFunction(LAMBDA x, y : x + y, 0, f) = (CHOOSE h : Adds(h, f))[DOMAIN f]
  BY Zenon DEF FoldFunction, FoldFunctionOnSet, MapThenFoldSet, Adds, First
<1>2. Adds(CHOOSE h : Adds(h, f), f)
  BY Zenon
<1> QED
  BY <1>1, <1>2, OneSum

\* The first of n numbers is w, the others are 1.
LEMMA FirstAndOnes ==
  ASSUME NEW n \in Nat, n > 0, NEW w \in Int,
         NEW f, f = [i \in 1..n |-> IF i = 1 THEN w ELSE 1]
  PROVE  FoldFunction(LAMBDA x, y : x + y, 0, f) = w + (n - 1)
<1> DEFINE sum(x) == IF 1 \in x THEN w + (Cardinality(x) - 1) ELSE Cardinality(x)
           g == [x \in SUBSET DOMAIN f |-> sum(x)]
           term(x) == IF x = {} THEN 0 ELSE f[First(x)] + g[x \ {First(x)}]
<1>1. DOMAIN f = 1..n /\ IsFiniteSet(DOMAIN f) /\ Cardinality(DOMAIN f) = n
  BY FS_Interval
<1>2. ASSUME NEW x \in SUBSET DOMAIN f PROVE g[x] = term(x)
  <2>1. IsFiniteSet(x) /\ Cardinality(x) \in Nat
    BY <1>1, FS_Subset, FS_CardinalityType
  <2>2. CASE x = {}
    BY <2>2, FS_EmptySet
  <2>3. CASE x # {}
    <3> DEFINE c == First(x)
    <3>1. c \in x
      BY <2>3 DEF First
    <3>2. Cardinality(x \ {c}) = Cardinality(x) - 1
      BY <2>1, <3>1, FS_RemoveElement
    <3>3. g[x] = sum(x) /\ g[x \ {c}] = sum(x \ {c}) /\ term(x) = f[c] + g[x \ {c}]
      BY <2>3
    <3>4. f[c] = IF c = 1 THEN w ELSE 1
      BY <3>1, <1>1
    <3> HIDE DEF c, g, term
    <3>5. sum(x) = f[c] + sum(x \ {c})
      BY <2>1, <3>1, <3>2, <3>4
    <3> QED
      BY <3>3, <3>5
  <2> QED
    BY <2>2, <2>3
<1>3. Adds(g, f)
  <2>1. g = [x \in SUBSET DOMAIN f |-> g[x]]
    OBVIOUS
  <2> HIDE DEF term, g
  <2>2. g = [x \in SUBSET DOMAIN f |-> term(x)]
    BY <1>2, <2>1
  <2> QED
    BY <2>2 DEF Adds, term
<1>4. g[DOMAIN f] = w + (n - 1)
  BY <1>1
<1> HIDE DEF g
<1> QED
  BY <1>1, <1>3, <1>4, SumIs

\* What an author needs who wants to write such a rubric: criteria of any kind,
\* a point at least for each that may be asked for, and a text for each score.
FreeAuthor ==
  /\ Rubrics = Seq(Criteria)
  /\ 1 <= CriteriaMin /\ CriteriaMax <= WeightTotal
  /\ IsFiniteSet(Scores) /\ ExistsInjection(Scores, Texts \ {Blank})

\* A table with one row for each score, no two with the same text.
Table(L) ==
  /\ L \in Seq(Levels)
  /\ \A n \in Scores : \E j \in DOMAIN L : L[j].score = n
  /\ \A h, j \in DOMAIN L : h # j => L[h].score # L[j].score /\ L[h].text # L[j].text
  /\ \A j \in DOMAIN L : L[j].text # Blank

LEMMA TableExists ==
  ASSUME FreeAuthor
  PROVE  \E L : Table(L)
<1>1. PICK m \in Nat : ExistsBijection(1..m, Scores)
  BY FS_NatBijection DEF FreeAuthor
<1>2. PICK b : b \in Bijection(1..m, Scores)
  BY <1>1 DEF ExistsBijection
<1>3. /\ b \in [1..m -> Scores]
      /\ \A h, j \in 1..m : b[h] = b[j] => h = j
      /\ \A n \in Scores : \E j \in 1..m : b[j] = n
  BY <1>2 DEF Bijection, Injection, Surjection, IsInjective
<1>4. PICK f : f \in Injection(Scores, Texts \ {Blank})
  BY DEF FreeAuthor, ExistsInjection
<1>5. /\ f \in [Scores -> Texts \ {Blank}]
      /\ \A x, y \in Scores : f[x] = f[y] => x = y
  BY <1>4 DEF Injection, IsInjective
<1> DEFINE L == [j \in 1..m |-> [score |-> b[j], text |-> f[b[j]]]]
<1>6. \A j \in 1..m : L[j] \in Levels /\ L[j].score = b[j] /\ L[j].text = f[b[j]]
  BY <1>3, <1>5 DEF Levels
<1>7. DOMAIN L = 1..m
  OBVIOUS
<1>8. L \in Seq(Levels)
  BY <1>6, SeqDef
<1> HIDE DEF L
<1>9. Table(L)
  BY <1>3, <1>5, <1>6, <1>7, <1>8 DEF Table
<1> QED
  BY <1>9

\* The rubric in question.
Answer(s, L) ==
  [i \in 1..Len(s.nfrs) |->
     [id |-> s.nfrs[i].id, related |-> <<s.nfrs[i].id>>,
      weight |-> IF i = 1 THEN WeightTotal - (Len(s.nfrs) - 1) ELSE 1, levels |-> L]]

LEMMA AnswerIsRubric ==
  ASSUME FreeAuthor, NEW s \in Selections, NEW L, Table(L),
         Len(s.nfrs) \in CriteriaMin..CriteriaMax
  PROVE  /\ s.nfrs \in Seq(NFRs) /\ Len(s.nfrs) \in Nat /\ Len(s.nfrs) > 0
         /\ Answer(s, L) \in Rubrics
         /\ DOMAIN Answer(s, L) = DOMAIN s.nfrs /\ DOMAIN s.nfrs = 1..Len(s.nfrs)
         /\ Len(Answer(s, L)) = Len(s.nfrs)
         /\ \A i \in DOMAIN s.nfrs : s.nfrs[i].id \in Ids
<1>1. s.nfrs \in Seq(NFRs)
  BY ChecksAssumption
<1>2. Len(s.nfrs) \in Nat /\ DOMAIN s.nfrs = 1..Len(s.nfrs) /\ Len(s.nfrs) > 0
  BY <1>1, ChecksAssumption DEF FreeAuthor
<1>3. \A i \in DOMAIN s.nfrs : s.nfrs[i].id \in Ids
  <2>1. \A i \in DOMAIN s.nfrs : s.nfrs[i] \in NFRs
    BY <1>1
  <2> QED
    BY <2>1 DEF NFRs
<1>4. \A i \in 1..Len(s.nfrs) : Answer(s, L)[i] \in Criteria
  BY <1>2, <1>3, ChecksAssumption DEF Answer, Criteria, Table
<1>5. Answer(s, L) \in Seq(Criteria)
  <2>1. Answer(s, L) = [i \in 1..Len(s.nfrs) |-> Answer(s, L)[i]]
    BY DEF Answer
  <2> QED
    BY <1>2, <1>4, <2>1, SeqDef
<1>6. DOMAIN Answer(s, L) = 1..Len(s.nfrs) /\ Len(Answer(s, L)) = Len(s.nfrs)
  BY <1>2, <1>5 DEF Answer
<1> QED
  BY <1>1, <1>2, <1>3, <1>5, <1>6 DEF FreeAuthor

LEMMA AnswerAddsUp ==
  ASSUME FreeAuthor, NEW s \in Selections, NEW L, Table(L),
         Len(s.nfrs) \in CriteriaMin..CriteriaMax
  PROVE  check_weight_sum(Answer(s, L)) = {}
<1> DEFINE r == Answer(s, L)
           n == Len(s.nfrs)
           w == WeightTotal - (n - 1)
<1>1. n \in Nat /\ n > 0 /\ n <= WeightTotal /\ w \in Int /\ DOMAIN r = 1..n
  BY AnswerIsRubric, ChecksAssumption DEF FreeAuthor
<1>2. \A i \in DOMAIN r : r[i].weight = IF i = 1 THEN w ELSE 1
  BY <1>1 DEF Answer
<1>3. [i \in DOMAIN r |-> r[i].weight] = [i \in 1..n |-> IF i = 1 THEN w ELSE 1]
  BY <1>1, <1>2
<1>4. TotalWeight(r) = w + (n - 1)
  BY <1>1, <1>3, FirstAndOnes, Zenon DEF TotalWeight
<1>5. TotalWeight(r) = WeightTotal
  BY <1>1, <1>4, ChecksAssumption
<1>6. \A i \in DOMAIN r : r[i].weight \in 1..WeightTotal
  <2>1. w \in 1..WeightTotal /\ 1 \in 1..WeightTotal
    BY <1>1, ChecksAssumption
  <2> HIDE DEF r, w
  <2> QED
    BY <1>2, <2>1
<1> HIDE DEF r
<1> QED
  BY <1>5, <1>6 DEF check_weight_sum, Errors, r

LEMMA AnswerLevels ==
  ASSUME FreeAuthor, NEW s \in Selections, NEW L, Table(L),
         Len(s.nfrs) \in CriteriaMin..CriteriaMax
  PROVE  check_levels(Answer(s, L)) = {}
<1> DEFINE r == Answer(s, L)
<1>1. \A i \in DOMAIN r : r[i].levels = L
  BY AnswerIsRubric DEF Answer
<1> HIDE DEF r
<1>2. \A i \in DOMAIN r : \A n \in Scores : ScoredAs(r[i], n) # {}
  BY <1>1 DEF ScoredAs, Table
<1>3. \A j \in DOMAIN L : \A h \in 1..(j - 1) : h \in DOMAIN L /\ h # j
  <2>1. Len(L) \in Nat /\ DOMAIN L = 1..Len(L)
    BY DEF Table
  <2> QED
    BY <2>1
<1>4. \A i \in DOMAIN r : \A j \in DOMAIN r[i].levels : ~RepeatsText(r[i], j)
  BY <1>1, <1>3 DEF RepeatsText, Table
<1>5. \A i \in DOMAIN r : \A h, j \in DOMAIN r[i].levels :
        h # j => r[i].levels[h].score # r[i].levels[j].score
  BY <1>1 DEF Table
<1>6. \A i \in DOMAIN r : \A j \in DOMAIN r[i].levels : r[i].levels[j].text # Blank
  BY <1>1 DEF Table
<1>7. check_levels(r) = {}
  BY <1>2, <1>4, <1>5, <1>6 DEF check_levels, Errors
<1> QED
  BY <1>7 DEF r

LEMMA AnswerLinks ==
  ASSUME FreeAuthor, NEW s \in Selections, NEW L, Table(L),
         Len(s.nfrs) \in CriteriaMin..CriteriaMax
  PROVE  /\ _criterion_links(s, Answer(s, L)) = {} /\ _coverage(s, Answer(s, L)) = {}
         /\ check_criteria_count(Answer(s, L)) = {}
<1> DEFINE r == Answer(s, L)
<1>1. DOMAIN r = DOMAIN s.nfrs /\ DOMAIN s.nfrs = 1..Len(s.nfrs)
  BY AnswerIsRubric
<1>2. \A i \in DOMAIN r : r[i].related = <<s.nfrs[i].id>>
  BY <1>1 DEF Answer
<1>3. Len(r) = Len(s.nfrs)
  BY AnswerIsRubric
<1> HIDE DEF r
<1>4. \A i \in DOMAIN r : /\ r[i].related # <<>> /\ ~(Len(r[i].related) > 1)
                          /\ DOMAIN r[i].related = {1} /\ r[i].related[1] = s.nfrs[i].id
  BY <1>2
<1>5. \A i \in DOMAIN r : s.nfrs[i].id \in IdsOf(s.nfrs)
  BY <1>1 DEF IdsOf
<1>6. _criterion_links(s, r) = {}
  BY <1>4, <1>5 DEF _criterion_links, Errors
<1>7. _coverage(s, r) = {}
  BY <1>1, <1>4 DEF _coverage, Errors
<1>8. check_criteria_count(r) = {}
  BY <1>3 DEF check_criteria_count, Errors
<1> QED
  BY <1>6, <1>7, <1>8 DEF r

\* For NFRs the checks of the selection find nothing in, they find nothing in
\* this rubric either.
LEMMA AnswerPasses ==
  ASSUME FreeAuthor, NEW s \in Selections, NEW L, Table(L), OfSelection(s) = {},
         Len(s.nfrs) \in CriteriaMin..CriteriaMax
  PROVE  Findings(s, Answer(s, L)) = {}
<1> DEFINE r == Answer(s, L)
<1>1. Repeated(s.nfrs) = {}
  <2>1. Errors("ID_DUPLICATED", "confirmed_nfrs", Repeated(s.nfrs)) = {}
    BY Zenon DEF OfSelection
  <2> QED
    BY <2>1, NoErrors, Zenon
<1>2. Repeated(r) = {}
  <2>1. /\ DOMAIN r = DOMAIN s.nfrs /\ DOMAIN s.nfrs = 1..Len(s.nfrs)
        /\ Len(s.nfrs) \in Nat
    BY AnswerIsRubric
  <2>2. \A i \in DOMAIN r : r[i].id = s.nfrs[i].id
    BY <2>1 DEF Answer
  <2> HIDE DEF r
  <2>3. \A i \in DOMAIN r : \A j \in 1..(i - 1) : j \in DOMAIN r
    BY <2>1
  <2> QED
    BY <1>1, <2>1, <2>2, <2>3 DEF Repeated
<1>3. Errors("ID_DUPLICATED", "rubric", Repeated(r)) = {}
  BY <1>2 DEF Errors
<1>4. OfAuthor(s, r) = {}
  BY <1>3, AnswerAddsUp, AnswerLevels, AnswerLinks, Zenon DEF OfAuthor
<1>5. Findings(s, r) = OfSelection(s) \cup OfAuthor(s, r)
  BY Zenon DEF Findings, OfSelection, OfAuthor, _duplicated_ids
<1> HIDE DEF r
<1> QED
  BY <1>4, <1>5 DEF r

-----------------------------------------------------------------------------
(* Where the characters of a text stand once its bars are escaped.          *)

BarsTo(s, i) == Cardinality({j \in 1..i : s[j] = "|"})

\* Where the i-th character of s stands when its bars are escaped.
Pos(s, i) == i + BarsTo(s, i)

\* The bars of a text up to a place are finitely many.
LEMMA BarsAreFew ==
  ASSUME NEW s, NEW i \in Nat
  PROVE  IsFiniteSet({j \in 1..i : s[j] = "|"}) /\ BarsTo(s, i) \in Nat
<1>1. IsFiniteSet(1..i)
  BY FS_Interval
<1>2. {j \in 1..i : s[j] = "|"} \in SUBSET (1..i)
  OBVIOUS
<1>3. IsFiniteSet({j \in 1..i : s[j] = "|"})
  BY <1>1, <1>2, FS_Subset
<1> QED
  BY <1>3, FS_CardinalityType DEF BarsTo

\* ...so there is a number of them.
LEMMA BarsCount ==
  ASSUME NEW s, NEW i \in Nat
  PROVE  BarsTo(s, i) \in Nat
BY BarsAreFew

\* Each character stands one place further than the one before it, a bar two.
LEMMA PosStep ==
  ASSUME NEW s, NEW i \in Nat
  PROVE  /\ Pos(s, i) \in Nat /\ Pos(s, 0) = 0
         /\ i # 0 => Pos(s, i) = Pos(s, i - 1) + (IF s[i] = "|" THEN 2 ELSE 1)
<1> DEFINE B(n) == {j \in 1..n : s[j] = "|"}
<1>1. Pos(s, i) \in Nat
  BY BarsCount DEF Pos
<1>2. Pos(s, 0) = 0
  <2>1. B(0) = {}
    OBVIOUS
  <2> QED
    BY <2>1, FS_EmptySet DEF Pos, BarsTo
<1>3. ASSUME i # 0
      PROVE  Pos(s, i) = Pos(s, i - 1) + (IF s[i] = "|" THEN 2 ELSE 1)
  <2>1. i - 1 \in Nat
    BY <1>3
  <2>2. IsFiniteSet(B(i - 1)) /\ BarsTo(s, i - 1) \in Nat
    BY <2>1, BarsAreFew
  <2>3. B(i) = IF s[i] = "|" THEN B(i - 1) \cup {i} ELSE B(i - 1)
    BY <2>1
  <2>4. i \notin B(i - 1)
    OBVIOUS
  <2> HIDE DEF B
  <2>5. Cardinality(B(i - 1) \cup {i}) = Cardinality(B(i - 1)) + 1
    BY <2>2, <2>4, FS_AddElement
  <2>6. BarsTo(s, i) = Cardinality(B(i)) /\ BarsTo(s, i - 1) = Cardinality(B(i - 1))
    BY DEF BarsTo, B
  <2>7. BarsTo(s, i) = BarsTo(s, i - 1) + (IF s[i] = "|" THEN 1 ELSE 0)
    BY <2>2, <2>3, <2>5, <2>6
  <2> QED
    BY <2>1, <2>2, <2>7 DEF Pos
<1> QED
  BY <1>1, <1>2, <1>3

\* A later character stands later, and so does its backslash.
LEMMA PosGrows ==
  ASSUME NEW s, NEW i \in Nat, NEW j \in Nat, i < j
  PROVE  Pos(s, i) < Pos(s, j) /\ (s[j] = "|" => Pos(s, i) < Pos(s, j) - 1)
<1> DEFINE B(n) == {k \in 1..n : s[k] = "|"}
<1>1. j - 1 \in Nat /\ i <= j - 1
  OBVIOUS
<1>2. BarsTo(s, i) <= BarsTo(s, j - 1)
  <2>1. B(i) \in SUBSET B(j - 1)
    BY <1>1
  <2>2. IsFiniteSet(B(j - 1))
    BY <1>1, BarsAreFew
  <2> HIDE DEF B
  <2>3. Cardinality(B(i)) <= Cardinality(B(j - 1))
    BY <2>1, <2>2, FS_Subset
  <2> QED
    BY <2>3 DEF BarsTo, B
<1>3. Pos(s, i) <= Pos(s, j - 1)
  <2>1. BarsTo(s, i) \in Nat /\ BarsTo(s, j - 1) \in Nat
    BY <1>1, BarsCount
  <2> QED
    BY <1>1, <1>2, <2>1 DEF Pos
<1>4. /\ Pos(s, i) \in Nat /\ Pos(s, j - 1) \in Nat /\ Pos(s, j) \in Nat
      /\ Pos(s, j) = Pos(s, j - 1) + (IF s[j] = "|" THEN 2 ELSE 1)
  BY <1>1, PosStep
<1> QED
  BY <1>3, <1>4

\* The characters that stand at a place of their own, and the backslashes
\* before the bars, are all there is.
LEMMA PosCovers ==
  ASSUME NEW s, NEW n \in Nat, NEW k \in 1..Pos(s, n)
  PROVE  \E i \in 1..n : Pos(s, i) = k \/ (Pos(s, i) = k + 1 /\ s[i] = "|")
<1> DEFINE T == {i \in Nat : k <= Pos(s, i)}
<1>1. n \in T /\ T \in SUBSET Nat /\ Pos(s, n) \in Nat /\ k \in Nat
  BY PosStep
<1>2. PICK i \in T : \A h \in T : ~(h < i)
  BY <1>1, Least
<1>3. i <= n /\ i \in Nat
  BY <1>1, <1>2
<1>4. i # 0
  BY <1>2, PosStep
<1>5. i - 1 \in Nat /\ ~(k <= Pos(s, i - 1))
  BY <1>2, <1>3, <1>4
<1>6. /\ Pos(s, i) \in Nat /\ Pos(s, i - 1) \in Nat
      /\ Pos(s, i) = Pos(s, i - 1) + (IF s[i] = "|" THEN 2 ELSE 1)
  BY <1>3, <1>4, <1>5, PosStep
<1>7. k <= Pos(s, i)
  BY <1>2
<1>8. Pos(s, i) = k \/ (Pos(s, i) = k + 1 /\ s[i] = "|")
  BY <1>1, <1>5, <1>6, <1>7
<1> QED
  BY <1>3, <1>4, <1>8

-----------------------------------------------------------------------------
(* What escaping returns.  EscapeBars is a fold, whose value the library    *)
(* gives as the CHOOSE of a recursive function: some text is what the       *)
(* lemmas say (EscapedExists), at most one is (EscapedOnce), and the        *)
(* function takes the same values, or there were a least place where it     *)
(* does not (EscapeBarsIs).                                                 *)

\* c is the first m characters of s with their bars escaped.
IsEscaped(c, s, m) ==
  /\ c \in Seq(Characters) /\ Len(c) = Pos(s, m)
  /\ \A i \in 1..m : c[Pos(s, i)] = s[i] /\ (s[i] = "|" => c[Pos(s, i) - 1] = "\\")

\* One text is what escaping returns.
LEMMA EscapedOnce ==
  ASSUME NEW s, NEW m \in Nat, NEW c, IsEscaped(c, s, m), NEW d, IsEscaped(d, s, m)
  PROVE  c = d
<1>1. /\ c \in Seq(Characters) /\ d \in Seq(Characters)
      /\ Len(c) = Pos(s, m) /\ Len(d) = Pos(s, m)
  BY DEF IsEscaped
<1>2. ASSUME NEW k \in 1..Pos(s, m) PROVE c[k] = d[k]
  <2>1. PICK i \in 1..m : Pos(s, i) = k \/ (Pos(s, i) = k + 1 /\ s[i] = "|")
    BY <1>2, PosCovers
  <2>2. /\ c[Pos(s, i)] = s[i] /\ d[Pos(s, i)] = s[i]
        /\ s[i] = "|" => c[Pos(s, i) - 1] = "\\" /\ d[Pos(s, i) - 1] = "\\"
    BY <2>1 DEF IsEscaped
  <2>3. k + 1 - 1 = k
    BY PosStep
  <2> QED
    BY <2>1, <2>2, <2>3
<1> QED
  BY <1>1, <1>2, SeqEqual

\* The escape of one character ends with it, after a backslash if it is a bar.
LEMMA EscapeIs ==
  ASSUME NEW c \in Characters
  PROVE  /\ Escape(c) \in Seq(Characters)
         /\ Len(Escape(c)) = IF c = "|" THEN 2 ELSE 1
         /\ Escape(c)[Len(Escape(c))] = c
         /\ c = "|" => Escape(c)[1] = "\\"
<1>1. CASE c = "|"
  BY <1>1 DEF Escape, Characters
<1>2. CASE c # "|"
  BY <1>2 DEF Escape
<1> QED
  BY <1>1, <1>2

\* The next character of the text adds its escape.
LEMMA EscapedGrows ==
  ASSUME NEW s \in Seq(Characters), NEW m \in 1..Len(s), NEW c, IsEscaped(c, s, m - 1)
  PROVE  IsEscaped(c \o Escape(s[m]), s, m)
<1> DEFINE e == Escape(s[m])
           d == c \o e
<1>1. s[m] \in Characters /\ m \in Nat /\ m - 1 \in Nat /\ m # 0
  BY ElementOfSeq, LenProperties
<1>2. /\ e \in Seq(Characters) /\ Len(e) = (IF s[m] = "|" THEN 2 ELSE 1)
      /\ e[Len(e)] = s[m] /\ (s[m] = "|" => e[1] = "\\")
  BY <1>1, EscapeIs
<1>3. /\ c \in Seq(Characters) /\ Len(c) = Pos(s, m - 1)
      /\ \A i \in 1..m - 1 : c[Pos(s, i)] = s[i] /\ (s[i] = "|" => c[Pos(s, i) - 1] = "\\")
  BY DEF IsEscaped
<1>4. /\ Pos(s, m) \in Nat /\ Pos(s, m - 1) \in Nat
      /\ Pos(s, m) = Pos(s, m - 1) + Len(e)
  BY <1>1, <1>2, PosStep
<1> HIDE DEF e
<1>5. /\ d \in Seq(Characters) /\ Len(d) = Pos(s, m)
      /\ \A k \in 1..Pos(s, m) : d[k] = IF k <= Pos(s, m - 1) THEN c[k] ELSE e[k - Pos(s, m - 1)]
  <2>1. /\ d \in Seq(Characters) /\ Len(d) = Len(c) + Len(e)
        /\ \A k \in 1..Len(c) + Len(e) : d[k] = IF k <= Len(c) THEN c[k] ELSE e[k - Len(c)]
    BY <1>2, <1>3, ConcatProperties
  <2> QED
    BY <1>3, <1>4, <2>1
<1> HIDE DEF d
<1>6. ASSUME NEW i \in 1..m
      PROVE  d[Pos(s, i)] = s[i] /\ (s[i] = "|" => d[Pos(s, i) - 1] = "\\")
  <2>1. CASE i = m
    <3>1. d[Pos(s, m)] = e[Len(e)]
      BY <1>2, <1>4, <1>5
    <3>2. ASSUME s[m] = "|" PROVE d[Pos(s, m) - 1] = e[1]
      BY <1>2, <1>4, <1>5, <3>2
    <3> QED
      BY <1>2, <2>1, <3>1, <3>2
  <2>2. CASE i # m
    <3>1. i \in 1..m - 1 /\ i \in Nat /\ i - 1 \in Nat
      BY <1>1, <2>2
    <3>2. i = m - 1 \/ i < m - 1
      BY <1>1, <3>1
    <3>3. /\ Pos(s, i) \in Nat /\ Pos(s, i - 1) \in Nat
          /\ Pos(s, i) = Pos(s, i - 1) + (IF s[i] = "|" THEN 2 ELSE 1)
      BY <3>1, PosStep
    <3>4. Pos(s, i) <= Pos(s, m - 1)
      BY <1>1, <1>4, <3>1, <3>2, <3>3, PosGrows
    <3>5. d[Pos(s, i)] = c[Pos(s, i)]
      BY <1>4, <1>5, <3>3, <3>4
    <3>6. ASSUME s[i] = "|" PROVE d[Pos(s, i) - 1] = c[Pos(s, i) - 1]
      <4>1. Pos(s, i) - 1 \in 1..Pos(s, m) /\ Pos(s, i) - 1 <= Pos(s, m - 1)
        BY <1>4, <3>3, <3>4, <3>6
      <4> QED
        BY <1>5, <4>1
    <3> QED
      BY <1>3, <3>1, <3>5, <3>6
  <2> QED
    BY <2>1, <2>2
<1>7. IsEscaped(d, s, m)
  BY <1>5, <1>6 DEF IsEscaped
<1> QED
  BY <1>7 DEF d, e

\* Nothing escapes to nothing.
LEMMA EscapedNone ==
  ASSUME NEW s
  PROVE  IsEscaped(<<>>, s, 0)
<1>1. Pos(s, 0) = 0
  BY PosStep
<1> QED
  BY <1>1, EmptySeq DEF IsEscaped

\* As far as the text goes, its escaped form exists.
LEMMA EscapedExists ==
  ASSUME NEW s \in Seq(Characters), NEW m \in 0..Len(s)
  PROVE  \E c : IsEscaped(c, s, m)
<1> DEFINE Bad == {n \in 0..Len(s) : ~\E c : IsEscaped(c, s, n)}
<1>1. ASSUME Bad # {} PROVE FALSE
  <2>1. Bad \in SUBSET Nat
    OBVIOUS
  <2>2. PICK n \in Bad : \A h \in Bad : ~(h < n)
    BY <1>1, <2>1, Least
  <2>3. n # 0
    BY <2>2, EscapedNone
  <2>4. n \in 1..Len(s) /\ n - 1 \in 0..Len(s) /\ n - 1 < n
    BY <2>2, <2>3, LenProperties
  <2>5. PICK c : IsEscaped(c, s, n - 1)
    BY <2>2, <2>4
  <2>6. IsEscaped(c \o Escape(s[n]), s, n)
    BY <2>4, <2>5, EscapedGrows
  <2> QED
    BY <2>2, <2>6
<1> QED
  BY <1>1

\* EscapeBars returns it.
LEMMA EscapeBarsIs ==
  ASSUME NEW s \in Seq(Characters)
  PROVE  IsEscaped(EscapeBars(s), s, Len(s))
<1> DEFINE q == [i \in DOMAIN s |-> Escape(s[i])]
           E == [i \in 1..Len(s) |-> CHOOSE c : IsEscaped(c, s, i)]
           Flattens(f) == f = [i \in 1..Len(q) |-> IF i = 1 THEN q[i] ELSE f[i - 1] \o q[i]]
<1>1. Len(s) \in Nat /\ DOMAIN s = 1..Len(s) /\ Len(q) = Len(s)
      /\ \A i \in 1..Len(s) : q[i] = Escape(s[i])
  BY LenProperties
<1>2. CASE s = <<>>
  <2>1. Len(s) = 0 /\ q = <<>>
    BY <1>2
  <2>2. EscapeBars(s) = <<>>
    BY <2>1 DEF EscapeBars, FlattenSeq
  <2> QED
    BY <2>1, <2>2, EscapedNone
<1>3. CASE s # <<>>
  <2>1. Len(s) # 0
    BY <1>3, EmptySeq
  <2>2. \A i \in 1..Len(s) : IsEscaped(E[i], s, i)
    BY EscapedExists
  <2> HIDE DEF q, E
  <2>3. ASSUME NEW i \in 1..Len(s)
        PROVE  E[i] = IF i = 1 THEN q[i] ELSE E[i - 1] \o q[i]
    <3>1. CASE i = 1
      <4>1. IsEscaped(<<>>, s, i - 1)
        BY <3>1, EscapedNone
      <4>2. IsEscaped(<<>> \o Escape(s[i]), s, i)
        BY <4>1, EscapedGrows
      <4>3. <<>> \o Escape(s[i]) = Escape(s[i])
        <5>1. s[i] \in Characters
          BY ElementOfSeq
        <5> QED
          BY <5>1, EscapeIs, ConcatEmptySeq
      <4>4. E[i] = Escape(s[i])
        BY <2>2, <4>2, <4>3, EscapedOnce, i \in Nat
      <4> QED
        BY <1>1, <3>1, <4>4
    <3>2. CASE i # 1
      <4>1. i - 1 \in 1..Len(s)
        BY <1>1, <3>2
      <4>2. IsEscaped(E[i - 1] \o Escape(s[i]), s, i)
        BY <2>2, <4>1, EscapedGrows
      <4>3. E[i] = E[i - 1] \o Escape(s[i])
        BY <2>2, <4>2, EscapedOnce, i \in Nat
      <4> QED
        BY <1>1, <3>2, <4>3
    <3> QED
      BY <3>1, <3>2
  <2>4. E = [i \in 1..Len(s) |-> E[i]]
    BY DEF E
  <2>5. Flattens(E)
    BY <1>1, <2>3, <2>4
  <2> DEFINE Q == CHOOSE f : Flattens(f)
  <2>6. Flattens(Q)
    BY <2>5
  <2>7. EscapeBars(s) = Q[Len(s)]
    BY <1>1, <2>1 DEF EscapeBars, FlattenSeq, q
  <2>8. \A i \in 1..Len(s) : Q[i] = IF i = 1 THEN q[i] ELSE Q[i - 1] \o q[i]
    BY <1>1, <2>6
  <2> HIDE DEF Q
  <2> DEFINE Bad == {i \in 1..Len(s) : Q[i] # E[i]}
  <2>9. ASSUME Bad # {} PROVE FALSE
    <3>1. Bad \in SUBSET Nat
      OBVIOUS
    <3>2. PICK i \in Bad : \A h \in Bad : ~(h < i)
      BY <2>9, <3>1, Least
    <3>3. i \in 1..Len(s) /\ Q[i] # E[i]
      BY <3>2
    <3>4. i # 1
      BY <2>3, <2>8, <3>3
    <3>5. i - 1 \in 1..Len(s) /\ i - 1 < i
      BY <1>1, <3>3, <3>4
    <3>6. Q[i - 1] = E[i - 1]
      BY <3>2, <3>5
    <3> QED
      BY <2>3, <2>8, <3>3, <3>4, <3>6
  <2>10. Q[Len(s)] = E[Len(s)]
    BY <1>1, <2>1, <2>9
  <2> QED
    BY <1>1, <2>1, <2>2, <2>7, <2>10
<1> QED
  BY <1>2, <1>3

-----------------------------------------------------------------------------
(* The operators on texts: the n-th place of a set, the text between the    *)
(* blanks at its ends, its lines joined again.                              *)

\* The first k values of an increasing function are k values.
LEMMA CountTo ==
  ASSUME NEW m \in Nat, NEW f \in [1..m -> Nat],
         \A i, j \in 1..m : i < j => f[i] < f[j],
         NEW k \in 0..m
  PROVE  Cardinality({f[h] : h \in 1..k}) = k
<1> DEFINE T == {f[h] : h \in 1..k}
           g == [h \in 1..k |-> f[h]]
<1>1. \A h \in 1..k : h \in 1..m /\ g[h] = f[h] /\ f[h] \in Nat
  OBVIOUS
<1>2. \A h, j \in 1..k : g[h] = g[j] => h = j
  <2>1. SUFFICES ASSUME NEW h \in 1..k, NEW j \in 1..k, h # j PROVE g[h] # g[j]
    OBVIOUS
  <2>2. h < j \/ j < h
    BY <2>1
  <2>3. f[h] # f[j]
    BY <1>1, <2>2
  <2> QED
    BY <1>1, <2>3
<1>3. g \in [1..k -> T] /\ \A t \in T : \E h \in 1..k : g[h] = t
  OBVIOUS
<1> HIDE DEF g, T
<1>4. g \in Bijection(1..k, T)
  BY <1>2, <1>3 DEF Bijection, Injection, Surjection, IsInjective
<1>5. IsFiniteSet(1..k) /\ Cardinality(1..k) = k
  BY FS_Interval
<1>6. Cardinality(T) = k
  BY <1>4, <1>5, FS_Bijection DEF ExistsBijection
<1> QED
  BY <1>6 DEF T

\* The members of a set that are given in order.
LEMMA NthOfIncreasing ==
  ASSUME NEW m \in Nat, NEW f \in [1..m -> Nat],
         \A i, j \in 1..m : i < j => f[i] < f[j]
  PROVE  /\ Cardinality({f[i] : i \in 1..m}) = m
         /\ \A i \in 1..m : Nth({f[h] : h \in 1..m}, i) = f[i]
<1> DEFINE S == {f[h] : h \in 1..m}
           Under(x) == {j \in S : j < x}
<1>1. Cardinality(S) = m
  BY CountTo
<1>2. ASSUME NEW i \in 1..m PROVE Cardinality(Under(f[i])) = i - 1
  <2>1. Under(f[i]) = {f[h] : h \in 1..i - 1}
    <3>1. ASSUME NEW h \in 1..i - 1 PROVE f[h] \in S /\ f[h] < f[i]
      OBVIOUS
    <3>2. ASSUME NEW h \in 1..m, f[h] < f[i] PROVE h \in 1..i - 1
      <4>1. ~(i < h) /\ h # i
        BY <3>2
      <4> QED
        BY <4>1
    <3> QED
      BY <3>1, <3>2
  <2>2. i - 1 \in 0..m
    OBVIOUS
  <2> QED
    BY <2>1, <2>2, CountTo
<1>3. ASSUME NEW i \in 1..m PROVE Nth(S, i) = f[i]
  <2>1. f[i] \in S /\ Cardinality(Under(f[i])) = i - 1
    BY <1>2
  <2>2. ASSUME NEW x \in S, Cardinality(Under(x)) = i - 1 PROVE x = f[i]
    <3>1. PICK h \in 1..m : x = f[h]
      BY <2>2
    <3>2. h - 1 = i - 1
      BY <1>2, <2>2, <3>1
    <3> QED
      BY <3>1, <3>2
  <2> HIDE DEF S
  <2> QED
    BY <2>1, <2>2 DEF Nth
<1> QED
  BY <1>1, <1>3

\* What is left when the ends are trimmed: from the first to the last that stays.
LEMMA TrimIs ==
  ASSUME NEW s \in Seq(Characters), NEW S, NEW a \in 1..Len(s), NEW b \in 1..Len(s),
         s[a] \notin S, s[b] \notin S,
         \A i \in 1..Len(s) : i < a \/ b < i => s[i] \in S
  PROVE  Trim(s, S) = SubSeq(s, a, b)
<1> DEFINE kept == {i \in 1..Len(s) : s[i] \notin S}
<1>1. a \in kept /\ b \in kept /\ \A j \in kept : j \in Int /\ a <= j /\ j <= b
  OBVIOUS
<1> HIDE DEF kept
<1>2. (CHOOSE i \in kept : \A j \in kept : i <= j) = a
  <2>1. \A i \in kept : (\A j \in kept : i <= j) => i = a
    BY <1>1
  <2> QED
    BY <1>1, <2>1
<1>3. (CHOOSE i \in kept : \A j \in kept : j <= i) = b
  <2>1. \A i \in kept : (\A j \in kept : j <= i) => i = b
    BY <1>1
  <2> QED
    BY <1>1, <2>1
<1> QED
  BY <1>1, <1>2, <1>3 DEF Trim, kept

\* When no character stays, nothing is left.
LEMMA TrimNone ==
  ASSUME NEW s \in Seq(Characters), NEW S, \A i \in 1..Len(s) : s[i] \in S
  PROVE  Trim(s, S) = <<>>
<1>1. {i \in 1..Len(s) : s[i] \notin S} = {}
  OBVIOUS
<1> QED
  BY <1>1 DEF Trim

\* The first and the last character that stay.
LEMMA TrimEnds ==
  ASSUME NEW s \in Seq(Characters), NEW S, NEW k \in 1..Len(s), s[k] \notin S
  PROVE  \E a, b \in 1..Len(s) :
           /\ s[a] \notin S /\ s[b] \notin S /\ a <= b
           /\ \A i \in 1..Len(s) : i < a \/ b < i => s[i] \in S
<1> DEFINE kept == {i \in 1..Len(s) : s[i] \notin S}
           left == {Len(s) - i : i \in kept}
<1>1. Len(s) \in Nat /\ k \in kept /\ kept \in SUBSET Nat /\ left \in SUBSET Nat /\ left # {}
  BY LenProperties
<1>2. PICK a \in kept : \A j \in kept : ~(j < a)
  BY <1>1, Least
<1>3. PICK l \in left : \A j \in left : ~(j < l)
  BY <1>1, Least
<1>4. PICK b \in kept : l = Len(s) - b
  BY <1>3
<1>5. \A j \in kept : ~(b < j)
  <2>1. SUFFICES ASSUME NEW j \in kept, b < j PROVE FALSE
    OBVIOUS
  <2>2. Len(s) - j \in left /\ Len(s) - j < l
    BY <1>1, <1>4, <2>1
  <2> QED
    BY <1>3, <2>2
<1>6. a \in 1..Len(s) /\ b \in 1..Len(s) /\ s[a] \notin S /\ s[b] \notin S
  BY <1>2, <1>4
<1>7. ~(b < a)
  BY <1>2, <1>4
<1>8. \A i \in 1..Len(s) : i < a \/ b < i => s[i] \in S
  BY <1>2, <1>5
<1> QED
  BY <1>1, <1>6, <1>7, <1>8

\* The lines of a text joined: each break is replaced, the last one is dropped.
LEMMA JoinIs ==
  ASSUME NEW s \in Seq(Characters), NEW by, NEW n \in Nat,
         n = IF s # <<>> /\ s[Len(s)] \in LineBreaks THEN Len(s) - 1 ELSE Len(s)
  PROVE  JoinLines(s, by) = [i \in 1..n |-> IF s[i] \in LineBreaks THEN by ELSE s[i]]
<1> DEFINE t == IF s # <<>> /\ Last(s) \in LineBreaks THEN Front(s) ELSE s
<1>1. Len(s) \in Nat /\ DOMAIN s = 1..Len(s)
  BY LenProperties
<1>2. DOMAIN t = 1..n /\ \A i \in 1..n : t[i] = s[i]
  <2>1. CASE s # <<>> /\ s[Len(s)] \in LineBreaks
    <3>1. t = SubSeq(s, 1, Len(s) - 1)
      BY <2>1 DEF Last, Front
    <3>2. n = Len(s) - 1 /\ t = [i \in 1..n |-> s[1 + i - 1]]
      BY <1>1, <2>1, <3>1
    <3>3. \A i \in 1..n : 1 + i - 1 = i
      OBVIOUS
    <3> HIDE DEF t
    <3> QED
      BY <3>2, <3>3
  <2>2. CASE ~(s # <<>> /\ s[Len(s)] \in LineBreaks)
    BY <1>1, <2>2 DEF Last
  <2> QED
    BY <2>1, <2>2
<1>3. JoinLines(s, by) = [i \in DOMAIN t |-> IF t[i] \in LineBreaks THEN by ELSE t[i]]
  BY DEF JoinLines
<1> HIDE DEF t
<1> QED
  BY <1>2, <1>3

-----------------------------------------------------------------------------
(* A cell and the row it is written in.                                     *)

\* What a character of a descriptor is in its cell.
Br(c) == IF c \in LineBreaks THEN "<br>" ELSE c

\* c is a cell with the first m characters of s.
IsCell(c, s, m) ==
  /\ c \in Seq(Characters) /\ Len(c) = Pos(s, m)
  /\ \A k \in 1..Pos(s, m) : c[k] \notin LineBreaks
  /\ \A i \in 1..m : c[Pos(s, i)] = Br(s[i]) /\ (s[i] = "|" => c[Pos(s, i) - 1] = "\\")

\* A cell holds the whole descriptor, but for a break at its end.
LEMMA CellIs ==
  ASSUME NEW s \in Seq(Characters)
  PROVE  \E m \in 0..Len(s) :
           /\ IsCell(Cell(s), s, m)
           /\ m = Len(s) \/ (Len(s) # 0 /\ m = Len(s) - 1 /\ s[Len(s)] \in LineBreaks)
<1> DEFINE n == Len(s)
           e == EscapeBars(s)
           cut == s # <<>> /\ s[n] \in LineBreaks
           m == IF cut THEN n - 1 ELSE n
<1>1. n \in Nat /\ (s # <<>> => n # 0) /\ (s = <<>> => n = 0)
  BY EmptySeq, LenProperties
<1>2. m \in 0..n /\ (m = n \/ (n # 0 /\ m = n - 1 /\ s[n] \in LineBreaks))
  BY <1>1
<1>3. IsEscaped(e, s, n)
  BY EscapeBarsIs
<1>4. /\ Pos(s, n) \in Nat /\ Pos(s, m) \in Nat
      /\ cut => Pos(s, m) = Pos(s, n) - 1
      /\ n # 0 => Pos(s, n) # 0
  <2>1. Pos(s, n) \in Nat /\ Pos(s, m) \in Nat
    BY <1>1, <1>2, PosStep
  <2>2. ASSUME n # 0
        PROVE  Pos(s, n) = Pos(s, n - 1) + (IF s[n] = "|" THEN 2 ELSE 1) /\ Pos(s, n - 1) \in Nat
    BY <1>1, <2>2, PosStep
  <2>3. s[n] \in LineBreaks => s[n] # "|"
    BY DEF LineBreaks
  <2> QED
    BY <1>1, <2>1, <2>2, <2>3
<1>5. /\ e \in Seq(Characters) /\ Len(e) = Pos(s, n)
      /\ \A i \in 1..n : e[Pos(s, i)] = s[i] /\ (s[i] = "|" => e[Pos(s, i) - 1] = "\\")
  BY <1>3 DEF IsEscaped
<1> HIDE DEF e
<1>6. Pos(s, m) = IF e # <<>> /\ e[Len(e)] \in LineBreaks THEN Len(e) - 1 ELSE Len(e)
  <2>1. CASE n = 0
    <3>1. Pos(s, n) = 0
      BY <2>1, PosStep
    <3>2. e = <<>>
      BY <1>5, <3>1, EmptySeq
    <3> QED
      BY <1>1, <1>5, <2>1, <3>2
  <2>2. CASE n # 0
    <3>1. e # <<>> /\ e[Len(e)] = s[n] /\ s # <<>>
      BY <1>1, <1>4, <1>5, <2>2, EmptySeq
    <3> QED
      BY <1>4, <1>5, <3>1
  <2> QED
    BY <2>1, <2>2
<1>7. Cell(s) = [k \in 1..Pos(s, m) |-> Br(e[k])]
  <2>1. Cell(s) = JoinLines(e, "<br>")
    BY DEF Cell, e
  <2>2. JoinLines(e, "<br>")
          = [k \in 1..Pos(s, m) |-> IF e[k] \in LineBreaks THEN "<br>" ELSE e[k]]
    <3> DEFINE p == Pos(s, m)
    <3>1. p \in Nat /\ p = IF e # <<>> /\ e[Len(e)] \in LineBreaks THEN Len(e) - 1 ELSE Len(e)
      BY <1>4, <1>6
    <3> HIDE DEF p
    <3>2. JoinLines(e, "<br>") = [k \in 1..p |-> IF e[k] \in LineBreaks THEN "<br>" ELSE e[k]]
      BY <1>5, <3>1, JoinIs
    <3> QED
      BY <3>2 DEF p
  <2> QED
    BY <2>1, <2>2 DEF Br
<1> DEFINE c == Cell(s)
<1>8. Pos(s, m) <= Pos(s, n)
  BY <1>2, <1>4
<1>9. \A k \in 1..Pos(s, m) : c[k] = Br(e[k]) /\ c[k] \in Characters /\ c[k] \notin LineBreaks
  <2>1. SUFFICES ASSUME NEW k \in 1..Pos(s, m)
                 PROVE  c[k] = Br(e[k]) /\ c[k] \in Characters /\ c[k] \notin LineBreaks
    OBVIOUS
  <2>2. k \in 1..Len(e)
    BY <1>4, <1>5, <1>8
  <2>3. e[k] \in Characters
    BY <1>5, <2>2, ElementOfSeq
  <2>4. Br(e[k]) \in Characters /\ Br(e[k]) \notin LineBreaks
    BY <2>3 DEF Br, Characters, LineBreaks
  <2> QED
    BY <1>7, <2>4
<1>10. c \in Seq(Characters) /\ Len(c) = Pos(s, m)
  <2>1. c \in [1..Pos(s, m) -> Characters]
    BY <1>7, <1>9
  <2> QED
    BY <1>4, <2>1
<1> HIDE DEF c
<1>11. ASSUME NEW i \in 1..m
       PROVE  c[Pos(s, i)] = Br(s[i]) /\ (s[i] = "|" => c[Pos(s, i) - 1] = "\\")
  <2>1. i \in 1..n /\ i \in Nat /\ i # 0 /\ i - 1 \in Nat
    BY <1>2
  <2>2. /\ Pos(s, i) \in Nat /\ Pos(s, i - 1) \in Nat
        /\ Pos(s, i) = Pos(s, i - 1) + (IF s[i] = "|" THEN 2 ELSE 1)
    BY <2>1, PosStep
  <2>3. Pos(s, i) <= Pos(s, m)
    <3>1. i = m \/ i < m
      BY <1>2, <2>1
    <3> QED
      BY <1>2, <1>4, <2>1, <2>2, <3>1, PosGrows
  <2>4. Pos(s, i) \in 1..Pos(s, m) /\ (s[i] = "|" => Pos(s, i) - 1 \in 1..Pos(s, m))
    BY <1>4, <2>2, <2>3
  <2>5. Br("\\") = "\\"
    BY DEF Br, LineBreaks
  <2> QED
    BY <1>5, <1>9, <2>1, <2>4, <2>5
<1>12. IsCell(c, s, m)
  BY <1>9, <1>10, <1>11 DEF IsCell
<1> HIDE DEF m, n
<1> QED
  BY <1>2, <1>12 DEF c, n

\* r is c between h and t.
Joins(r, h, c, t) ==
  /\ r \in Seq(Characters) /\ Len(r) = Len(h) + Len(c) + Len(t)
  /\ \A k \in 1..Len(h) : r[k] = h[k]
  /\ \A k \in 1..Len(c) : r[Len(h) + k] = c[k]
  /\ \A k \in 1..Len(t) : r[Len(h) + Len(c) + k] = t[k]

\* Texts joined by \o twice.
LEMMA Between ==
  ASSUME NEW h \in Seq(Characters), NEW c \in Seq(Characters), NEW t \in Seq(Characters),
         NEW m \in Nat, NEW l \in Nat, NEW n \in Nat,
         m = Len(h), l = Len(c), n = Len(t), NEW r, r = (h \o c) \o t
  PROVE  Joins(r, h, c, t)
<1> DEFINE d == h \o c
<1>1. /\ d \in Seq(Characters) /\ Len(d) = m + l
      /\ \A k \in 1..m + l : d[k] = IF k <= m THEN h[k] ELSE c[k - m]
  BY ConcatProperties
<1> HIDE DEF d
<1>2. r = d \o t
  BY DEF d
<1>3. /\ r \in Seq(Characters) /\ Len(r) = m + l + n
      /\ \A k \in 1..m + l + n : r[k] = IF k <= m + l THEN d[k] ELSE t[k - (m + l)]
  <2> DEFINE e == d \o t
  <2>1. /\ e \in Seq(Characters) /\ Len(e) = Len(d) + Len(t)
        /\ \A k \in 1..Len(d) + Len(t) : e[k] = IF k <= Len(d) THEN d[k] ELSE t[k - Len(d)]
    <3>1. d \in Seq(Characters)
      BY <1>1
    <3> QED
      BY <3>1, ConcatProperties
  <2>2. Len(d) + Len(t) = m + l + n /\ r = e
    BY <1>1, <1>2
  <2> HIDE DEF e
  <2> QED
    BY <1>1, <2>1, <2>2
<1>4. ASSUME NEW k \in 1..m PROVE r[k] = h[k]
  <2>1. k \in 1..m + l /\ k \in 1..m + l + n /\ k <= m + l /\ k <= m
    OBVIOUS
  <2> QED
    BY <1>1, <1>3, <2>1
<1>5. ASSUME NEW k \in 1..l PROVE r[m + k] = c[k]
  <2>1. /\ m + k \in 1..m + l /\ m + k \in 1..m + l + n /\ m + k <= m + l
        /\ ~(m + k <= m) /\ m + k - m = k
    OBVIOUS
  <2> QED
    BY <1>1, <1>3, <2>1
<1>6. ASSUME NEW k \in 1..n PROVE r[m + l + k] = t[k]
  <2>1. m + l + k \in 1..m + l + n /\ ~(m + l + k <= m + l) /\ m + l + k - (m + l) = k
    OBVIOUS
  <2> QED
    BY <1>3, <2>1
<1> QED
  BY <1>3, <1>4, <1>5, <1>6 DEF Joins

\* ...with their own lengths.
LEMMA JoinOfThree ==
  ASSUME NEW h \in Seq(Characters), NEW c \in Seq(Characters), NEW t \in Seq(Characters)
  PROVE  Joins((h \o c) \o t, h, c, t)
<1>1. Len(h) \in Nat /\ Len(c) \in Nat /\ Len(t) \in Nat
  BY LenProperties
<1> QED
  BY <1>1, Between

\* The texts before and after a cell are texts.
LEMMA SixIsSeq ==
  ASSUME NEW S, NEW x \in S, NEW y \in S, NEW z \in S
  PROVE  <<x, y, z, y, x, y>> \in Seq(S) /\ <<y, x>> \in Seq(S)
OBVIOUS

\* r is a row with the cell c, of l characters.
IsRow(r, c, l) ==
  /\ r \in Seq(Characters) /\ Len(r) = l + 8
  /\ r[1] = "|" /\ r[2] = "space" /\ r[3] = "a" /\ r[4] = "space" /\ r[5] = "|" /\ r[6] = "space"
  /\ \A k \in 1..l : r[6 + k] = c[k]
  /\ r[l + 7] = "space" /\ r[l + 8] = "|"

\* The row of a descriptor holds its cell.
LEMMA RowIs ==
  ASSUME NEW s, NEW c \in Seq(Characters), c = Cell(s), NEW l \in Nat, l = Len(c)
  PROVE  IsRow(Row(s), c, l)
<1> DEFINE h == <<"|", "space", "a", "space", "|", "space">>
           t == <<"space", "|">>
           r == Row(s)
<1>1. "|" \in Characters /\ "space" \in Characters /\ "a" \in Characters
  BY DEF Characters
<1>2. h \in Seq(Characters) /\ t \in Seq(Characters)
  BY <1>1, SixIsSeq
<1>3. /\ Len(h) = 6 /\ h[1] = "|" /\ h[2] = "space" /\ h[3] = "a" /\ h[4] = "space" /\ h[5] = "|"
      /\ h[6] = "space" /\ Len(t) = 2 /\ t[1] = "space" /\ t[2] = "|"
  OBVIOUS
<1>4. r = (h \o c) \o t
  BY DEF Row
<1> HIDE DEF h, t, r
<1>5. /\ r \in Seq(Characters) /\ Len(r) = 6 + l + 2
      /\ \A k \in 1..6 : r[k] = h[k]
      /\ \A k \in 1..l : r[6 + k] = c[k]
      /\ \A k \in 1..2 : r[6 + l + k] = t[k]
  <2>1. Joins(r, h, c, t)
    BY <1>2, <1>4, JoinOfThree
  <2>2. r \in Seq(Characters) /\ Len(r) = 6 + l + 2
    BY <1>3, <2>1 DEF Joins
  <2>3. \A k \in 1..6 : r[k] = h[k]
    BY <1>3, <2>1 DEF Joins
  <2>4. \A k \in 1..l : r[6 + k] = c[k]
    BY <1>3, <2>1 DEF Joins
  <2>5. \A k \in 1..2 : r[6 + l + k] = t[k]
    BY <1>3, <2>1 DEF Joins
  <2> QED
    BY <2>2, <2>3, <2>4, <2>5
<1>6. /\ r[1] = "|" /\ r[2] = "space" /\ r[3] = "a" /\ r[4] = "space" /\ r[5] = "|" /\ r[6] = "space"
  <2>1. 1 \in 1..6 /\ 2 \in 1..6 /\ 3 \in 1..6 /\ 4 \in 1..6 /\ 5 \in 1..6 /\ 6 \in 1..6
    OBVIOUS
  <2>2. \A k \in 1..6 : r[k] = h[k]
    BY <1>5
  <2> QED
    BY <1>3, <2>1, <2>2, Zenon
<1>7. r[6 + l + 1] = "space" /\ r[6 + l + 2] = "|"
  <2>1. 1 \in 1..2 /\ 2 \in 1..2
    OBVIOUS
  <2>2. \A k \in 1..2 : r[6 + l + k] = t[k]
    BY <1>5
  <2> QED
    BY <1>3, <2>1, <2>2, Zenon
<1>8. 6 + l + 2 = l + 8 /\ 6 + l + 1 = l + 7
  OBVIOUS
<1>9. IsRow(r, c, l)
  BY <1>5, <1>6, <1>7, <1>8 DEF IsRow
<1> QED
  BY <1>9 DEF r

\* The reader drops the two outer bars.
LEMMA InnerIs ==
  ASSUME NEW row \in Seq(Characters), NEW l \in Nat, l = Len(row), l >= 2,
         row[1] = "|", row[l] = "|"
  PROVE  /\ Inner(row) \in Seq(Characters) /\ Len(Inner(row)) = l - 2
         /\ \A i \in 1..l - 2 : Inner(row)[i] = row[i + 1]
<1>1. l \in Nat /\ 1 \in 1..l /\ l \in 1..l
  OBVIOUS
<1>2. Strip(row) = row
  <2>1. "|" \notin Blanks
    BY DEF Blanks, LineBreaks
  <2>2. \A i \in 1..l : ~(i < 1 \/ l < i)
    BY <1>1
  <2>3. Trim(row, Blanks) = SubSeq(row, 1, l)
    BY <1>1, <2>1, <2>2, TrimIs
  <2> QED
    BY <2>3, SubSeqFull DEF Strip
<1> DEFINE t == Tail(row)
<1>3. /\ row # <<>> /\ Head(row) = "|" /\ t \in Seq(Characters) /\ Len(t) = l - 1
      /\ \A i \in 1..l - 1 : t[i] = row[i + 1]
  <2>1. row # <<>>
    BY EmptySeq
  <2>2. /\ t \in Seq(Characters) /\ Len(t) = l - 1
        /\ \A i \in 1..Len(t) : t[i] = row[i + 1]
    BY <2>1, HeadTailProperties
  <2> QED
    BY <2>1, <2>2
<1>4. t # <<>> /\ Last(t) = "|"
  <2>1. l - 1 \in 1..l - 1 /\ l - 1 + 1 = l
    BY <1>1
  <2>2. t[l - 1] = row[l]
    BY <1>3, <2>1
  <2>3. Last(t) = t[l - 1]
    BY <1>3 DEF Last
  <2>4. Len(t) # 0
    BY <1>1, <1>3
  <2> HIDE DEF t
  <2> QED
    BY <2>2, <2>3, <2>4, EmptySeq
<1>5. Inner(row) = Front(t)
  BY <1>2, <1>3, <1>4 DEF Inner
<1> HIDE DEF t
<1> DEFINE f == SubSeq(t, 1, l - 2)
<1>6. /\ f \in Seq(Characters) /\ Len(f) = l - 2
      /\ \A i \in 1..l - 2 : f[i] = t[i]
  <2>1. \A i \in 1..l - 2 : t[i] \in Characters
    BY <1>1, <1>3, ElementOfSeq
  <2>2. 1 \in Int /\ l - 2 \in Int
    BY <1>1
  <2>3. /\ f \in Seq(Characters) /\ Len(f) = (IF 1 <= l - 2 THEN (l - 2) - 1 + 1 ELSE 0)
        /\ \A i \in 1..(l - 2) - 1 + 1 : f[i] = t[1 + i - 1]
    BY <2>1, <2>2, SubSeqProperties
  <2>4. (l - 2) - 1 + 1 = l - 2 /\ (~(1 <= l - 2) => l - 2 = 0)
    BY <1>1
  <2>5. \A i \in 1..l - 2 : 1 + i - 1 = i
    BY <1>1
  <2> HIDE DEF f
  <2>6. Len(f) = l - 2
    BY <2>3, <2>4
  <2>7. \A i \in 1..l - 2 : f[i] = t[i]
    BY <2>3, <2>4, <2>5
  <2> QED
    BY <2>3, <2>6, <2>7
<1>7. Front(t) = f
  <2>1. Len(t) - 1 = l - 2
    BY <1>1, <1>3
  <2> QED
    BY <2>1 DEF Front
<1> HIDE DEF f
<1>8. \A i \in 1..l - 2 : f[i] = row[i + 1]
  BY <1>1, <1>3, <1>6
<1> QED
  BY <1>5, <1>6, <1>7, <1>8

\* A row as the reader parts it: w is what stands between its outer bars.
LEMMA TwoParts ==
  ASSUME NEW w \in Seq(Characters), Bars(w) = {4}, Len(w) >= 4
  PROVE  Parts(w) = [n \in 1..2 |-> IF n = 1 THEN SubSeq(w, 1, 3) ELSE SubSeq(w, 5, Len(w))]
<1> DEFINE l == Len(w) + 1
           f == [i \in 1..3 |-> IF i = 1 THEN 0 ELSE IF i = 2 THEN 4 ELSE l]
<1>1. l \in Nat /\ l > 4
  BY LenProperties
<1>2. f \in [1..3 -> Nat] /\ \A i, j \in 1..3 : i < j => f[i] < f[j]
  BY <1>1
<1>3. f[1] = 0 /\ f[2] = 4 /\ f[3] = l
  OBVIOUS
<1> HIDE DEF f
<1>4. Bars(w) \cup {0, l} = {f[i] : i \in 1..3}
  <2>1. \A i \in 1..3 : i = 1 \/ i = 2 \/ i = 3
    OBVIOUS
  <2> QED
    BY <1>3, <2>1
<1> DEFINE S == {f[i] : i \in 1..3}
<1>5. Cardinality(S) = 3 /\ \A i \in 1..3 : Nth(S, i) = f[i]
  BY <1>2, NthOfIncreasing
<1>6. Parts(w) = [n \in 1..Cardinality(S) - 1 |-> SubSeq(w, Nth(S, n) + 1, Nth(S, n + 1) - 1)]
  BY <1>4 DEF Parts
<1> HIDE DEF S
<1>7. Cardinality(S) - 1 = 2 /\ Nth(S, 1) = 0 /\ Nth(S, 2) = 4 /\ Nth(S, 3) = l
  BY <1>3, <1>5
<1>8. ASSUME NEW n \in 1..2
      PROVE  SubSeq(w, Nth(S, n) + 1, Nth(S, n + 1) - 1)
               = IF n = 1 THEN SubSeq(w, 1, 3) ELSE SubSeq(w, 5, Len(w))
  <2>1. 0 + 1 = 1 /\ 4 - 1 = 3 /\ 4 + 1 = 5 /\ l - 1 = Len(w) /\ 1 + 1 = 2 /\ 2 + 1 = 3
    BY LenProperties
  <2>2. CASE n = 1
    BY <1>7, <2>1, <2>2
  <2>3. CASE n = 2
    BY <1>7, <2>1, <2>3
  <2>4. n = 1 \/ n = 2
    OBVIOUS
  <2> QED
    BY <2>2, <2>3, <2>4
<1> QED
  BY <1>6, <1>7, <1>8

\* The order of the characters of a text is that of their places.
LEMMA PosOrder ==
  ASSUME NEW s, NEW i \in Nat, NEW j \in Nat
  PROVE  /\ i <= j => Pos(s, i) <= Pos(s, j)
         /\ Pos(s, i) < Pos(s, j) => i < j
<1>1. Pos(s, i) \in Nat /\ Pos(s, j) \in Nat
  BY PosStep
<1>2. CASE i < j
  BY <1>1, <1>2, PosGrows
<1>3. CASE j < i
  BY <1>1, <1>3, PosGrows
<1>4. CASE i = j
  BY <1>1, <1>4
<1> QED
  BY <1>2, <1>3, <1>4

\* Which of the characters are bars and which are blanks.
LEMMA BrIs ==
  ASSUME NEW x
  PROVE  /\ Br(x) = "|" => x = "|"
         /\ x \notin LineBreaks => Br(x) = x
         /\ "|" \notin LineBreaks /\ "space" \notin LineBreaks /\ "\\" \notin LineBreaks
         /\ "|" \notin Blanks /\ "\\" \notin Blanks /\ "space" \in Blanks
BY DEF Br, LineBreaks, Blanks

\* Every bar of a cell is one of the text's, with its backslash.
LEMMA CellBars ==
  ASSUME NEW s, NEW m \in Nat, NEW c, IsCell(c, s, m), NEW k \in 1..Pos(s, m), c[k] = "|"
  PROVE  /\ \E j \in 1..m : Pos(s, j) = k /\ s[j] = "|"
         /\ k - 1 \in 1..Pos(s, m) /\ c[k - 1] = "\\"
<1>1. PICK j \in 1..m : Pos(s, j) = k \/ (Pos(s, j) = k + 1 /\ s[j] = "|")
  BY PosCovers
<1>2. c[Pos(s, j)] = Br(s[j]) /\ (s[j] = "|" => c[Pos(s, j) - 1] = "\\")
  BY DEF IsCell
<1>3. ~(Pos(s, j) = k + 1 /\ s[j] = "|")
  <2>1. SUFFICES ASSUME Pos(s, j) = k + 1, s[j] = "|" PROVE FALSE
    OBVIOUS
  <2>2. Pos(s, j) - 1 = k
    BY <2>1
  <2> QED
    BY <1>2, <2>1, <2>2
<1>4. Pos(s, j) = k /\ s[j] = "|"
  BY <1>1, <1>2, <1>3, BrIs
<1>5. j \in Nat /\ j # 0 /\ j - 1 \in Nat
  OBVIOUS
<1>6. Pos(s, j) = Pos(s, j - 1) + 2 /\ Pos(s, j - 1) \in Nat /\ Pos(s, m) \in Nat
  BY <1>4, <1>5, PosStep
<1>7. k - 1 \in 1..Pos(s, m)
  BY <1>4, <1>6
<1> QED
  BY <1>2, <1>4, <1>7

\* d is w from a to b.
IsPart(d, w, a, b) ==
  /\ d \in Seq(Characters) /\ Len(d) = b - a + 1
  /\ \A i \in 1..b - a + 1 : d[i] = w[a + i - 1]

\* SubSeq is such a part.
LEMMA SubSeqIs ==
  ASSUME NEW w \in Seq(Characters), NEW l \in Nat, l = Len(w),
         NEW a \in 1..l + 1, NEW b \in 0..l, a <= b + 1
  PROVE  IsPart(SubSeq(w, a, b), w, a, b)
<1>1. \A i \in a..b : w[i] \in Characters
  BY ElementOfSeq
<1>2. a \in Int /\ b \in Int
  OBVIOUS
<1> DEFINE d == SubSeq(w, a, b)
<1>3. /\ d \in Seq(Characters) /\ Len(d) = (IF a <= b THEN b - a + 1 ELSE 0)
      /\ \A i \in 1..b - a + 1 : d[i] = w[a + i - 1]
  BY <1>1, <1>2, SubSeqProperties
<1>4. ~(a <= b) => b - a + 1 = 0
  OBVIOUS
<1> HIDE DEF d
<1>5. Len(d) = b - a + 1
  BY <1>3, <1>4
<1>6. \A i \in 1..b - a + 1 : d[i] = w[a + i - 1]
  BY <1>3
<1>7. IsPart(d, w, a, b)
  BY <1>3, <1>5, <1>6 DEF IsPart
<1> QED
  BY <1>7 DEF d

\* w is what stands between the outer bars of such a row.
IsInner(w, c, l) ==
  /\ w \in Seq(Characters) /\ Len(w) = l + 6
  /\ w[1] = "space" /\ w[2] = "a" /\ w[3] = "space" /\ w[4] = "|" /\ w[5] = "space"
  /\ \A k \in 1..l : w[5 + k] = c[k]
  /\ w[l + 6] = "space"

\* What the reader keeps of a row.
LEMMA InnerOfRow ==
  ASSUME NEW r, NEW c, NEW l \in Nat, IsRow(r, c, l)
  PROVE  IsInner(Inner(r), c, l)
<1> DEFINE w == Inner(r)
<1>1. /\ r[1] = "|" /\ r[2] = "space" /\ r[3] = "a" /\ r[4] = "space" /\ r[5] = "|" /\ r[6] = "space"
      /\ \A k \in 1..l : r[6 + k] = c[k]
      /\ r[l + 7] = "space" /\ r[l + 8] = "|"
  BY DEF IsRow
<1>2. l + 8 \in Nat /\ l + 8 >= 2 /\ l + 8 - 2 = l + 6
  OBVIOUS
<1>3. /\ w \in Seq(Characters) /\ Len(w) = l + 8 - 2
      /\ \A i \in 1..l + 8 - 2 : w[i] = r[i + 1]
  <2>1. r \in Seq(Characters) /\ Len(r) = l + 8
    BY DEF IsRow
  <2>2. r[1] = "|" /\ r[l + 8] = "|"
    BY <1>1
  <2> QED
    BY <1>2, <2>1, <2>2, InnerIs
<1> HIDE DEF w
<1>4. /\ Len(w) = l + 6
      /\ \A i \in 1..l + 6 : w[i] = r[i + 1]
  BY <1>2, <1>3
<1>5. /\ w[1] = r[2] /\ w[2] = r[3] /\ w[3] = r[4] /\ w[4] = r[5] /\ w[5] = r[6]
      /\ w[l + 6] = r[l + 7]
  <2>1. /\ 1 \in 1..l + 6 /\ 2 \in 1..l + 6 /\ 3 \in 1..l + 6 /\ 4 \in 1..l + 6
        /\ 5 \in 1..l + 6 /\ l + 6 \in 1..l + 6
        /\ 1 + 1 = 2 /\ 2 + 1 = 3 /\ 3 + 1 = 4 /\ 4 + 1 = 5 /\ 5 + 1 = 6
        /\ l + 6 + 1 = l + 7
    OBVIOUS
  <2>2. \A i \in 1..l + 6 : w[i] = r[i + 1]
    BY <1>4
  <2> QED
    BY <2>1, <2>2
<1>6. ASSUME NEW k \in 1..l PROVE w[5 + k] = c[k]
  <2>1. 5 + k \in 1..l + 6 /\ 5 + k + 1 = 6 + k
    OBVIOUS
  <2>2. w[5 + k] = r[6 + k]
    BY <1>4, <2>1
  <2> QED
    BY <1>1, <2>2
<1>7. IsInner(w, c, l)
  BY <1>1, <1>3, <1>4, <1>5, <1>6 DEF IsInner
<1> QED
  BY <1>7 DEF w

\* v is the cell between two spaces.
IsField(v, c, l) ==
  /\ v \in Seq(Characters) /\ Len(v) = l + 2 /\ v[1] = "space" /\ v[l + 2] = "space"
  /\ \A k \in 1..l : v[1 + k] = c[k]

\* A row has two cells, and the second is the one that was written.
LEMMA CellsOfRow ==
  ASSUME NEW s, NEW m \in Nat, NEW c \in Seq(Characters), c = Cell(s), IsCell(c, s, m),
         NEW l \in Nat, l = Len(c)
  PROVE  \E v : /\ IsField(v, c, l)
                /\ Len(Cells(Row(s))) = 2 /\ Cells(Row(s))[2] = Unescape(Strip(v))
<1> DEFINE w == Inner(Row(s))
<1>1. IsInner(w, c, l)
  BY RowIs, InnerOfRow
<1>2. Cells(Row(s)) = [n \in DOMAIN Parts(w) |-> Unescape(Strip(Parts(w)[n]))]
  BY DEF Cells
<1> HIDE DEF w
<1>3. /\ w[1] = "space" /\ w[2] = "a" /\ w[3] = "space" /\ w[4] = "|" /\ w[5] = "space"
      /\ \A k \in 1..l : w[5 + k] = c[k]
      /\ w[l + 6] = "space"
  BY <1>1 DEF IsInner
<1>4. w \in Seq(Characters) /\ Len(w) = l + 6
  BY <1>1 DEF IsInner
<1>5. DOMAIN w = 1..l + 6
  BY <1>4, LenProperties
<1>6. Bars(w) = {4}
  <2>1. 4 \in Bars(w)
    <3>1. 4 \in 1..l + 6 /\ 4 - 1 = 3
      OBVIOUS
    <3> QED
      BY <1>3, <1>5, <3>1 DEF Bars
  <2>2. ASSUME NEW i \in 1..l + 6, w[i] = "|", i = 1 \/ w[i - 1] # "\\" PROVE i = 4
    <3>1. i # 1 /\ i # 2 /\ i # 3 /\ i # 5 /\ i # l + 6
      BY <1>3, <2>2
    <3>2. ASSUME i > 5 PROVE FALSE
      <4>1. /\ i - 5 \in 1..l /\ 5 + (i - 5) = i
        BY <3>1, <3>2
      <4>2. c[i - 5] = "|"
        BY <1>3, <2>2, <4>1
      <4>3. Pos(s, m) = l
        BY DEF IsCell
      <4>4. i - 5 - 1 \in 1..l /\ c[i - 5 - 1] = "\\"
        BY <4>1, <4>2, <4>3, CellBars
      <4>5. w[5 + (i - 5 - 1)] = c[i - 5 - 1]
        BY <1>3, <4>4
      <4>6. 5 + (i - 5 - 1) = i - 1
        OBVIOUS
      <4> QED
        BY <2>2, <3>1, <4>4, <4>5, <4>6
    <3> QED
      BY <3>1, <3>2
  <2> QED
    BY <1>5, <2>1, <2>2 DEF Bars
<1> DEFINE v == SubSeq(w, 5, l + 6)
<1>7. Parts(w) = [n \in 1..2 |-> IF n = 1 THEN SubSeq(w, 1, 3) ELSE v]
  <2>1. Len(w) >= 4
    BY <1>4
  <2>2. Parts(w) = [n \in 1..2 |-> IF n = 1 THEN SubSeq(w, 1, 3) ELSE SubSeq(w, 5, Len(w))]
    BY <1>6, <1>4, <2>1, TwoParts
  <2> QED
    BY <1>4, <2>2
<1>8. /\ v \in Seq(Characters) /\ Len(v) = l + 2
      /\ \A i \in 1..l + 2 : v[i] = w[5 + i - 1]
  <2>1. /\ l + 6 \in Nat /\ 5 \in 1..l + 6 + 1 /\ l + 6 \in 0..l + 6 /\ 5 <= l + 6 + 1
        /\ l + 6 - 5 + 1 = l + 2
    OBVIOUS
  <2>2. /\ v \in Seq(Characters) /\ Len(v) = l + 6 - 5 + 1
        /\ \A i \in 1..l + 6 - 5 + 1 : v[i] = w[5 + i - 1]
    BY <1>4, <2>1, SubSeqIs DEF IsPart
  <2> HIDE DEF v
  <2> QED
    BY <2>1, <2>2
<1> HIDE DEF v
<1>9. v[1] = "space" /\ v[l + 2] = "space"
  <2>1. 1 \in 1..l + 2 /\ l + 2 \in 1..l + 2 /\ 5 + 1 - 1 = 5 /\ 5 + (l + 2) - 1 = l + 6
    OBVIOUS
  <2> QED
    BY <1>3, <1>8, <2>1
<1>10. ASSUME NEW k \in 1..l PROVE v[1 + k] = c[k]
  <2>1. 1 + k \in 1..l + 2 /\ 5 + (1 + k) - 1 = 5 + k
    OBVIOUS
  <2>2. v[1 + k] = w[5 + k]
    BY <1>8, <2>1
  <2> QED
    BY <1>3, <2>2
<1>11. Len(Cells(Row(s))) = 2 /\ Cells(Row(s))[2] = Unescape(Strip(v))
  <2> DEFINE parts == Parts(w)
  <2>1. DOMAIN parts = 1..2 /\ parts[2] = v
    BY <1>7
  <2>2. Cells(Row(s)) = [n \in DOMAIN parts |-> Unescape(Strip(parts[n]))]
    BY <1>2
  <2> HIDE DEF parts
  <2> QED
    BY <2>1, <2>2
<1>12. IsField(v, c, l)
  BY <1>8, <1>9, <1>10 DEF IsField
<1> QED
  BY <1>11, <1>12

-----------------------------------------------------------------------------
(* What is read back of a cell.                                             *)

\* A backslash before a bar, at place k of x.
EscapesAt(x, l, k) == x[k] = "\\" /\ k < l /\ x[k + 1] = "|"

\* f goes through the n places of x where there is none.
Keeps(f, n, x, l) ==
  /\ f \in [1..n -> Nat]
  /\ \A i, j \in 1..n : i < j => f[i] < f[j]
  /\ \A i \in 1..n : f[i] \in 1..l /\ ~EscapesAt(x, l, f[i])
  /\ \A k \in 1..l : EscapesAt(x, l, k) \/ \E i \in 1..n : f[i] = k

\* Unescaping keeps those places, and each <br> is a newline again.
LEMMA UnescapeIs ==
  ASSUME NEW x \in Seq(Characters), NEW l \in Nat, l = Len(x),
         NEW n \in Nat, NEW f, Keeps(f, n, x, l)
  PROVE  Unescape(x) = [i \in 1..n |-> IF x[f[i]] = "<br>" THEN "newline" ELSE x[f[i]]]
<1> DEFINE escapes == {i \in DOMAIN x : x[i] = "\\" /\ i < Len(x) /\ x[i + 1] = "|"}
           kept == DOMAIN x \ escapes
           S == {f[i] : i \in 1..n}
<1>1. DOMAIN x = 1..l
  BY LenProperties
<1>2. escapes = {k \in 1..l : EscapesAt(x, l, k)}
  BY <1>1 DEF EscapesAt
<1>3. kept = S
  <2>1. ASSUME NEW k \in kept PROVE k \in S
    BY <1>1, <1>2 DEF Keeps
  <2>2. ASSUME NEW i \in 1..n PROVE f[i] \in kept
    BY <1>1, <1>2 DEF Keeps
  <2> HIDE DEF kept
  <2> QED
    BY <2>1, <2>2
<1>4. Cardinality(S) = n /\ \A i \in 1..n : Nth(S, i) = f[i]
  BY NthOfIncreasing DEF Keeps
<1>5. Unescape(x) = [i \in 1..Cardinality(kept) |->
                       IF x[Nth(kept, i)] = "<br>" THEN "newline" ELSE x[Nth(kept, i)]]
  BY DEF Unescape
<1> HIDE DEF kept, S
<1> QED
  BY <1>3, <1>4, <1>5

\* But for those from a to b the characters of s are spaces.
SpaceOutside(s, m, a, b) == \A i \in 1..m : i < a \/ b < i => s[i] = "space"

\* The blanks at its ends stripped, a field is what it says from the first to
\* the last character of the text that is no blank.
LEMMA FieldStripped ==
  ASSUME NEW s \in Seq(Characters), NEW m \in Nat, m = Len(s),
         NEW c, IsCell(c, s, m), NEW l \in Nat, l = Len(c), NEW v, IsField(v, c, l),
         NEW a \in 1..m, NEW b \in 1..m, a <= b, s[a] \notin Blanks, s[b] \notin Blanks,
         SpaceOutside(s, m, a, b)
  PROVE  Strip(v) = SubSeq(v, Pos(s, a - 1) + 2, Pos(s, b) + 1)
<1> DEFINE p == Pos(s, a - 1)
           q == Pos(s, b)
<1>1. a - 1 \in Nat /\ a \in Nat /\ b \in Nat /\ a - 1 < b /\ b <= m /\ a # 0
  OBVIOUS
<1>2. /\ p \in Nat /\ q \in Nat /\ p < q /\ q <= l
      /\ Pos(s, a) = p + (IF s[a] = "|" THEN 2 ELSE 1)
  <2>1. l = Pos(s, m)
    BY DEF IsCell
  <2>2. p \in Nat /\ q \in Nat /\ Pos(s, a) = p + (IF s[a] = "|" THEN 2 ELSE 1)
    BY <1>1, PosStep
  <2>3. p < q
    BY <1>1, PosGrows
  <2>4. q <= l
    BY <1>1, <2>1, PosOrder
  <2> QED
    BY <2>2, <2>3, <2>4
<1>3. v[p + 2] \notin Blanks
  <2>1. v[p + 2] = c[p + 1]
    <3>1. p + 1 \in 1..l /\ 1 + (p + 1) = p + 2
      BY <1>2
    <3> QED
      BY <3>1 DEF IsField
  <2>2. c[Pos(s, a)] = Br(s[a]) /\ (s[a] = "|" => c[Pos(s, a) - 1] = "\\")
    BY DEF IsCell
  <2>3. CASE s[a] = "|"
    <3>1. Pos(s, a) - 1 = p + 1
      BY <1>2, <2>3
    <3>2. v[p + 2] = "\\"
      BY <2>1, <2>2, <2>3, <3>1
    <3> QED
      BY <3>2, BrIs
  <2>4. CASE s[a] # "|"
    <3>1. Pos(s, a) = p + 1
      BY <1>2, <2>4
    <3>2. s[a] \notin LineBreaks
      BY DEF Blanks
    <3> QED
      BY <2>1, <2>2, <3>1, <3>2, BrIs
  <2> QED
    BY <2>3, <2>4
<1>4. v[q + 1] \notin Blanks
  <2>1. v[q + 1] = c[q]
    <3>1. q \in 1..l /\ 1 + q = q + 1
      BY <1>2
    <3> QED
      BY <3>1 DEF IsField
  <2>2. c[q] = Br(s[b])
    BY DEF IsCell
  <2>3. s[b] \notin LineBreaks
    BY DEF Blanks
  <2> QED
    BY <2>1, <2>2, <2>3, BrIs
<1> HIDE DEF q, p
<1>5. ASSUME NEW k \in 1..l, k < p + 1 \/ q < k PROVE c[k] = "space"
  <2>1. k \in 1..Pos(s, m) /\ k \in Nat
    BY DEF IsCell
  <2>2. PICK j \in 1..m : Pos(s, j) = k \/ (Pos(s, j) = k + 1 /\ s[j] = "|")
    BY <2>1, PosCovers
  <2>3. j \in Nat
    OBVIOUS
  <2>4. j < a \/ b < j
    <3>1. SUFFICES ASSUME a <= j, j <= b PROVE FALSE
      BY <1>1, <2>3
    <3>2. p < Pos(s, j) /\ (s[j] = "|" => p < Pos(s, j) - 1)
      <4>1. a - 1 < j
        BY <1>1, <2>3, <3>1
      <4> QED
        BY <1>1, <2>3, <4>1, PosGrows DEF p
    <3>3. Pos(s, j) <= q
      BY <1>1, <2>3, <3>1, PosOrder DEF q
    <3>4. Pos(s, j) \in Nat
      BY <2>3, PosStep
    <3>5. CASE Pos(s, j) = k
      BY <1>2, <1>5, <2>1, <3>2, <3>3, <3>5
    <3>6. CASE Pos(s, j) = k + 1 /\ s[j] = "|"
      BY <1>2, <1>5, <2>1, <3>2, <3>3, <3>6
    <3> QED
      BY <2>2, <3>5, <3>6
  <2>5. s[j] = "space"
    BY <2>4 DEF SpaceOutside
  <2>6. c[Pos(s, j)] = Br(s[j]) /\ Pos(s, j) = k
    BY <2>2, <2>5 DEF IsCell
  <2> QED
    BY <2>5, <2>6, BrIs
<1>6. ASSUME NEW i \in 1..l + 2, i < p + 2 \/ q + 1 < i PROVE v[i] \in Blanks
  <2>1. CASE i = 1 \/ i = l + 2
    BY <2>1, BrIs DEF IsField
  <2>2. CASE ~(i = 1 \/ i = l + 2)
    <3>1. i - 1 \in 1..l /\ 1 + (i - 1) = i /\ (i - 1 < p + 1 \/ q < i - 1)
      BY <1>2, <1>6, <2>2
    <3>2. v[i] = c[i - 1]
      BY <3>1 DEF IsField
    <3> QED
      BY <1>5, <3>1, <3>2, BrIs
  <2> QED
    BY <2>1, <2>2
<1>7. v \in Seq(Characters) /\ Len(v) = l + 2
  BY DEF IsField
<1>8. p + 2 \in 1..l + 2 /\ q + 1 \in 1..l + 2
  BY <1>2
<1>9. Trim(v, Blanks) = SubSeq(v, p + 2, q + 1)
  BY <1>3, <1>4, <1>6, <1>7, <1>8, TrimIs
<1> QED
  BY <1>9 DEF Strip, p, q

\* Neither a <br> nor a break that is no newline.
NoBreaks(s, m) == \A i \in 1..m : s[i] \notin {"<br>", "break"}

\* The field v says what s says from a to b.
Says(v, s, a, b) ==
  Unescape(SubSeq(v, Pos(s, a - 1) + 2, Pos(s, b) + 1)) = SubSeq(s, a, b)

\* Such a field, unescaped, is the text itself.
LEMMA FieldUnescaped ==
  ASSUME NEW s \in Seq(Characters), NEW m \in Nat, m = Len(s), NoBreaks(s, m),
         NEW c, IsCell(c, s, m), NEW l \in Nat, l = Len(c), NEW v, IsField(v, c, l),
         NEW a \in 1..m, NEW b \in 1..m, a <= b
  PROVE  Says(v, s, a, b)
<1> DEFINE p == Pos(s, a - 1)
           q == Pos(s, b)
           x == SubSeq(v, p + 2, q + 1)
           n == b - a + 1
           f == [i \in 1..n |-> Pos(s, a - 1 + i) - p]
<1>1. a - 1 \in Nat /\ a \in Nat /\ b \in Nat /\ a - 1 < b /\ b <= m /\ n \in Nat
  OBVIOUS
<1>2. p \in Nat /\ q \in Nat /\ p < q /\ q <= l /\ l = Pos(s, m)
  <2>1. l = Pos(s, m)
    BY DEF IsCell
  <2>2. p \in Nat /\ q \in Nat
    BY <1>1, PosStep
  <2>3. p < q
    BY <1>1, PosGrows
  <2>4. q <= l
    BY <1>1, <2>1, PosOrder
  <2> QED
    BY <2>1, <2>2, <2>3, <2>4
<1>3. ASSUME NEW j \in a..b
      PROVE  j \in 1..m /\ Pos(s, j) \in Nat /\ p < Pos(s, j) /\ Pos(s, j) <= q
  <2>1. j \in 1..m /\ j \in Nat /\ a - 1 < j /\ j <= b
    BY <1>1
  <2> QED
    BY <1>1, <2>1, PosGrows, PosOrder, PosStep
<1> HIDE DEF p, q
<1>4. x \in Seq(Characters) /\ Len(x) = q - p /\ \A k \in 1..q - p : x[k] = c[p + k]
  <2>1. v \in Seq(Characters) /\ Len(v) = l + 2
    BY DEF IsField
  <2>2. /\ l + 2 \in Nat /\ p + 2 \in 1..l + 2 + 1 /\ q + 1 \in 0..l + 2 /\ p + 2 <= q + 1 + 1
        /\ q + 1 - (p + 2) + 1 = q - p
    BY <1>2
  <2>3. IsPart(x, v, p + 2, q + 1)
    BY <2>1, <2>2, SubSeqIs
  <2> HIDE DEF x
  <2>4. x \in Seq(Characters) /\ Len(x) = q - p
    BY <1>2, <2>2, <2>3 DEF IsPart
  <2>5. ASSUME NEW k \in 1..q - p PROVE x[k] = c[p + k]
    <3>1. p + 2 + k - 1 = 1 + (p + k) /\ p + k \in 1..l /\ k \in 1..q + 1 - (p + 2) + 1
      BY <1>2
    <3>2. x[k] = v[p + 2 + k - 1]
      BY <1>2, <2>3, <3>1 DEF IsPart
    <3> QED
      BY <3>1, <3>2 DEF IsField
  <2> QED
    BY <2>4, <2>5
<1>5. ASSUME NEW i \in 1..n
      PROVE  /\ a - 1 + i \in a..b /\ f[i] = Pos(s, a - 1 + i) - p
             /\ f[i] \in 1..q - p /\ f[i] \in Nat /\ p + f[i] = Pos(s, a - 1 + i)
  <2>1. a - 1 + i \in a..b
    BY <1>1
  <2>2. f[i] = Pos(s, a - 1 + i) - p
    OBVIOUS
  <2> HIDE DEF f
  <2> QED
    BY <1>2, <1>3, <2>1, <2>2
<1> HIDE DEF x
<1>6. f \in [1..n -> Nat]
  BY <1>5
<1> HIDE DEF f
<1>7. ASSUME NEW i \in 1..n, NEW j \in 1..n, i < j PROVE f[i] < f[j]
  <2>1. a - 1 + i \in Nat /\ a - 1 + j \in Nat /\ a - 1 + i < a - 1 + j
    BY <1>1, <1>7
  <2>2. Pos(s, a - 1 + i) < Pos(s, a - 1 + j)
    BY <2>1, PosGrows
  <2>3. Pos(s, a - 1 + i) \in Nat /\ Pos(s, a - 1 + j) \in Nat
    BY <2>1, PosStep
  <2> QED
    BY <1>2, <1>5, <2>2, <2>3
<1>8. ASSUME NEW i \in 1..n PROVE ~EscapesAt(x, q - p, f[i])
  <2> DEFINE j == a - 1 + i
             k == f[i]
  <2>1. j \in 1..m /\ p + k = Pos(s, j) /\ k \in 1..q - p /\ j \in Nat
    BY <1>3, <1>5
  <2> HIDE DEF j, k
  <2>2. SUFFICES ASSUME EscapesAt(x, q - p, k) PROVE FALSE
    BY DEF k
  <2>3. k < q - p /\ x[k + 1] = "|"
    BY <2>2 DEF EscapesAt
  <2>4. k + 1 \in 1..q - p /\ p + (k + 1) \in 1..Pos(s, m)
    BY <1>2, <2>1, <2>3
  <2>5. c[p + (k + 1)] = "|"
    BY <1>4, <2>3, <2>4
  <2>6. PICK h \in 1..m : Pos(s, h) = p + (k + 1) /\ s[h] = "|"
    BY <2>4, <2>5, CellBars
  <2>7. Pos(s, j) < Pos(s, h) /\ Pos(s, h) - 1 = Pos(s, j) /\ h \in Nat
    BY <1>2, <2>1, <2>6
  <2>8. j < h
    BY <2>1, <2>7, PosOrder
  <2>9. Pos(s, j) < Pos(s, h) - 1
    BY <2>1, <2>6, <2>7, <2>8, PosGrows
  <2>10. Pos(s, j) \in Nat
    BY <2>1, PosStep
  <2> QED
    BY <2>7, <2>9, <2>10
<1>9. ASSUME NEW k \in 1..q - p PROVE EscapesAt(x, q - p, k) \/ \E i \in 1..n : f[i] = k
  <2>1. p + k \in 1..Pos(s, m) /\ k \in Nat
    BY <1>2
  <2>2. PICK j \in 1..m : Pos(s, j) = p + k \/ (Pos(s, j) = p + k + 1 /\ s[j] = "|")
    BY <2>1, PosCovers
  <2>3. j \in Nat /\ Pos(s, j) \in Nat
    BY PosStep
  <2>4. a <= j
    <3>1. p < Pos(s, j)
      BY <1>2, <2>1, <2>2
    <3>2. a - 1 < j
      BY <1>1, <2>3, <3>1, PosOrder DEF p
    <3> QED
      BY <1>1, <2>3, <3>2
  <2>5. CASE Pos(s, j) = p + k
    <3>1. ~(q < Pos(s, j))
      BY <1>2, <2>1, <2>5
    <3>2. ~(b < j)
      <4>1. b < j => q < Pos(s, j)
        BY <1>1, <2>3, PosGrows DEF q
      <4> QED
        BY <3>1, <4>1
    <3>3. j - a + 1 \in 1..n /\ a - 1 + (j - a + 1) = j
      BY <1>1, <2>3, <2>4, <3>2
    <3>4. f[j - a + 1] = Pos(s, j) - p
      BY <1>5, <3>3
    <3> QED
      BY <1>2, <2>1, <2>5, <3>3, <3>4
  <2>6. CASE Pos(s, j) = p + k + 1 /\ s[j] = "|"
    <3>1. ~(b < j)
      <4>1. b < j => q < Pos(s, j) - 1
        BY <1>1, <2>3, <2>6, PosGrows DEF q
      <4>2. ~(q < Pos(s, j) - 1)
        BY <1>2, <2>1, <2>6
      <4> QED
        BY <4>1, <4>2
    <3>2. j \in a..b
      BY <1>1, <2>3, <2>4, <3>1
    <3>3. Pos(s, j) <= q
      BY <1>3, <3>2
    <3>4. k < q - p /\ k + 1 \in 1..q - p /\ p + (k + 1) = Pos(s, j) /\ p + k = Pos(s, j) - 1
      BY <1>2, <2>1, <2>6, <3>3
    <3>5. c[Pos(s, j)] = Br("|") /\ c[Pos(s, j) - 1] = "\\"
      BY <2>6 DEF IsCell
    <3>6. x[k] = "\\" /\ x[k + 1] = "|"
      BY <1>4, <3>4, <3>5, BrIs
    <3> QED
      BY <3>4, <3>6 DEF EscapesAt
  <2> QED
    BY <2>2, <2>5, <2>6
<1>10. Unescape(x) = [i \in 1..n |-> IF x[f[i]] = "<br>" THEN "newline" ELSE x[f[i]]]
  <2>1. q - p \in Nat /\ \A i \in 1..n : f[i] \in 1..q - p
    BY <1>2, <1>5
  <2> HIDE DEF n
  <2>2. Keeps(f, n, x, q - p)
    BY <1>6, <1>7, <1>8, <1>9, <2>1 DEF Keeps
  <2> QED
    BY <1>1, <1>4, <2>1, <2>2, UnescapeIs
<1>11. ASSUME NEW i \in 1..n
       PROVE  (IF x[f[i]] = "<br>" THEN "newline" ELSE x[f[i]]) = s[a + i - 1]
  <2>1. a - 1 + i = a + i - 1
    BY <1>1
  <2>2. a + i - 1 \in 1..m /\ x[f[i]] = c[Pos(s, a + i - 1)]
    BY <1>3, <1>4, <1>5, <2>1
  <2>3. x[f[i]] = Br(s[a + i - 1])
    BY <2>2 DEF IsCell
  <2>4. s[a + i - 1] # "<br>" /\ s[a + i - 1] # "break"
    BY <2>2 DEF NoBreaks
  <2> QED
    BY <2>3, <2>4 DEF Br, LineBreaks
<1>12. SubSeq(s, a, b) = [i \in 1..n |-> s[a + i - 1]]
  OBVIOUS
<1>13. Unescape(x) = SubSeq(s, a, b)
  BY <1>10, <1>11, <1>12
<1> QED
  BY <1>13 DEF x, p, q, Says

-----------------------------------------------------------------------------
(* The three things asked of a text, for every text: its row is one line of *)
(* two cells (TableHolds), a descriptor comes back from its cell            *)
(* (DescriptorReturns), a description from its section                      *)
(* (DescriptionReturns).                                                    *)

\* No descriptor breaks the table (_cell of the renderer, _cells).
LEMMA TableHolds ==
  ASSUME NEW s \in Seq(Characters)
  PROVE  TableIsWhole(s)
<1> DEFINE c == Cell(s)
           l == Len(c)
           r == Row(s)
<1>1. PICK m \in 0..Len(s) : IsCell(c, s, m)
  BY CellIs
<1>2. m \in Nat /\ c \in Seq(Characters) /\ l \in Nat /\ l = Pos(s, m)
  <2>1. m \in Nat
    BY LenProperties
  <2>2. c \in Seq(Characters) /\ l = Pos(s, m)
    BY <1>1 DEF IsCell
  <2>3. l \in Nat
    BY <2>1, <2>2, PosStep
  <2> QED
    BY <2>1, <2>2, <2>3
<1>3. Len(Cells(r)) = 2
  BY <1>1, <1>2, CellsOfRow
<1>4. IsRow(r, c, l)
  BY <1>2, RowIs
<1>5. r \in Seq(Characters) /\ Len(r) = l + 8
  BY <1>4 DEF IsRow
<1>6. DOMAIN r = 1..l + 8
  BY <1>5, LenProperties
<1> HIDE DEF c, l, r
<1>7. ASSUME NEW i \in 1..l + 8 PROVE r[i] \notin LineBreaks
  <2>1. CASE i \in {1, 2, 3, 4, 5, 6, l + 7, l + 8}
    <3>1. r[i] \in {"|", "space", "a"}
      BY <1>4, <2>1 DEF IsRow
    <3> QED
      BY <3>1 DEF LineBreaks
  <2>2. CASE i \notin {1, 2, 3, 4, 5, 6, l + 7, l + 8}
    <3>1. i - 6 \in 1..l /\ 6 + (i - 6) = i
      BY <1>2, <2>2
    <3>2. r[i] = c[i - 6]
      BY <1>4, <3>1 DEF IsRow
    <3> QED
      BY <1>1, <1>2, <3>1, <3>2 DEF IsCell
  <2> QED
    BY <2>1, <2>2
<1>8. \A i \in DOMAIN Row(s) : Row(s)[i] \notin LineBreaks
  BY <1>6, <1>7 DEF r
<1> QED
  BY <1>3, <1>8 DEF TableIsWhole, r

\* An empty field says nothing.
LEMMA NothingUnescaped ==
  Unescape(<<>>) = <<>>
<1> DEFINE x == <<>>
           kept == DOMAIN x \ {i \in DOMAIN x : x[i] = "\\" /\ i < Len(x) /\ x[i + 1] = "|"}
<1>1. kept = {}
  <2>1. DOMAIN x = {}
    OBVIOUS
  <2> QED
    BY <2>1
<1> DEFINE g(i) == IF x[Nth(kept, i)] = "<br>" THEN "newline" ELSE x[Nth(kept, i)]
<1>2. Unescape(<<>>) = [i \in 1..Cardinality(kept) |-> g(i)]
  BY DEF Unescape
<1> HIDE DEF g, kept
<1>3. Cardinality(kept) = 0
  BY <1>1, FS_EmptySet
<1>4. [i \in 1..0 |-> g(i)] = <<>>
  OBVIOUS
<1> QED
  BY <1>2, <1>3, <1>4

AllSpaces(s) == \A i \in 1..Len(s) : s[i] = "space"

\* A descriptor of nothing but spaces comes back as nothing, as it is compared.
LEMMA SpacesReturn ==
  ASSUME NEW s \in Seq(Characters), AllSpaces(s)
  PROVE  ReadCell(s) = <<>> /\ Strip(s) = <<>>
<1> DEFINE c == Cell(s)
           l == Len(c)
<1>1. PICK m \in 0..Len(s) : IsCell(c, s, m)
  BY CellIs
<1>2. m \in Nat /\ m <= Len(s) /\ c \in Seq(Characters) /\ l \in Nat /\ l = Pos(s, m)
  <2>1. m \in Nat /\ m <= Len(s)
    BY LenProperties
  <2>2. c \in Seq(Characters) /\ l = Pos(s, m)
    BY <1>1 DEF IsCell
  <2>3. l \in Nat
    BY <2>1, <2>2, PosStep
  <2> QED
    BY <2>1, <2>2, <2>3
<1>3. PICK v : IsField(v, c, l) /\ Cells(Row(s))[2] = Unescape(Strip(v))
  BY <1>1, <1>2, CellsOfRow
<1> HIDE DEF c, l
<1>4. ASSUME NEW k \in 1..l PROVE c[k] = "space"
  <2>1. PICK j \in 1..m : Pos(s, j) = k \/ (Pos(s, j) = k + 1 /\ s[j] = "|")
    BY <1>2, PosCovers
  <2>2. s[j] = "space"
    <3>1. m <= Len(s) /\ m \in Nat /\ Len(s) \in Nat
      BY <1>2, LenProperties
    <3>2. j \in 1..Len(s)
      BY <3>1
    <3> QED
      BY <3>2 DEF AllSpaces
  <2>3. c[Pos(s, j)] = Br(s[j]) /\ Pos(s, j) = k
    BY <1>1, <2>1, <2>2 DEF IsCell
  <2> QED
    BY <2>2, <2>3, BrIs
<1>5. v \in Seq(Characters) /\ Len(v) = l + 2
  BY <1>3 DEF IsField
<1>6. ASSUME NEW i \in 1..l + 2 PROVE v[i] \in Blanks
  <2>1. CASE i = 1 \/ i = l + 2
    BY <1>3, <2>1, BrIs DEF IsField
  <2>2. CASE ~(i = 1 \/ i = l + 2)
    <3>1. i - 1 \in 1..l /\ 1 + (i - 1) = i
      BY <1>2, <2>2
    <3>2. v[i] = c[i - 1]
      BY <1>3, <3>1 DEF IsField
    <3> QED
      BY <1>4, <3>1, <3>2, BrIs
  <2> QED
    BY <2>1, <2>2
<1>7. Strip(v) = <<>>
  BY <1>5, <1>6, TrimNone DEF Strip
<1>8. Unescape(<<>>) = <<>>
  BY NothingUnescaped
<1>9. Strip(s) = <<>>
  BY BrIs, TrimNone DEF Strip, AllSpaces
<1> QED
  BY <1>3, <1>7, <1>8, <1>9 DEF ReadCell

\* A row ends like one of the summary only if its descriptor does (read_back).
LEMMA NoSummaryRow ==
  ASSUME NEW s \in Seq(Characters), NEW m \in 0..Len(s), IsCell(Cell(s), s, m),
         m # 0 => s[m] # "boxes"
  PROVE  SummaryRows(Row(s)) = {}
<1> DEFINE c == Cell(s)
           l == Len(c)
           r == Row(s)
<1>1. m \in Nat /\ c \in Seq(Characters) /\ l = Pos(s, m) /\ l \in Nat
  <2>1. m \in Nat
    BY LenProperties
  <2>2. c \in Seq(Characters) /\ l = Pos(s, m)
    BY DEF IsCell
  <2> QED
    BY <2>1, <2>2, PosStep
<1>2. IsRow(r, c, l)
  BY <1>1, RowIs
<1>3. DOMAIN r = 1..l + 8 /\ Len(r) = l + 8
  BY <1>2, LenProperties DEF IsRow
<1>4. \A i \in 1..l + 8 : r[i] \notin LineBreaks
  BY <1>3, TableHolds DEF TableIsWhole
<1> HIDE DEF c, l, r
<1>5. ASSUME NEW i \in SummaryRows(r) PROVE FALSE
  <2>1. /\ i \in 1..l + 6 /\ r[i] = "boxes"
        /\ i + 2 = l + 8 \/ r[i + 3] \in LineBreaks
    <3>1. /\ i \in 1..Len(r) - 2 /\ r[i] = "boxes"
          /\ i + 2 = Len(r) \/ r[i + 3] \in LineBreaks
      BY DEF SummaryRows
    <3>2. Len(r) = l + 8
      BY <1>3
    <3>3. Len(r) - 2 = l + 6
      BY <1>1, <3>2
    <3> QED
      BY <3>1, <3>2, <3>3, Zenon
  <2>2. i = 6 + l
    <3>1. i + 2 # l + 8 => i + 3 \in 1..l + 8
      BY <1>1, <2>1
    <3> QED
      BY <1>1, <1>4, <2>1, <3>1
  <2>3. l # 0
    <3>1. r[6] = "space"
      BY <1>2 DEF IsRow
    <3>2. l = 0 => r[6] = "boxes"
      BY <2>1, <2>2
    <3> QED
      BY <3>1, <3>2
  <2>4. c[l] = "boxes"
    <3>1. l \in 1..l
      BY <1>1, <2>3
    <3>2. r[6 + l] = c[l]
      BY <1>2, <3>1 DEF IsRow
    <3> QED
      BY <2>1, <2>2, <3>2
  <2>5. m # 0
    BY <1>1, <2>3, PosStep
  <2>6. c[Pos(s, m)] = Br(s[m])
    <3>1. m \in 1..m
      BY <1>1, <2>5
    <3> QED
      BY <3>1 DEF IsCell, c
  <2>7. s[m] = "boxes"
    BY <1>1, <2>4, <2>6 DEF Br
  <2> QED
    BY <2>5, <2>7
<1> QED
  BY <1>5 DEF r

\* A descriptor comes back but for those of the kinds Unlucky names (_cell, _cells).
LEMMA DescriptorReturns ==
  ASSUME NEW s \in Seq(Characters)
  PROVE  DescriptorComesBack(s)
<1> SUFFICES ASSUME ~Unlucky(s) PROVE ReadCell(s) = Strip(s) /\ SummaryRows(Row(s)) = {}
  BY TableHolds DEF DescriptorComesBack
<1> DEFINE n == Len(s)
           c == Cell(s)
           l == Len(c)
<1>1. n \in Nat /\ DOMAIN s = 1..n
  BY LenProperties
<1>2. NoBreaks(s, n)
  BY <1>1 DEF Unlucky, NoBreaks
<1>3. CASE \A i \in 1..n : s[i] = "space"
  <2>1. PICK m \in 0..n : IsCell(c, s, m)
    BY CellIs
  <2>2. m # 0 => s[m] # "boxes"
    <3>1. m # 0 => m \in 1..n
      BY <1>1
    <3> QED
      BY <1>3, <3>1
  <2>3. SummaryRows(Row(s)) = {}
    BY <2>1, <2>2, NoSummaryRow
  <2> QED
    BY <1>3, <2>3, SpacesReturn DEF AllSpaces
<1>4. CASE \E i \in 1..n : s[i] # "space"
  <2>1. PICK a \in 1..n, b \in 1..n :
          /\ s[a] \notin {"space"} /\ s[b] \notin {"space"} /\ a <= b
          /\ \A i \in 1..n : i < a \/ b < i => s[i] \in {"space"}
    BY <1>4, TrimEnds
  <2>2. a <= b
    BY <2>1
  <2>3. Trim(s, {"space"}) = SubSeq(s, a, b)
    BY <2>1, TrimIs
  <2> DEFINE t == Trim(s, {"space"})
  <2>4. IsPart(t, s, a, b)
    <3>1. a \in 1..n + 1 /\ b \in 0..n /\ a <= b + 1
      BY <1>1, <2>2
    <3> QED
      BY <1>1, <2>3, <3>1, SubSeqIs
  <2>5. \A i \in {1, Len(t)} : i \in DOMAIN t => t[i] \notin LineBreaks
    BY DEF Unlucky
  <2> HIDE DEF t
  <2>6. s[a] \notin LineBreaks /\ s[b] \notin LineBreaks
    <3>1. t \in Seq(Characters) /\ Len(t) = b - a + 1
      BY <2>4 DEF IsPart
    <3>2. 1 \in 1..b - a + 1 /\ b - a + 1 \in 1..b - a + 1
      BY <2>2
    <3>3. DOMAIN t = 1..b - a + 1
      BY <3>1, LenProperties
    <3>4. t[1] = s[a] /\ t[b - a + 1] = s[b]
      <4>1. a + 1 - 1 = a /\ a + (b - a + 1) - 1 = b
        OBVIOUS
      <4>2. t[1] = s[a + 1 - 1] /\ t[b - a + 1] = s[a + (b - a + 1) - 1]
        BY <2>4, <3>2 DEF IsPart
      <4> QED
        BY <4>1, <4>2
    <3> QED
      BY <2>5, <3>1, <3>2, <3>3, <3>4
  <2>7. s[a] \notin Blanks /\ s[b] \notin Blanks
    BY <2>1, <2>6 DEF Blanks
  <2>8. SpaceOutside(s, n, a, b)
    BY <2>1 DEF SpaceOutside
  <2>9. Strip(s) = SubSeq(s, a, b)
    <3>1. \A i \in 1..n : i < a \/ b < i => s[i] \in Blanks
      BY <2>1, BrIs
    <3> QED
      BY <2>7, <3>1, TrimIs DEF Strip
  <2>10. IsCell(c, s, n)
    <3>1. PICK m \in 0..n : /\ IsCell(c, s, m)
                            /\ m = n \/ (n # 0 /\ m = n - 1 /\ s[n] \in LineBreaks)
      BY CellIs
    <3>2. s[n] \notin LineBreaks
      <4>1. CASE n = b
        BY <2>6, <4>1
      <4>2. CASE n # b
        <5>1. n \in 1..n /\ b < n
          <6> HIDE DEF n
          <6> QED
            BY <1>1, <4>2
        <5>2. s[n] = "space"
          BY <2>1, <5>1
        <5> QED
          BY <5>2, BrIs
      <4> QED
        BY <4>1, <4>2
    <3> QED
      BY <3>1, <3>2
  <2>11. c \in Seq(Characters) /\ l \in Nat
    <3>1. c \in Seq(Characters) /\ l = Pos(s, n)
      BY <2>10 DEF IsCell
    <3> QED
      BY <1>1, <3>1, PosStep
  <2>12. PICK v : IsField(v, c, l) /\ Cells(Row(s))[2] = Unescape(Strip(v))
    BY <1>1, <2>10, <2>11, CellsOfRow
  <2>15. SummaryRows(Row(s)) = {}
    <3>1. s # <<>> => s[n] # "boxes"
      BY DEF Unlucky, Last
    <3>4. n # 0 => s[n] # "boxes"
      BY <3>1, EmptySeq
    <3>2. n \in 0..n
      BY <1>1
    <3> QED
      BY <2>10, <3>4, <3>2, NoSummaryRow
  <2> HIDE DEF c, l
  <2> DEFINE x == SubSeq(v, Pos(s, a - 1) + 2, Pos(s, b) + 1)
  <2>13. Strip(v) = x
    BY <1>1, <2>7, <2>8, <2>10, <2>11, <2>12, <2>2, FieldStripped DEF l
  <2>14. Unescape(x) = SubSeq(s, a, b)
    <3> HIDE DEF n, x
    <3>1. n \in Nat /\ n = Len(s) /\ l \in Nat /\ l = Len(c) /\ IsField(v, c, l)
      BY <1>1, <2>11, <2>12 DEF n, l
    <3>2. Says(v, s, a, b)
      BY <1>2, <2>10, <2>2, <3>1, FieldUnescaped
    <3> QED
      BY <3>2 DEF x, Says
  <2> QED
    BY <2>9, <2>12, <2>13, <2>14, <2>15 DEF ReadCell
<1> QED
  BY <1>3, <1>4

\* What python's split(marker, 1) gives: the parts around the first marker, k.
LEMMA SplitIs ==
  ASSUME NEW t \in Seq(Characters), NEW l \in Nat, l = Len(t), NEW a, NEW b,
         NEW k \in 1..l - 1, t[k] = a, t[k + 1] = b,
         \A i \in 1..l - 1 : i < k => ~(t[i] = a /\ t[i + 1] = b)
  PROVE  IsPart(Before(t, a, b), t, 1, k - 1) /\ IsPart(After(t, a, b), t, k + 2, l)
<1> DEFINE M == At(t, a, b)
<1>1. k \in M /\ \A i \in M : i \in Int /\ k <= i
  BY DEF At
<1> HIDE DEF M
<1>2. Min(M) = k
  <2>1. \A i \in M : (\A j \in M : i <= j) => i = k
    BY <1>1
  <2> QED
    BY <1>1, <2>1 DEF Min
<1>3. M # {}
  BY <1>1
<1>4. Before(t, a, b) = SubSeq(t, 1, k - 1) /\ After(t, a, b) = SubSeq(t, k + 2, l)
  BY <1>2, <1>3 DEF Before, After, M
<1>5. 1 \in 1..l + 1 /\ k - 1 \in 0..l /\ 1 <= (k - 1) + 1
  OBVIOUS
<1>6. k + 2 \in 1..l + 1 /\ l \in 0..l /\ k + 2 <= l + 1
  OBVIOUS
<1>7. IsPart(SubSeq(t, 1, k - 1), t, 1, k - 1)
  BY <1>5, SubSeqIs
<1>8. IsPart(SubSeq(t, k + 2, l), t, k + 2, l)
  BY <1>6, SubSeqIs
<1> QED
  BY <1>4, <1>7, <1>8

\* A part is what it is said to be.
LEMMA SamePart ==
  ASSUME NEW s \in Seq(Characters), NEW n \in Nat, n = Len(s), NEW d, NEW w,
         NEW a \in Int, NEW b \in Int, IsPart(d, w, a, b), b - a + 1 = n,
         \A i \in 1..n : w[a + i - 1] = s[i]
  PROVE  d = s
<1>1. d \in Seq(Characters) /\ Len(d) = n /\ \A i \in 1..n : d[i] = s[i]
  BY DEF IsPart
<1> QED
  BY <1>1, SeqEqual

\* w is the section of the description s, of n characters.
IsSection(w, s, n) ==
  /\ w \in Seq(Characters) /\ Len(w) = n + 12
  /\ w[1] = "newline" /\ w[2] = "###" /\ w[3] = "a" /\ w[4] = "newline" /\ w[5] = "newline"
  /\ w[6] = "label" /\ w[7] = "newline"
  /\ \A k \in 1..n : w[7 + k] = s[k]
  /\ w[n + 8] = "newline" /\ w[n + 9] = "newline" /\ w[n + 10] = "header"
  /\ w[n + 11] = "newline" /\ w[n + 12] = "|"

\* The texts before and after a description are texts.
LEMMA SevenIsSeq ==
  ASSUME NEW S, NEW x \in S, NEW y \in S, NEW z \in S, NEW u \in S
  PROVE  <<x, y, z, x, x, u, x>> \in Seq(S) /\ <<x, x, y, x, z>> \in Seq(S)
OBVIOUS

\* The section of a description holds it (nfr_rubric.md.j2).
LEMMA SectionIs ==
  ASSUME NEW s \in Seq(Characters), NEW n \in Nat, n = Len(s)
  PROVE  IsSection(SectionOf(s), s, n)
<1> DEFINE h == <<"newline", "###", "a", "newline", "newline", "label", "newline">>
           t == <<"newline", "newline", "header", "newline", "|">>
           w == SectionOf(s)
<1>1. /\ "newline" \in Characters /\ "###" \in Characters /\ "a" \in Characters
      /\ "label" \in Characters /\ "header" \in Characters /\ "|" \in Characters
  BY DEF Characters
<1>2. h \in Seq(Characters) /\ t \in Seq(Characters)
  BY <1>1, SevenIsSeq
<1>3. /\ Len(h) = 7 /\ h[1] = "newline" /\ h[2] = "###" /\ h[3] = "a" /\ h[4] = "newline"
      /\ h[5] = "newline" /\ h[6] = "label" /\ h[7] = "newline"
      /\ Len(t) = 5 /\ t[1] = "newline" /\ t[2] = "newline" /\ t[3] = "header"
      /\ t[4] = "newline" /\ t[5] = "|"
  OBVIOUS
<1>4. w = (h \o s) \o t
  BY DEF SectionOf
<1> HIDE DEF h, t, w
<1>5. Joins(w, h, s, t)
  BY <1>2, <1>4, JoinOfThree
<1>6. /\ w \in Seq(Characters) /\ Len(w) = n + 12
      /\ \A k \in 1..7 : w[k] = h[k]
      /\ \A k \in 1..n : w[7 + k] = s[k]
  <2>1. Len(h) = 7 /\ Len(t) = 5 /\ Len(s) = n /\ 7 + n + 5 = n + 12
    BY <1>3
  <2>5. Len(h) + Len(s) + Len(t) = n + 12
    BY <2>1
  <2>2. w \in Seq(Characters) /\ Len(w) = Len(h) + Len(s) + Len(t)
    BY <1>5 DEF Joins
  <2>3. \A k \in 1..Len(h) : w[k] = h[k]
    BY <1>5 DEF Joins
  <2>4. \A k \in 1..Len(s) : w[Len(h) + k] = s[k]
    BY <1>5 DEF Joins
  <2> QED
    BY <2>1, <2>2, <2>3, <2>4, <2>5, Zenon
<1>7. \A k \in 1..5 : w[7 + n + k] = t[k]
  BY <1>3, <1>5 DEF Joins
<1>8. /\ w[1] = "newline" /\ w[2] = "###" /\ w[3] = "a" /\ w[4] = "newline" /\ w[5] = "newline"
      /\ w[6] = "label" /\ w[7] = "newline"
  <2>1. /\ 1 \in 1..7 /\ 2 \in 1..7 /\ 3 \in 1..7 /\ 4 \in 1..7
        /\ 5 \in 1..7 /\ 6 \in 1..7 /\ 7 \in 1..7
    OBVIOUS
  <2>2. \A k \in 1..7 : w[k] = h[k]
    BY <1>6
  <2> QED
    BY <1>3, <2>1, <2>2, Zenon
<1>9. /\ w[7 + n + 1] = "newline" /\ w[7 + n + 2] = "newline" /\ w[7 + n + 3] = "header"
      /\ w[7 + n + 4] = "newline" /\ w[7 + n + 5] = "|"
  <2>1. 1 \in 1..5 /\ 2 \in 1..5 /\ 3 \in 1..5 /\ 4 \in 1..5 /\ 5 \in 1..5
    OBVIOUS
  <2> QED
    BY <1>3, <1>7, <2>1, Zenon
<1>10. /\ 7 + n + 1 = n + 8 /\ 7 + n + 2 = n + 9 /\ 7 + n + 3 = n + 10
       /\ 7 + n + 4 = n + 11 /\ 7 + n + 5 = n + 12
  OBVIOUS
<1>11. IsSection(w, s, n)
  BY <1>6, <1>8, <1>9, <1>10 DEF IsSection
<1> QED
  BY <1>11 DEF w

\* A description does not end in a break.
LEMMA StrippedEnd ==
  ASSUME NEW s \in Seq(Characters), NEW n \in Nat, n = Len(s), s = Strip(s), s # <<>>
  PROVE  s[n] \notin LineBreaks
<1>1. SUFFICES s[n] \notin Blanks
  BY DEF Blanks
<1>2. PICK k \in 1..n : s[k] \notin Blanks
  BY TrimNone DEF Strip
<1>3. PICK f \in 1..n, g \in 1..n :
        /\ s[f] \notin Blanks /\ s[g] \notin Blanks /\ f <= g
        /\ \A i \in 1..n : i < f \/ g < i => s[i] \in Blanks
  BY <1>2, TrimEnds
<1>4. s = SubSeq(s, f, g)
  BY <1>3, TrimIs DEF Strip
<1>5. f <= g
  BY <1>3
<1>6. f \in 1..n + 1 /\ g \in 0..n /\ f <= g + 1
  BY <1>5
<1>7. IsPart(SubSeq(s, f, g), s, f, g)
  BY <1>6, SubSeqIs
<1>8. n = g - f + 1
  BY <1>4, <1>7 DEF IsPart
<1>9. g = n
  BY <1>8
<1> QED
  BY <1>3, <1>9

\* What a description that is not Ambiguous does not contain, n characters long.
IsPlain(s, n) ==
  /\ n # 0 => s[n] \notin LineBreaks /\ s[1] \notin {"newline", "##", "###"}
  /\ \A k \in 1..n : s[k] # "break" /\ (s[k] = "header" => k # n /\ s[k + 1] # "newline")
  /\ \A k \in 1..n - 1 : s[k] = "newline" => s[k + 1] \notin {"newline", "##", "###"}

LEMMA PlainIs ==
  ASSUME NEW s \in Seq(Characters), NEW n \in Nat, n = Len(s), s = Strip(s), ~Ambiguous(s)
  PROVE  IsPlain(s, n) /\ SummaryRows(s) = {}
<1>1. DOMAIN s = 1..n /\ (n # 0 => s # <<>>)
  BY LenProperties
<1>2. n # 0 => s[n] \notin LineBreaks
  BY <1>1, StrippedEnd
<1>7. ASSUME NEW i \in DOMAIN s, i = 1 \/ s[i - 1] = "newline"
      PROVE  s[i] \notin {"newline", "##", "###"}
  BY <1>7 DEF Ambiguous
<1>3. n # 0 => s[1] \notin {"newline", "##", "###"}
  <2>1. n # 0 => 1 \in DOMAIN s
    BY <1>1
  <2> QED
    BY <1>7, <2>1
<1>4. \A k \in 1..n : s[k] # "break" /\ (s[k] = "header" => k # n /\ s[k + 1] # "newline")
  BY <1>1 DEF Ambiguous
<1>5. ASSUME NEW k \in 1..n - 1, s[k] = "newline" PROVE s[k + 1] \notin {"newline", "##", "###"}
  <2> DEFINE j == k + 1
  <2>1. j \in DOMAIN s /\ j - 1 = k
    BY <1>1
  <2> HIDE DEF j
  <2>2. s[j] \notin {"newline", "##", "###"}
    BY <1>5, <1>7, <2>1
  <2> QED
    BY <2>2 DEF j
<1>6. SummaryRows(s) = {}
  BY DEF Ambiguous
<1> QED
  BY <1>2, <1>3, <1>4, <1>5, <1>6 DEF IsPlain

\* In the section no line but the first begins like a heading.
LEMMA OneHeading ==
  ASSUME NEW s \in Seq(Characters), NEW n \in Nat, n = Len(s), IsPlain(s, n),
         NEW w, IsSection(w, s, n)
  PROVE  At(w, "newline", "###") = {1} /\ At(w, "newline", "##") = {}
<1>1. ASSUME NEW i \in 1..n + 11, w[i] = "newline", w[i + 1] \in {"##", "###"}
      PROVE  i = 1 /\ w[i + 1] = "###"
  <2>1. CASE i \in {1, 2, 3, 4, 5, 6}
    BY <1>1, <2>1 DEF IsSection
  <2>2. CASE i \in {n + 8, n + 9, n + 10, n + 11}
    BY <1>1, <2>2 DEF IsSection
  <2>3. CASE i = 7
    <3>1. CASE n = 0
      BY <1>1, <2>3, <3>1 DEF IsSection
    <3>2. CASE n # 0
      <4>1. 1 \in 1..n /\ 7 + 1 = 8
        BY <3>2
      <4>2. w[8] = s[1]
        BY <4>1 DEF IsSection
      <4> QED
        BY <1>1, <2>3, <3>2, <4>2 DEF IsPlain
    <3> QED
      BY <3>1, <3>2
  <2>4. CASE i = n + 7 /\ n # 0
    BY <1>1, <2>4 DEF IsSection
  <2>5. CASE i \in 8..n + 6
    <3>1. /\ i - 7 \in 1..n - 1 /\ i - 7 \in 1..n /\ i - 7 + 1 \in 1..n
          /\ 7 + (i - 7) = i /\ 7 + (i - 7 + 1) = i + 1
      BY <2>5
    <3>2. s[i - 7] = w[i] /\ s[i - 7 + 1] = w[i + 1]
      BY <3>1 DEF IsSection
    <3> QED
      BY <1>1, <3>1, <3>2 DEF IsPlain
  <2> QED
    BY <2>1, <2>2, <2>3, <2>4, <2>5
<1>2. Len(w) - 1 = n + 11 /\ w[1] = "newline" /\ w[1 + 1] = "###" /\ 1 \in 1..n + 11
  BY DEF IsSection
<1> QED
  BY <1>1, <1>2 DEF At

\* Nor does one end like a row of the summary.
LEMMA NoSummaryLine ==
  ASSUME NEW s \in Seq(Characters), NEW n \in Nat, n = Len(s), SummaryRows(s) = {},
         NEW w, IsSection(w, s, n)
  PROVE  SummaryRows(w) = {}
<1>1. ASSUME NEW i \in SummaryRows(w) PROVE FALSE
  <2>1. /\ i \in 1..n + 10 /\ w[i] = "boxes" /\ w[i + 1] = "space" /\ w[i + 2] = "|"
        /\ i + 2 = n + 12 \/ w[i + 3] \in LineBreaks
    BY DEF SummaryRows, IsSection
  <2>2. i \notin {1, 2, 3, 4, 5, 6, 7, n + 8, n + 9, n + 10}
    BY <2>1 DEF IsSection
  <2>3. i \in 8..n + 7
    BY <2>1, <2>2
  <2>4. i + 1 # n + 8 /\ i + 2 # n + 8
    BY <2>1 DEF IsSection
  <2> DEFINE k == i - 7
  <2>5. /\ k \in 1..n - 2 /\ k \in 1..n /\ k + 1 \in 1..n /\ k + 2 \in 1..n
        /\ 7 + k = i /\ 7 + (k + 1) = i + 1 /\ 7 + (k + 2) = i + 2
    BY <2>3, <2>4
  <2>6. k + 2 # n => k + 3 \in 1..n /\ 7 + (k + 3) = i + 3
    BY <2>5
  <2>7. i + 2 # n + 12
    BY <2>3
  <2> HIDE DEF k
  <2>8. s[k] = "boxes" /\ s[k + 1] = "space" /\ s[k + 2] = "|"
    <3>1. s[k] = w[7 + k] /\ s[k + 1] = w[7 + (k + 1)] /\ s[k + 2] = w[7 + (k + 2)]
      BY <2>5 DEF IsSection
    <3> QED
      BY <2>1, <2>5, <3>1
  <2>9. k + 2 = n \/ s[k + 3] \in LineBreaks
    <3>1. CASE k + 2 # n
      <4>1. s[k + 3] = w[7 + (k + 3)]
        BY <2>6, <3>1 DEF IsSection
      <4> QED
        BY <2>1, <2>6, <2>7, <3>1, <4>1
    <3> QED
      BY <3>1
  <2>10. k \in SummaryRows(s)
    BY <2>5, <2>8, <2>9 DEF SummaryRows
  <2> QED
    BY <2>10
<1> QED
  BY <1>1

\* So it is read as one criterion, from its heading to its end (read_back).
LEMMA ChunkIs ==
  ASSUME NEW s \in Seq(Characters), NEW n \in Nat, n = Len(s), NEW w, IsSection(w, s, n),
         At(w, "newline", "###") = {1}
  PROVE  IsPart(Chunk(w), w, 3, n + 12)
<1> DEFINE c == After(w, "newline", "###")
<1>1. w \in Seq(Characters) /\ Len(w) = n + 12 /\ w[1] = "newline" /\ w[1 + 1] = "###"
  BY DEF IsSection
<1>2. n + 12 \in Nat /\ 1 \in 1..n + 12 - 1 /\ \A i \in 1..n + 12 - 1 : ~(i < 1)
  OBVIOUS
<1>3. IsPart(c, w, 1 + 2, n + 12)
  BY <1>1, <1>2, SplitIs
<1> HIDE DEF c
<1>4. /\ Len(c) - 1 = n + 9 /\ 1 + 2 = 3
      /\ \A i \in 1..n + 10 : c[i] = w[i + 2]
  <2>1. \A i \in 1..n + 10 : 1 + 2 + i - 1 = i + 2
    OBVIOUS
  <2>2. n + 12 - (1 + 2) + 1 = n + 10
    OBVIOUS
  <2> QED
    BY <1>3, <2>1, <2>2 DEF IsPart
<1>5. At(c, "newline", "###") = {}
  <2>1. ASSUME NEW i \in 1..n + 9, c[i] = "newline", c[i + 1] = "###" PROVE FALSE
    <3>1. /\ i \in 1..n + 10 /\ i + 1 \in 1..n + 10 /\ i + 2 \in 1..n + 12 - 1
          /\ i + 1 + 2 = i + 2 + 1 /\ i + 2 # 1
      OBVIOUS
    <3>2. w[i + 2] = "newline" /\ w[i + 2 + 1] = "###"
      BY <1>4, <2>1, <3>1
    <3>3. i + 2 \in At(w, "newline", "###")
      BY <1>1, <3>1, <3>2 DEF At
    <3> QED
      BY <3>1, <3>3
  <2> QED
    BY <1>4, <2>1 DEF At
<1>6. Chunk(w) = c
  BY <1>5 DEF Chunk, Before, c
<1> QED
  BY <1>3, <1>4, <1>6

\* What is read of such a chunk: the description, up to the blank line...
LEMMA BlockReturns ==
  ASSUME NEW s \in Seq(Characters), NEW n \in Nat, n = Len(s), IsPlain(s, n),
         NEW w, IsSection(w, s, n), NEW c, IsPart(c, w, 3, n + 12)
  PROVE  _block(c) = s
<1> DEFINE d == After(c, "label", "newline")
           e == Before(d, "newline", "newline")
<1>1. /\ c \in Seq(Characters) /\ Len(c) = n + 10
      /\ \A i \in 1..n + 10 : c[i] = w[i + 2]
  <2>1. n + 12 - 3 + 1 = n + 10 /\ \A i \in 1..n + 10 : 3 + i - 1 = i + 2
    OBVIOUS
  <2> QED
    BY <2>1 DEF IsPart
<1>2. c[1] = "a" /\ c[2] = "newline" /\ c[3] = "newline" /\ c[4] = "label" /\ c[4 + 1] = "newline"
  <2>1. /\ 1 \in 1..n + 10 /\ 2 \in 1..n + 10 /\ 3 \in 1..n + 10 /\ 4 \in 1..n + 10
        /\ 5 \in 1..n + 10
        /\ 1 + 2 = 3 /\ 2 + 2 = 4 /\ 3 + 2 = 5 /\ 4 + 2 = 6 /\ 5 + 2 = 7 /\ 4 + 1 = 5
    OBVIOUS
  <2>2. c[1] = w[3] /\ c[2] = w[4] /\ c[3] = w[5] /\ c[4] = w[6] /\ c[5] = w[7]
    BY <1>1, <2>1
  <2> QED
    BY <2>1, <2>2 DEF IsSection
<1>3. IsPart(d, c, 4 + 2, n + 10)
  <2>1. n + 10 \in Nat /\ 4 \in 1..n + 10 - 1
    OBVIOUS
  <2>2. \A i \in 1..n + 10 - 1 : i < 4 => i \in {1, 2, 3}
    OBVIOUS
  <2>3. \A i \in 1..n + 10 - 1 : i < 4 => ~(c[i] = "label" /\ c[i + 1] = "newline")
    BY <1>2, <2>2
  <2> DEFINE l == n + 10
             k == 4
  <2>4. /\ l \in Nat /\ l = Len(c) /\ k \in 1..l - 1 /\ c[k] = "label" /\ c[k + 1] = "newline"
        /\ \A i \in 1..l - 1 : i < k => ~(c[i] = "label" /\ c[i + 1] = "newline")
    BY <1>1, <1>2, <2>1, <2>3
  <2> HIDE DEF l, k
  <2>5. IsPart(After(c, "label", "newline"), c, k + 2, l)
    BY <1>1, <2>4, SplitIs
  <2> QED
    BY <2>5 DEF k, l
<1> HIDE DEF d
<1>4. /\ d \in Seq(Characters) /\ Len(d) = n + 5
      /\ \A i \in 1..n + 5 : d[i] = w[7 + i]
  <2>1. /\ n + 10 - (4 + 2) + 1 = n + 5
        /\ \A i \in 1..n + 5 : 4 + 2 + i - 1 = i + 5 /\ i + 5 \in 1..n + 10 /\ i + 5 + 2 = 7 + i
    OBVIOUS
  <2> QED
    BY <1>1, <1>3, <2>1 DEF IsPart
<1>5. d[n + 1] = "newline" /\ d[n + 1 + 1] = "newline" /\ \A i \in 1..n : d[i] = s[i]
  <2>1. /\ n + 1 \in 1..n + 5 /\ n + 1 + 1 \in 1..n + 5
        /\ 7 + (n + 1) = n + 8 /\ 7 + (n + 1 + 1) = n + 9
        /\ \A i \in 1..n : i \in 1..n + 5
    OBVIOUS
  <2> QED
    BY <1>4, <2>1 DEF IsSection
<1>6. ASSUME NEW i \in 1..n + 5 - 1, i < n + 1, d[i] = "newline", d[i + 1] = "newline"
      PROVE  FALSE
  <2>1. i \in 1..n /\ s[i] = "newline" /\ n # 0
    BY <1>5, <1>6
  <2>2. CASE i = n
    BY <2>1, <2>2 DEF IsPlain, LineBreaks
  <2>3. CASE i # n
    <3>1. i \in 1..n - 1 /\ i + 1 \in 1..n
      BY <2>1, <2>3
    <3>2. s[i + 1] = "newline"
      BY <1>5, <1>6, <3>1
    <3> QED
      BY <2>1, <3>1, <3>2 DEF IsPlain
  <2> QED
    BY <2>2, <2>3
<1>7. IsPart(e, d, 1, n + 1 - 1)
  <2>1. n + 5 \in Nat /\ n + 1 \in 1..n + 5 - 1
    OBVIOUS
  <2> DEFINE l == n + 5
             k == n + 1
  <2>2. /\ l \in Nat /\ l = Len(d) /\ k \in 1..l - 1 /\ d[k] = "newline" /\ d[k + 1] = "newline"
        /\ \A i \in 1..l - 1 : i < k => ~(d[i] = "newline" /\ d[i + 1] = "newline")
    BY <1>4, <1>5, <1>6, <2>1
  <2> HIDE DEF l, k
  <2>3. IsPart(Before(d, "newline", "newline"), d, 1, k - 1)
    BY <1>4, <2>2, SplitIs
  <2> QED
    BY <2>3 DEF k
<1> HIDE DEF e
<1>8. e = s
  <2>1. n + 1 - 1 = n /\ n - 1 + 1 = n /\ 1 \in Int /\ n \in Int /\ \A i \in 1..n : 1 + i - 1 = i
    OBVIOUS
  <2>2. IsPart(e, d, 1, n) /\ \A i \in 1..n : d[1 + i - 1] = s[i]
    BY <1>5, <1>7, <2>1
  <2> QED
    BY <2>1, <2>2, SamePart
<1>9. JoinLines(s, "newline") = s
  <2>1. DOMAIN s = 1..n /\ (s # <<>> => n # 0)
    BY EmptySeq, LenProperties
  <2>2. n = IF s # <<>> /\ s[Len(s)] \in LineBreaks THEN Len(s) - 1 ELSE Len(s)
    BY <2>1 DEF IsPlain
  <2>3. JoinLines(s, "newline") = [i \in 1..n |-> IF s[i] \in LineBreaks THEN "newline" ELSE s[i]]
    BY <2>2, JoinIs
  <2>4. \A i \in 1..n : (IF s[i] \in LineBreaks THEN "newline" ELSE s[i]) = s[i]
    BY DEF LineBreaks, IsPlain
  <2>5. s = [i \in 1..n |-> s[i]]
    BY <2>1
  <2> QED
    BY <2>3, <2>4, <2>5
<1> QED
  BY <1>8, <1>9 DEF _block, d, e

\* ...and the levels below the header the template has written.
LEMMA TableReturns ==
  ASSUME NEW s \in Seq(Characters), NEW n \in Nat, n = Len(s), IsPlain(s, n),
         NEW w, IsSection(w, s, n), NEW c, IsPart(c, w, 3, n + 12)
  PROVE  LevelsTable(c) = <<"|">>
<1> DEFINE f == After(c, "header", "newline")
<1>1. /\ c \in Seq(Characters) /\ Len(c) = n + 10
      /\ \A i \in 1..n + 10 : c[i] = w[i + 2]
  <2>1. n + 12 - 3 + 1 = n + 10 /\ \A i \in 1..n + 10 : 3 + i - 1 = i + 2
    OBVIOUS
  <2> QED
    BY <2>1 DEF IsPart
<1>2. c[n + 8] = "header" /\ c[n + 8 + 1] = "newline" /\ c[n + 10] = "|"
  <2>1. /\ n + 8 \in 1..n + 10 /\ n + 8 + 1 \in 1..n + 10 /\ n + 10 \in 1..n + 10
        /\ n + 8 + 2 = n + 10 /\ n + 8 + 1 + 2 = n + 11 /\ n + 10 + 2 = n + 12
    OBVIOUS
  <2>2. c[n + 8] = w[n + 10] /\ c[n + 8 + 1] = w[n + 11] /\ c[n + 10] = w[n + 12]
    BY <1>1, <2>1
  <2> QED
    BY <2>2 DEF IsSection
<1>3. ASSUME NEW i \in 1..n + 10 - 1, i < n + 8, c[i] = "header", c[i + 1] = "newline"
      PROVE  FALSE
  <2>1. w[i + 2] = "header" /\ w[i + 3] = "newline"
    <3>1. i \in 1..n + 10 /\ i + 1 \in 1..n + 10 /\ i + 1 + 2 = i + 3
      OBVIOUS
    <3> QED
      BY <1>1, <1>3, <3>1
  <2>2. i + 2 \notin {1, 2, 3, 4, 5, 6, 7, n + 8, n + 9}
    BY <2>1 DEF IsSection
  <2>3. i - 5 \in 1..n /\ 7 + (i - 5) = i + 2
    BY <1>3, <2>2
  <2>4. s[i - 5] = "header"
    BY <2>1, <2>3 DEF IsSection
  <2>5. i - 5 # n /\ s[i - 5 + 1] # "newline"
    BY <2>3, <2>4 DEF IsPlain
  <2>6. i - 5 + 1 \in 1..n /\ 7 + (i - 5 + 1) = i + 3
    BY <2>3, <2>5
  <2>7. s[i - 5 + 1] = w[i + 3]
    BY <2>6 DEF IsSection
  <2> QED
    BY <2>1, <2>5, <2>7
<1>4. IsPart(f, c, n + 8 + 2, n + 10)
  <2>1. n + 10 \in Nat /\ n + 8 \in 1..n + 10 - 1
    OBVIOUS
  <2> DEFINE l == n + 10
             k == n + 8
  <2>2. /\ l \in Nat /\ l = Len(c) /\ k \in 1..l - 1 /\ c[k] = "header" /\ c[k + 1] = "newline"
        /\ \A i \in 1..l - 1 : i < k => ~(c[i] = "header" /\ c[i + 1] = "newline")
    BY <1>1, <1>2, <1>3, <2>1
  <2> HIDE DEF l, k
  <2>3. IsPart(After(c, "header", "newline"), c, k + 2, l)
    BY <1>1, <2>2, SplitIs
  <2> QED
    BY <2>3 DEF k, l
<1> HIDE DEF f
<1>5. f \in Seq(Characters) /\ Len(f) = 1 /\ f[1] = "|"
  <2>1. n + 10 - (n + 8 + 2) + 1 = 1 /\ 1 \in 1..1 /\ n + 8 + 2 + 1 - 1 = n + 10
    OBVIOUS
  <2> QED
    BY <1>2, <1>4, <2>1 DEF IsPart
<1>6. f = <<"|">>
  <2>1. <<"|">> \in Seq(Characters) /\ Len(<<"|">>) = 1 /\ <<"|">>[1] = "|"
    BY DEF Characters
  <2>2. \A i \in 1..1 : f[i] = <<"|">>[i]
    BY <1>5, <2>1
  <2> QED
    BY <1>5, <2>1, <2>2, SeqEqual
<1>7. At(f, "newline", "newline") = {}
  BY <1>5 DEF At
<1>8. Before(f, "newline", "newline") = f
  BY <1>7 DEF Before
<1> QED
  BY <1>6, <1>8 DEF LevelsTable, f

\* A description comes back, and disturbs nothing around it, but for those of the
\* kinds Ambiguous names (read_back, _block).
LEMMA DescriptionReturns ==
  ASSUME NEW s \in Seq(Characters)
  PROVE  DescriptionComesBack(s)
<1> SUFFICES ASSUME s = Strip(s), ~Ambiguous(s)
             PROVE  LET md == SectionOf(s) IN
                    /\ _block(Chunk(md)) = s /\ LevelsTable(Chunk(md)) = <<"|">>
                    /\ At(md, "newline", "###") = {1} /\ At(md, "newline", "##") = {}
                    /\ SummaryRows(md) = {}
  BY DEF DescriptionComesBack
<1> DEFINE n == Len(s)
           w == SectionOf(s)
<1>1. n \in Nat
  BY LenProperties
<1>2. IsSection(w, s, n)
  BY <1>1, SectionIs
<1>3. IsPlain(s, n) /\ SummaryRows(s) = {}
  BY <1>1, PlainIs
<1> HIDE DEF w, n
<1>4. n = Len(s)
  BY DEF n
<1>5. At(w, "newline", "###") = {1} /\ At(w, "newline", "##") = {}
  BY <1>1, <1>2, <1>3, <1>4, OneHeading
<1>6. SummaryRows(w) = {}
  BY <1>1, <1>2, <1>3, <1>4, NoSummaryLine
<1>7. IsPart(Chunk(w), w, 3, n + 12)
  BY <1>1, <1>2, <1>4, <1>5, ChunkIs
<1>8. _block(Chunk(w)) = s /\ LevelsTable(Chunk(w)) = <<"|">>
  BY <1>1, <1>2, <1>3, <1>4, <1>7, BlockReturns, TableReturns
<1> QED
  BY <1>5, <1>6, <1>8 DEF w

-----------------------------------------------------------------------------
(* The theorems                                                            *)

\* The selection stays what it was, and every rewrite is a rubric.
THEOREM TypeCorrect == Spec => []TypeOK
<1>1. Init => TypeOK
  BY DEF Init, TypeOK
<1>2. TypeOK /\ [Next]_vars => TypeOK'
  BY DEF TypeOK, Next, Rewrite, Settled, vars
<1> QED
  BY <1>1, <1>2, PTL DEF Spec

\* A sheet that passes the checks is whole, however many NFRs and criteria
\* there are (check_cross_ref and check_levels together with render_rubric).
THEOREM SheetIsWhole == Spec => []PassedSheetIsWhole
<1>1. TypeOK => PassedSheetIsWhole
  BY PassedSheet DEF TypeOK, PassedSheetIsWhole, Passes
<1> QED
  BY <1>1, TypeCorrect, PTL

\* The marks of a sheet that passes add up to WEIGHT_TOTAL, all of them positive.
THEOREM MarksAddUp == Spec => []PassedMarksAddUp
<1>1. TypeOK => PassedMarksAddUp
  BY PassedMarks, ChecksAssumption DEF TypeOK, PassedMarksAddUp, Passes
<1> QED
  BY <1>1, TypeCorrect, PTL

\* Together: what passes is a sheet to be scored by.
THEOREM SheetIsSound == Spec => []PassedSheetIsSound
  BY SheetIsWhole, MarksAddUp, PTL DEF PassedSheetIsSound

\* No rewrite mends an error the author is not told of, nor causes one
\* (rubric_repair_findings).
THEOREM SelectionErrorsRemain == Spec => SelectionErrorsStand
<1>1. Unrepairable(selection, rubric') = Unrepairable(selection, rubric)
  BY UnrepairableIsOfSelection
<1> QED
  BY <1>1, PTL DEF SelectionErrorsStand

\* When all that is wrong with a draft can be repaired, and each NFR can have a
\* criterion of its own, there is a rubric that passes: the errors passed on by
\* rubric_repair_findings never contradict one another.
THEOREM RepairCanSucceed ==
  ASSUME FreeAuthor
  PROVE  Spec => []RepairHasAWayOut
<1>1. TypeOK => RepairHasAWayOut
  <2> SUFFICES ASSUME TypeOK, Unrepairable(selection, rubric) = {},
                      Len(selection.nfrs) \in CriteriaMin..CriteriaMax
               PROVE  Mendable
    BY DEF RepairHasAWayOut
  <2>1. selection \in Selections /\ OfSelection(selection) = {}
    BY UnrepairableIsOfSelection DEF TypeOK
  <2>2. PICK L : Table(L)
    BY TableExists
  <2>3. /\ Answer(selection, L) \in Rubrics
        /\ Findings(selection, Answer(selection, L)) = {}
    BY <2>1, <2>2, AnswerIsRubric, AnswerPasses
  <2> QED
    BY <2>3 DEF Mendable
<1> QED
  BY <1>1, TypeCorrect, PTL

\* The drafts of a run that also writes texts are those of the checks: the
\* theorems above are about the drafts of SheetSpec too.
THEOREM DraftsAreChecked == SheetSpec => Spec
<1>1. SheetInit => Init
  BY DEF SheetInit
<1>2. [SheetNext]_sheetVars => [Next]_vars
  BY DEF SheetNext, CheckStep, Write, Written, sheetVars
<1> QED
  BY <1>1, <1>2, PTL DEF SheetSpec, Spec

\* What is written is a text, no longer than MaxLength.
THEOREM TextIsTyped == SheetSpec => []TextTypeOK
<1>1. SheetInit => TextTypeOK
  BY TextAssumption, EmptySeq DEF SheetInit, TextTypeOK
<1>2. TextTypeOK /\ [SheetNext]_sheetVars => TextTypeOK'
  <2> SUFFICES ASSUME TextTypeOK, [SheetNext]_sheetVars PROVE TextTypeOK'
    OBVIOUS
  <2>1. CASE CheckStep \/ Written \/ UNCHANGED sheetVars
    BY <2>1 DEF CheckStep, Written, sheetVars, TextTypeOK
  <2>2. ASSUME NEW c \in Characters, Write(c) PROVE TextTypeOK'
    <3>1. text \in Seq(Characters) /\ Len(text) < MaxLength /\ text' = Append(text, c)
      BY <2>2 DEF TextTypeOK, Write
    <3>2. text' \in Seq(Characters) /\ Len(text') = Len(text) + 1
      BY <3>1, AppendProperties
    <3>3. Len(text) \in Nat
      BY <3>1, LenProperties
    <3> QED
      BY <3>1, <3>2, <3>3, TextAssumption DEF TextTypeOK
  <2> QED
    BY <2>1, <2>2 DEF SheetNext
<1> QED
  BY <1>1, <1>2, PTL DEF SheetSpec

\* No descriptor, however long, breaks the table it is written in, and each text
\* that is not of the kinds named is read back as it was written and disturbs
\* nothing around it (post_render.py).
THEOREM TextsComeBack == SheetSpec => []TextComesBack
<1>1. TextTypeOK => TextComesBack
  BY DescriptorReturns, DescriptionReturns DEF TextTypeOK, TextComesBack
<1> QED
  BY <1>1, TextIsTyped, PTL
=============================================================================
