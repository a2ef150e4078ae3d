---------------------------- MODULE RunComparison ----------------------------
(***************************************************************************)
(* The comparison of the checks on one generated sheet                     *)
(* (validation_comparison.py, compare_run): each condition starts from the *)
(* same initial sheet, checks and repairs it in its own way, and what it   *)
(* ends with is evaluated independently, once for equal sheets.            *)
(*                                                                         *)
(* The harness says the same of a sheet every time; the judge, the author  *)
(* of repairs and the evaluator answer anything, or fail.  Of the findings *)
(* the errors are told apart, by whether a rubric can be repaired for them.*)
(***************************************************************************)
EXTENDS Naturals, FiniteSets, Sequences, SequencesExt

CONSTANTS
  Sheets,
  initial,      \* nfr_export-0.json
  harness,      \* per sheet: the errors of the harness
  Unrenderable, \* sheets that cannot be rendered and read back
  Conditions,   \* letters: A to E
  settings,     \* CONDITIONS: harness, judge and limit of each
  Orders,       \* what --conditions may say
  Malformed,    \* conditions with labels in the review that may be malformed
  Checks,       \* pairs of a criterion and a target of the evaluation
  None

Errors == {"fixable", "upstream"}
Verdicts == {"Pass", "Fail", "null"}
Evaluations == UNION {[K -> Verdicts] : K \in SUBSET Checks}

ASSUME ComparisonAssumption ==
  /\ initial \in Sheets
  /\ harness \in [Sheets -> SUBSET Errors]
  /\ settings \in [Conditions -> [harness : BOOLEAN, judge : BOOLEAN, limit : Nat]]
  /\ \A o \in Orders : o \in Seq(Conditions) /\ IsInjective(o)
  /\ None \notin Evaluations

VARIABLES
  order,       \* the conditions asked for
  todo,        \* conditions still to come, the one under way first
  at,          \* where compare_run is
  export,      \* the sheet of the condition under way
  findings,    \* the errors of its last round
  checked,     \* the sheet these are about
  repairs, attempts, status, failure,
  cache,       \* evaluations: by sheet
  baseline,    \* baseline_evaluation
  evaluation,  \* of the sheet under way
  rows         \* comparison.json

condition == <<export, findings, checked, repairs, attempts, status, failure, evaluation>>
vars == <<order, todo, at, condition, cache, baseline, rows>>

Statuses == {"complete", "judge_failed", "requires_upstream_repair",
             "observed_errors", "repair_limit", "failed", "render_failed"}

Changes == [resolved : SUBSET Checks, residual : SUBSET Checks,
            new : SUBSET Checks, unmatched : SUBSET Checks]

Rows == [status : Statuses, failure : BOOLEAN, final : Sheets, checked : Sheets \cup {None},
         repairs : Nat, evaluation : Evaluations \cup {None},
         changes : Changes \cup {None}]

Setting == settings[Head(todo)]

TypeOK ==
  /\ order \in Orders /\ todo \in Seq(Conditions)
  /\ at \in {"next", "check", "repair", "render", "evaluate", "record", "returned", "raised"}
  /\ at \in {"check", "repair", "render", "evaluate", "record"} => todo # <<>>
  /\ export \in Sheets /\ checked \in Sheets \cup {None}
  /\ findings \subseteq Errors
  /\ repairs \in Nat /\ attempts \in Nat
  /\ todo # <<>> => repairs <= Setting.limit /\ attempts \in repairs..Setting.limit
  /\ status \in Statuses /\ failure \in BOOLEAN
  /\ DOMAIN cache \subseteq Sheets /\ \A s \in DOMAIN cache : cache[s] \in Evaluations
  /\ baseline \in Evaluations \cup {None} /\ evaluation \in Evaluations \cup {None}
  /\ DOMAIN rows \subseteq Conditions /\ \A c \in DOMAIN rows : rows[c] \in Rows

Fresh ==
  /\ export' = initial /\ findings' = {} /\ checked' = None
  /\ repairs' = 0 /\ attempts' = 0 /\ status' = "complete" /\ failure' = FALSE
  /\ evaluation' = None

Init ==
  /\ order \in Orders /\ todo = order
  /\ at = "next"
  /\ export = initial /\ findings = {} /\ checked = None
  /\ repairs = 0 /\ attempts = 0 /\ status = "complete" /\ failure = FALSE
  /\ evaluation = None
  /\ cache = [s \in {} |-> None] /\ baseline = None
  /\ rows = [c \in {} |-> None]

-----------------------------------------------------------------------------
(* A condition: rounds of checks and repairs.                              *)
BeginCondition ==
  /\ at = "next" /\ todo # <<>> /\ at' = "check"
  /\ UNCHANGED <<order, todo, condition, cache, baseline, rows>>

Found(J) == (IF Setting.harness THEN harness[export] ELSE {})
            \cup (IF Setting.judge THEN J ELSE {})

\* Why the rounds end with these errors, or "go on".
Stop(F) ==
  IF F = {} THEN "complete"
  ELSE IF Setting.limit > 0 /\ "fixable" \notin F THEN "requires_upstream_repair"
  ELSE IF repairs = Setting.limit
       THEN IF Setting.limit = 0 THEN "observed_errors" ELSE "repair_limit"
  ELSE "go on"

Check(J) ==
  /\ at = "check"
  /\ ~Setting.judge => J = {}
  /\ findings' = Found(J) /\ checked' = export
  /\ IF Stop(findings') = "go on"
     THEN at' = "repair" /\ UNCHANGED status
     ELSE at' = "render" /\ status' = Stop(findings')
  /\ UNCHANGED <<order, todo, export, repairs, attempts, failure, evaluation, cache, baseline, rows>>

\* JUDGE_RESPONSE_INVALID: nothing is repaired on such a reply.
JudgeInvalid ==
  /\ at = "check" /\ Setting.judge
  /\ findings' = Found({}) /\ checked' = export
  /\ status' = "judge_failed" /\ at' = "render"
  /\ UNCHANGED <<order, todo, export, repairs, attempts, failure, evaluation,
                 cache, baseline, rows>>

Counted(n) == n + 1

AfterRepair == "check"

Repair(s) ==
  /\ at = "repair" /\ at' = AfterRepair
  /\ attempts' = Counted(attempts)
  /\ export' = s /\ repairs' = Counted(repairs)
  /\ UNCHANGED <<order, todo, findings, checked, status, failure, evaluation, cache, baseline, rows>>

\* Mutant: the exception leaves compare_run.
Caught_Never == "raised"

Caught == "render"

\* A call of the judge or of the author ends with an exception.
Fails ==
  /\ at \in {"check", "repair"} /\ at' = Caught
  /\ at = "check" => Setting.judge
  /\ attempts' = IF at = "repair" THEN Counted(attempts) ELSE attempts
  /\ status' = "failed" /\ failure' = TRUE
  /\ UNCHANGED <<order, todo, export, findings, checked, repairs, evaluation, cache, baseline, rows>>

-----------------------------------------------------------------------------
(* What the condition ends with is rendered, evaluated and recorded.       *)
RenderFails ==
  /\ at = "render" /\ export \in Unrenderable
  /\ status' = "render_failed" /\ at' = "record"
  /\ UNCHANGED <<order, todo, export, findings, checked, repairs, attempts, failure, evaluation,
                 cache, baseline, rows>>

Render ==
  /\ at = "render" /\ export \notin Unrenderable
  /\ at' = "evaluate"
  /\ UNCHANGED <<order, todo, condition, cache, baseline, rows>>

Known == export \in DOMAIN cache

EvaluatedBefore ==
  /\ at = "evaluate" /\ Known /\ at' = "record"
  /\ evaluation' = cache[export]
  /\ UNCHANGED <<order, todo, export, findings, checked, repairs, attempts, status, failure,
                 cache, baseline, rows>>

Evaluate(e) ==
  /\ at = "evaluate" /\ ~Known /\ at' = "record"
  /\ evaluation' = e
  /\ cache' = [s \in DOMAIN cache \cup {export} |-> IF s = export THEN e ELSE cache[s]]
  /\ UNCHANGED <<order, todo, export, findings, checked, repairs, attempts, status, failure,
                 baseline, rows>>

\* A failed evaluation is not remembered: the next condition tries again.
EvaluationFails ==
  /\ at = "evaluate" /\ ~Known /\ at' = "record"
  /\ UNCHANGED <<order, todo, condition, cache, baseline, rows>>

Failed(e) == {k \in DOMAIN e : e[k] = "Fail"}

Comparable(before, after) ==
  {k \in DOMAIN before \cap DOMAIN after : before[k] # "null" /\ after[k] # "null"}

\* provisional_changes; the sets stand for their sizes.
ProvisionalChanges(before, after) ==
  IF before = None \/ after = None THEN None
  ELSE LET C == Comparable(before, after) IN
       [resolved |-> (Failed(before) \ Failed(after)) \cap C,
        residual |-> Failed(before) \cap Failed(after) \cap C,
        new |-> (Failed(after) \ Failed(before)) \cap C,
        unmatched |-> (DOMAIN before \cup DOMAIN after) \ C]

\* Mutant: the first evaluation of any sheet is the baseline.
NextBaseline_First == IF baseline = None THEN evaluation ELSE baseline

NextBaseline ==
  IF export = initial /\ baseline = None THEN evaluation ELSE baseline

Row == [status |-> status, failure |-> failure, final |-> export, checked |-> checked,
        repairs |-> repairs, evaluation |-> evaluation,
        changes |-> ProvisionalChanges(NextBaseline, evaluation)]

Record ==
  /\ at = "record"
  /\ baseline' = NextBaseline
  /\ rows' = [c \in DOMAIN rows \cup {Head(todo)} |->
                IF c = Head(todo) THEN Row ELSE rows[c]]
  /\ todo' = Tail(todo) /\ at' = "next"
  /\ Fresh
  /\ UNCHANGED <<order, cache>>

\* human_detection_metrics raises, outside of every try.  Some malformed labels
\* are met only once the labels cover all findings: before, there is a Record.
ReviewRejected ==
  /\ at = "record" /\ Head(todo) \in Malformed
  /\ baseline' = NextBaseline
  /\ at' = "raised"
  /\ UNCHANGED <<order, todo, condition, cache, rows>>

Return ==
  /\ at = "next" /\ todo = <<>> /\ at' = "returned"
  /\ UNCHANGED <<order, todo, condition, cache, baseline, rows>>

Terminated == at \in {"returned", "raised"} /\ UNCHANGED vars

Step ==
  \/ BeginCondition \/ (\E J \in SUBSET Errors : Check(J)) \/ JudgeInvalid
  \/ (\E s \in Sheets : Repair(s)) \/ Fails
  \/ RenderFails \/ Render \/ EvaluatedBefore \/ (\E e \in Evaluations : Evaluate(e))
  \/ EvaluationFails \/ Record \/ ReviewRejected \/ Return

Next == Step \/ Terminated

Spec == Init /\ [][Next]_vars

(* The models' calls have timeouts and no retries of their own. *)
FairSpec == Spec /\ WF_vars(Step)

-----------------------------------------------------------------------------
(* Properties *)

(* Conditions that end with the same sheet are told the same of it: what
   the table shows as a difference between them is one of the sheets. *)
EqualSheetsEqualVerdicts ==
  \A c, d \in DOMAIN rows :
    /\ rows[c].final = rows[d].final
    /\ rows[c].evaluation # None /\ rows[d].evaluation # None
    => rows[c].evaluation = rows[d].evaluation

(* Changes are counted against the initial sheet, in whatever order the
   conditions run and whichever evaluations fail: a sheet left as it was has
   resolved nothing and broken nothing. *)
UnchangedShowsNoChange ==
  \A c \in DOMAIN rows :
    rows[c].final = initial /\ rows[c].changes # None
      => rows[c].changes.resolved = {} /\ rows[c].changes.new = {}

(* A check counted as resolved or broken had a verdict both times. *)
ChangesAreScored ==
  \A c \in DOMAIN rows : rows[c].changes # None =>
    \A k \in rows[c].changes.resolved \cup rows[c].changes.new :
      rows[c].evaluation[k] # "null" /\ k \notin rows[c].changes.unmatched

(* The sheet of a row is the one its last findings are about, unless a call
   failed: a repair is never the last thing that happens to it, and what
   passed as complete with the harness has no error the harness knows. *)
FinalIsChecked ==
  \A c \in DOMAIN rows :
    /\ ~rows[c].failure => rows[c].checked = rows[c].final
    /\ rows[c].status = "complete" /\ settings[c].harness
         => harness[rows[c].final] = {}

(* The rows can be compared with one another, and each with the sheet and the
   findings of its own condition. *)
RowsAreComparable ==
  /\ TypeOK
  /\ EqualSheetsEqualVerdicts /\ UnchangedShowsNoChange
  /\ ChangesAreScored /\ FinalIsChecked

(* The comparison comes to an end, and by then a condition that failed is on
   record like the others: each has its row, unless the review of one is
   malformed, which loses its row and those after it, but none before.
   Nothing else ends it early. *)
EveryConditionIsRecorded ==
  <>(\/ at = "returned" /\ \A i \in DOMAIN order : order[i] \in DOMAIN rows
     \/ /\ at = "raised" /\ Head(todo) \in Malformed
        /\ \A i \in DOMAIN order :
             order[i] \in DOMAIN rows \/ \E j \in 1..i : order[j] = Head(todo))
=============================================================================
