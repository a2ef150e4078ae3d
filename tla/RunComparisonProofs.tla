------------------------- MODULE RunComparisonProofs -------------------------
(***************************************************************************)
(* Proofs about RunComparison, for all sheets, conditions and limits.      *)
(* Rows can be compared because whatever is said of a sheet is said once:  *)
(* evaluations come from a cache whose entries are never replaced (Cached),*)
(* and the baseline is the entry of the initial sheet.                     *)
(***************************************************************************)
EXTENDS RunComparison, SequenceTheorems, TLAPS

\* Only what is recorded, or about to be, has an evaluation.
Pending == evaluation # None => at \in {"record", "raised"}

\* While there are rounds to come every attempt has made its repair, and one
\* that is begun is within the limit.
Rounds ==
  /\ at \in {"next", "check", "repair"} => attempts = repairs
  /\ at = "repair" => repairs < Setting.limit

\* Every evaluation comes from the cache, and no entry is ever replaced.
FromCache(s, e) == e # None => s \in DOMAIN cache /\ cache[s] = e

Cached ==
  /\ FromCache(export, evaluation) /\ FromCache(initial, baseline)
  /\ \A c \in DOMAIN rows : FromCache(rows[c].final, rows[c].evaluation)

\* When the rounds are over the findings are those of the sheet, and there are
\* none where the condition ends as complete.
RoundsOver ==
  at \in {"render", "evaluate", "record", "raised"} =>
    /\ ~failure => checked = export
    /\ status = "complete" /\ Setting.harness => harness[export] = {}

\* A condition asked for has its row, or its turn is still to come.
NothingIsLost ==
  \A i \in DOMAIN order : order[i] \in DOMAIN rows \/ order[i] \in Range(todo)

Returned == at = "returned" => todo = <<>>

IInv ==
  /\ TypeOK /\ Pending /\ Rounds /\ Cached /\ RoundsOver /\ NothingIsLost /\ Returned
  /\ UnchangedShowsNoChange /\ ChangesAreScored /\ FinalIsChecked

-----------------------------------------------------------------------------
LEMMA TailFacts ==
  ASSUME NEW S, NEW q \in Seq(S), q # <<>>
  PROVE  /\ Head(q) \in S /\ Tail(q) \in Seq(S)
         /\ \A x \in Range(q) : x = Head(q) \/ x \in Range(Tail(q))
  <1>1. Head(q) \in S /\ Tail(q) \in Seq(S)
    BY HeadTailProperties
  <1>2. ASSUME NEW x \in Range(q), x # Head(q) PROVE x \in Range(Tail(q))
    <2>1. PICK i \in DOMAIN q : q[i] = x
      BY DEF Range
    <2>2. i \in 2..Len(q)
      BY <2>1, <1>2, LenProperties
    <2>3. i - 1 \in DOMAIN Tail(q) /\ Tail(q)[i - 1] = x
      BY <1>1, <2>1, <2>2, HeadTailProperties, LenProperties
    <2> QED BY <2>3 DEF Range
  <1> QED BY <1>1, <1>2

LEMMA InitIInv == Init => IInv
  <1> SUFFICES ASSUME Init PROVE IInv
    OBVIOUS
  <1>1. order \in Seq(Conditions)
    BY ComparisonAssumption DEF Init
  <1>2. todo # <<>> => Setting.limit \in Nat
    BY <1>1, TailFacts, ComparisonAssumption DEF Init, Setting
  <1>3. TypeOK
    <2>1. /\ DOMAIN cache = {} /\ DOMAIN rows = {}
          /\ todo = order /\ order \in Orders /\ export \in Sheets
          /\ at = "next" /\ status = "complete" /\ failure = FALSE /\ findings = {}
          /\ repairs = 0 /\ attempts = 0 /\ checked = None /\ baseline = None /\ evaluation = None
      BY ComparisonAssumption DEF Init
    <2>2. todo # <<>> => repairs <= Setting.limit /\ attempts \in repairs..Setting.limit
      BY <1>2, <2>1
    <2> QED BY <1>1, <2>1, <2>2 DEF TypeOK, Statuses
  <1>4. Pending /\ Rounds /\ Cached /\ RoundsOver /\ Returned
    BY DEF Init, Pending, Rounds, Cached, FromCache, RoundsOver, Returned
  <1>5. NothingIsLost
    BY DEF Init, NothingIsLost, Range
  <1>6. UnchangedShowsNoChange /\ ChangesAreScored /\ FinalIsChecked
    BY DEF Init, UnchangedShowsNoChange, ChangesAreScored, FinalIsChecked
  <1> QED BY <1>3, <1>4, <1>5, <1>6 DEF IInv

\* What the setting of the condition under way is.
LEMMA SettingFacts ==
  ASSUME TypeOK, todo # <<>>
  PROVE  /\ Head(todo) \in Conditions /\ Tail(todo) \in Seq(Conditions)
         /\ Setting \in [harness : BOOLEAN, judge : BOOLEAN, limit : Nat]
  BY TailFacts, ComparisonAssumption DEF TypeOK, Setting

\* A step that touches neither rows, cache, baseline nor conditions.
LEMMA SameRows ==
  ASSUME IInv, UNCHANGED <<order, todo, cache, baseline, rows>>
  PROVE  /\ NothingIsLost' /\ UnchangedShowsNoChange' /\ ChangesAreScored' /\ FinalIsChecked'
         /\ FromCache(initial, baseline)'
         /\ \A c \in DOMAIN rows' : FromCache(rows[c].final, rows[c].evaluation)'
  <1>1. NothingIsLost'
    BY DEF IInv, NothingIsLost
  <1>2. UnchangedShowsNoChange' /\ ChangesAreScored' /\ FinalIsChecked'
    BY DEF IInv, UnchangedShowsNoChange, ChangesAreScored, FinalIsChecked
  <1>3. FromCache(initial, baseline)' /\ \A c \in DOMAIN rows' : FromCache(rows[c].final, rows[c].evaluation)'
    BY DEF IInv, Cached, FromCache
  <1> QED BY <1>1, <1>2, <1>3

LEMMA FoundFacts ==
  ASSUME TypeOK, todo # <<>>, NEW J \in SUBSET Errors
  PROVE  /\ Found(J) \in SUBSET Errors
         /\ Setting.harness => harness[export] \subseteq Found(J)
  BY SettingFacts, ComparisonAssumption DEF TypeOK, Found

LEMMA CheckStep ==
  ASSUME IInv, NEW J \in SUBSET Errors, Check(J)
  PROVE  IInv'
  <1>1. /\ at = "check" /\ todo # <<>> /\ attempts = repairs /\ evaluation = None
        /\ findings' = Found(J) /\ checked' = export
        /\ UNCHANGED <<order, todo, export, repairs, attempts, failure, evaluation, cache, baseline, rows>>
        /\ \/ at' = "repair" /\ status' = status /\ Stop(findings') = "go on"
           \/ at' = "render" /\ status' = Stop(findings') /\ status' # "go on"
    BY DEF IInv, TypeOK, Pending, Rounds, Check
  <1>2. Setting' = Setting
    BY <1>1 DEF Setting
  <1>3. /\ Stop(findings') = "go on" => repairs # Setting.limit
        /\ Stop(findings') # "go on" => Stop(findings') \in Statuses
        /\ Stop(findings') = "complete" => findings' = {}
    BY <1>1 DEF Stop, Statuses
  <1>4. TypeOK'
    BY <1>1, <1>2, <1>3, FoundFacts DEF IInv, TypeOK
  <1>5. Rounds'
    <2>1. Setting.limit \in Nat /\ repairs \in Nat /\ repairs <= Setting.limit
      BY <1>1, SettingFacts DEF IInv, TypeOK
    <2>2. ASSUME at' = "repair" PROVE repairs' < Setting'.limit
      <3>1. repairs # Setting.limit
        BY <1>1, <1>3, <2>2
      <3>2. repairs < Setting.limit
        BY <2>1, <3>1
      <3> QED BY <1>1, <1>2, <3>2
    <2> QED BY <1>1, <2>2 DEF Rounds
  <1>6. RoundsOver'
    BY <1>1, <1>2, <1>3, FoundFacts DEF IInv, RoundsOver
  <1>7. Pending' /\ Cached' /\ Returned'
    BY <1>1, SameRows DEF IInv, Pending, Cached, FromCache, Returned
  <1> QED BY <1>1, <1>4, <1>5, <1>6, <1>7, SameRows DEF IInv

\* The other steps of the rounds, and the rendering.
LEMMA RoundStep ==
  ASSUME IInv, BeginCondition \/ JudgeInvalid \/ (\E s \in Sheets : Repair(s)) \/ Fails
                 \/ RenderFails \/ Render
  PROVE  IInv'
  <1>1. /\ UNCHANGED <<order, todo, evaluation, cache, baseline, rows>>
        /\ evaluation = None /\ at # "returned" /\ at' # "returned" /\ todo # <<>>
    BY DEF IInv, TypeOK, Pending, BeginCondition, JudgeInvalid, Repair, Fails, RenderFails, Render,
           condition, Caught, AfterRepair
  <1>2. Setting' = Setting /\ Setting \in [harness : BOOLEAN, judge : BOOLEAN, limit : Nat]
    BY <1>1, SettingFacts DEF IInv, Setting
  <1>3. TypeOK' /\ Rounds'
    <2>1. CASE BeginCondition
      BY <1>1, <1>2, <2>1 DEF IInv, TypeOK, Rounds, BeginCondition, condition
    <2>2. CASE JudgeInvalid
      BY <1>1, <1>2, <2>2, FoundFacts DEF IInv, TypeOK, Rounds, JudgeInvalid, Statuses
    <2>3. CASE \E s \in Sheets : Repair(s)
      BY <1>1, <1>2, <2>3 DEF IInv, TypeOK, Rounds, Repair, Counted, AfterRepair
    <2>4. CASE Fails
      BY <1>1, <1>2, <2>4 DEF IInv, TypeOK, Rounds, Fails, Counted, Caught, Statuses
    <2>5. CASE RenderFails \/ Render
      BY <1>1, <1>2, <2>5 DEF IInv, TypeOK, Rounds, RenderFails, Render, condition, Statuses
    <2> QED BY <2>1, <2>2, <2>3, <2>4, <2>5
  <1>4. RoundsOver'
    <2>1. CASE BeginCondition \/ \E s \in Sheets : Repair(s)
      BY <2>1 DEF RoundsOver, BeginCondition, Repair, AfterRepair
    <2>2. CASE JudgeInvalid \/ Fails
      BY <2>2 DEF RoundsOver, JudgeInvalid, Fails, Caught
    <2>3. CASE RenderFails \/ Render
      BY <1>2, <2>3 DEF IInv, RoundsOver, RenderFails, Render, condition
    <2> QED BY <2>1, <2>2, <2>3
  <1>5. Pending' /\ Cached' /\ Returned'
    BY <1>1, SameRows DEF IInv, Pending, Cached, FromCache, Returned
  <1> QED BY <1>1, <1>3, <1>4, <1>5, SameRows DEF IInv

\* The evaluation of the sheet the condition ends with: a new entry of the
\* cache leaves what was taken from it before as it was.
LEMMA EvaluationStep ==
  ASSUME IInv, EvaluatedBefore \/ (\E e \in Evaluations : Evaluate(e)) \/ EvaluationFails
  PROVE  IInv'
  <1>1. /\ at = "evaluate" /\ at' = "record" /\ evaluation = None /\ todo # <<>>
        /\ UNCHANGED <<order, todo, export, findings, checked, repairs, attempts, status,
                       failure, baseline, rows>>
    BY DEF IInv, TypeOK, Pending, EvaluatedBefore, Evaluate, EvaluationFails, condition
  <1>2. /\ DOMAIN cache' \subseteq Sheets /\ \A s \in DOMAIN cache' : cache'[s] \in Evaluations
        /\ evaluation' \in Evaluations \cup {None}
        /\ evaluation' # None => export \in DOMAIN cache' /\ cache'[export] = evaluation'
        /\ \A s \in DOMAIN cache : s \in DOMAIN cache' /\ cache'[s] = cache[s]
    <2>1. CASE EvaluatedBefore
      BY <2>1 DEF IInv, TypeOK, EvaluatedBefore, Known
    <2>2. CASE \E e \in Evaluations : Evaluate(e)
      BY <2>2 DEF IInv, TypeOK, Evaluate, Known
    <2>3. CASE EvaluationFails
      BY <1>1, <2>3 DEF IInv, TypeOK, EvaluationFails, condition
    <2> QED BY <2>1, <2>2, <2>3
  <1>3. Setting' = Setting
    BY <1>1 DEF Setting
  <1>4. TypeOK' /\ Rounds' /\ Pending' /\ RoundsOver' /\ Returned'
    BY <1>1, <1>2, <1>3 DEF IInv, TypeOK, Rounds, Pending, RoundsOver, Returned
  <1>5. Cached'
    BY <1>1, <1>2 DEF IInv, Cached, FromCache
  <1>6. NothingIsLost' /\ UnchangedShowsNoChange' /\ ChangesAreScored' /\ FinalIsChecked'
    <2>1. NothingIsLost'
      BY <1>1 DEF IInv, NothingIsLost
    <2> QED
      BY <1>1, <2>1 DEF IInv, UnchangedShowsNoChange, ChangesAreScored, FinalIsChecked
  <1> QED BY <1>4, <1>5, <1>6 DEF IInv

-----------------------------------------------------------------------------
(* Recording a condition.                                                  *)

LEMMA BaselineFacts ==
  ASSUME IInv
  PROVE  /\ NextBaseline \in Evaluations \cup {None}
         /\ FromCache(initial, NextBaseline)
         /\ export = initial /\ evaluation # None => NextBaseline = evaluation
  BY DEF IInv, TypeOK, Cached, FromCache, NextBaseline

\* What the changes between two evaluations say.
LEMMA ChangesFacts ==
  ASSUME NEW b \in Evaluations \cup {None}, NEW e \in Evaluations \cup {None},
         NEW C, C = ProvisionalChanges(b, e), C # None
  PROVE  /\ b # None /\ e # None /\ C \in Changes
         /\ b = e => C.resolved = {} /\ C.new = {}
         /\ \A k \in C.resolved \cup C.new : e[k] # "null" /\ k \notin C.unmatched
  <1>1. b # None /\ e # None
    BY DEF ProvisionalChanges
  <1>2. DOMAIN b \subseteq Checks /\ DOMAIN e \subseteq Checks
    BY <1>1 DEF Evaluations
  <1>3. C = [resolved |-> (Failed(b) \ Failed(e)) \cap Comparable(b, e),
             residual |-> Failed(b) \cap Failed(e) \cap Comparable(b, e),
             new |-> (Failed(e) \ Failed(b)) \cap Comparable(b, e),
             unmatched |-> (DOMAIN b \cup DOMAIN e) \ Comparable(b, e)]
    BY <1>1 DEF ProvisionalChanges
  <1>4. Comparable(b, e) \subseteq Checks /\ \A k \in Comparable(b, e) : e[k] # "null"
    BY <1>2 DEF Comparable
  <1>5. C \in Changes
    BY <1>2, <1>3, <1>4 DEF Changes
  <1> QED BY <1>1, <1>3, <1>4, <1>5

LEMMA RecordStep ==
  ASSUME IInv, Record
  PROVE  IInv'
  <1> DEFINE h == Head(todo)
  <1>1. /\ at = "record" /\ at' = "next" /\ todo # <<>> /\ todo' = Tail(todo)
        /\ baseline' = NextBaseline
        /\ DOMAIN rows' = DOMAIN rows \cup {h}
        /\ rows'[h] = Row /\ \A c \in DOMAIN rows : c # h => rows'[c] = rows[c]
        /\ UNCHANGED <<order, cache>>
    BY DEF IInv, TypeOK, Record
  <1>2. /\ export' = initial /\ findings' = {} /\ checked' = None /\ repairs' = 0
        /\ attempts' = 0 /\ status' = "complete" /\ failure' = FALSE /\ evaluation' = None
    BY DEF Record, Fresh
  <1>3. h \in Conditions /\ todo' \in Seq(Conditions)
    BY <1>1, SettingFacts DEF IInv
  <1>4. todo' # <<>> => Setting'.limit \in Nat
    BY <1>3, TailFacts, ComparisonAssumption DEF Setting
  <1> DEFINE C == ProvisionalChanges(NextBaseline, evaluation)
  <1>5. Row = [status |-> status, failure |-> failure, final |-> export, checked |-> checked,
               repairs |-> repairs, evaluation |-> evaluation, changes |-> C]
    BY DEF Row
  <1>6. C # None =>
          /\ evaluation # None /\ C \in Changes
          /\ NextBaseline = evaluation => C.resolved = {} /\ C.new = {}
          /\ \A k \in C.resolved \cup C.new : evaluation[k] # "null" /\ k \notin C.unmatched
    BY BaselineFacts, ChangesFacts DEF IInv, TypeOK
  <1> HIDE DEF C
  <1>7. Row \in Rows
    BY <1>5, <1>6 DEF IInv, TypeOK, Rows
  <1>8. TypeOK'
    <2>1. todo' # <<>> => repairs' <= Setting'.limit /\ attempts' \in repairs'..Setting'.limit
      BY <1>2, <1>4
    <2>2. DOMAIN rows' \subseteq Conditions /\ \A c \in DOMAIN rows' : rows'[c] \in Rows
      BY <1>1, <1>3, <1>7 DEF IInv, TypeOK
    <2>3. baseline' \in Evaluations \cup {None} /\ export' \in Sheets
      BY <1>1, <1>2, BaselineFacts, ComparisonAssumption
    <2> QED BY <1>1, <1>2, <1>3, <2>1, <2>2, <2>3 DEF IInv, TypeOK, Statuses
  <1>9. Pending' /\ Rounds' /\ RoundsOver' /\ Returned'
    BY <1>1, <1>2 DEF Pending, Rounds, RoundsOver, Returned
  <1>10. Cached'
    BY <1>1, <1>2, <1>5, BaselineFacts DEF IInv, Cached, FromCache
  <1>11. NothingIsLost'
    BY <1>1, TailFacts DEF IInv, TypeOK, NothingIsLost
  <1>12. UnchangedShowsNoChange'
    BY <1>1, <1>5, <1>6, BaselineFacts DEF IInv, UnchangedShowsNoChange
  <1>13. ChangesAreScored'
    BY <1>1, <1>5, <1>6 DEF IInv, ChangesAreScored
  <1>14. FinalIsChecked'
    BY <1>1, <1>5 DEF IInv, FinalIsChecked, RoundsOver, Setting
  <1> QED BY <1>8, <1>9, <1>10, <1>11, <1>12, <1>13, <1>14 DEF IInv

LEMMA ReviewStep ==
  ASSUME IInv, ReviewRejected
  PROVE  IInv'
  <1>1. /\ at = "record" /\ at' = "raised" /\ todo # <<>> /\ baseline' = NextBaseline
        /\ UNCHANGED <<order, todo, condition, cache, rows>>
    BY DEF IInv, TypeOK, ReviewRejected
  <1>2. Setting' = Setting
    BY <1>1 DEF Setting
  <1>3. TypeOK'
    BY <1>1, <1>2, BaselineFacts DEF IInv, TypeOK, condition
  <1>4. Pending' /\ Rounds' /\ RoundsOver' /\ Returned'
    BY <1>1, <1>2 DEF IInv, Pending, Rounds, RoundsOver, Returned, condition
  <1>5. Cached'
    BY <1>1, BaselineFacts DEF IInv, Cached, FromCache, condition
  <1>6. NothingIsLost'
    BY <1>1 DEF IInv, NothingIsLost
  <1>7. UnchangedShowsNoChange' /\ ChangesAreScored' /\ FinalIsChecked'
    BY <1>1 DEF IInv, UnchangedShowsNoChange, ChangesAreScored, FinalIsChecked
  <1> QED BY <1>3, <1>4, <1>5, <1>6, <1>7 DEF IInv

LEMMA EndStep ==
  ASSUME IInv, Return \/ UNCHANGED vars
  PROVE  IInv'
  <1>1. /\ UNCHANGED <<order, todo, condition, cache, baseline, rows>>
        /\ \/ at' = at
           \/ at' = "returned" /\ todo = <<>> /\ evaluation = None
    BY DEF IInv, Pending, Return, vars
  <1>2. Setting' = Setting
    BY <1>1 DEF Setting
  <1>3. TypeOK' /\ Pending' /\ Rounds' /\ RoundsOver' /\ Returned'
    BY <1>1, <1>2 DEF IInv, TypeOK, Pending, Rounds, RoundsOver, Returned, condition
  <1>4. Cached'
    BY <1>1 DEF IInv, Cached, FromCache, condition
  <1> QED BY <1>1, <1>3, <1>4, SameRows DEF IInv

LEMMA Inductive == IInv /\ [Next]_vars => IInv'
  <1> SUFFICES ASSUME IInv, [Next]_vars PROVE IInv'
    OBVIOUS
  <1>1. CASE \E J \in SUBSET Errors : Check(J)
    BY <1>1, CheckStep
  <1>2. CASE BeginCondition \/ JudgeInvalid \/ (\E s \in Sheets : Repair(s)) \/ Fails
               \/ RenderFails \/ Render
    BY <1>2, RoundStep
  <1>3. CASE EvaluatedBefore \/ (\E e \in Evaluations : Evaluate(e)) \/ EvaluationFails
    BY <1>3, EvaluationStep
  <1>4. CASE Record
    BY <1>4, RecordStep
  <1>5. CASE ReviewRejected
    BY <1>5, ReviewStep
  <1>6. CASE Return \/ Terminated \/ UNCHANGED vars
    BY <1>6, EndStep DEF Terminated
  <1> QED BY <1>1, <1>2, <1>3, <1>4, <1>5, <1>6 DEF Next, Step

-----------------------------------------------------------------------------
(* The theorems                                                            *)

\* The inductive invariant holds of every comparison.
THEOREM Invariance == Spec => []IInv
  BY InitIInv, Inductive, PTL DEF Spec

\* TypeOK: repairs stay within the limit of the condition, rows well typed.
THEOREM TypeCorrect == Spec => []TypeOK
  <1>1. IInv => TypeOK
    BY DEF IInv
  <1> QED BY <1>1, Invariance, PTL

\* EqualSheetsEqualVerdicts: compare_run tells conditions that end with the
\* same sheet the same of it.
THEOREM SheetsAreJudgedOnce == Spec => []EqualSheetsEqualVerdicts
  <1>1. IInv => EqualSheetsEqualVerdicts
    BY DEF IInv, Cached, FromCache, EqualSheetsEqualVerdicts
  <1> QED BY <1>1, Invariance, PTL

\* RowsAreComparable: the differences between the rows of comparison.json are
\* differences of their sheets, whatever fails and in whatever order.
THEOREM ComparisonIsFair == Spec => []RowsAreComparable
  <1>1. IInv => TypeOK /\ UnchangedShowsNoChange /\ ChangesAreScored /\ FinalIsChecked
    BY DEF IInv
  <1> QED BY <1>1, Invariance, SheetsAreJudgedOnce, PTL DEF RowsAreComparable

\* A comparison that returns has a row for each condition it was asked for:
\* none that failed on the way is missing from the table.
THEOREM ReturnedIsWhole ==
  Spec => [](at = "returned" => \A i \in DOMAIN order : order[i] \in DOMAIN rows)
  <1>1. IInv => (at = "returned" => \A i \in DOMAIN order : order[i] \in DOMAIN rows)
    BY DEF IInv, NothingIsLost, Returned, Range
  <1> QED BY <1>1, Invariance, PTL
=============================================================================
