------------------------ MODULE GenerationGraphProofs ------------------------
(***************************************************************************)
(* The invariants of GenerationGraph hold, and it implements               *)
(* RubricDelivery, for every set of answers of the model, every verdict of *)
(* the checks and of the judge, and every bound on repairs and attempts.   *)
(***************************************************************************)
EXTENDS GenerationHarness, TLAPS

\* What the end has to establish and the rest must leave alone.
Verdicts == PublishedIsVerified /\ RunExplainsItself /\ Delivered /\ GivenUp

LEMMA InitIInv == Init => IInv
<1> SUFFICES ASSUME Init PROVE IInv
  OBVIOUS
<1> USE DEF Init, Ends
<1>1. TypeOK
  <2>1. reports \in [0..MaxRepairs -> JudgeReports \cup {None}]
    OBVIOUS
  <2>2. attempt \in 0..(Attempts - 1) /\ repairs \in 0..MaxRepairs
    BY GraphAssumption
  <2>3. findings \in SUBSET Findings
    OBVIOUS
  <2>4. QED
    BY <2>1, <2>2, <2>3 DEF TypeOK
<1>2. Undrafted /\ Drafted /\ Undecided /\ Finalizing /\ EndedWithStatus
  BY DEF Undrafted, Drafted, Undecided, Finalizing, EndedWithStatus
<1>3. Rendering /\ Judging /\ Repairing /\ FindingsAreCurrent
  BY DEF Rendering, Judging, Repairing, FindingsAreCurrent
<1>4. PublishedIsVerified /\ RunExplainsItself
  BY DEF PublishedIsVerified, RunExplainsItself
<1>5. ErrorsAreSaid /\ Delivered /\ GivenUp
  BY DEF ErrorsAreSaid, Delivered, GivenUp
<1>6. QED
  BY <1>1, <1>2, <1>3, <1>4, <1>5 DEF IInv

\* Nothing is published, nor any status written, before the end.
LEMMA NothingToVerify ==
  ASSUME Undecided', node' \notin Ends
  PROVE  Verdicts'
BY DEF Undecided, Verdicts, PublishedIsVerified, RunExplainsItself, Delivered, GivenUp,
       Ends

LEMMA ExportType ==
  ASSUME TypeOK, selection # None, rubric # None
  PROVE  /\ Export \in Exports /\ Export # None
         /\ checks[Export] \in SUBSET Findings /\ mismatches[Export] \in SUBSET Findings
BY GraphAssumption, NoneIsNothing DEF TypeOK, Export, Exports

LEMMA EarlyStep ==
  ASSUME IInv,
         \/ Intake \/ Research \/ SelectNothing \/ AskAgain
         \/ \E s \in Selections : Select(s)
         \/ \E r \in Rubrics : Write(r)
  PROVE  IInv'
<1> USE GraphAssumption, NoneIsNothing
    DEF IInv, stateVars, endVars, fileVars, Ends
<1>1. /\ UNCHANGED <<options, repairs, markdown, reports, statusFile, exportFile,
                     findingsFile, published, error, evaluation>>
      /\ node \in {"intake", "research", "author", "rubric", "repair"}
      /\ node' \notin Ends
      /\ findings' = findings
  BY DEF Intake, Research, SelectNothing, AskAgain, Select, Write, Undrafted
<1>2. TypeOK'
  BY DEF Intake, Research, SelectNothing, AskAgain, Select, Write, TypeOK, Outcomes,
         Reasons, Undrafted
<1>3. Undrafted' /\ Drafted'
  BY DEF Intake, Research, SelectNothing, AskAgain, Select, Write, Undrafted, Drafted
<1>4. Undecided'
  BY <1>1 DEF Intake, Research, SelectNothing, AskAgain, Select, Write, Undecided
<1>5. Rendering' /\ Judging' /\ Repairing' /\ EndedWithStatus'
  BY <1>1 DEF Intake, Research, SelectNothing, AskAgain, Select, Write,
              Rendering, Judging, Repairing, EndedWithStatus
<1>6. node' = "finalize" => Stopped'
  BY DEF Intake, Research, SelectNothing, AskAgain, Select, Write, Undrafted, Stopped,
         Outcomes, Reasons
<1>7. FindingsAreCurrent'
  <2>1. CASE node = "repair"
    BY <1>1, <2>1 DEF Intake, Research, SelectNothing, AskAgain, Select, Write,
       FindingsAreCurrent, Export
  <2>2. CASE node # "repair"
    BY <1>1, <2>2 DEF FindingsAreCurrent, Undrafted
  <2>3. QED
    BY <2>1, <2>2
<1>8. ErrorsAreSaid'
  BY <1>6 DEF ErrorsAreSaid, Stopped
<1>9. QED
  BY <1>1, <1>2, <1>3, <1>4, <1>5, <1>6, <1>7, <1>8, NothingToVerify
  DEF Finalizing, Verdicts

\* Where a draft with these findings goes is where its findings allow it.
LEMMA RouteOfErrors ==
  ASSUME TypeOK, NEW F, HasErrors(F)
  PROVE  \/ RepairRoute(F) = "repair" /\ repairs < MaxRepairs
         \/ /\ RepairRoute(F) = "finalize"
            /\ \/ Repairable(F) = {}
               \/ Repairable(F) # {} /\ repairs = MaxRepairs
BY GraphAssumption DEF RepairRoute, BudgetLeft, TypeOK

LEMMA RouteWithoutErrors ==
  ASSUME NEW F, ~HasErrors(F)
  PROVE  RepairRoute(F) = "finalize"
BY DEF RepairRoute, Repairable, HasErrors

\* A node that leaves the files and the decision alone keeps them so.
LEMMA StillUndecided ==
  ASSUME Undecided, node \notin Ends \cup {"finalize"}, node' \notin Ends,
         UNCHANGED <<status, reason, statusFile, exportFile, findingsFile, published>>
  PROVE  Undecided'
BY DEF Undecided, Ends

LEMMA ValidateStep ==
  ASSUME IInv, Validate
  PROVE  IInv'
<1> USE GraphAssumption, NoneIsNothing DEF IInv, stateVars, endVars, fileVars
<1>1. /\ UNCHANGED <<options, attempt, documents, selection, rubric, repairs, markdown,
                     status, reason, reports, statusFile, exportFile, findingsFile,
                     published, error, evaluation>>
      /\ node = "validate" /\ phase' = "validate"
      /\ findings' = checks[Export] /\ node' = AfterValidate(findings')
  BY DEF Validate, CheckFindings
<1>2. Export' = Export
  BY <1>1 DEF Export
<1>3. selection # None /\ rubric # None /\ status = None /\ reason = None
  BY <1>1 DEF Drafted, Undecided, Ends
<1>4. findings' \in SUBSET Findings
  BY <1>1, <1>3, ExportType
<1>5. \/ node' = "render" /\ ~HasErrors(findings')
      \/ node' = "repair" /\ repairs < MaxRepairs
      \/ /\ node' = "finalize" /\ HasErrors(findings')
         /\ \/ Repairable(findings') = {}
            \/ Repairable(findings') # {} /\ repairs = MaxRepairs
  BY <1>1, RouteOfErrors DEF AfterValidate
<1>6. TypeOK'
  BY <1>1, <1>4, <1>5 DEF TypeOK, Ends
<1>7. Undrafted' /\ Drafted' /\ Undecided' /\ EndedWithStatus'
  BY <1>1, <1>3, <1>5, StillUndecided DEF Undrafted, Drafted, Ends, EndedWithStatus
<1>8. Rendering' /\ Judging' /\ Repairing'
  BY <1>1, <1>2, <1>5 DEF Rendering, Judging, Repairing
<1>9. Finalizing'
  BY <1>1, <1>3, <1>5 DEF Finalizing, Failing
<1>10. FindingsAreCurrent' /\ ErrorsAreSaid'
  BY <1>1, <1>2 DEF FindingsAreCurrent, ErrorsAreSaid, Said
<1>11. QED
  BY <1>5, <1>6, <1>7, <1>8, <1>9, <1>10, NothingToVerify DEF Verdicts, Ends

LEMMA RenderStep ==
  ASSUME IInv, Render
  PROVE  IInv'
<1> USE GraphAssumption, NoneIsNothing DEF IInv, stateVars, endVars, fileVars
<1>1. /\ UNCHANGED <<options, attempt, documents, selection, rubric, repairs,
                     status, reason, reports, statusFile, exportFile, findingsFile,
                     published, error, evaluation>>
      /\ node = "render" /\ phase' = "render" /\ markdown' = Export
      /\ findings' = checks[Export] \cup mismatches[Export]
      /\ ~HasErrors(checks[Export])
      /\ node' = IF HasErrors(findings') THEN "finalize" ELSE "judge"
  BY DEF Render, RenderFindings, Rendering
<1>2. Export' = Export
  BY <1>1 DEF Export
<1>3. selection # None /\ rubric # None /\ status = None /\ reason = None
  BY <1>1 DEF Drafted, Undecided, Ends
<1>4. Export \in Exports /\ findings' \in SUBSET Findings
  BY <1>1, <1>3, ExportType
<1>5. HasErrors(findings') => HasErrors(mismatches[Export])
  BY <1>1 DEF HasErrors
<1>6. TypeOK'
  BY <1>1, <1>4 DEF TypeOK, Ends
<1>7. Undrafted' /\ Drafted' /\ Undecided' /\ EndedWithStatus'
  BY <1>1, <1>3, StillUndecided DEF Undrafted, Drafted, Ends, EndedWithStatus
<1>8. Rendering' /\ Judging' /\ Repairing'
  BY <1>1, <1>2 DEF Rendering, Judging, Repairing
<1>9. Finalizing'
  BY <1>1, <1>2, <1>3, <1>5 DEF Finalizing, Failing
<1>10. FindingsAreCurrent' /\ ErrorsAreSaid'
  BY <1>1, <1>2 DEF FindingsAreCurrent, ErrorsAreSaid
<1>11. QED
  BY <1>1, <1>6, <1>7, <1>8, <1>9, <1>10, NothingToVerify DEF Verdicts, Ends

LEMMA JudgeStep ==
  ASSUME IInv, SkipJudge \/ \E R \in JudgeReports : Judge(R)
  PROVE  IInv'
<1> USE GraphAssumption, NoneIsNothing DEF IInv, stateVars, endVars, fileVars
<1> DEFINE report == reports'[repairs]
<1>1. /\ UNCHANGED <<options, attempt, documents, selection, rubric, repairs, markdown,
                     status, reason, statusFile, exportFile, findingsFile,
                     published, error, evaluation>>
      /\ node = "judge" /\ phase' = "judge"
      /\ node' = RepairRoute(findings')
  BY DEF SkipJudge, Judge
<1>2. Export' = Export
  BY <1>1 DEF Export
<1>3. /\ selection # None /\ rubric # None /\ status = None /\ reason = None
      /\ findings = checks[Export] \cup mismatches[Export]
      /\ markdown = Export
  BY <1>1 DEF Drafted, Undecided, Judging, Ends
<1>4. /\ findings \subseteq findings' /\ findings' \in SUBSET Findings
      /\ reports' \in [0..MaxRepairs -> JudgeReports \cup {None}]
      /\ options.judge => report # None /\ report \subseteq findings'
      /\ \A f \in findings' : f \in findings \/ (report # None /\ f \in report)
  <2>1. CASE SkipJudge
    BY <2>1 DEF SkipJudge, TypeOK
  <2>2. CASE \E R \in JudgeReports : Judge(R)
    <3>1. PICK R \in JudgeReports : Judge(R)
      BY <2>2
    <3>2. findings' = findings \cup R /\ reports' = [reports EXCEPT ![repairs] = R]
      BY <3>1 DEF Judge
    <3>3. repairs \in 0..MaxRepairs /\ report = R /\ R \in SUBSET Findings
      BY <3>2 DEF TypeOK
    <3>4. R # None
      BY <3>3
    <3>5. QED
      BY <3>2, <3>3, <3>4 DEF TypeOK
  <2>3. QED
    BY <2>1, <2>2
<1>5. \/ node' = "repair" /\ repairs < MaxRepairs
      \/ node' = "finalize" /\ ~HasErrors(findings')
      \/ /\ node' = "finalize" /\ HasErrors(findings')
         /\ \/ Repairable(findings') = {}
            \/ Repairable(findings') # {} /\ repairs = MaxRepairs
  BY <1>1, RouteOfErrors, RouteWithoutErrors
<1>6. TypeOK'
  BY <1>1, <1>4, <1>5 DEF TypeOK, Ends
<1>7. Undrafted' /\ Drafted' /\ Undecided' /\ EndedWithStatus'
  BY <1>1, <1>3, <1>5, StillUndecided DEF Undrafted, Drafted, Ends, EndedWithStatus
<1>8. Rendering' /\ Judging' /\ Repairing'
  BY <1>1, <1>5 DEF Rendering, Judging, Repairing
<1>9. Finalizing'
  <2>1. CASE HasErrors(findings')
    BY <1>1, <1>3, <1>5, <2>1 DEF Finalizing, Failing
  <2>2. CASE ~HasErrors(findings')
    BY <1>1, <1>2, <1>3, <1>4, <2>2 DEF Finalizing, Passing
  <2>3. QED
    BY <2>1, <2>2
<1>10. FindingsAreCurrent'
  BY <1>1, <1>2, <1>3, <1>4 DEF FindingsAreCurrent
<1>11. ErrorsAreSaid'
  <2>1. ASSUME NEW f \in findings', f.severity = "ERROR"
        PROVE  options.judge /\ report # None /\ f \in report
    <3>1. f \notin findings
      BY <1>1, <2>1 DEF Judging, HasErrors
    <3>2. findings' # findings => options.judge
      BY DEF SkipJudge, Judge
    <3>3. QED
      BY <1>4, <2>1, <3>1, <3>2
  <2>2. QED
    BY <1>1, <1>2, <2>1 DEF ErrorsAreSaid, Said
<1>12. QED
  BY <1>5, <1>6, <1>7, <1>8, <1>9, <1>10, <1>11, NothingToVerify DEF Verdicts, Ends

LEMMA RepairStep ==
  ASSUME IInv, NEW r \in Rubrics, Repair(r)
  PROVE  IInv'
<1> USE GraphAssumption, NoneIsNothing DEF IInv, stateVars, endVars, fileVars
<1>1. /\ UNCHANGED <<options, documents, selection, findings, markdown,
                     status, reason, reports, statusFile, exportFile, findingsFile,
                     published, error, evaluation>>
      /\ node = "repair" /\ node' = "validate" /\ phase' = "repair"
      /\ rubric' = r /\ attempt' = 0 /\ repairs' = repairs + 1
  BY DEF Repair, NextRepair
<1>2. TypeOK'
  BY <1>1 DEF TypeOK, Repairing
<1>3. Undrafted' /\ Drafted' /\ Undecided' /\ EndedWithStatus'
  BY <1>1, StillUndecided DEF Undrafted, Drafted, Ends, EndedWithStatus
<1>4. /\ Rendering' /\ Judging' /\ Repairing' /\ Finalizing' /\ FindingsAreCurrent'
      /\ ErrorsAreSaid'
  BY <1>1 DEF Rendering, Judging, Repairing, Finalizing, FindingsAreCurrent, ErrorsAreSaid
<1>5. QED
  BY <1>1, <1>2, <1>3, <1>4, NothingToVerify DEF Verdicts, Ends

-----------------------------------------------------------------------------
(* The end of the run                                                      *)

LEMMA FinalTyped ==
  ASSUME IInv, node = "finalize"
  PROVE  /\ StatusRecord \in StatusRecords /\ StatusRecord # None
         /\ FinalStatus \in Outcomes /\ FinalReason \in Reasons \cup {None}
<1> USE NoneIsNothing DEF IInv
<1>1. FinalStatus \in Outcomes
  BY DEF FinalStatus, TypeOK, Outcomes
<1>2. FinalReason \in Reasons \cup {None}
  BY DEF FinalReason, TypeOK, Reasons
<1>3. StatusRecord \in StatusRecords
  BY <1>1, <1>2 DEF StatusRecord, StatusRecords, TypeOK
<1>4. QED
  BY <1>1, <1>2, <1>3

\* However many of the files are written, what is written is true.
LEMMA WrittenIsTrue ==
  ASSUME IInv, node = "finalize", NEW k \in 0..4, Written(k),
         UNCHANGED <<options, selection, rubric, findings, repairs, markdown, reports>>,
         node' \in {"ended", "raised", "killed"}
  PROVE  /\ Verdicts'
         /\ statusFile' \in StatusRecords \cup {None}
         /\ exportFile' \in Exports \cup {None}
         /\ findingsFile' \in (SUBSET Findings) \cup {None}
         /\ published' \in Exports \cup {None}
<1> USE NoneIsNothing DEF IInv
<1>1. /\ statusFile = None /\ exportFile = None /\ findingsFile = None /\ published = None
      /\ Stopped \/ Failing \/ Passing
      /\ Export' = Export
  BY DEF Undecided, Finalizing, Ends, Export
<1>2. /\ findingsFile' = IF k >= 1 THEN findings ELSE None
      /\ statusFile' = IF k >= 2 THEN StatusRecord ELSE None
      /\ exportFile' = IF k >= 3 /\ rubric # None THEN Export ELSE None
      /\ published' = IF k >= 4 /\ FinalStatus = "complete" THEN markdown ELSE None
  BY <1>1 DEF Written
<1>3. findings \in SUBSET Findings /\ findings # None
  BY DEF TypeOK
<1>4. rubric # None => selection # None
  BY <1>1 DEF Stopped, Failing, Passing
<1>5. rubric # None => Export \in Exports /\ Export # None
  BY <1>4, ExportType
<1>6. /\ statusFile' \in StatusRecords \cup {None}
      /\ exportFile' \in Exports \cup {None}
      /\ findingsFile' \in (SUBSET Findings) \cup {None}
      /\ published' \in Exports \cup {None}
  BY <1>2, <1>3, <1>4, <1>5, FinalTyped DEF TypeOK
<1>7. StatusRecord.status = FinalStatus /\ StatusRecord.reason = FinalReason
      /\ StatusRecord.repairs = repairs
  BY DEF StatusRecord
<1>8. CASE Stopped
  <2>1. FinalStatus # "complete" /\ FinalReason \in {"no_documents", "too_few"}
    BY <1>8 DEF Stopped, FinalStatus, FinalReason, HasErrors, Outcomes
  <2>2. /\ published' = None
        /\ statusFile' # None => statusFile'.reason \in {"no_documents", "too_few"}
    BY <1>2, <1>7, <2>1
  <2>3. "no_documents" # None /\ "too_few" # None
    BY DEF Reasons
  <2>4. QED
    BY <1>6, <2>2, <2>3 DEF Verdicts, PublishedIsVerified, RunExplainsItself, Delivered,
                            GivenUp
<1>9. CASE Failing
  <2>1. /\ FinalStatus = "failed"
        /\ FinalReason # None \/ HasErrors(mismatches[Export])
           \/ (Repairable(findings) # {} /\ repairs = MaxRepairs)
    BY <1>9 DEF Failing, FinalStatus, FinalReason, Reasons
  <2>2. published' = None
    BY <1>2, <2>1
  <2>3. statusFile' # None => statusFile' = StatusRecord /\ findingsFile' = findings
    BY <1>2
  <2>4. RunExplainsItself'
    BY <1>1, <1>7, <2>1, <2>3 DEF RunExplainsItself
  <2>5. ASSUME statusFile' # None, statusFile'.reason = "selection_errors"
        PROVE  \E f \in Said : /\ f.severity = "ERROR" /\ f.root = "selection"
                              /\ f.code # "NFR_NOT_COVERED"
    <3>1. FinalReason = "selection_errors" /\ "selection_errors" # None
      BY <1>7, <2>3, <2>5 DEF Reasons
    <3>2. phase # "render" /\ Repairable(findings) = {}
      BY <1>9, <3>1 DEF FinalReason, Failing
    <3>3. PICK f \in findings : f.severity = "ERROR"
      BY <1>9 DEF Failing, HasErrors
    <3>4. f.root = "selection" /\ f.code # "NFR_NOT_COVERED"
      BY <3>2, <3>3, <1>3 DEF Repairable
    <3>5. f \in Said
      BY <1>9, <3>2, <3>3 DEF ErrorsAreSaid, Failing
    <3>6. QED
      BY <3>3, <3>4, <3>5
  <2>6. Said' = Said
    BY <1>1 DEF Said
  <2>7. GivenUp'
    BY <1>9, <2>5, <2>6 DEF GivenUp, Failing
  <2>8. QED
    BY <1>6, <2>2, <2>4, <2>7 DEF Verdicts, PublishedIsVerified, Delivered
<1>10. CASE Passing
  <2>1. FinalStatus = "complete" /\ rubric # None /\ markdown = Export
        /\ ~HasErrors(findings)
    BY <1>10 DEF Passing, FinalStatus
  <2>2. RunExplainsItself'
    BY <1>2, <1>7, <2>1 DEF RunExplainsItself
  <2>3. ASSUME published' # None
        PROVE  PublishedIsVerified'
    <3>1. k >= 4
      BY <1>2, <2>3
    <3>2. /\ statusFile' = StatusRecord /\ exportFile' = Export
          /\ findingsFile' = findings /\ published' = Export
      BY <1>2, <2>1, <3>1
    <3>3. options.judge => reports[repairs] # None /\ ~HasErrors(reports[repairs])
      BY <1>10 DEF Passing, HasErrors
    <3>4. QED
      BY <1>1, <1>3, <1>7, <2>1, <3>2, <3>3, FinalTyped DEF PublishedIsVerified
  <2>4. PublishedIsVerified'
    BY <2>3 DEF PublishedIsVerified
  <2>5. Export \in Acceptable
    BY <1>5, <1>10 DEF Passing, Acceptable, HasErrors
  <2>6. Delivered'
    BY <1>2, <2>1, <2>5 DEF Delivered, Acceptable
  <2>7. FinalReason = None /\ "selection_errors" # None
    BY <1>10 DEF Passing, FinalReason, Reasons
  <2>8. GivenUp'
    BY <1>2, <1>7, <2>7 DEF GivenUp
  <2>9. QED
    BY <1>6, <2>2, <2>4, <2>6, <2>8 DEF Verdicts
<1>11. QED
  BY <1>1, <1>8, <1>9, <1>10

\* Past the last node the rest of the invariant asks little.
LEMMA EndsAreQuiet ==
  ASSUME node' \in Ends
  PROVE  /\ Undrafted' /\ Drafted' /\ Undecided' /\ Rendering' /\ Judging'
         /\ Repairing' /\ Finalizing' /\ FindingsAreCurrent' /\ ErrorsAreSaid'
BY DEF Ends, Undrafted, Drafted, Undecided, Rendering, Judging, Repairing, Finalizing,
       FindingsAreCurrent, ErrorsAreSaid

LEMMA FinalizeStep ==
  ASSUME IInv, Finalize
  PROVE  IInv'
<1> USE NoneIsNothing DEF IInv, stateVars
<1>1. /\ UNCHANGED <<options, attempt, documents, selection, rubric, findings, repairs,
                     markdown, reports, error, evaluation>>
      /\ node = "finalize" /\ node' = "ended" /\ phase' = "finalize"
      /\ Written(4) /\ status' = FinalStatus /\ reason' = FinalReason
  BY DEF Finalize
<1>2. /\ Verdicts'
      /\ statusFile' \in StatusRecords \cup {None}
      /\ exportFile' \in Exports \cup {None}
      /\ findingsFile' \in (SUBSET Findings) \cup {None}
      /\ published' \in Exports \cup {None}
  BY <1>1, WrittenIsTrue
<1>3. TypeOK'
  BY <1>1, <1>2, FinalTyped DEF TypeOK, Ends
<1>4. EndedWithStatus'
  BY <1>1, FinalTyped DEF Written, EndedWithStatus
<1>5. QED
  BY <1>1, <1>2, <1>3, <1>4, EndsAreQuiet DEF Verdicts, Ends

LEMMA BreakStep ==
  ASSUME IInv, Break
  PROVE  IInv'
<1> USE NoneIsNothing DEF IInv, stateVars, endVars
<1>1. /\ UNCHANGED <<options, attempt, documents, selection, rubric, findings, repairs,
                     markdown, phase, status, reason, reports, error, evaluation>>
      /\ node \notin Ends /\ node' \in {"raised", "killed"}
  BY DEF Break
<1>2. /\ Verdicts'
      /\ statusFile' \in StatusRecords \cup {None}
      /\ exportFile' \in Exports \cup {None}
      /\ findingsFile' \in (SUBSET Findings) \cup {None}
      /\ published' \in Exports \cup {None}
  <2>1. CASE node = "finalize"
    <3>1. PICK k \in 0..4 : Written(k)
      BY <2>1 DEF Break
    <3>2. QED
      BY <1>1, <2>1, <3>1, WrittenIsTrue
  <2>2. CASE node # "finalize"
    <3>1. UNCHANGED <<findingsFile, statusFile, exportFile, published>>
      BY <2>2 DEF Break
    <3>2. statusFile = None /\ published = None
      BY <1>1 DEF Undecided
    <3>3. QED
      BY <1>1, <3>1, <3>2 DEF TypeOK, Verdicts, PublishedIsVerified, RunExplainsItself,
                               Delivered, GivenUp
  <2>3. QED
    BY <2>1, <2>2
<1>3. TypeOK'
  BY <1>1, <1>2 DEF TypeOK, Ends
<1>4. QED
  BY <1>1, <1>2, <1>3, EndsAreQuiet DEF Verdicts, Ends, EndedWithStatus

LEMMA AfterStep ==
  ASSUME IInv, RecordError \/ Return \/ Kill
  PROVE  IInv'
<1> USE DEF IInv, stateVars, endVars, fileVars
<1>1. /\ UNCHANGED <<options, attempt, documents, selection, rubric, findings, repairs,
                     markdown, phase, status, reason, reports, statusFile, exportFile,
                     findingsFile, published>>
      /\ node' \in {"done", "killed"}
      /\ error' \in BOOLEAN /\ evaluation' \in BOOLEAN
  BY DEF RecordError, Return, Kill, TypeOK
<1>2. node' = "done" => statusFile # None \/ error'
  BY DEF RecordError, Return, Kill, EndedWithStatus
<1>3. Export' = Export /\ Said' = Said /\ Acceptable' = Acceptable
  BY <1>1 DEF Export, Said, Acceptable
<1>4. PublishedIsVerified' /\ Delivered' /\ GivenUp'
  BY <1>1, <1>3 DEF PublishedIsVerified, Delivered, GivenUp
<1>5. RunExplainsItself'
  BY <1>1, <1>2, <1>3 DEF RunExplainsItself
<1>6. TypeOK'
  BY <1>1 DEF TypeOK, Ends
<1>7. QED
  BY <1>1, <1>4, <1>5, <1>6, EndsAreQuiet DEF Ends, EndedWithStatus

LEMMA StutterStep ==
  ASSUME IInv, UNCHANGED vars
  PROVE  IInv'
<1>1. /\ UNCHANGED <<options, node, attempt, documents, selection, rubric, findings,
                     repairs, markdown, phase, status, reason, reports, statusFile,
                     exportFile, findingsFile, published, error, evaluation>>
  BY DEF vars, stateVars, endVars, fileVars
<1>2. Export' = Export /\ Said' = Said /\ Acceptable' = Acceptable
  BY <1>1 DEF Export, Said, Acceptable
<1>3. TypeOK' /\ Undrafted' /\ Drafted' /\ Undecided' /\ Repairing' /\ EndedWithStatus'
  BY <1>1 DEF IInv, TypeOK, Undrafted, Drafted, Undecided, Repairing, EndedWithStatus
<1>4. Rendering' /\ Judging' /\ Finalizing'
  BY <1>1, <1>2 DEF IInv, Rendering, Judging, Finalizing, Stopped, Failing, Passing
<1>5. PublishedIsVerified' /\ FindingsAreCurrent' /\ RunExplainsItself'
  BY <1>1, <1>2 DEF IInv, PublishedIsVerified, FindingsAreCurrent, RunExplainsItself
<1>6. ErrorsAreSaid' /\ Delivered' /\ GivenUp'
  BY <1>1, <1>2 DEF IInv, ErrorsAreSaid, Delivered, GivenUp
<1>7. QED
  BY <1>3, <1>4, <1>5, <1>6 DEF IInv

LEMMA Inductive == Spec => []IInv
<1>1. ASSUME IInv, [Next]_vars
      PROVE  IInv'
  <2>1. CASE Intake \/ Research \/ SelectNothing \/ AskAgain
    BY <1>1, <2>1, EarlyStep
  <2>2. CASE \E s \in Selections : Select(s)
    BY <1>1, <2>2, EarlyStep
  <2>3. CASE \E r \in Rubrics : Write(r) \/ Repair(r)
    BY <1>1, <2>3, EarlyStep, RepairStep
  <2>4. CASE Validate \/ Render \/ SkipJudge \/ \E R \in JudgeReports : Judge(R)
    BY <1>1, <2>4, ValidateStep, RenderStep, JudgeStep
  <2>5. CASE Finalize \/ Break \/ RecordError \/ Return \/ Kill
    BY <1>1, <2>5, FinalizeStep, BreakStep, AfterStep
  <2>6. CASE Terminated \/ UNCHANGED vars
    BY <1>1, <2>6, StutterStep DEF Terminated
  <2>7. QED
    BY <1>1, <2>1, <2>2, <2>3, <2>4, <2>5, <2>6 DEF Next
<1>2. QED
  BY InitIInv, <1>1, PTL DEF Spec

\* The fields of GenerationState and the files keep the types of the code, the
\* count of repairs and of attempts within its bounds.
THEOREM TypeCorrect == Spec => []TypeOK
BY Inductive, PTL DEF IInv

\* Whenever nfr_rubric.md exists, even after a crash, the record beside it
\* vouches for that very export.
THEOREM RubricIsVouchedFor == Spec => []PublishedIsVerified
BY Inductive, PTL DEF IInv

\* No finding of a replaced draft reaches a repair or the end of the run.
THEOREM NoStaleFindings == Spec => []FindingsAreCurrent
BY Inductive, PTL DEF IInv

\* render_rubric is never given an export it raises on, as long as it raises
\* only on exports the harness reports an error of (GraphAssumption).
THEOREM RenderingIsSafe == Spec => []OnlyValidIsRendered
<1>1. IInv => OnlyValidIsRendered
  <2> SUFFICES ASSUME IInv, node = "render" PROVE Export \in Renderable
    BY DEF OnlyValidIsRendered
  <2>1. selection # None /\ rubric # None
    BY DEF IInv, Drafted
  <2>2. Export \in Exports
    BY <2>1, ExportType DEF IInv
  <2>3. QED
    BY <2>2, GraphAssumption DEF IInv, Rendering
<1>2. QED
  BY Inductive, <1>1, PTL

\* A run that delivers nothing says why.
THEOREM FailuresAreExplained == Spec => []RunExplainsItself
BY Inductive, PTL DEF IInv

-----------------------------------------------------------------------------
(* The run implements RubricDelivery                                       *)

LEMMA InitRefines == Init => Delivery!Init
BY DEF Init, Delivery!Init, Draft, Drafts, Outcome, Ends

\* What the outcome is while no node has ended the run.
LEMMA OutcomeIsOpen ==
  ASSUME IInv, node \notin Ends
  PROVE  Outcome = "open" /\ published = None
BY DEF IInv, Undecided, Outcome

LEMMA DraftRefines ==
  ASSUME IInv, NEW r \in Rubrics, Write(r) \/ Repair(r)
  PROVE  Delivery!Next
<1> USE GraphAssumption, NoneIsNothing DEF IInv
<1>1. /\ rubric' = r /\ UNCHANGED <<selection, published>>
      /\ node \in {"rubric", "repair"} /\ node' = "validate"
  BY DEF Write, Repair, fileVars
<1>2. Outcome = "open" /\ Outcome' = Outcome
  BY <1>1, OutcomeIsOpen DEF Outcome, Ends
<1>3. selection \in Selections /\ (rubric # None => rubric \in Rubrics)
  BY <1>1 DEF TypeOK, Undrafted, Drafted
<1>4. Draft' = <<selection, r>> /\ (Draft # None => Draft = <<selection, rubric>>)
  BY <1>1, <1>3 DEF Draft, Export
<1>5. Draft' \in Selections \X Rubrics /\ (Draft # None => Draft'[1] = Draft[1])
  BY <1>3, <1>4
<1>6. Drafts < MaxRepairs + 1 /\ Drafts' = Drafts + 1
  BY <1>1 DEF Write, Repair, NextRepair, Drafts, Undrafted, Drafted, Repairing, TypeOK
<1>7. QED
  BY <1>2, <1>5, <1>6 DEF Delivery!Next, Delivery!Draft

\* A step of a node that neither drafts nor ends the run.
LEMMA NodeRefines ==
  ASSUME IInv, UNCHANGED <<selection, rubric, repairs, published>>,
         node \notin Ends, node' \notin Ends
  PROVE  UNCHANGED Delivery!vars
BY OutcomeIsOpen DEF Delivery!vars, Draft, Drafts, Export, Outcome, IInv

LEMMA SelectRefines ==
  ASSUME IInv, NEW s \in Selections, Select(s)
  PROVE  UNCHANGED Delivery!vars
<1>1. /\ rubric = None /\ UNCHANGED <<rubric, repairs, published>>
      /\ node \notin Ends /\ node' \notin Ends
  BY DEF Select, IInv, Undrafted, Ends, fileVars
<1>2. QED
  BY <1>1 DEF Delivery!vars, Draft, Drafts, Outcome

LEMMA EndRefines ==
  ASSUME IInv, Finalize \/ Break
  PROVE  Delivery!Next
<1> USE NoneIsNothing DEF IInv
<1>1. /\ UNCHANGED <<selection, rubric, findings, repairs, markdown, options, reports>>
      /\ node \notin Ends /\ node' \in {"ended", "raised", "killed"}
  BY DEF Finalize, Break, stateVars, Ends
<1>2. UNCHANGED <<Draft, Drafts>> /\ Outcome = "open"
  BY <1>1, OutcomeIsOpen DEF Draft, Drafts, Export
<1>3. CASE published' = None
  <2>1. Outcome' = "closed"
    BY <1>1, <1>3 DEF Outcome, Ends
  <2>2. QED
    BY <1>2, <2>1 DEF Delivery!Next, Delivery!Close
<1>4. CASE published' # None
  <2>1. PICK k \in 0..4 : node = "finalize" /\ Written(k)
    BY <1>1, <1>4, OutcomeIsOpen DEF Finalize, Break
  <2>2. FinalStatus = "complete"
    BY <1>4, <2>1, OutcomeIsOpen, <1>1 DEF Written
  <2>3. Passing
    BY <2>1, <2>2 DEF Finalizing, Stopped, Failing, FinalStatus
  <2>4. /\ Export \in Exports /\ Draft = Export
        /\ ~HasErrors(checks[Export]) /\ ~HasErrors(mismatches[Export])
    BY <2>3, ExportType DEF Passing, HasErrors, Draft
  <2>5. Draft \in Acceptable /\ Outcome' = "delivered"
    BY <1>4, <2>4 DEF Acceptable, Outcome
  <2>6. QED
    BY <1>2, <2>5 DEF Delivery!Next, Delivery!Deliver
<1>5. QED
  BY <1>3, <1>4

\* Repairs, retries, exceptions and crashes included, a run delivers only its
\* last draft, an acceptable one, and drafts for one selection only.
THEOREM Refinement == Spec => ImplementsDelivery
<1>1. ASSUME IInv, [Next]_vars
      PROVE  [Delivery!Next]_(Delivery!vars)
  <2>1. CASE Intake \/ Research \/ SelectNothing \/ AskAgain
    <3>1. /\ UNCHANGED <<selection, rubric, repairs, published>>
          /\ node \notin Ends /\ node' \notin Ends
      BY <1>1, <2>1 DEF Intake, Research, SelectNothing, AskAgain, stateVars, fileVars,
                        Ends, IInv, Undrafted
    <3>2. QED
      BY <1>1, <3>1, NodeRefines
  <2>2. CASE \E s \in Selections : Select(s)
    BY <1>1, <2>2, SelectRefines
  <2>3. CASE \E r \in Rubrics : Write(r) \/ Repair(r)
    BY <1>1, <2>3, DraftRefines
  <2>4. CASE Validate \/ Render \/ SkipJudge \/ \E R \in JudgeReports : Judge(R)
    <3>1. /\ UNCHANGED <<selection, rubric, repairs, published>>
          /\ node \notin Ends /\ node' \notin Ends
      BY <2>4 DEF Validate, Render, SkipJudge, Judge, AfterValidate, RepairRoute,
                  stateVars, fileVars, Ends
    <3>2. QED
      BY <1>1, <3>1, NodeRefines
  <2>5. CASE Finalize \/ Break
    BY <1>1, <2>5, EndRefines
  <2>6. CASE RecordError \/ Return \/ Kill \/ Terminated \/ UNCHANGED vars
    <3>1. UNCHANGED <<selection, rubric, repairs, published>>
          /\ (node' = node \/ (node \in Ends /\ node' \in Ends))
      BY <2>6 DEF RecordError, Return, Kill, Terminated, vars, stateVars, fileVars, Ends
    <3>2. QED
      BY <3>1 DEF Delivery!vars, Draft, Drafts, Export, Outcome
  <2>7. QED
    BY <1>1, <2>1, <2>2, <2>3, <2>4, <2>5, <2>6 DEF Next
<1>2. QED
  BY InitRefines, Inductive, <1>1, PTL DEF Spec, Delivery!Spec, ImplementsDelivery

-----------------------------------------------------------------------------
(* The graph with the checks of the harness in it                          *)

\* What is proved of the checks, for the constants of the graph, which has no
\* use for the text that is written beside them.
Checked == INSTANCE ScoringSheetProofs WITH part <- "checks", text <- <<>>, MaxLength <- 0

\* They are proved of the very operators GenerationHarness uses.
LEMMA SameChecks ==
  ASSUME NEW s, NEW r
  PROVE  Checked!Findings(s, r) = Harness!Findings(s, r)
<1> USE DEF Checked!Errors, Harness!Errors, Checked!Error, Harness!Error
<1>1. Checked!TotalWeight(r) = Harness!TotalWeight(r)
  BY DEF Checked!TotalWeight, Harness!TotalWeight, Checked!FoldFunction,
         Harness!FoldFunction, Checked!FoldFunctionOnSet, Harness!FoldFunctionOnSet,
         Checked!MapThenFoldSet, Harness!MapThenFoldSet
<1>2. Checked!check_weight_sum(r) = Harness!check_weight_sum(r)
  BY <1>1 DEF Checked!check_weight_sum, Harness!check_weight_sum
<1>3. Checked!check_criteria_count(r) = Harness!check_criteria_count(r)
  BY DEF Checked!check_criteria_count, Harness!check_criteria_count
<1>4. Checked!check_levels(r) = Harness!check_levels(r)
  BY DEF Checked!check_levels, Harness!check_levels, Checked!ScoredAs, Harness!ScoredAs,
         Checked!RepeatsText, Harness!RepeatsText
<1>5. /\ Checked!check_targets(s) = Harness!check_targets(s)
      /\ Checked!_duplicated_ids(s, r) = Harness!_duplicated_ids(s, r)
  BY DEF Checked!check_targets, Harness!check_targets, Checked!_duplicated_ids,
         Harness!_duplicated_ids, Checked!Repeated, Harness!Repeated
<1>6. /\ Checked!_criterion_links(s, r) = Harness!_criterion_links(s, r)
      /\ Checked!_tradeoff_links(s) = Harness!_tradeoff_links(s)
  BY DEF Checked!_criterion_links, Harness!_criterion_links, Checked!_tradeoff_links,
         Harness!_tradeoff_links, Checked!IdsOf, Harness!IdsOf
<1>7. /\ Checked!_coverage(s, r) = Harness!_coverage(s, r)
      /\ Checked!_evidence(s) = Harness!_evidence(s)
  BY DEF Checked!_coverage, Harness!_coverage, Checked!_evidence, Harness!_evidence,
         Checked!EvidenceErrors, Harness!EvidenceErrors
<1>8. QED
  BY <1>2, <1>3, <1>4, <1>5, <1>6, <1>7, Zenon DEF Checked!Findings, Harness!Findings

LEMMA SameSheet ==
  ASSUME NEW s, NEW r
  PROVE  /\ Checked!Renders(s, r) = Harness!Renders(s, r)
         /\ Checked!Whole(s, r) = Harness!Whole(s, r)
         /\ Checked!TotalWeight(r) = Harness!TotalWeight(r)
<1>1. Checked!Renders(s, r) = Harness!Renders(s, r)
  BY DEF Checked!Renders, Harness!Renders, Checked!IdsOf, Harness!IdsOf
<1>2. Checked!Whole(s, r) = Harness!Whole(s, r)
  BY <1>1 DEF Checked!Whole, Harness!Whole, Checked!Section, Harness!Section,
              Checked!ScoredAs, Harness!ScoredAs
<1>3. Checked!TotalWeight(r) = Harness!TotalWeight(r)
  BY DEF Checked!TotalWeight, Harness!TotalWeight, Checked!FoldFunction,
         Harness!FoldFunction, Checked!FoldFunctionOnSet, Harness!FoldFunctionOnSet,
         Checked!MapThenFoldSet, Harness!MapThenFoldSet
<1>4. QED
  BY <1>1, <1>2, <1>3

LEMMA SameAssumption == Checked!ChecksAssumption /\ Checked!TextAssumption
BY HarnessAssumption
DEF Checked!TextAssumption, Checked!ChecksAssumption, Harness!ChecksAssumption, Checked!NFRs, Harness!NFRs,
    Checked!Tradeoffs, Harness!Tradeoffs, Checked!Criteria, Harness!Criteria,
    Checked!Levels, Harness!Levels

\* Whatever the harness finds is told as an error.
LEMMA ToldAsErrors ==
  ASSUME NEW F, F # {}
  PROVE  HasErrors(Told(F))
<1> DEFINE told(f) == [severity |-> "ERROR",
                       root |-> IF f.root = "rubric" THEN "rubric" ELSE "selection",
                       code |-> IF f.code = "NFR_NOT_COVERED" THEN f.code ELSE "other"]
<1>1. PICK f : f \in F
  OBVIOUS
<1>2. told(f).severity = "ERROR"
  OBVIOUS
<1> HIDE DEF told
<1>3. Told(F) = {told(g) : g \in F}
  BY Zenon DEF Told, told
<1>4. told(f) \in Told(F)
  BY <1>1, <1>3
<1>5. QED
  BY <1>2, <1>4 DEF HasErrors

\* An export the validate node finds no error in draws no finding at all.
LEMMA PassedHarness ==
  ASSUME NEW s \in Selections, NEW r \in Rubrics, ~HasErrors(checks[<<s, r>>])
  PROVE  /\ Harness!Whole(s, r) /\ Harness!Renders(s, r)
         /\ Harness!TotalWeight(r) = WeightTotal
<1>1. checks[<<s, r>>] = Told(Harness!Findings(s, r))
  BY HarnessAssumption DEF Exports
<1>2. Harness!Findings(s, r) = {}
  BY <1>1, ToldAsErrors
<1>3. Checked!Findings(s, r) = {}
  BY <1>2, SameChecks
<1>4. Checked!Whole(s, r)
  BY <1>3, SameAssumption, Checked!PassedSheet
<1>5. Checked!TotalWeight(r) = WeightTotal
  BY <1>3, SameAssumption, Checked!PassedMarks
<1>6. Checked!Renders(s, r)
  BY <1>4 DEF Checked!Whole
<1>7. QED
  BY <1>4, <1>5, <1>6, SameSheet

\* What GraphAssumption asks of render_rubric the harness grants: an export it
\* finds no error in is one the renderer does not raise on.
THEOREM PassedIsRenderable == \A e \in Exports : ~HasErrors(checks[e]) => e \in Renderable
<1> SUFFICES ASSUME NEW e \in Exports, ~HasErrors(checks[e])
             PROVE  e \in Renderable
  OBVIOUS
<1>1. PICK s \in Selections, r \in Rubrics : e = <<s, r>>
  BY DEF Exports
<1>2. Harness!Renders(s, r)
  BY <1>1, PassedHarness
<1>3. QED
  BY <1>1, <1>2, HarnessAssumption

\* However the run went, and wherever it was cut off, the sheet in
\* nfr_rubric.md is whole and its marks add up to WEIGHT_TOTAL.
THEOREM DeliveredIsWhole == Spec => []DeliveredSheetIsWhole
<1>1. IInv => DeliveredSheetIsWhole
  <2> SUFFICES ASSUME IInv, published # None
               PROVE  /\ Harness!Whole(published[1], published[2])
                      /\ Harness!TotalWeight(published[2]) = WeightTotal
    BY DEF DeliveredSheetIsWhole
  <2>1. published \in Exports /\ ~HasErrors(checks[published])
    BY DEF IInv, Delivered, Acceptable
  <2>2. PICK s \in Selections, r \in Rubrics : published = <<s, r>>
    BY <2>1 DEF Exports
  <2>3. QED
    BY <2>1, <2>2, PassedHarness
<1>2. QED
  BY Inductive, <1>1, PTL

\* An error of the harness that the author is not told of is one of every rubric.
LEMMA SelectionErrorStays ==
  ASSUME NEW s \in Selections, NEW q \in Rubrics, NEW r \in Rubrics,
         NEW f \in checks[<<s, q>>], f.root = "selection", f.code # "NFR_NOT_COVERED"
  PROVE  HasErrors(checks[<<s, r>>])
<1>1. /\ checks[<<s, q>>] = Told(Harness!Findings(s, q))
      /\ checks[<<s, r>>] = Told(Harness!Findings(s, r))
  BY HarnessAssumption DEF Exports
<1>2. PICK g \in Harness!Findings(s, q) : g.root # "rubric" /\ g.code # "NFR_NOT_COVERED"
  BY <1>1 DEF Told
<1>3. g \in Checked!Unrepairable(s, q)
  BY <1>2, SameChecks DEF Checked!Unrepairable, Checked!rubric_repair_findings
<1>4. g \in Checked!Unrepairable(s, r)
  BY <1>3, SameAssumption, Checked!UnrepairableIsOfSelection
<1>5. g \in Harness!Findings(s, r)
  BY <1>4, SameChecks DEF Checked!Unrepairable
<1>6. QED
  BY <1>1, <1>5, ToldAsErrors

\* No rubric would have saved a run that ends for errors of its selection.
THEOREM OnlyTheHopelessIsGivenUp == Spec => []GivesUpOnTheHopeless
<1>1. IInv => GivesUpOnTheHopeless
  <2> SUFFICES ASSUME IInv, statusFile # None, statusFile.reason = "selection_errors",
                      ~(options.judge /\ reports[repairs] # None
                          /\ \E f \in reports[repairs] : f.root = "selection"),
                      NEW r \in Rubrics
               PROVE  HasErrors(checks[<<selection, r>>])
    BY DEF GivesUpOnTheHopeless
  <2>1. /\ selection # None /\ rubric # None
        /\ \E f \in Said : f.root = "selection" /\ f.code # "NFR_NOT_COVERED"
    BY DEF IInv, GivenUp
  <2>2. \E f \in checks[Export] : f.root = "selection" /\ f.code # "NFR_NOT_COVERED"
    BY <2>1 DEF Said
  <2>3. selection \in Selections /\ rubric \in Rubrics
    BY <2>1 DEF IInv, TypeOK
  <2>4. QED
    BY <2>2, <2>3, SelectionErrorStays DEF Export
<1>2. QED
  BY Inductive, <1>1, PTL
=============================================================================
