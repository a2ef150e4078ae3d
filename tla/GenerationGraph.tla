--------------------------- MODULE GenerationGraph ---------------------------
(***************************************************************************)
(* One generation run: the nodes and edges of core/graph.py, the calls of  *)
(* the model they make through export/agent.py and judge/judge.py, the     *)
(* files of the run directory, and run_generation around them.             *)
(*                                                                         *)
(* A call of the model is a step of its own, since the run can be          *)
(* interrupted while it is out; the rest of a node is one step with it.    *)
(* The author node is two steps, "author" and "rubric", one for each thing *)
(* it asks the model for.  What the deterministic checks say of an export  *)
(* is a constant of the run: an export is its selection and its rubric.    *)
(***************************************************************************)
EXTENDS Naturals

CONSTANTS
  Selections,   \* selections of NFRs the model may answer with
  TooFew,       \* those with fewer than two NFRs
  Rubrics,      \* rubrics the model may answer with
  checks,       \* findings of the harness, by export
  Renderable,   \* exports render_rubric does not raise on
  mismatches,   \* findings of check_rendered, by export
  JudgeReports, \* what judge_export may return
  MaxRepairs,   \* the bound of repair_route
  Attempts,     \* the bound of _generate
  None

(***************************************************************************)
(* Of a finding's path only the root matters: "selection" stands for the   *)
(* parts of the export that the rubric's author cannot change.             *)
(***************************************************************************)
Findings == [severity : {"ERROR", "WARN"}, root : {"selection", "rubric"},
             code : {"NFR_NOT_COVERED", "other"}]

HasErrors(F) == \E f \in F : f.severity = "ERROR"

\* Mutant: no error of the selection is repairable, not even a missing criterion.
Repairable_RubricOnly(F) ==
  {f \in F : f.severity = "ERROR" /\ f.root # "selection"}

\* rubric_repair_findings
Repairable(F) ==
  {f \in F : f.severity = "ERROR"
             /\ (f.root # "selection" \/ f.code = "NFR_NOT_COVERED")}

Exports == Selections \X Rubrics

ASSUME GraphAssumption ==
  /\ TooFew \subseteq Selections
  /\ checks \in [Exports -> SUBSET Findings]
  /\ mismatches \in [Exports -> SUBSET Findings]
  /\ \A e \in Exports : ~HasErrors(checks[e]) => e \in Renderable
  /\ JudgeReports \subseteq SUBSET Findings
  /\ MaxRepairs \in Nat /\ Attempts \in Nat \ {0}

VARIABLES
  options,    \* judge_enabled and fake
  node,       \* the node to run, or how the run has ended
  attempt,    \* answers of the model sent back for their language
  documents,  \* the research kept some document
  selection, rubric, findings, repairs, markdown, phase, status, reason,
              \* the fields of GenerationState; markdown is the export rendered
  reports,    \* judge-findings-<n>.json
  statusFile, exportFile, findingsFile, published, error,
              \* status.json, nfr_export.json, findings.json, nfr_rubric.md and
              \* error.json of the run directory
  evaluation  \* a process evaluating the rubric was started

stateVars == <<documents, selection, rubric, findings, repairs, markdown>>
endVars   == <<status, reason>>
fileVars  == <<statusFile, exportFile, findingsFile, published, error>>
vars == <<options, node, attempt, stateVars, phase, endVars, reports, fileVars,
          evaluation>>

Export == <<selection, rubric>>

Outcomes == {"complete", "failed", "candidate_not_found", "insufficient_evidence"}

Reasons == {"no_documents", "too_few", "selection_errors"}

StatusRecords == [status : Outcomes, reason : Reasons \cup {None},
                  repairs : 0..MaxRepairs]

ASSUME NoneIsNothing ==
  /\ None \notin Selections /\ None \notin Rubrics
  /\ None \notin Outcomes \cup Reasons
  /\ \A e \in Exports : e # None
  /\ \A F \in SUBSET Findings : F # None
  /\ \A r \in StatusRecords : r # None

Ends == {"ended", "raised", "done", "killed"}

TypeOK ==
  /\ options \in [judge : BOOLEAN, fake : BOOLEAN]
  /\ node \in {"intake", "research", "author", "rubric", "validate", "render",
               "judge", "repair", "finalize"} \cup Ends
  /\ attempt \in 0..(Attempts - 1)
  /\ documents \in BOOLEAN
  /\ selection \in Selections \cup {None}
  /\ rubric \in Rubrics \cup {None}
  /\ findings \in SUBSET Findings
  /\ repairs \in 0..MaxRepairs
  /\ markdown \in Exports \cup {None}
  /\ phase \in {"none", "intake", "research", "author", "validate", "render",
                "judge", "repair", "finalize"}
  /\ status \in Outcomes \cup {None}
  /\ reason \in Reasons \cup {None}
  /\ reports \in [0..MaxRepairs -> JudgeReports \cup {None}]
  /\ statusFile \in StatusRecords \cup {None}
  /\ exportFile \in Exports \cup {None}
  /\ findingsFile \in (SUBSET Findings) \cup {None}
  /\ published \in Exports \cup {None}
  /\ error \in BOOLEAN
  /\ evaluation \in BOOLEAN

Init ==
  /\ options \in [judge : BOOLEAN, fake : BOOLEAN]
  /\ node = "intake" /\ phase = "none" /\ attempt = 0 /\ documents = FALSE
  /\ selection = None /\ rubric = None /\ findings = {} /\ repairs = 0
  /\ markdown = None /\ status = None /\ reason = None
  /\ reports = [n \in 0..MaxRepairs |-> None]
  /\ statusFile = None /\ exportFile = None /\ findingsFile = None
  /\ published = None /\ error = FALSE /\ evaluation = FALSE

-----------------------------------------------------------------------------
(* The nodes up to the first draft                                         *)

Intake ==
  /\ node = "intake" /\ node' = "research" /\ phase' = "intake"
  /\ repairs' = 0 /\ findings' = {}
  /\ UNCHANGED <<options, attempt, documents, selection, rubric, markdown,
                 endVars, reports, fileVars, evaluation>>

Research ==
  /\ node = "research" /\ node' = "author" /\ phase' = "research"
  /\ documents' \in BOOLEAN
  /\ UNCHANGED <<options, attempt, selection, rubric, findings, repairs,
                 markdown, endVars, reports, fileVars, evaluation>>

\* Without a document the model is not asked.
SelectNothing ==
  /\ node = "author" /\ ~documents
  /\ node' = "finalize" /\ phase' = "author"
  /\ status' = "candidate_not_found" /\ reason' = "no_documents"
  /\ UNCHANGED <<options, attempt, stateVars, reports, fileVars, evaluation>>

Select(s) ==
  /\ node = "author" /\ documents
  /\ selection' = s /\ attempt' = 0
  /\ \/ /\ s \in TooFew
        /\ node' = "finalize" /\ phase' = "author"
        /\ status' = "insufficient_evidence" /\ reason' = "too_few"
     \/ /\ s \notin TooFew
        /\ node' = "rubric" /\ UNCHANGED <<phase, endVars>>
  /\ UNCHANGED <<options, documents, rubric, findings, repairs, markdown,
                 reports, fileVars, evaluation>>

Write(r) ==
  /\ node = "rubric" /\ node' = "validate" /\ phase' = "author"
  /\ rubric' = r /\ attempt' = 0
  /\ UNCHANGED <<options, documents, selection, findings, repairs, markdown,
                 endVars, reports, fileVars, evaluation>>

\* The answer is not in Korean: the model is asked again, Attempts times in all.
AskAgain ==
  /\ node \in {"author", "rubric", "repair"}
  /\ node = "author" => documents
  /\ attempt < Attempts - 1
  /\ attempt' = attempt + 1
  /\ UNCHANGED <<options, node, stateVars, phase, endVars, reports, fileVars,
                 evaluation>>

-----------------------------------------------------------------------------
(* Checking, rendering, judging and repairing a draft                      *)

\* Mutant: one repair only.
BudgetLeft_Once == repairs < 1

BudgetLeft == repairs < MaxRepairs

RepairRoute(F) == IF Repairable(F) # {} /\ BudgetLeft THEN "repair" ELSE "finalize"

AfterValidate(F) == IF HasErrors(F) THEN RepairRoute(F) ELSE "render"

\* Mutant: the findings of the draft before are not dropped.
CheckFindings_Added == findings \cup checks[Export]

CheckFindings == checks[Export]

Validate ==
  /\ node = "validate" /\ phase' = "validate"
  /\ findings' = CheckFindings
  /\ node' = AfterValidate(findings')
  /\ UNCHANGED <<options, attempt, documents, selection, rubric, repairs,
                 markdown, endVars, reports, fileVars, evaluation>>

\* Mutant: what the rendered text shows is not reported.
RenderFindings_Silent == {}

RenderFindings == mismatches[Export]

Render ==
  /\ node = "render" /\ Export \in Renderable /\ phase' = "render"
  /\ markdown' = Export
  /\ findings' = findings \cup RenderFindings
  /\ node' = IF HasErrors(findings') THEN "finalize" ELSE "judge"
  /\ UNCHANGED <<options, attempt, documents, selection, rubric, repairs,
                 endVars, reports, fileVars, evaluation>>

SkipJudge ==
  /\ node = "judge" /\ ~options.judge /\ phase' = "judge"
  /\ node' = RepairRoute(findings)
  /\ UNCHANGED <<options, attempt, stateVars, endVars, reports, fileVars,
                 evaluation>>

Judge(R) ==
  /\ node = "judge" /\ options.judge /\ phase' = "judge"
  /\ reports' = [reports EXCEPT ![repairs] = R]
  /\ findings' = findings \cup R
  /\ node' = RepairRoute(findings')
  /\ UNCHANGED <<options, attempt, documents, selection, rubric, repairs,
                 markdown, endVars, fileVars, evaluation>>

\* Mutant: the repair is not counted.
NextRepair_Same == repairs

NextRepair == repairs + 1

Repair(r) ==
  /\ node = "repair" /\ node' = "validate" /\ phase' = "repair"
  /\ rubric' = r /\ attempt' = 0
  /\ repairs' = NextRepair
  /\ UNCHANGED <<options, documents, selection, findings, markdown, endVars,
                 reports, fileVars, evaluation>>

-----------------------------------------------------------------------------
(* The end of the run                                                      *)

FinalStatus ==
  IF status # None THEN status
  ELSE IF HasErrors(findings) THEN "failed" ELSE "complete"

FinalReason ==
  IF phase # "render" /\ HasErrors(findings) /\ Repairable(findings) = {}
  THEN "selection_errors" ELSE reason

StatusRecord == [status |-> FinalStatus, reason |-> FinalReason, repairs |-> repairs]

\* Mutant: the markdown is written before the status.
Written_MarkdownFirst(k) ==
  /\ findingsFile' = IF k >= 1 THEN findings ELSE findingsFile
  /\ published' = IF k >= 2 /\ FinalStatus = "complete" THEN markdown ELSE published
  /\ statusFile' = IF k >= 3 THEN StatusRecord ELSE statusFile
  /\ exportFile' = IF k >= 4 /\ rubric # None THEN Export ELSE exportFile

\* The files once the first k of the four have been written.
Written(k) ==
  /\ findingsFile' = IF k >= 1 THEN findings ELSE findingsFile
  /\ statusFile' = IF k >= 2 THEN StatusRecord ELSE statusFile
  /\ exportFile' = IF k >= 3 /\ rubric # None THEN Export ELSE exportFile
  /\ published' = IF k >= 4 /\ FinalStatus = "complete" THEN markdown ELSE published

Finalize ==
  /\ node = "finalize" /\ node' = "ended" /\ phase' = "finalize"
  /\ Written(4)
  /\ status' = FinalStatus /\ reason' = FinalReason
  /\ UNCHANGED <<options, attempt, stateVars, reports, error, evaluation>>

\* An exception of a node, or the death of the process, leaves the files
\* written so far; what the node would have returned is lost.
Break ==
  /\ node \notin Ends
  /\ node' \in {"raised", "killed"}
  /\ \/ node = "finalize" /\ \E k \in 0..4 : Written(k)
     \/ node # "finalize" /\ UNCHANGED <<findingsFile, statusFile, exportFile, published>>
  /\ UNCHANGED <<options, attempt, stateVars, phase, endVars, reports, error,
                 evaluation>>

RecordError ==
  /\ node = "raised" /\ node' = "done"
  /\ error' = TRUE
  /\ UNCHANGED <<options, attempt, stateVars, phase, endVars, reports,
                 findingsFile, statusFile, exportFile, published, evaluation>>

\* The evaluation may fail to start: the run is not told.
Return ==
  /\ node = "ended" /\ node' = "done"
  /\ evaluation' \in IF status = "complete" /\ ~options.fake THEN BOOLEAN ELSE {FALSE}
  /\ UNCHANGED <<options, attempt, stateVars, phase, endVars, reports, fileVars>>

Kill ==
  /\ node \in {"ended", "raised"} /\ node' = "killed"
  /\ UNCHANGED <<options, attempt, stateVars, phase, endVars, reports, fileVars,
                 evaluation>>

Terminated == node \in {"done", "killed"} /\ UNCHANGED vars

Next ==
  \/ Intake \/ Research \/ SelectNothing \/ AskAgain
  \/ \E s \in Selections : Select(s)
  \/ \E r \in Rubrics : Write(r) \/ Repair(r)
  \/ Validate \/ Render \/ SkipJudge
  \/ \E R \in JudgeReports : Judge(R)
  \/ Finalize \/ Break \/ RecordError \/ Return \/ Kill
  \/ Terminated

Spec == Init /\ [][Next]_vars

(***************************************************************************)
(* LangGraph runs the next node as long as there is one, and every request *)
(* of a node ends: the models are built with a timeout of 300 s.           *)
(***************************************************************************)
FairSpec == Spec /\ WF_vars(Next)

-----------------------------------------------------------------------------
(* Properties                                                              *)

\* The draft under discussion, and what has come of the run.
Draft == IF rubric = None THEN None ELSE Export

Drafts == IF rubric = None THEN 0 ELSE repairs + 1

Outcome == IF published # None THEN "delivered"
           ELSE IF node \in Ends THEN "closed" ELSE "open"

Acceptable == {e \in Exports : ~HasErrors(checks[e]) /\ ~HasErrors(mismatches[e])}

Delivery == INSTANCE RubricDelivery WITH
  Acceptable <- Acceptable, MaxDrafts <- MaxRepairs + 1,
  draft <- Draft, drafts <- Drafts, outcome <- Outcome

\* The run implements RubricDelivery: repairs, retries and interruptions never
\* deliver a draft other than the last, nor one the harness or the re-reading
\* of the markdown complains about, and never touch the selection.
ImplementsDelivery == Delivery!Spec

\* Whoever finds nfr_rubric.md, after a crash too, finds the record of a
\* complete run beside it, for the same export, with no error reported by the
\* checks or by the judge of that very draft.
PublishedIsVerified ==
  published # None =>
    /\ statusFile # None /\ statusFile.status = "complete"
    /\ exportFile = published /\ published = Export
    /\ findingsFile # None /\ ~HasErrors(findingsFile)
    /\ options.judge =>
         reports[statusFile.repairs] # None /\ ~HasErrors(reports[statusFile.repairs])

\* The findings a repair is asked to fix, or the run ends with, are those of
\* the current draft and never of one replaced since.
FindingsAreCurrent ==
  node \in {"repair", "finalize"} /\ rubric # None =>
    \A f \in findings :
      \/ f \in checks[Export] \/ f \in mismatches[Export]
      \/ reports[repairs] # None /\ f \in reports[repairs]

\* render_rubric, which follows the references of the export without looking,
\* is given none that it raises on.
OnlyValidIsRendered == node = "render" => Export \in Renderable

\* A failed run was worth failing: its status names errors in the selection, or
\* the last repair left errors, or the rendered text differs from the export.
\* A run that ends otherwise says why, or has left error.json.
RunExplainsItself ==
  /\ statusFile # None /\ statusFile.status # "complete" /\ statusFile.reason = None =>
       /\ statusFile.status = "failed"
       /\ \/ statusFile.repairs = MaxRepairs /\ Repairable(findingsFile) # {}
          \/ HasErrors(mismatches[Export])
  /\ node = "done" => statusFile # None \/ error

\* The run ends: repairs and retries are bounded, together too.
Termination == <>(node \in {"done", "killed"})

-----------------------------------------------------------------------------
(* The inductive strengthening of the invariants above                     *)

\* Before the first draft there is nothing to check.
Undrafted ==
  node \in {"intake", "research", "author", "rubric"} =>
    /\ rubric = None /\ findings = {} /\ repairs = 0
    /\ selection = None <=> node # "rubric"

Drafted == node \in {"validate", "render", "judge", "repair"} =>
             selection # None /\ rubric # None

\* Nothing is decided, and nothing written, before the end.
Undecided ==
  /\ node \notin Ends \cup {"finalize"} => status = None /\ reason = None
  /\ node \notin Ends =>
       /\ statusFile = None /\ exportFile = None
       /\ findingsFile = None /\ published = None

\* What a node may rely on when it starts.
Rendering == node = "render" => findings = checks[Export] /\ ~HasErrors(findings)

Judging ==
  node = "judge" => /\ findings = checks[Export] \cup mismatches[Export]
                    /\ ~HasErrors(findings) /\ markdown = Export

Repairing == node = "repair" => repairs < MaxRepairs

\* The three ways to the last node: without a draft, with errors that are not
\* to be repaired, and with a draft that passed.
Stopped == rubric = None /\ findings = {} /\ status \in Outcomes \ {"complete", "failed"}
           /\ reason \in {"no_documents", "too_few"}

Failing ==
  /\ rubric # None /\ selection # None /\ status = None /\ reason = None
  /\ HasErrors(findings)
  /\ \/ HasErrors(mismatches[Export])
     \/ Repairable(findings) = {} /\ phase # "render"
     \/ Repairable(findings) # {} /\ repairs = MaxRepairs

Passing ==
  /\ rubric # None /\ selection # None /\ status = None /\ reason = None
  /\ markdown = Export /\ ~HasErrors(findings)
  /\ checks[Export] \cup mismatches[Export] \subseteq findings
  /\ options.judge => reports[repairs] # None /\ reports[repairs] \subseteq findings

Finalizing == node = "finalize" => Stopped \/ Failing \/ Passing

EndedWithStatus == node = "ended" => statusFile # None

\* What the harness or the judge says of the draft, read in the text or not.
Said == checks[Export] \cup
          (IF options.judge /\ reports[repairs] # None THEN reports[repairs] ELSE {})

\* Short of the rendered text, it is the harness or the judge that errors are from.
ErrorsAreSaid ==
  node = "finalize" /\ rubric # None /\ phase # "render" =>
    \A f \in findings : f.severity = "ERROR" => f \in Said

\* Only what passes both readings is published.
Delivered == published # None => published \in Acceptable

\* A run ends for errors of the selection only when such an error was named.
GivenUp ==
  statusFile # None /\ statusFile.reason = "selection_errors" =>
    /\ selection # None /\ rubric # None
    /\ \E f \in Said : f.severity = "ERROR" /\ f.root = "selection"
                       /\ f.code # "NFR_NOT_COVERED"

IInv ==
  /\ TypeOK /\ Undrafted /\ Drafted /\ Undecided
  /\ Rendering /\ Judging /\ Repairing /\ Finalizing /\ EndedWithStatus
  /\ ErrorsAreSaid /\ Delivered /\ GivenUp
  /\ PublishedIsVerified /\ FindingsAreCurrent /\ RunExplainsItself
=============================================================================
