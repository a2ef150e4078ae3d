---------------------------- MODULE EvaluationRun ----------------------------
(***************************************************************************)
(* One evaluation by an LLM judge and its delivery (evaluation.py, with    *)
(* the judges of stage_evaluation.py and golden_evaluation.py): inputs are *)
(* read, the judge is asked up to three times, the trace is exported in    *)
(* the background and flushed, the scores are sent, and what could not be  *)
(* delivered is put into a failure file.                                   *)
(*                                                                         *)
(* A key is a pair of a criterion and a target.  A reply has a row after   *)
(* the other, perhaps not for the keys asked for and perhaps two for one.  *)
(***************************************************************************)
EXTENDS Naturals, Sequences, FiniteSets, Functions

CONSTANTS
  Keys,        \* pairs of a criterion and a target
  MaxRows,     \* bound on the keys asked for and the rows of a reply
  MaxAttempts, \* 3
  NoAnswer,    \* no result
  NoFile       \* no failure file

Sources == {"rubric", "golden-comparison", "stage"}
Verdicts == {"Pass", "Fail", "null"}
Answers == UNION {[K -> Verdicts] : K \in SUBSET Keys}

ASSUME EvaluationAssumption ==
  /\ MaxAttempts \in Nat \ {0} /\ MaxRows \in Nat
  /\ NoAnswer \notin Answers
  /\ NoFile \notin [answer : Answers \cup {NoAnswer}, response : BOOLEAN]

\* Span 0 is the evaluation, span n its n-th call of the judge.
Spans == 0..MaxAttempts

VARIABLES
  source,    \* who asked for the evaluation
  at,        \* how far run has come
  asked,     \* expected: the keys to be judged
  lacking,   \* keys no evidence was recorded for
  measured,  \* rows the code computes itself (the budgets of keep)
  attempt,   \* calls of the judge
  response,  \* pending holds the last reply of the judge
  answer,    \* the result: the verdict on each key it lists,
  rows,      \* and the keys of the rows the judge gave
  failed,    \* evaluation_error
  queued,    \* spans ended but not exported
  accepted,  \* spans Langfuse has taken
  lost,      \* CheckedExporter.failed
  sent,      \* keys whose scores Langfuse has taken
  file,      \* what the failure file holds
  end        \* how run ended

judging == <<asked, lacking, measured, attempt, response, answer, rows, failed>>
tracing == <<queued, accepted, lost>>
vars == <<source, at, judging, tracing, sent, file, end>>

-----------------------------------------------------------------------------
Bare == [answer |-> NoAnswer, response |-> FALSE]
Files == {NoFile} \cup [answer : Answers \cup {NoAnswer}, response : BOOLEAN]

Private == source = "stage"

Ends == {"running", "returned", "refused", "in_error", "undelivered",
         "unfiled", "untold", "killed"}

TypeOK ==
  /\ source \in Sources
  /\ at \in {"connect", "inputs", "judge", "flush", "scores", "report", "file", "over"}
  /\ asked \in Seq(Keys)
  /\ lacking \subseteq Keys
  /\ measured \in Answers
  /\ attempt \in 0..MaxAttempts
  /\ response \in BOOLEAN /\ failed \in BOOLEAN /\ lost \in BOOLEAN
  /\ answer \in Answers \cup {NoAnswer}
  /\ rows \in Seq(Keys)
  /\ queued \subseteq Spans /\ accepted \subseteq Spans
  /\ sent \subseteq Keys
  /\ file \in Files
  /\ end \in Ends
  /\ (at = "over") = (end # "running")

Empty == [k \in {} |-> "null"]

Init ==
  /\ source \in Sources
  /\ at = "connect"
  /\ asked = <<>> /\ lacking = {} /\ measured = Empty
  /\ attempt = 0 /\ response = FALSE /\ answer = NoAnswer
  /\ rows = <<>> /\ failed = FALSE
  /\ queued = {} /\ accepted = {} /\ lost = FALSE
  /\ sent = {} /\ file = NoFile /\ end = "running"

-----------------------------------------------------------------------------
EndWith(e) == at' = "over" /\ end' = e

Connect ==
  /\ at = "connect" /\ at' = "inputs"
  /\ UNCHANGED <<source, judging, tracing, sent, file, end>>

\* A setting is missing, or the model cannot be built: nothing is recorded.
Refuse ==
  /\ at = "connect" /\ EndWith("refused")
  /\ UNCHANGED <<source, judging, tracing, sent, file>>

\* The inputs are read, and say which keys are to be judged.
Repeats(q) == Cardinality(Range(q)) # Len(q)

ChecksRepeats == source # "rubric"

\* Without a key to ask for, keep has only its budgets to report.
NothingToAsk ==
  /\ at = "inputs" /\ Private
  /\ measured' \in Answers
  /\ answer' = measured' /\ at' = "flush"
  /\ queued' = queued \cup {0}
  /\ UNCHANGED <<source, asked, lacking, attempt, response, rows, failed,
                 accepted, lost, sent, file, end>>

ReadInputs(e, l, m) ==
  /\ at = "inputs" /\ at' = "judge"
  /\ e # <<>>
  /\ ChecksRepeats => ~Repeats(e)
  /\ l \subseteq Range(e) /\ DOMAIN m \cap Range(e) = {}
  /\ ~Private => l = {} /\ m = Empty
  /\ asked' = e /\ lacking' = l /\ measured' = m
  /\ UNCHANGED <<source, attempt, response, answer, rows, failed, tracing, sent,
                 file, end>>

\* The evaluation ends in an error, which the trace will tell.
Fail == failed' = TRUE /\ at' = "flush" /\ UNCHANGED <<answer, rows>>

InputsFail ==
  /\ at = "inputs" /\ Fail
  /\ queued' = queued \cup {0}
  /\ UNCHANGED <<source, asked, lacking, measured, attempt, response,
                 accepted, lost, sent, file, end>>

(* A reply: the keys of its rows, the verdicts on them, whether it is
   written in the language asked for, and whether its quotations stand. *)
\* Mutant: only the sets are compared.
Complete_SetsOnly(r) == Range(r.rows) = Range(asked)

Complete(r) == Len(r.rows) = Len(asked) /\ Range(r.rows) = Range(asked)

\* A golden comparison has a matching scope, and quotes what is there.
Sound(r) == Complete(r) /\ (source = "golden-comparison" => r.cited)

\* Without evidence there is no verdict, whatever the judge says.
Result(r) ==
  [k \in Range(asked) \cup DOMAIN measured |->
     IF k \in DOMAIN measured THEN measured[k]
     ELSE IF k \in lacking THEN "null" ELSE r.verdicts[k]]

Call ==
  /\ at = "judge"
  /\ attempt' = attempt + 1
  /\ UNCHANGED <<source, asked, lacking, measured, accepted, lost, sent, file, end>>

MayAskAgain == attempt + 1 < MaxAttempts

\* The reply is written in the language asked for.
ReplyAccepted(r) ==
  /\ Call /\ Sound(r) /\ r.korean
  /\ answer' = Result(r) /\ rows' = r.rows /\ at' = "flush"
  /\ response' = FALSE
  /\ UNCHANGED failed
  /\ queued' = queued \cup {attempt + 1, 0}

ReplyAgain(r) ==
  /\ Call /\ Sound(r) /\ ~r.korean /\ MayAskAgain
  /\ response' = TRUE
  /\ queued' = queued \cup {attempt + 1}
  /\ UNCHANGED <<answer, rows, failed, at>>

ReplyRejected(r) ==
  /\ Call /\ (~Sound(r) \/ (~r.korean /\ ~MayAskAgain))
  /\ Fail /\ response' = TRUE
  /\ queued' = queued \cup {attempt + 1, 0}

\* The call itself fails, before there is a reply to look at.
CallFails ==
  /\ Call /\ Fail
  /\ queued' = queued \cup {attempt + 1, 0}
  /\ UNCHANGED response

-----------------------------------------------------------------------------
\* Mutant: the last export decides.
Latch_Last(ok) == ~ok

Latch(ok) == lost \/ ~ok

\* The exporter sends spans in batches of its own.
Export(S, ok) ==
  /\ S # {} /\ S \subseteq queued
  /\ queued' = queued \ S
  /\ accepted' = IF ok THEN accepted \cup S ELSE accepted
  /\ lost' = Latch(ok)

ExportInBackground(S, ok) ==
  /\ at # "over" /\ Export(S, ok)
  /\ UNCHANGED <<source, at, judging, sent, file, end>>

\* client.flush, then exporter.failed.
Flush ==
  /\ at = "flush" /\ queued = {}
  /\ at' = IF lost THEN "file" ELSE "scores"
  /\ UNCHANGED <<source, judging, tracing, sent, file, end>>

Scored == IF answer = NoAnswer THEN {}
          ELSE {k \in DOMAIN answer : answer[k] # "null"}

NothingToScore ==
  /\ at = "scores" /\ Scored = {} /\ at' = "report"
  /\ UNCHANGED <<source, judging, tracing, sent, file, end>>

\* Mutant: the receipt is not looked at.
Receipt_Unread(S) == "report"

Receipt(S) == IF S = Scored THEN "report" ELSE "file"

\* Langfuse takes these scores; a call that fails takes none.
SendScores(S) ==
  /\ at = "scores" /\ Scored # {} /\ S \subseteq Scored
  /\ sent' = S
  /\ at' = Receipt(S)
  /\ UNCHANGED <<source, judging, tracing, file, end>>

Undelivered ==
  IF Private THEN Bare ELSE [answer |-> answer, response |-> response]

WriteFile ==
  /\ at = "file" /\ EndWith("undelivered")
  /\ file' = Undelivered
  /\ UNCHANGED <<source, judging, tracing, sent>>

FileFails ==
  /\ at = "file" /\ EndWith("unfiled")
  /\ UNCHANGED <<source, judging, tracing, sent, file>>

ReportError ==
  /\ at = "report" /\ failed
  /\ EndWith("in_error")
  /\ UNCHANGED <<source, judging, tracing, sent, file>>

\* "untold": the address of the trace cannot be had.
Report ==
  /\ at = "report" /\ ~failed
  /\ \E e \in {"returned", "untold"} : EndWith(e)
  /\ UNCHANGED <<source, judging, tracing, sent, file>>

Kill ==
  /\ at # "over" /\ EndWith("killed")
  /\ UNCHANGED <<source, judging, tracing, sent, file>>

Lists == UNION {[1..n -> Keys] : n \in 0..MaxRows}

Replies == [rows : Lists, verdicts : [Keys -> Verdicts], korean : BOOLEAN, cited : BOOLEAN]

Judge ==
  \/ \E e \in Lists, l \in SUBSET Keys, m \in Answers : ReadInputs(e, l, m)
  \/ NothingToAsk \/ InputsFail \/ CallFails
  \/ \E r \in Replies : ReplyAccepted(r) \/ ReplyAgain(r) \/ ReplyRejected(r)

Deliver ==
  \/ \E S \in SUBSET Spans, ok \in BOOLEAN : ExportInBackground(S, ok)
  \/ Flush \/ NothingToScore \/ (\E S \in SUBSET Keys : SendScores(S))
  \/ WriteFile \/ FileFails \/ ReportError \/ Report

\* The run is over: the process may idle.
Terminated == at = "over" /\ UNCHANGED vars

Next == Connect \/ Refuse \/ Judge \/ Deliver \/ Kill \/ Terminated

Spec == Init /\ [][Next]_vars

-----------------------------------------------------------------------------
(* Properties *)

(* The result has one row for each key the judge was asked for, and none
   twice.  The rubrics of evaluate may repeat a heading; then nothing keeps
   a reply from leaving one key short in favour of another. *)
OnceForEachKey ==
  answer # NoAnswer /\ ~Repeats(asked) =>
    Range(rows) = Range(asked) /\ IsInjective(rows)

(* No verdict, and no score, stands on evidence that was not recorded. *)
NoVerdictWithoutEvidence ==
  /\ answer # NoAnswer => \A k \in lacking : answer[k] = "null"
  /\ lacking \cap sent = {}

(* The verdicts of a result can be relied on: each was asked for and given
   once, and stands on evidence. *)
ResultIsSound == OnceForEachKey /\ NoVerdictWithoutEvidence

WholeTrace == 0..attempt \subseteq accepted

(* Whoever is told that an evaluation succeeded, or that its error has been
   recorded, can rely on it: the whole trace was taken, whichever batch its
   spans went in, and every score. *)
ToldIsRecorded ==
  end \in {"returned", "untold", "in_error"} =>
    /\ WholeTrace /\ sent = Scored /\ file = NoFile
    /\ failed = (answer = NoAnswer) /\ failed = (end = "in_error")

(* An evaluation that could not be delivered is not lost: its file has the
   answer, or the last reply to an evaluation that failed. *)
UndeliveredIsFiled ==
  end = "undelivered" /\ ~Private =>
    /\ file # NoFile /\ file.answer = answer
    /\ failed /\ attempt > 1 => file.response

(* Of a stage, no document and no judgement is left in a failure file. *)
StageFilesAreBare == Private => file \in {NoFile, Bare}

(* However an evaluation ends, it says truly where its answer is: whole in
   Langfuse or, but for a stage, in the failure file. *)
EndIsHonest == ToldIsRecorded /\ UndeliveredIsFiled /\ StageFilesAreBare

\* Where the whole answer is on record, once the run is over.
Kept ==
  (IF end # "running" /\ answer # NoAnswer /\ WholeTrace /\ sent = Scored
   THEN {"langfuse"} ELSE {})
  \cup (IF file # NoFile /\ file.answer # NoAnswer THEN {"file"} ELSE {})

Promise == INSTANCE EvaluationPromise WITH private <- Private, kept <- Kept

(* An evaluation of EvaluationPromise: whatever fails on the way, one that is
   said to be recorded or filed is kept in that place, once and for good. *)
KeepsPromise == Promise!Spec
=============================================================================
