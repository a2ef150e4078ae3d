-------------------------- MODULE EvaluationPromise --------------------------
(***************************************************************************)
(* What evaluation.run promises its callers: an evaluation is answered at  *)
(* most once, and how it ends tells where the answer is to be found.       *)
(***************************************************************************)
EXTENDS FiniteSets

CONSTANTS
  Answers,     \* what an evaluation may answer
  NoAnswer

VARIABLES
  private,     \* the source is a stage: nothing of the answer may stay on disk
  answer,      \* the answer of the judge, once it is accepted
  kept,        \* where the whole answer is on record
  end          \* how the run ended

vars == <<private, answer, kept, end>>

Places == {"langfuse", "file"}
Ends == {"returned", "refused", "in_error", "undelivered", "unfiled", "untold", "killed"}

Init ==
  /\ private \in BOOLEAN
  /\ answer = NoAnswer /\ kept = {} /\ end = "running"

Answer(a) ==
  /\ end = "running" /\ answer = NoAnswer
  /\ answer' = a
  /\ UNCHANGED <<private, kept, end>>

(* Ends that say something of the answer.  "unfiled" and "killed" do not:
   the failure file could not be written, or the process is gone. *)
Promised(e, k) ==
  /\ e \in {"refused", "in_error"} => answer = NoAnswer
  /\ e \in {"returned", "untold"} => answer # NoAnswer /\ "langfuse" \in k
  /\ e = "undelivered" => (answer # NoAnswer /\ ~private => "file" \in k)
  /\ private => "file" \notin k

End(e, k) ==
  /\ end = "running"
  /\ Promised(e, k)
  /\ end' = e /\ kept' = k
  /\ UNCHANGED <<private, answer>>

Next ==
  \/ \E a \in Answers : Answer(a)
  \/ \E e \in Ends, k \in SUBSET Places : End(e, k)

Spec == Init /\ [][Next]_vars
=============================================================================
