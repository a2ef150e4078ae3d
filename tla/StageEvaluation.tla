--------------------------- MODULE StageEvaluation ---------------------------
(***************************************************************************)
(* The manual evaluation of the stages of one run (stage_evaluation.py,    *)
(* run_stage and main), by one or more processes with the same output      *)
(* directory.  Nothing locks that directory: what keeps two evaluations of *)
(* a stage apart is that its snapshot of the criteria is created           *)
(* exclusively.  A process may be killed between any two steps, and the    *)
(* command be given again.                                                 *)
(*                                                                         *)
(* An evaluation ends in one of the ways EvaluationPromise names.  Of the  *)
(* inputs only the criteria are told apart, the one input a person may     *)
(* edit while the evaluation runs.                                         *)
(***************************************************************************)
EXTENDS Naturals, Sequences, FiniteSets, Functions

CONSTANTS
  Processes,
  Stages,      \* research, keep and selection
  Order,       \* the stages of --stage all, in their order
  Texts,       \* what the criteria of a stage may say
  MaxEdits,    \* bound on the edits of the criteria
  MaxStarts,   \* bound on the commands given
  NoText,
  NoFile,      \* there is no such file,
  Partial      \* or it is opened but not written

Results == [by : Processes, used : Texts, digest : Texts]

ASSUME StageAssumption ==
  /\ Order \in Seq(Stages)
  /\ NoText \notin Texts
  /\ {NoFile, Partial} \cap (Texts \cup Results) = {}
  /\ NoFile # Partial
  /\ MaxEdits \in Nat /\ MaxStarts \in Nat

VARIABLES
  criteria,   \* per stage: docs/evaluator/<stage>.md
  snapshot,   \* per stage: <stage>-criteria.md
  result,     \* per stage: <stage>.json
  error,      \* per stage: <stage>.error.json
  judged,     \* per stage: how often its evaluation was begun
  edits, starts,
  at,         \* per process: where it is,
  command,    \* the stages it was asked for,
  todo,       \* those not done with, the one under way first,
  text,       \* criteria_text,
  used,       \* the criteria the judge has read,
  failed      \* and the stages that failed

files == <<criteria, snapshot, result, error>>
locals == <<text, used>>
vars == <<files, judged, edits, starts, at, command, todo, failed, locals>>

Commands == {Order} \cup {<<s>> : s \in Stages}

TypeOK ==
  /\ criteria \in [Stages -> Texts]
  /\ snapshot \in [Stages -> Texts \cup {NoFile, Partial}]
  /\ result \in [Stages -> Results \cup {NoFile, Partial}]
  /\ error \in [Stages -> BOOLEAN]
  /\ judged \in [Stages -> Nat]
  /\ edits \in 0..MaxEdits /\ starts \in 0..MaxStarts
  /\ at \in [Processes -> {"idle", "next", "load", "snapshot", "fill", "begin",
                           "judge", "create", "write", "raise", "exit"}]
  /\ command \in [Processes -> Commands \cup {<<>>}]
  /\ todo \in [Processes -> Seq(Stages)]
  /\ \A p \in Processes : at[p] \notin {"idle", "next", "exit"} => todo[p] # <<>>
  /\ text \in [Processes -> Texts \cup {NoText}]
  /\ used \in [Processes -> Texts \cup {NoText}]
  /\ failed \in [Processes -> SUBSET Stages]

Init ==
  /\ criteria \in [Stages -> Texts]
  /\ snapshot = [s \in Stages |-> NoFile]
  /\ result = [s \in Stages |-> NoFile]
  /\ error = [s \in Stages |-> FALSE]
  /\ judged = [s \in Stages |-> 0]
  /\ edits = 0 /\ starts = 0
  /\ at = [p \in Processes |-> "idle"]
  /\ command = [p \in Processes |-> <<>>]
  /\ todo = [p \in Processes |-> <<>>]
  /\ text = [p \in Processes |-> NoText]
  /\ used = [p \in Processes |-> NoText]
  /\ failed = [p \in Processes |-> {}]

-----------------------------------------------------------------------------
Stage(p) == Head(todo[p])

Move(p, from, to) == at[p] = from /\ at' = [at EXCEPT ![p] = to]

\* A person edits the criteria in docs/evaluator.
Edit(s, t) ==
  /\ edits < MaxEdits /\ edits' = edits + 1
  /\ t # criteria[s]
  /\ criteria' = [criteria EXCEPT ![s] = t]
  /\ UNCHANGED <<snapshot, result, error, judged, starts, at, command, todo, failed, locals>>

Start(p, c) ==
  /\ starts < MaxStarts /\ starts' = starts + 1
  /\ at[p] \in {"idle", "exit"} /\ at' = [at EXCEPT ![p] = "next"]
  /\ command' = [command EXCEPT ![p] = c]
  /\ todo' = [todo EXCEPT ![p] = c]
  /\ failed' = [failed EXCEPT ![p] = {}]
  /\ UNCHANGED <<files, judged, edits, text, used>>

Rest(p) == Tail(todo[p])

\* run_stage is left, and its locals with it.
Forget(p) ==
  /\ text' = [text EXCEPT ![p] = NoText]
  /\ used' = [used EXCEPT ![p] = NoText]

\* Mutant: the last failure only.
Failures_Last(p) == {Stage(p)}

Failures(p) == failed[p] \cup {Stage(p)}

\* main goes on with the next stage after one that failed.
FailStage(p) ==
  /\ failed' = [failed EXCEPT ![p] = Failures(p)]
  /\ todo' = [todo EXCEPT ![p] = Rest(p)]
  /\ Forget(p) /\ UNCHANGED command

AllDone(p) ==
  /\ Move(p, "next", "exit")
  /\ todo[p] = <<>>
  /\ UNCHANGED <<files, judged, edits, starts, command, todo, failed, locals>>

\* Outside the try: there is no error file.
ResultExists(p) ==
  /\ Move(p, "next", "next")
  /\ todo[p] # <<>> /\ result[Stage(p)] # NoFile
  /\ FailStage(p)
  /\ UNCHANGED <<files, judged, edits, starts>>

NoResultYet(p) ==
  /\ Move(p, "next", "load")
  /\ todo[p] # <<>> /\ result[Stage(p)] = NoFile
  /\ UNCHANGED <<files, judged, edits, starts, command, todo, failed, locals>>

Load(p) ==
  /\ Move(p, "load", "snapshot")
  /\ text' = [text EXCEPT ![p] = criteria[Stage(p)]]
  /\ UNCHANGED <<files, judged, edits, starts, command, todo, failed, used>>

\* Mutant: a snapshot left empty is taken over.
MayOpen_Empty(s) == snapshot[s] \in {NoFile, Partial}

MayOpen(s) == snapshot[s] = NoFile

OpenSnapshot(p) ==
  /\ Move(p, "snapshot", "fill")
  /\ MayOpen(Stage(p))
  /\ snapshot' = [snapshot EXCEPT ![Stage(p)] = Partial]
  /\ UNCHANGED <<criteria, result, error, judged, edits, starts, command, todo, failed, locals>>

SnapshotExists(p) ==
  /\ Move(p, "snapshot", "raise")
  /\ ~MayOpen(Stage(p))
  /\ UNCHANGED <<files, judged, edits, starts, command, todo, failed, locals>>

Filled(p) == text[p]

FillSnapshot(p) ==
  /\ Move(p, "fill", "begin")
  /\ snapshot' = [snapshot EXCEPT ![Stage(p)] = Filled(p)]
  /\ UNCHANGED <<criteria, result, error, judged, edits, starts, command, todo, failed, locals>>

\* Mutant: the judge reads the file in docs/evaluator.
ReadByJudge_Live(p) == criteria[Stage(p)]

ReadByJudge(p) == snapshot[Stage(p)]

BeginEvaluation(p) ==
  /\ Move(p, "begin", "judge")
  /\ judged' = [judged EXCEPT ![Stage(p)] = @ + 1]
  /\ used' = [used EXCEPT ![p] = ReadByJudge(p)]
  /\ UNCHANGED <<files, edits, starts, command, todo, failed, text>>

EvaluationReturns(p) ==
  /\ Move(p, "judge", "create")
  /\ UNCHANGED <<files, judged, edits, starts, command, todo, failed, locals>>

\* Loading, filling or the evaluation ends with an exception.
Raises(p) ==
  /\ at[p] \in {"load", "fill", "judge"} /\ at' = [at EXCEPT ![p] = "raise"]
  /\ UNCHANGED <<files, judged, edits, starts, command, todo, failed, locals>>

WriteError(p) ==
  /\ Move(p, "raise", "next")
  /\ error' = [error EXCEPT ![Stage(p)] = TRUE]
  /\ FailStage(p)
  /\ UNCHANGED <<criteria, snapshot, result, judged, edits, starts>>

CreateResult(p) ==
  /\ Move(p, "create", "write")
  /\ result' = [result EXCEPT ![Stage(p)] = Partial]
  /\ UNCHANGED <<criteria, snapshot, error, judged, edits, starts, command, todo, failed, locals>>

WriteResult(p) ==
  /\ Move(p, "write", "next")
  /\ result' = [result EXCEPT ![Stage(p)] =
                  [by |-> p, used |-> used[p], digest |-> text[p]]]
  /\ todo' = [todo EXCEPT ![p] = Tail(@)]
  /\ Forget(p)
  /\ UNCHANGED <<criteria, snapshot, error, judged, edits, starts, command, failed>>

\* A file of the end cannot be written: main is told, and no file tells it.
WriteFails(p) ==
  /\ at[p] \in {"create", "write", "raise"} /\ at' = [at EXCEPT ![p] = "next"]
  /\ FailStage(p)
  /\ UNCHANGED <<files, judged, edits, starts>>

Kill(p) ==
  /\ at[p] \notin {"idle", "exit"} /\ at' = [at EXCEPT ![p] = "idle"]
  /\ command' = [command EXCEPT ![p] = <<>>]
  /\ todo' = [todo EXCEPT ![p] = <<>>]
  /\ failed' = [failed EXCEPT ![p] = {}]
  /\ Forget(p)
  /\ UNCHANGED <<files, judged, edits, starts>>

Terminated ==
  /\ \A p \in Processes : at[p] \in {"idle", "exit"}
  /\ UNCHANGED vars

Step(p) ==
  \/ AllDone(p) \/ ResultExists(p) \/ NoResultYet(p) \/ Load(p)
  \/ OpenSnapshot(p) \/ SnapshotExists(p) \/ FillSnapshot(p)
  \/ BeginEvaluation(p) \/ EvaluationReturns(p) \/ Raises(p) \/ WriteError(p)
  \/ CreateResult(p) \/ WriteResult(p) \/ WriteFails(p)

Next ==
  \/ \E s \in Stages, t \in Texts : Edit(s, t)
  \/ \E p \in Processes : Step(p) \/ Kill(p) \/ \E c \in Commands : Start(p, c)
  \/ Terminated

Spec == Init /\ [][Next]_vars

-----------------------------------------------------------------------------
(* Properties *)

Owns(p, s) ==
  at[p] \in {"fill", "begin", "judge", "create", "write"} /\ Stage(p) = s

(* The judge is called at most once for a stage and an output directory,
   however many commands run at a time or one after the other. *)
JudgedOnce == \A s \in Stages : judged[s] <= 1

(* The criteria a result was judged by are those it gives the digest of, and
   those of the snapshot beside it, although the file they were copied from
   may have been edited meanwhile. *)
ResultNamesItsCriteria ==
  \A s \in Stages : result[s] \in Results =>
    result[s].used = snapshot[s] /\ result[s].digest = snapshot[s]

(* A result can be relied on: it comes of the one evaluation of its stage,
   and of the criteria beside it. *)
ResultStands == JudgedOnce /\ ResultNamesItsCriteria

(* A command that exits has a result or a failure for each stage: with exit
   code 0, every stage it was asked for has a result, and its own. *)
ExitCodeIsHonest ==
  \A p \in Processes : at[p] = "exit" =>
    \A s \in Range(command[p]) \ failed[p] :
      result[s] \in Results /\ result[s].by = p

(* A result is never written over, although nothing looks for it again once
   the evaluation has begun. *)
ResultIsFinal ==
  [][\A s \in Stages : result[s] \in Results => result'[s] = result[s]]_vars

Abandoned(s) ==
  /\ snapshot[s] # NoFile /\ result[s] \notin Results
  /\ \A p \in Processes : ~Owns(p, s)

(* What a command that failed or was killed leaves behind is final as well:
   a stage that has its snapshot, no result and nobody at work on it stays
   so, and is never evaluated in that directory again. *)
FailedForGood == [][\A s \in Stages : Abandoned(s) => Abandoned(s)']_vars

(* An output directory is written once: neither a result nor a failure of a
   stage is ever undone in it. *)
OutcomeIsFinal == ResultIsFinal /\ FailedForGood
=============================================================================
