------------------------------ MODULE ArchGenApp ------------------------------
(***************************************************************************)
(* The terminal application: the seniority slot, the dialogue that settles *)
(* the scope, and the generation (tui/app.py, tui/slots.py,                *)
(* intake/agent.py).                                                       *)
(*                                                                         *)
(* Handlers and the stretches of a worker between two awaits run on one    *)
(* event loop: each is a step.  Between them anything may happen: an       *)
(* answer entered is a message on its way to its handler, and so is a      *)
(* phase reported by the thread of a generation; the model is asked on a   *)
(* thread.                                                                 *)
(***************************************************************************)
EXTENDS Naturals, Sequences

CONSTANTS
  Levels,      \* answers _parse_seniority accepts
  Drafts,      \* drafts the model may propose
  Phases,      \* phases a generation may report
  MaxMessages, \* bound: no answer is added to a conversation of this length
  MaxWaiting,  \* bound: messages of one kind on their way
  None

Answers == Levels \cup {"", "y", "text"}

\* What the agent says: a question, or a draft.
Decisions == Drafts \cup {"question"}

\* What _start_generation leaves in the progress line.
EndPhases == {"complete", "stopped", "failed"}

Briefs == Levels \X Drafts

ASSUME AppAssumption ==
  /\ None \notin Briefs
  /\ None \notin Levels \cup Drafts \cup Phases \cup EndPhases
  /\ "" \notin Levels /\ "user" \notin Decisions /\ "question" \notin Drafts
  /\ Phases \cap EndPhases = {}
  /\ MaxMessages \in Nat /\ MaxWaiting \in Nat

VARIABLES
  seniority,   \* the value of the only slot
  history,     \* _scope_history: the user's messages and the agent's decisions
  draft, confirmed, assessing, scopeError,
  generating, phase,
  disabled, hidden, \* of the input field
  submitted,   \* answers entered, not yet handled
  posted,      \* phases posted by the generation, not yet handled
  scopeWorker, \* the worker of group "scope"
  asked,       \* the history a thread has given to the model; <<>> if none is out
  worker,      \* the worker of a generation
  running,     \* briefs of the threads that generate
  result,      \* what the thread has returned to the worker
  closed       \* the user has quit

talk   == <<seniority, history, draft, confirmed, scopeError>>
scope  == <<assessing, scopeWorker, asked>>
field  == <<disabled, hidden>>
run    == <<generating, phase, worker, running, result>>
inbox  == <<submitted, posted>>
vars   == <<talk, scope, field, run, inbox, closed>>

Init ==
  /\ seniority = None /\ history = <<>> /\ draft = None
  /\ confirmed = FALSE /\ scopeError = FALSE
  /\ assessing = FALSE /\ scopeWorker = "idle" /\ asked = <<>>
  /\ disabled = FALSE /\ hidden = FALSE
  /\ generating = FALSE /\ phase = None
  /\ worker = "idle" /\ running = <<>> /\ result = None
  /\ submitted = <<>> /\ posted = <<>>
  /\ closed = FALSE

-----------------------------------------------------------------------------
(* Answers of the user                                                     *)

\* Mutant: drawn before the flags are set.
RenderTranscript_Early ==
  /\ disabled' = (assessing \/ generating \/ confirmed)
  /\ hidden' = confirmed

\* What _render_transcript does to the input field.
RenderTranscript ==
  /\ disabled' = (assessing' \/ generating' \/ confirmed')
  /\ hidden' = confirmed'

\* While a generation runs the whole input area is hidden.
CanType == ~closed /\ ~disabled /\ ~hidden /\ ~generating

Enter(a) ==
  /\ CanType /\ Len(submitted) < MaxWaiting
  /\ submitted' = Append(submitted, a)
  /\ UNCHANGED <<talk, scope, field, run, posted, closed>>

Busy == assessing \/ generating \/ confirmed

Submitted(a) ==
  /\ ~closed /\ submitted # <<>> /\ a = Head(submitted)
  /\ submitted' = Tail(submitted)

Ignore ==
  /\ \E a \in Answers : Submitted(a)
  /\ Busy
  /\ UNCHANGED <<talk, scope, field, run, posted, closed>>

\* SlotFiller.submit
Accepted(a) == a \in Levels

\* With the last slot filled the topic is asked for.
FillSlot(a) ==
  /\ Submitted(a) /\ ~Busy /\ seniority = None
  /\ IF Accepted(a)
       THEN seniority' = a /\ history' = Append(history, "question")
       ELSE UNCHANGED <<seniority, history>>
  /\ UNCHANGED <<draft, confirmed, scopeError, scope, run, posted, closed>>
  /\ RenderTranscript

Confirm(a) ==
  /\ Submitted(a) /\ ~Busy /\ seniority # None
  /\ draft # None /\ a = "y"
  /\ confirmed' = TRUE
  /\ UNCHANGED <<seniority, history, draft, scopeError, scope, run, posted, closed>>
  /\ RenderTranscript

\* Mutant: an empty answer always counts as an answer.
NothingSaid_Never(a) == FALSE

\* An empty answer means something only after a failure: try again.
NothingSaid(a) == a = "" /\ ~scopeError

RejectBlank(a) ==
  /\ Submitted(a) /\ ~Busy /\ seniority # None
  /\ NothingSaid(a)
  /\ UNCHANGED <<talk, scope, run, posted, closed>>
  /\ RenderTranscript

\* Mutant: the draft is kept while the next one is being made.
ForgetDraft_Later == UNCHANGED draft

ForgetDraft == draft' = None

\* _begin_scope_assessment
Reply(a) ==
  /\ Submitted(a) /\ ~Busy /\ seniority # None
  /\ ~(draft # None /\ a = "y") /\ ~NothingSaid(a)
  /\ IF a = "" THEN UNCHANGED history
     ELSE Len(history) < MaxMessages /\ history' = Append(history, "user")
  /\ ForgetDraft
  /\ confirmed' = FALSE /\ scopeError' = FALSE
  /\ assessing' = TRUE /\ scopeWorker' = "starting"
  /\ UNCHANGED <<seniority, asked, run, posted, closed>>
  /\ RenderTranscript

-----------------------------------------------------------------------------
(* The worker that asks the model (_assess_scope)                          *)

Ask ==
  /\ ~closed /\ scopeWorker = "starting"
  /\ scopeWorker' = "asking" /\ asked' = history
  /\ UNCHANGED <<talk, assessing, field, run, inbox, closed>>

\* The part of _assess_scope that runs whatever the model did.
Settle ==
  /\ ~closed /\ scopeWorker = "asking"
  /\ assessing' = FALSE
  /\ scopeWorker' = "idle" /\ asked' = <<>>
  /\ UNCHANGED <<seniority, confirmed, run, inbox, closed>>
  /\ RenderTranscript

Decide(d) ==
  /\ Settle
  /\ history' = Append(history, d)
  /\ draft' = IF d \in Drafts THEN d ELSE None
  /\ UNCHANGED scopeError

AssessmentFails ==
  /\ Settle
  /\ scopeError' = TRUE
  /\ UNCHANGED <<history, draft>>

-----------------------------------------------------------------------------
(* The generation (action_generate, _start_generation)                     *)

\* Mutant: a second Ctrl+G is not refused.
MayGenerate_Again ==
  ~assessing /\ seniority # None /\ draft # None /\ confirmed

MayGenerate ==
  /\ ~generating /\ ~assessing
  /\ seniority # None /\ draft # None /\ confirmed

Generate ==
  /\ ~closed /\ MayGenerate
  /\ generating' = TRUE /\ phase' = "preparing"
  /\ disabled' = TRUE
  /\ worker' = "starting"
  /\ UNCHANGED <<talk, scope, hidden, running, result, inbox, closed>>

StartGeneration ==
  /\ ~closed /\ worker = "starting"
  /\ worker' = "waiting"
  /\ running' = Append(running, <<seniority, draft>>)
  /\ UNCHANGED <<talk, scope, field, generating, phase, result, inbox, closed>>

\* A step of the thread, which may outlive the application.
ReportProgress(p) ==
  /\ running # <<>> /\ Len(posted) < MaxWaiting
  /\ posted' = IF closed THEN posted ELSE Append(posted, p)
  /\ UNCHANGED <<talk, scope, field, run, submitted, closed>>

RunEnds(o) ==
  /\ running # <<>> /\ result = None
  /\ running' = Tail(running)
  /\ result' = o
  /\ UNCHANGED <<talk, scope, field, generating, phase, worker, inbox, closed>>

\* Mutant: an exception of the run is not handled.
Returned_NotFailed == result \notin {None, "failed"}

Returned == result # None

RunReturns ==
  /\ ~closed /\ worker = "waiting" /\ Returned
  /\ phase' = result
  /\ generating' = FALSE /\ disabled' = FALSE
  /\ worker' = "idle" /\ result' = None
  /\ UNCHANGED <<talk, scope, hidden, running, inbox, closed>>

\* Mutant: a phase is shown whenever it arrives.
Shown_Always(p) == p

\* on_generation_progress
Shown(p) == IF generating THEN p ELSE phase

ShowProgress ==
  /\ ~closed /\ posted # <<>>
  /\ posted' = Tail(posted)
  /\ phase' = Shown(Head(posted))
  /\ UNCHANGED <<talk, scope, field, generating, worker, running, result,
                 submitted, closed>>

-----------------------------------------------------------------------------

\* Ctrl+Q: the process stays until the thread of a generation has ended.
Quit ==
  /\ ~closed
  /\ closed' = TRUE
  /\ UNCHANGED <<talk, scope, field, run, inbox>>

Terminated == closed /\ running = <<>> /\ UNCHANGED vars

Workers ==
  \/ Ask \/ AssessmentFails \/ \E d \in Decisions : Decide(d)
  \/ StartGeneration \/ RunReturns
  \/ \E o \in EndPhases : RunEnds(o)

Next ==
  \/ \E a \in Answers : Enter(a)
  \/ Ignore
  \/ \E a \in Answers : FillSlot(a) \/ Confirm(a) \/ RejectBlank(a) \/ Reply(a)
  \/ Workers
  \/ Generate
  \/ \E p \in Phases : ReportProgress(p)
  \/ ShowProgress
  \/ Quit \/ Terminated

Spec == Init /\ [][Next]_vars

(***************************************************************************)
(* The event loop runs its workers and the model answers or raises: it is  *)
(* built with a timeout of 60 s, and a generation ends (GenerationGraph).  *)
(* Nothing is assumed about the user.                                      *)
(***************************************************************************)
FairSpec == Spec /\ WF_vars(Workers)

-----------------------------------------------------------------------------
(* Properties                                                              *)

Conversation == Seq({"user"} \cup Decisions)

TypeOK ==
  /\ seniority \in Levels \cup {None}
  /\ history \in Conversation /\ asked \in Conversation
  /\ Len(history) <= MaxMessages + 1
  /\ draft \in Drafts \cup {None}
  /\ confirmed \in BOOLEAN /\ scopeError \in BOOLEAN /\ closed \in BOOLEAN
  /\ assessing \in BOOLEAN /\ generating \in BOOLEAN
  /\ disabled \in BOOLEAN /\ hidden \in BOOLEAN
  /\ phase \in Phases \cup EndPhases \cup {None, "preparing"}
  /\ submitted \in Seq(Answers) /\ posted \in Seq(Phases)
  /\ Len(submitted) <= MaxWaiting /\ Len(posted) <= MaxWaiting
  /\ scopeWorker \in {"idle", "starting", "asking"}
  /\ worker \in {"idle", "starting", "waiting"}
  /\ running \in Seq(Briefs)
  /\ result \in EndPhases \cup {None}

Agreement == INSTANCE ScopeAgreement WITH
  agreed <- IF confirmed THEN <<seniority, draft>> ELSE None

\* The application implements ScopeAgreement: what is generated is the draft
\* the user has confirmed, it is never changed afterwards, and however often
\* Ctrl+G is pressed one generation runs at a time (action_generate).
ImplementsAgreement == Agreement!Spec

\* A draft on offer is the answer to everything the user has said: none is left
\* from before the last message, even when judging that message has failed.
DraftIsLatest == draft # None => history # <<>> /\ history[Len(history)] = draft

\* A thread that asks the model judges the whole conversation as it is: no answer
\* is taken, and no second thread started, until the first has reported.
AskedWhole == asked # <<>> => scopeWorker = "asking" /\ asked = history

\* The model is asked only when the user has the last word, and so never twice
\* about the same conversation unless it failed.
AskedForAReply == assessing => history # <<>> /\ history[Len(history)] = "user"

\* What the model judges is the user's last word and all there was before it.
AssessmentIsCurrent == AskedWhole /\ AskedForAReply

\* However an assessment or a generation has ended, the user can go on: type an
\* answer or start the generation, if no worker is still to report.
NeverStuck ==
  closed \/ CanType \/ MayGenerate \/ scopeWorker # "idle" \/ worker # "idle"

\* A phase reported late does not replace the outcome of the run on the screen.
OutcomeStays == ~generating => phase \in EndPhases \cup {None}

\* The application does not wait for ever, unless the user leaves it.
Answered == assessing \/ generating ~> (~assessing /\ ~generating) \/ closed

-----------------------------------------------------------------------------
(* The inductive strengthening of the invariants above                     *)

SlotFirst ==
  seniority = None => history = <<>> /\ draft = None /\ ~assessing /\ ~scopeError

\* An assessment, and the retry of a failed one, has a message to answer.
UserSpoke ==
  assessing \/ scopeError =>
    /\ history # <<>> /\ history[Len(history)] = "user"
    /\ Len(history) <= MaxMessages

\* A judgement under way is neither of a failed conversation nor of an agreed one.
Undecided == assessing => ~scopeError /\ ~confirmed /\ draft = None

AgreedBefore == (confirmed => draft # None) /\ (generating => confirmed)

\* A flag is set as long as a worker is there to clear it.
WorkersReport ==
  /\ assessing <=> scopeWorker # "idle"
  /\ generating <=> worker # "idle"

\* The thread of the worker that waits generates, or has returned.
OneThread ==
  \/ worker = "waiting" /\ running = <<<<seniority, draft>>>> /\ result = None
  \/ worker = "waiting" /\ running = <<>> /\ result # None
  \/ worker # "waiting" /\ running = <<>> /\ result = None

FieldOpen == confirmed \/ assessing \/ (~disabled /\ ~hidden)

IInv ==
  /\ TypeOK /\ SlotFirst /\ UserSpoke /\ Undecided /\ AgreedBefore
  /\ WorkersReport /\ OneThread /\ FieldOpen /\ DraftIsLatest /\ AskedWhole /\ OutcomeStays
=============================================================================
