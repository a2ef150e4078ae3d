--------------------------- MODULE ArchGenAppProofs ---------------------------
(***************************************************************************)
(* The safety properties of the terminal application for every value of    *)
(* its constants, from the inductive invariant IInv.                       *)
(***************************************************************************)
EXTENDS ArchGenApp, TLAPS

\* What the steps below need of the assumption, and no more.
LEMMA BoundsAreNat == MaxMessages \in Nat /\ MaxWaiting \in Nat
  BY AppAssumption

LEMMA UserIsNoDecision == "user" \notin Decisions
  BY AppAssumption

LEMMA NoneIsNothing ==
  None \notin Levels /\ None \notin Drafts /\ None \notin EndPhases
  BY AppAssumption

LEMMA NoBriefIsNone == None \notin Briefs
  BY AppAssumption

LEMMA Extended ==
  ASSUME NEW h \in Conversation, NEW e \in {"user"} \cup Decisions
  PROVE  /\ Append(h, e) \in Conversation /\ Append(h, e) # <<>>
         /\ Len(Append(h, e)) = Len(h) + 1 /\ Len(h) \in Nat
         /\ Append(h, e)[Len(Append(h, e))] = e
  BY DEF Conversation

\* One entry more leaves a conversation within its bound, if there was room.
LEMMA RoomForOne ==
  ASSUME TypeOK, Len(history) <= MaxMessages,
         NEW e \in {"user"} \cup Decisions, history' = Append(history, e)
  PROVE  history' \in Conversation /\ Len(history') <= MaxMessages + 1
<1>1. history \in Conversation
  BY DEF TypeOK
<1> QED BY <1>1, Extended, BoundsAreNat

LEMMA InitIInv == Init => IInv
<1> SUFFICES ASSUME Init PROVE IInv
  OBVIOUS
<1>1. /\ history \in Conversation /\ asked \in Conversation
      /\ Len(history) <= MaxMessages + 1
  BY BoundsAreNat DEF Init, Conversation
<1>2. /\ submitted \in Seq(Answers) /\ posted \in Seq(Phases) /\ running \in Seq(Briefs)
      /\ Len(submitted) <= MaxWaiting /\ Len(posted) <= MaxWaiting
  BY BoundsAreNat DEF Init
<1>3. TypeOK
  BY <1>1, <1>2 DEF Init, TypeOK
<1> QED
  BY <1>3
     DEF Init, IInv, SlotFirst, UserSpoke, Undecided, AgreedBefore, WorkersReport, OneThread,
         FieldOpen, DraftIsLatest, AskedWhole, OutcomeStays

-----------------------------------------------------------------------------
(* Types                                                                   *)

\* Handling an answer takes it from the queue.
LEMMA QueueShrinks ==
  ASSUME TypeOK, NEW a \in Answers, Submitted(a)
  PROVE  submitted' \in Seq(Answers) /\ Len(submitted') <= MaxWaiting
  BY BoundsAreNat DEF TypeOK, Submitted

LEMMA TypeStep == IInv /\ [Next]_vars => TypeOK'
<1> SUFFICES ASSUME IInv, [Next]_vars PROVE TypeOK'
  OBVIOUS
<1> USE BoundsAreNat DEF IInv
<1>1. ASSUME NEW a \in Answers, Enter(a) PROVE TypeOK'
  BY <1>1 DEF TypeOK, Enter, talk, scope, field, run
<1>2. ASSUME Ignore PROVE TypeOK'
  <2>1. PICK a \in Answers : Submitted(a)
    BY <1>2 DEF Ignore
  <2>2. submitted' \in Seq(Answers) /\ Len(submitted') <= MaxWaiting
    BY <2>1, QueueShrinks
  <2> QED BY <1>2, <2>2 DEF TypeOK, Ignore, talk, scope, field, run
<1>3. ASSUME NEW a \in Answers, FillSlot(a) PROVE TypeOK'
  <2>1. submitted' \in Seq(Answers) /\ Len(submitted') <= MaxWaiting
    BY <1>3, QueueShrinks DEF FillSlot
  <2>2. history' \in Conversation /\ Len(history') <= MaxMessages + 1
    <3>1. "question" \in Decisions
      BY DEF Decisions
    <3>2. CASE a \in Levels
      <4>1. Len(history) <= MaxMessages /\ history' = Append(history, "question")
        BY <1>3, <3>2 DEF SlotFirst, FillSlot, Accepted
      <4> QED BY <4>1, <3>1, RoomForOne
    <3> QED BY <1>3, <3>2 DEF TypeOK, FillSlot, Accepted
  <2> QED
    BY <1>3, <2>1, <2>2
       DEF TypeOK, FillSlot, Accepted, RenderTranscript, scope, run
<1>4. ASSUME NEW a \in Answers, Confirm(a) PROVE TypeOK'
  BY <1>4, QueueShrinks DEF TypeOK, Confirm, RenderTranscript, scope, run
<1>5. ASSUME NEW a \in Answers, RejectBlank(a) PROVE TypeOK'
  BY <1>5, QueueShrinks
     DEF TypeOK, RejectBlank, RenderTranscript, talk, scope, run
<1>6. ASSUME NEW a \in Answers, Reply(a) PROVE TypeOK'
  <2>1. submitted' \in Seq(Answers) /\ Len(submitted') <= MaxWaiting
    BY <1>6, QueueShrinks DEF Reply
  <2>2. history' \in Conversation /\ Len(history') <= MaxMessages + 1
    <3>1. CASE a = ""
      BY <1>6, <3>1 DEF TypeOK, Reply
    <3>2. CASE a # ""
      <4>1. Len(history) < MaxMessages /\ history' = Append(history, "user")
        BY <1>6, <3>2 DEF Reply
      <4>2. Len(history) \in Nat
        BY DEF TypeOK, Conversation
      <4> QED BY <4>1, <4>2, RoomForOne
    <3> QED BY <3>1, <3>2
  <2> QED
    BY <1>6, <2>1, <2>2
       DEF TypeOK, Reply, ForgetDraft, RenderTranscript, run
<1>7. ASSUME Ask PROVE TypeOK'
  BY <1>7 DEF TypeOK, Ask, talk, field, run, inbox
<1>8. ASSUME NEW d \in Decisions, Decide(d) PROVE TypeOK'
  <2>1. Len(history) <= MaxMessages
    BY <1>8 DEF UserSpoke, WorkersReport, Decide, Settle
  <2>2. history' \in Conversation /\ Len(history') <= MaxMessages + 1
    <3>1. history' = Append(history, d)
      BY <1>8 DEF Decide
    <3> QED BY <2>1, <3>1, RoomForOne
  <2>3. draft' \in Drafts \cup {None}
    BY <1>8 DEF Decide
  <2>4. asked' \in Conversation
    BY <1>8 DEF Decide, Settle, Conversation
  <2> QED
    BY <1>8, <2>2, <2>3, <2>4
       DEF TypeOK, Decide, Settle, RenderTranscript, run, inbox
<1>9. ASSUME AssessmentFails PROVE TypeOK'
  <2>1. asked' \in Conversation
    BY <1>9 DEF AssessmentFails, Settle, Conversation
  <2> QED
    BY <1>9, <2>1
       DEF TypeOK, AssessmentFails, Settle, RenderTranscript, run, inbox
<1>10. ASSUME Generate PROVE TypeOK'
  BY <1>10 DEF TypeOK, Generate, talk, scope, inbox
<1>11. ASSUME StartGeneration PROVE TypeOK'
  <2>1. <<seniority, draft>> \in Briefs
    BY <1>11
       DEF TypeOK, StartGeneration, SlotFirst, AgreedBefore, WorkersReport, Briefs
  <2> QED
    BY <1>11, <2>1 DEF TypeOK, StartGeneration, talk, scope, field, inbox
<1>12. ASSUME NEW p \in Phases, ReportProgress(p) PROVE TypeOK'
  BY <1>12 DEF TypeOK, ReportProgress, talk, scope, field, run
<1>13. ASSUME NEW o \in EndPhases, RunEnds(o) PROVE TypeOK'
  BY <1>13 DEF TypeOK, RunEnds, talk, scope, field, inbox
<1>14. ASSUME RunReturns PROVE TypeOK'
  BY <1>14 DEF TypeOK, RunReturns, Returned, talk, scope, inbox
<1>15. ASSUME ShowProgress PROVE TypeOK'
  <2>1. /\ posted' \in Seq(Phases) /\ Len(posted') <= MaxWaiting
        /\ Head(posted) \in Phases
    BY <1>15 DEF TypeOK, ShowProgress
  <2> QED BY <1>15, <2>1 DEF TypeOK, ShowProgress, Shown, talk, scope, field
<1>16. ASSUME Quit PROVE TypeOK'
  BY <1>16 DEF TypeOK, Quit, talk, scope, field, run, inbox
<1>17. ASSUME UNCHANGED vars PROVE TypeOK'
  BY <1>17 DEF TypeOK, vars, talk, scope, field, run, inbox
<1> QED
  BY <1>1, <1>2, <1>3, <1>4, <1>5, <1>6, <1>7, <1>8, <1>9, <1>10, <1>11, <1>12,
     <1>13, <1>14, <1>15, <1>16, <1>17
     DEF Next, Workers, Terminated

-----------------------------------------------------------------------------
(* The dialogue                                                            *)

Dialogue == SlotFirst /\ UserSpoke /\ DraftIsLatest /\ AskedWhole /\ Undecided

LEMMA DialogueStep == IInv /\ [Next]_vars => Dialogue'
<1> SUFFICES ASSUME IInv, [Next]_vars PROVE Dialogue'
  OBVIOUS
<1> USE BoundsAreNat DEF IInv
<1>1. ASSUME UNCHANGED <<talk, scope>> PROVE Dialogue'
  BY <1>1 DEF Dialogue, SlotFirst, UserSpoke, DraftIsLatest, AskedWhole, Undecided, talk, scope
<1>2. ASSUME NEW a \in Answers, FillSlot(a) PROVE Dialogue'
  <2>1. CASE a \notin Levels
    <3>1. UNCHANGED <<talk, scope>>
      BY <1>2, <2>1 DEF FillSlot, Accepted, talk
    <3> QED BY <3>1, <1>1
  <2>2. CASE a \in Levels
    <3>1. seniority' # None
      BY <1>2, <2>2, NoneIsNothing DEF FillSlot, Accepted
    <3>2. /\ draft' = None /\ ~assessing' /\ ~scopeError'
          /\ scopeWorker' = scopeWorker /\ scopeWorker = "idle" /\ asked' = asked
      BY <1>2 DEF FillSlot, SlotFirst, WorkersReport, scope, TypeOK
    <3> QED BY <3>1, <3>2 DEF Dialogue, SlotFirst, UserSpoke, DraftIsLatest, AskedWhole, Undecided
  <2> QED BY <2>1, <2>2
<1>3. ASSUME NEW a \in Answers, Confirm(a) PROVE Dialogue'
  BY <1>3
     DEF Confirm, Dialogue, SlotFirst, UserSpoke, DraftIsLatest, AskedWhole, Undecided, scope
<1>4. ASSUME NEW a \in Answers, Reply(a) PROVE Dialogue'
  <2>1. /\ history' # <<>> /\ history'[Len(history')] = "user"
        /\ Len(history') <= MaxMessages
    <3>1. CASE a = ""
      <4>1. scopeError /\ history' = history
        BY <1>4, <3>1 DEF Reply, NothingSaid
      <4> QED BY <4>1 DEF UserSpoke
    <3>2. CASE a # ""
      <4>1. Len(history) < MaxMessages /\ history' = Append(history, "user")
        BY <1>4, <3>2 DEF Reply
      <4>2. history \in Conversation
        BY DEF TypeOK
      <4>3. /\ Append(history, "user") # <<>> /\ Len(history) \in Nat
            /\ Append(history, "user")[Len(Append(history, "user"))] = "user"
            /\ Len(Append(history, "user")) = Len(history) + 1
        BY <4>2, Extended
      <4>4. Len(history') = Len(history) + 1
        BY <4>1, <4>3
      <4>5. Len(history') <= MaxMessages
        BY <4>1, <4>3, <4>4
      <4> QED BY <4>1, <4>3, <4>5
    <3> QED BY <3>1, <3>2
  <2>2. /\ seniority' = seniority /\ seniority # None /\ draft' = None
        /\ scopeWorker' = "starting" /\ ~confirmed' /\ ~scopeError'
        /\ scopeWorker = "idle" /\ asked' = asked
    BY <1>4 DEF Reply, ForgetDraft, Busy, WorkersReport
  <2>3. asked' = <<>>
    BY <2>2 DEF AskedWhole
  <2> QED BY <2>1, <2>2, <2>3 DEF Dialogue, SlotFirst, UserSpoke, DraftIsLatest, AskedWhole, Undecided
<1>5. ASSUME Ask PROVE Dialogue'
  BY <1>5
     DEF Ask, Dialogue, SlotFirst, UserSpoke, DraftIsLatest, AskedWhole, Undecided, talk
<1>6. ASSUME NEW d \in Decisions, Decide(d) PROVE Dialogue'
  <2>1. /\ ~assessing' /\ asked' = <<>> /\ scopeError' = scopeError
        /\ seniority' = seniority /\ seniority # None
        /\ history' = Append(history, d)
        /\ draft' = IF d \in Drafts THEN d ELSE None
    BY <1>6 DEF Decide, Settle, SlotFirst, WorkersReport
  <2>2. ~scopeError
    BY <1>6 DEF Decide, Settle, WorkersReport, Undecided
  <2>3. history' # <<>> /\ history'[Len(history')] = d
    BY <2>1, Extended DEF TypeOK
  <2> QED
    BY <2>1, <2>2, <2>3 DEF Dialogue, SlotFirst, UserSpoke, DraftIsLatest, AskedWhole, Undecided
<1>7. ASSUME AssessmentFails PROVE Dialogue'
  <2>1. /\ ~assessing' /\ asked' = <<>> /\ assessing
        /\ UNCHANGED <<seniority, history, draft>> /\ seniority # None
    BY <1>7 DEF AssessmentFails, Settle, SlotFirst, WorkersReport
  <2> QED BY <2>1 DEF Dialogue, SlotFirst, UserSpoke, DraftIsLatest, AskedWhole, Undecided
<1>8. \/ UNCHANGED <<talk, scope>>
      \/ \E a \in Answers : FillSlot(a) \/ Confirm(a) \/ Reply(a)
      \/ Ask \/ AssessmentFails \/ \E d \in Decisions : Decide(d)
  BY DEF Next, Workers, Terminated, vars, Enter, Ignore, RejectBlank, Generate,
         StartGeneration, ReportProgress, RunEnds, RunReturns, ShowProgress, Quit
<1> QED BY <1>1, <1>2, <1>3, <1>4, <1>5, <1>6, <1>7, <1>8

-----------------------------------------------------------------------------
(* Workers, threads and the input field                                    *)

Work == AgreedBefore /\ WorkersReport /\ OneThread /\ FieldOpen /\ OutcomeStays

\* What a step can be, as far as workers and the input field are concerned.
LEMMA StepKinds ==
  ASSUME [Next]_vars
  PROVE  \/ UNCHANGED <<talk, scope, field, run>>
         \/ \E a \in Answers : FillSlot(a) \/ Confirm(a) \/ RejectBlank(a) \/ Reply(a)
         \/ Ask \/ Settle \/ Generate \/ StartGeneration \/ RunReturns \/ ShowProgress
         \/ \E o \in EndPhases : RunEnds(o)
  BY DEF Next, Workers, Terminated, vars, Enter, Ignore, Decide, AssessmentFails,
         ReportProgress, Quit

LEMMA WorkStep == IInv /\ [Next]_vars => Work'
<1> SUFFICES ASSUME IInv, [Next]_vars PROVE Work'
  OBVIOUS
<1> USE DEF IInv, Work, AgreedBefore, WorkersReport, OneThread, FieldOpen, OutcomeStays
<1>1. ASSUME UNCHANGED <<talk, scope, field, run>> PROVE Work'
  BY <1>1 DEF talk, scope, field, run
<1>2. ASSUME NEW a \in Answers, FillSlot(a) PROVE Work'
  BY <1>2, NoneIsNothing DEF FillSlot, Accepted, RenderTranscript, scope, run, TypeOK, SlotFirst
<1>3. ASSUME NEW a \in Answers, Confirm(a) PROVE Work'
  BY <1>3 DEF Confirm, RenderTranscript, scope, run, TypeOK
<1>4. ASSUME NEW a \in Answers, RejectBlank(a) PROVE Work'
  BY <1>4 DEF RejectBlank, RenderTranscript, talk, scope, run, TypeOK
<1>5. ASSUME NEW a \in Answers, Reply(a) PROVE Work'
  BY <1>5 DEF Reply, ForgetDraft, Busy, RenderTranscript, run, TypeOK
<1>6. ASSUME Ask PROVE Work'
  BY <1>6 DEF Ask, talk, field, run
<1>7. ASSUME Settle PROVE Work'
  BY <1>7 DEF Settle, RenderTranscript, Undecided, run, TypeOK
<1>8. ASSUME Generate PROVE Work'
  BY <1>8 DEF Generate, MayGenerate, talk, scope
<1>9. ASSUME StartGeneration PROVE Work'
  BY <1>9 DEF StartGeneration, talk, scope, field
<1>10. ASSUME NEW o \in EndPhases, RunEnds(o) PROVE Work'
  <2>1. /\ worker = "waiting" /\ running = <<<<seniority, draft>>>>
        /\ running' = Tail(running) /\ result' = o
    BY <1>10 DEF RunEnds
  <2>2. running' = <<>> /\ result' # None
    BY <2>1, NoneIsNothing
  <2>3. UNCHANGED <<talk, scope, field, generating, phase, worker>>
    BY <1>10 DEF RunEnds
  <2> QED BY <2>1, <2>2, <2>3 DEF talk, scope, field
<1>11. ASSUME RunReturns PROVE Work'
  BY <1>11 DEF RunReturns, Returned, talk, scope, TypeOK
<1>12. ASSUME ShowProgress PROVE Work'
  BY <1>12 DEF ShowProgress, Shown, talk, scope, field
<1> HIDE DEF IInv, Work, AgreedBefore, WorkersReport, OneThread, FieldOpen, OutcomeStays
<1> QED
  BY StepKinds, <1>1, <1>2, <1>3, <1>4, <1>5, <1>6, <1>7, <1>8, <1>9, <1>10, <1>11,
     <1>12

-----------------------------------------------------------------------------
(* The theorems                                                            *)

LEMMA Inductive == Spec => []IInv
<1>1. IInv /\ [Next]_vars => IInv'
  BY TypeStep, DialogueStep, WorkStep DEF IInv, Dialogue, Work
<1> QED BY InitIInv, <1>1, PTL DEF Spec

\* The application stays well typed, its queues and its conversation bounded.
THEOREM TypeCorrect == Spec => []TypeOK
<1>1. IInv => TypeOK
  BY DEF IInv
<1> QED BY Inductive, <1>1, PTL

\* A draft on offer answers the last thing the user said (_begin_scope_assessment
\* forgets the one before).
THEOREM NoStaleDraft == Spec => []DraftIsLatest
<1>1. IInv => DraftIsLatest
  BY DEF IInv
<1> QED BY Inductive, <1>1, PTL

\* The model judges the whole conversation, and only when the user has the last
\* word (on_input_submitted, _assess_scope).
THEOREM JudgementIsCurrent == Spec => []AssessmentIsCurrent
<1>1. IInv => AssessmentIsCurrent
  BY DEF IInv, AssessmentIsCurrent, AskedForAReply, UserSpoke
<1> QED BY Inductive, <1>1, PTL

\* The user can go on whatever has failed (the finally clauses of the workers).
THEOREM UserCanGoOn == Spec => []NeverStuck
<1>1. IInv => NeverStuck
  BY NoneIsNothing
     DEF IInv, NeverStuck, CanType, MayGenerate, FieldOpen, WorkersReport,
         AgreedBefore, SlotFirst, TypeOK
<1> QED BY Inductive, <1>1, PTL

\* The outcome of a run is not replaced by a late phase (on_generation_progress).
THEOREM OutcomeIsFinal == Spec => []OutcomeStays
<1>1. IInv => OutcomeStays
  BY DEF IInv
<1> QED BY Inductive, <1>1, PTL

-----------------------------------------------------------------------------
(* The refinement                                                          *)

LEMMA AgreedSame ==
  ASSUME UNCHANGED <<seniority, draft, confirmed, running>>
  PROVE  UNCHANGED Agreement!vars
  BY DEF Agreement!vars

\* Every implementation step agrees, starts, ends, or is invisible.
LEMMA AgreementStep ==
  ASSUME IInv, [Next]_vars PROVE [Agreement!Next]_(Agreement!vars)
<1>1. ASSUME NEW a \in Answers, FillSlot(a) PROVE UNCHANGED Agreement!vars
  <2>1. ~confirmed /\ ~confirmed' /\ running' = running
    BY <1>1 DEF FillSlot, Busy, run
  <2> QED BY <2>1 DEF Agreement!vars
<1>2. ASSUME NEW a \in Answers, Reply(a) PROVE UNCHANGED Agreement!vars
  <2>1. ~confirmed /\ ~confirmed' /\ running' = running
    BY <1>2 DEF Reply, Busy, run
  <2> QED BY <2>1 DEF Agreement!vars
<1>3. ASSUME NEW d \in Decisions, Decide(d) PROVE UNCHANGED Agreement!vars
  <2>1. ~confirmed /\ ~confirmed' /\ running' = running
    BY <1>3 DEF Decide, Settle, run, IInv, WorkersReport, Undecided
  <2> QED BY <2>1 DEF Agreement!vars
<1>4. ASSUME NEW a \in Answers, Confirm(a) PROVE Agreement!Agree
  <2>1. /\ ~confirmed /\ confirmed' /\ running' = running
        /\ UNCHANGED <<seniority, draft>>
    BY <1>4 DEF Confirm, Busy, run
  <2>2. <<seniority, draft>> \in Briefs
    BY <1>4 DEF Confirm, IInv, TypeOK, Briefs
  <2> QED BY <2>1, <2>2 DEF Agreement!Agree
<1>5. ASSUME StartGeneration PROVE Agreement!Start
  <2>1. /\ confirmed /\ running = <<>> /\ running' = Append(running, <<seniority, draft>>)
        /\ UNCHANGED <<seniority, draft, confirmed>>
    BY <1>5
       DEF StartGeneration, talk, IInv, WorkersReport, AgreedBefore, OneThread
  <2>2. <<seniority, draft>> # None
    BY NoBriefIsNone, <2>1 DEF IInv, TypeOK, AgreedBefore, SlotFirst, Briefs
  <2>3. running' = <<<<seniority, draft>>>>
    BY <2>1
  <2> QED BY <2>1, <2>2, <2>3 DEF Agreement!Start
<1>6. ASSUME NEW o \in EndPhases, RunEnds(o) PROVE Agreement!End
  <2>1. /\ running # <<>> /\ running' = <<>>
        /\ UNCHANGED <<seniority, draft, confirmed>>
    BY <1>6 DEF RunEnds, talk, IInv, OneThread
  <2> QED BY <2>1 DEF Agreement!End
<1>7. \/ UNCHANGED <<seniority, draft, confirmed, running>>
      \/ \E a \in Answers : FillSlot(a) \/ Confirm(a) \/ Reply(a)
      \/ StartGeneration \/ \E d \in Decisions : Decide(d)
      \/ \E o \in EndPhases : RunEnds(o)
  BY DEF Next, Workers, Terminated, vars, talk, run, Enter, Ignore, RejectBlank, Ask,
         AssessmentFails, Settle, Generate, ReportProgress, RunReturns, ShowProgress, Quit
<1> QED BY <1>1, <1>2, <1>3, <1>4, <1>5, <1>6, <1>7, AgreedSame DEF Agreement!Next

\* The application implements ScopeAgreement: one brief, agreed once, is all that
\* is ever generated, by one run at a time.
THEOREM Refinement == Spec => ImplementsAgreement
<1>1. Init => Agreement!Init
  BY DEF Init, Agreement!Init
<1>2. IInv /\ [Next]_vars => [Agreement!Next]_(Agreement!vars)
  BY AgreementStep
<1> QED BY <1>1, <1>2, Inductive, PTL DEF Spec, ImplementsAgreement, Agreement!Spec
=============================================================================
