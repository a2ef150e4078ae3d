------------------------- MODULE EvaluationRunProofs -------------------------
(***************************************************************************)
(* Proofs about EvaluationRun, for all keys and any number of attempts.    *)
(* What an evaluation is told at its end was settled over many steps: that *)
(* the trace is whole rests on every span being queued or accepted as long *)
(* as nothing was lost (Traced), that a failed evaluation left its reply   *)
(* behind on the retries before (Judged).                                  *)
(***************************************************************************)
EXTENDS EvaluationRun, SequenceTheorems, FunctionTheorems, FiniteSetTheorems, TLAPS

Early == at \in {"connect", "inputs", "judge"}
Late == at \in {"flush", "scores", "report", "file"}

\* What is known while the inputs are read and the judge is asked.
Judging ==
  /\ Early => answer = NoAnswer /\ ~failed
  /\ at \in {"connect", "inputs"} =>
       attempt = 0 /\ lacking = {} /\ asked = <<>> /\ rows = <<>>
  /\ at = "judge" =>
       /\ attempt < MaxAttempts
       /\ attempt >= 1 => response
       /\ lacking \subseteq Range(asked)
       /\ DOMAIN measured \cap Range(asked) = {}

\* What is known when the judge is done.
Judged ==
  Late => /\ failed = (answer = NoAnswer)
          /\ failed /\ attempt > 1 => response

\* As long as nothing is lost, every span that has ended is on its way.
Traced ==
  /\ ~lost => 1..attempt \subseteq accepted \cup queued
  /\ ~lost /\ at = "flush" => 0 \in accepted \cup queued
  /\ at \in {"scores", "report"} => WholeTrace

Delivered ==
  /\ Early \/ at \in {"flush", "scores"} => sent = {}
  /\ sent \subseteq Scored
  /\ at = "report" => sent = Scored
  /\ at # "over" => file = NoFile

Promises ==
  /\ OnceForEachKey /\ NoVerdictWithoutEvidence
  /\ ToldIsRecorded /\ UndeliveredIsFiled /\ StageFilesAreBare

IInv == TypeOK /\ Judging /\ Judged /\ Traced /\ Delivered /\ Promises

-----------------------------------------------------------------------------
\* The lists of a reply and of what is asked for are sequences of keys.
LEMMA ListsAreSequences == Lists \subseteq Seq(Keys)
  <1> SUFFICES ASSUME NEW n \in 0..MaxRows, NEW q \in [1..n -> Keys] PROVE q \in Seq(Keys)
    BY DEF Lists
  <1>1. n \in Nat
    BY EvaluationAssumption
  <1> QED BY <1>1, SeqDef

\* As long a list of the same keys as one without a repetition repeats none.
LEMMA SameLength ==
  ASSUME NEW p \in Seq(Keys), NEW q \in Seq(Keys), Len(p) = Len(q), Range(p) = Range(q),
         ~Repeats(q)
  PROVE  IsInjective(p)
  <1> DEFINE S == 1..Len(p)
             T == Range(p)
  <1>1. Len(p) \in Nat /\ p \in [S -> Keys]
    BY LenProperties
  <1>2. IsFiniteSet(S) /\ Cardinality(S) = Len(p)
    <2>1. 1 \in Int /\ Len(p) \in Int
      BY <1>1
    <2>2. IsFiniteSet(S) /\ Cardinality(S) = IF 1 > Len(p) THEN 0 ELSE Len(p) - 1 + 1
      BY <2>1, FS_Interval
    <2> QED BY <1>1, <2>2
  <1>3. Cardinality(T) = Len(p)
    BY DEF Repeats
  <1>4. p \in Surjection(S, T)
    BY <1>1 DEF Surjection, Range
  <1> HIDE DEF S, T
  <1>5. p \in Injection(S, T)
    BY <1>2, <1>3, <1>4, FS_SurjSameCardinalityImpliesInj
  <1> QED BY <1>5 DEF Injection

LEMMA InitIInv == Init => IInv
  <1> SUFFICES ASSUME Init PROVE IInv
    OBVIOUS
  <1>1. TypeOK
    <2>1. measured \in [{} -> Verdicts]
      BY DEF Init, Empty
    <2>2. measured \in Answers
      BY <2>1 DEF Answers
    <2>3. attempt \in 0..MaxAttempts
      BY EvaluationAssumption DEF Init
    <2>4. rows \in Seq(Keys) /\ asked \in Seq(Keys)
      BY DEF Init
    <2>5. (at = "over") = (end # "running")
      BY DEF Init
    <2>6. end \in Ends /\ file \in Files
      BY DEF Init, Files, Ends
    <2>7. response \in BOOLEAN /\ failed \in BOOLEAN /\ lost \in BOOLEAN
      BY DEF Init
    <2>8. lacking = {} /\ sent = {} /\ queued = {} /\ accepted = {} /\ answer = NoAnswer
      BY DEF Init
    <2>9. source \in Sources /\ at = "connect"
      BY DEF Init
    <2> HIDE DEF Init
    <2> QED BY <2>2, <2>3, <2>4, <2>5, <2>6, <2>7, <2>8, <2>9 DEF TypeOK
  <1>2. Judging /\ Judged /\ Delivered
    BY EvaluationAssumption DEF Init, Judging, Judged, Delivered, Early, Late
  <1>3. Traced /\ Promises
    BY DEF Init, Traced, Promises, OnceForEachKey, NoVerdictWithoutEvidence, ToldIsRecorded,
           UndeliveredIsFiled, StageFilesAreBare
  <1> QED BY <1>1, <1>2, <1>3 DEF IInv

\* The steps before the judge is asked.
LEMMA ConnectStep ==
  ASSUME IInv, Connect \/ Refuse
  PROVE  IInv'
  <1>1. TypeOK'
    BY DEF IInv, TypeOK, Connect, Refuse, EndWith, judging, tracing, Ends
  <1>2. Judging' /\ Judged' /\ Delivered'
    BY DEF IInv, TypeOK, Judging, Judged, Delivered, Early, Late, Scored,
           Connect, Refuse, EndWith, judging, tracing
  <1>3. Traced'
    BY DEF IInv, Traced, Connect, Refuse, EndWith, judging, tracing
  <1>4. Promises'
    BY DEF IInv, TypeOK, Promises, Judging, Delivered, Early, OnceForEachKey, NoVerdictWithoutEvidence, ToldIsRecorded,
           UndeliveredIsFiled, StageFilesAreBare, Private, Connect, Refuse, EndWith, judging, tracing
  <1> QED BY <1>1, <1>2, <1>3, <1>4 DEF IInv

LEMMA ReadStep ==
  ASSUME IInv, NEW e \in Lists, NEW l \in SUBSET Keys, NEW m \in Answers, ReadInputs(e, l, m)
  PROVE  IInv'
  <1>1. TypeOK'
    BY DEF IInv, TypeOK, ReadInputs, tracing, Lists
  <1>2. Judging'
    BY EvaluationAssumption DEF IInv, TypeOK, Judging, Early, ReadInputs
  <1>3. Judged' /\ Delivered'
    BY DEF IInv, TypeOK, Judged, Delivered, Early, Late, Scored, Judging, ReadInputs
  <1>4. Traced'
    BY DEF IInv, Traced, ReadInputs, tracing
  <1>5. Promises'
    BY DEF IInv, TypeOK, Promises, Judging, Delivered, Early, OnceForEachKey, NoVerdictWithoutEvidence, ToldIsRecorded,
           UndeliveredIsFiled, StageFilesAreBare, Private, ReadInputs
  <1> QED BY <1>1, <1>2, <1>3, <1>4, <1>5 DEF IInv

LEMMA NothingToAskStep ==
  ASSUME IInv, NothingToAsk
  PROVE  IInv'
  <1>1. TypeOK'
    BY EvaluationAssumption DEF IInv, TypeOK, NothingToAsk, Spans
  <1>2. Judging' /\ Judged' /\ Delivered'
    BY EvaluationAssumption DEF IInv, TypeOK, Judging, Judged, Delivered, Early, Late, Scored, NothingToAsk
  <1>3. Traced'
    BY DEF IInv, TypeOK, Traced, Judging, NothingToAsk
  <1>4. Promises'
    BY DEF IInv, TypeOK, Promises, Judging, Delivered, Early, OnceForEachKey, NoVerdictWithoutEvidence, ToldIsRecorded,
           UndeliveredIsFiled, StageFilesAreBare, Private, NothingToAsk, IsInjective
  <1> QED BY <1>1, <1>2, <1>3, <1>4 DEF IInv

LEMMA InputsFailStep ==
  ASSUME IInv, InputsFail
  PROVE  IInv'
  <1>1. TypeOK'
    BY EvaluationAssumption DEF IInv, TypeOK, InputsFail, Fail, Spans
  <1>2. Judging' /\ Delivered'
    BY DEF IInv, TypeOK, Judging, Delivered, Early, Scored, InputsFail, Fail
  <1>5. Judged'
    <2>1. failed' = TRUE /\ answer' = NoAnswer /\ attempt' = 0
      BY DEF IInv, Judging, Early, InputsFail, Fail
    <2>2. ~(attempt' > 1)
      BY <2>1
    <2> QED BY <2>1, <2>2 DEF Judged
  <1>3. Traced'
    BY DEF IInv, TypeOK, Traced, Judging, InputsFail, Fail
  <1>4. Promises'
    BY DEF IInv, TypeOK, Promises, Judging, Delivered, Early, OnceForEachKey, NoVerdictWithoutEvidence, ToldIsRecorded,
           UndeliveredIsFiled, StageFilesAreBare, Private, InputsFail, Fail
  <1> QED BY <1>1, <1>2, <1>3, <1>4, <1>5 DEF IInv

-----------------------------------------------------------------------------
\* The judge lists a verdict for every key, and none without evidence.
LEMMA ResultFacts ==
  ASSUME IInv, at = "judge", NEW r \in Replies
  PROVE  /\ Result(r) \in Answers
         /\ \A k \in lacking : Result(r)[k] = "null"
  <1> DEFINE D == Range(asked) \cup DOMAIN measured
  <1>1. PICK K \in SUBSET Keys : measured \in [K -> Verdicts]
    BY DEF IInv, TypeOK, Answers
  <1>2. D \in SUBSET Keys
    <2>1. Range(asked) \subseteq Keys
      BY DEF IInv, TypeOK, Range
    <2> QED BY <1>1, <2>1
  <1>3. Result(r) \in [D -> Verdicts]
    BY <1>1, <1>2 DEF Result, Replies, Verdicts
  <1>4. ASSUME NEW k \in lacking PROVE Result(r)[k] = "null"
    BY DEF IInv, Judging, Result
  <1> QED BY <1>2, <1>3, <1>4 DEF Answers

\* A call is one more span, and one attempt more.
LEMMA CallFacts ==
  ASSUME IInv, Call
  PROVE  /\ attempt' \in 0..MaxAttempts
         /\ attempt + 1 \in Spans /\ 0 \in Spans
         /\ 1..attempt' \subseteq (1..attempt) \cup {attempt + 1}
  BY EvaluationAssumption DEF IInv, TypeOK, Judging, Call, Spans

LEMMA AcceptedStep ==
  ASSUME IInv, NEW r \in Replies, ReplyAccepted(r)
  PROVE  IInv'
  <1>1. Result(r) \in Answers /\ (\A k \in lacking : Result(r)[k] = "null") /\ answer' = Result(r)
    BY ResultFacts DEF ReplyAccepted, Call
  <1>2. /\ attempt' \in 0..MaxAttempts
        /\ attempt + 1 \in Spans /\ 0 \in Spans
        /\ 1..attempt' \subseteq (1..attempt) \cup {attempt + 1}
    BY CallFacts DEF ReplyAccepted
  <1>3. TypeOK'
    BY <1>1, <1>2, ListsAreSequences DEF IInv, TypeOK, ReplyAccepted, Call, Replies
  <1>4. Judging' /\ Judged' /\ Delivered'
    BY <1>1, EvaluationAssumption
    DEF IInv, TypeOK, Judging, Judged, Delivered, Early, Late, Scored, ReplyAccepted, Call
  <1>5. Traced'
    BY <1>2 DEF IInv, TypeOK, Traced, ReplyAccepted, Call
  <1>6. OnceForEachKey'
    <2>1. /\ asked' = asked /\ rows' = r.rows /\ rows' \in Seq(Keys) /\ asked \in Seq(Keys)
          /\ Len(r.rows) = Len(asked) /\ Range(r.rows) = Range(asked)
      BY <1>3 DEF ReplyAccepted, Call, Sound, Complete, IInv, TypeOK
    <2> QED BY <2>1, SameLength DEF OnceForEachKey
  <1>7. Promises'
    BY <1>1, <1>6 DEF IInv, TypeOK, Promises, Judging, Delivered, Early, NoVerdictWithoutEvidence, ToldIsRecorded,
           UndeliveredIsFiled, StageFilesAreBare, Private, ReplyAccepted, Call
  <1> QED BY <1>3, <1>4, <1>5, <1>6, <1>7 DEF IInv

LEMMA AgainStep ==
  ASSUME IInv, NEW r \in Replies, ReplyAgain(r)
  PROVE  IInv'
  <1>2. /\ attempt' \in 0..MaxAttempts
        /\ attempt + 1 \in Spans /\ 0 \in Spans
        /\ 1..attempt' \subseteq (1..attempt) \cup {attempt + 1}
    BY CallFacts DEF ReplyAgain
  <1>3. TypeOK'
    BY <1>2 DEF IInv, TypeOK, ReplyAgain, Call
  <1>4. Judging' /\ Judged' /\ Delivered'
    BY EvaluationAssumption
    DEF IInv, TypeOK, Judging, Judged, Delivered, Early, Late, Scored, ReplyAgain, Call, MayAskAgain
  <1>5. Traced'
    BY <1>2 DEF IInv, TypeOK, Traced, ReplyAgain, Call
  <1>6. Promises'
    BY DEF IInv, TypeOK, Promises, Judging, Delivered, Early, OnceForEachKey, NoVerdictWithoutEvidence, ToldIsRecorded,
           UndeliveredIsFiled, StageFilesAreBare, Private, ReplyAgain, Call
  <1> QED BY <1>3, <1>4, <1>5, <1>6 DEF IInv

\* A failed call has a reply of before to show for it, unless it is the first.
LEMMA FailingStep ==
  ASSUME IInv, CallFails \/ \E r \in Replies : ReplyRejected(r)
  PROVE  IInv'
  <1>1. /\ Call /\ Fail /\ queued' = queued \cup {attempt + 1, 0}
        /\ response' = TRUE \/ response' = response
    BY DEF CallFails, ReplyRejected
  <1>2. /\ attempt' \in 0..MaxAttempts
        /\ attempt + 1 \in Spans /\ 0 \in Spans
        /\ 1..attempt' \subseteq (1..attempt) \cup {attempt + 1}
    BY <1>1, CallFacts
  <1>3. TypeOK'
    BY <1>1, <1>2 DEF IInv, TypeOK, Call, Fail
  <1>4. Judging' /\ Delivered'
    BY <1>1 DEF IInv, TypeOK, Judging, Delivered, Early, Scored, Call, Fail
  <1>5. Judged'
    <2>1. failed' = TRUE /\ answer' = NoAnswer
      BY <1>1 DEF IInv, Judging, Early, Call, Fail
    <2>2. attempt' > 1 => response'
      BY <1>1 DEF IInv, TypeOK, Judging, Call
    <2> QED BY <2>1, <2>2 DEF Judged
  <1>6. Traced'
    BY <1>1, <1>2 DEF IInv, TypeOK, Traced, Call, Fail
  <1>7. Promises'
    BY <1>1 DEF IInv, TypeOK, Promises, Judging, Delivered, Early, OnceForEachKey, NoVerdictWithoutEvidence, ToldIsRecorded,
           UndeliveredIsFiled, StageFilesAreBare, Private, Call, Fail
  <1> QED BY <1>3, <1>4, <1>5, <1>6, <1>7 DEF IInv

-----------------------------------------------------------------------------
\* Batches leave the queue in any order; one that fails is remembered.
LEMMA ExportStep ==
  ASSUME IInv, NEW S \in SUBSET Spans, NEW ok \in BOOLEAN, ExportInBackground(S, ok)
  PROVE  IInv'
  <1>1. lost' \in BOOLEAN /\ (~lost' => ~lost /\ ok)
    BY DEF IInv, TypeOK, ExportInBackground, Export, Latch
  <1>2. accepted \subseteq accepted' /\ accepted' \subseteq Spans
    BY DEF IInv, TypeOK, ExportInBackground, Export
  <1>3. TypeOK'
    BY <1>1, <1>2 DEF IInv, TypeOK, ExportInBackground, Export, judging
  <1>4. Judging' /\ Judged' /\ Delivered'
    BY DEF IInv, Judging, Judged, Delivered, Early, Late, Scored, ExportInBackground, judging
  <1>5. Traced'
    <2>1. UNCHANGED <<at, attempt>>
      BY DEF ExportInBackground, judging
    <2>2. ok => accepted' \cup queued' = accepted \cup queued
      BY DEF ExportInBackground, Export
    <2> QED BY <1>1, <1>2, <2>1, <2>2 DEF IInv, Traced, WholeTrace
  <1>6. Promises'
    BY DEF IInv, TypeOK, Promises, OnceForEachKey, NoVerdictWithoutEvidence, ToldIsRecorded,
           UndeliveredIsFiled, StageFilesAreBare, Private, ExportInBackground, judging
  <1> QED BY <1>3, <1>4, <1>5, <1>6 DEF IInv

\* Nothing is queued: without a loss the trace is whole.
LEMMA FlushStep ==
  ASSUME IInv, Flush
  PROVE  IInv'
  <1>1. at' \in {"file", "scores"} /\ (at' = "scores" => ~lost)
    BY DEF Flush
  <1>2. TypeOK'
    BY <1>1 DEF IInv, TypeOK, Flush, judging, tracing
  <1>3. Judging' /\ Judged' /\ Delivered'
    BY <1>1 DEF IInv, Judging, Judged, Delivered, Early, Late, Scored, Flush, judging
  <1>4. Traced'
    <2>1. 0..attempt = (1..attempt) \cup {0}
      BY DEF IInv, TypeOK
    <2> QED BY <1>1, <2>1 DEF IInv, Traced, WholeTrace, Flush, judging, tracing
  <1>5. Promises'
    BY <1>1 DEF IInv, TypeOK, Promises, OnceForEachKey, NoVerdictWithoutEvidence, ToldIsRecorded,
           UndeliveredIsFiled, StageFilesAreBare, Private, Flush, judging
  <1> QED BY <1>2, <1>3, <1>4, <1>5 DEF IInv

LEMMA ScoresStep ==
  ASSUME IInv, NothingToScore \/ \E S \in SUBSET Keys : SendScores(S)
  PROVE  IInv'
  <1>1. /\ at = "scores" /\ at' \in {"report", "file"}
        /\ UNCHANGED <<source, judging, tracing, file, end>>
        /\ sent' \subseteq Scored /\ (at' = "report" => sent' = Scored)
    <2>1. CASE NothingToScore
      BY <2>1 DEF IInv, Delivered, NothingToScore
    <2>2. CASE \E S \in SUBSET Keys : SendScores(S)
      BY <2>2 DEF SendScores, Receipt
    <2> QED BY <2>1, <2>2
  <1>2. UNCHANGED <<source, asked, lacking, measured, attempt, response, answer, rows, failed,
                    queued, accepted, lost, file, end>>
    BY <1>1 DEF judging, tracing
  <1>3. Scored \subseteq Keys
    BY DEF IInv, TypeOK, Scored, Answers
  <1>4. TypeOK'
    BY <1>1, <1>2, <1>3 DEF IInv, TypeOK
  <1>5. Judging' /\ Judged' /\ Delivered'
    BY <1>1, <1>2 DEF IInv, Judging, Judged, Delivered, Early, Late, Scored
  <1>6. Traced'
    BY <1>1, <1>2 DEF IInv, Traced, WholeTrace
  <1>7. Promises'
    <2>1. NoVerdictWithoutEvidence'
      BY <1>1, <1>2 DEF IInv, Promises, NoVerdictWithoutEvidence, Scored
    <2> QED BY <1>1, <1>2, <2>1 DEF IInv, TypeOK, Promises, OnceForEachKey, ToldIsRecorded,
               UndeliveredIsFiled, StageFilesAreBare, Private
  <1> QED BY <1>4, <1>5, <1>6, <1>7 DEF IInv

LEMMA FileStep ==
  ASSUME IInv, WriteFile \/ FileFails
  PROVE  IInv'
  <1>1. /\ at = "file" /\ at' = "over"
        /\ end' \in {"undelivered", "unfiled"}
        /\ end' = "undelivered" => file' = Undelivered
        /\ file' \in {file, Undelivered}
        /\ UNCHANGED <<source, judging, tracing, sent>>
    BY DEF WriteFile, FileFails, EndWith
  <1>2. UNCHANGED <<source, asked, lacking, measured, attempt, response, answer, rows, failed,
                    queued, accepted, lost, sent>>
    BY <1>1 DEF judging, tracing
  <1>3. Undelivered \in Files /\ file \in Files /\ file = NoFile
    <2>1. answer \in Answers \cup {NoAnswer} /\ response \in BOOLEAN
      BY DEF IInv, TypeOK
    <2>2. Bare \in Files /\ [answer |-> answer, response |-> response] \in Files
      BY <2>1 DEF Files, Bare
    <2>3. Undelivered \in Files
      BY <2>2 DEF Undelivered
    <2> QED BY <1>1, <2>3 DEF IInv, TypeOK, Delivered
  <1>4. TypeOK'
    BY <1>1, <1>2, <1>3 DEF IInv, TypeOK, Ends
  <1>5. Judging' /\ Judged' /\ Delivered' /\ Traced'
    BY <1>1, <1>2 DEF IInv, Judging, Judged, Delivered, Early, Late, Scored, Traced
  <1>6. OnceForEachKey' /\ NoVerdictWithoutEvidence' /\ ToldIsRecorded'
    BY <1>1, <1>2 DEF IInv, Promises, OnceForEachKey, NoVerdictWithoutEvidence, ToldIsRecorded
  <1>7. UndeliveredIsFiled'
    <2> SUFFICES ASSUME end' = "undelivered", ~Private'
                 PROVE  file' # NoFile /\ file'.answer = answer' /\ (failed' /\ attempt' > 1 => file'.response)
      BY DEF UndeliveredIsFiled
    <2>1. file' = [answer |-> answer, response |-> response]
      BY <1>1, <1>2 DEF Undelivered, Private
    <2>2. failed /\ attempt > 1 => response
      BY <1>1 DEF IInv, Judged, Late
    <2>3. file'.answer = answer /\ file'.response = response
      BY <2>1
    <2>4. file' # NoFile
      BY <2>1, EvaluationAssumption DEF IInv, TypeOK
    <2> QED BY <1>2, <2>2, <2>3, <2>4
  <1>8. StageFilesAreBare'
    BY <1>1, <1>2, <1>3 DEF StageFilesAreBare, Undelivered, Private
  <1> QED BY <1>4, <1>5, <1>6, <1>7, <1>8 DEF IInv, Promises

LEMMA ReportStep ==
  ASSUME IInv, ReportError \/ Report
  PROVE  IInv'
  <1>1. /\ at = "report" /\ at' = "over"
        /\ end' \in {"in_error", "returned", "untold"}
        /\ failed <=> end' = "in_error"
        /\ UNCHANGED <<source, judging, tracing, sent, file>>
    BY DEF ReportError, Report, EndWith
  <1>2. UNCHANGED <<source, asked, lacking, measured, attempt, response, answer, rows, failed,
                    queued, accepted, lost, sent, file>>
    BY <1>1 DEF judging, tracing
  <1>3. TypeOK'
    BY <1>1, <1>2 DEF IInv, TypeOK, Ends
  <1>4. Judging' /\ Judged' /\ Delivered' /\ Traced'
    BY <1>1, <1>2 DEF IInv, Judging, Judged, Delivered, Early, Late, Scored, Traced
  <1>5. OnceForEachKey' /\ NoVerdictWithoutEvidence' /\ UndeliveredIsFiled' /\ StageFilesAreBare'
    BY <1>1, <1>2 DEF IInv, Promises, Delivered, OnceForEachKey, NoVerdictWithoutEvidence, UndeliveredIsFiled,
                      StageFilesAreBare, Private
  <1>6. ToldIsRecorded'
    <2>1. WholeTrace /\ sent = Scored /\ file = NoFile /\ failed = (answer = NoAnswer)
      BY <1>1 DEF IInv, Traced, Delivered, Judged, Late
    <2>2. failed' = (end' = "in_error")
      BY <1>1, <1>2 DEF IInv, TypeOK
    <2> QED BY <1>2, <2>1, <2>2 DEF ToldIsRecorded, WholeTrace, Scored
  <1> QED BY <1>3, <1>4, <1>5, <1>6 DEF IInv, Promises

LEMMA KillStep ==
  ASSUME IInv, Kill
  PROVE  IInv'
  <1>1. TypeOK'
    BY DEF IInv, TypeOK, Kill, EndWith, judging, tracing, Ends
  <1>2. Judging' /\ Judged' /\ Delivered' /\ Traced'
    BY DEF IInv, Judging, Judged, Delivered, Early, Late, Scored, Traced, Kill, EndWith, judging, tracing
  <1>3. Promises'
    BY DEF IInv, Promises, Delivered, OnceForEachKey, NoVerdictWithoutEvidence, ToldIsRecorded, UndeliveredIsFiled,
           StageFilesAreBare, Private, Kill, EndWith, judging, tracing
  <1> QED BY <1>1, <1>2, <1>3 DEF IInv

LEMMA StutterStep ==
  ASSUME IInv, UNCHANGED vars
  PROVE  IInv'
  <1>1. TypeOK' /\ Judging' /\ Judged' /\ Delivered'
    BY DEF IInv, TypeOK, Judging, Judged, Delivered, Early, Late, Scored, vars, judging, tracing
  <1>2. Traced' /\ Promises'
    BY DEF IInv, Traced, WholeTrace, Scored, Promises, OnceForEachKey, NoVerdictWithoutEvidence, ToldIsRecorded, UndeliveredIsFiled,
           StageFilesAreBare, Private, vars, judging, tracing
  <1> QED BY <1>1, <1>2 DEF IInv

LEMMA Inductive == IInv /\ [Next]_vars => IInv'
  <1> SUFFICES ASSUME IInv, [Next]_vars PROVE IInv'
    OBVIOUS
  <1>1. CASE Connect \/ Refuse
    BY <1>1, ConnectStep
  <1>2. CASE Judge
    <2>1. CASE \E e \in Lists, l \in SUBSET Keys, m \in Answers : ReadInputs(e, l, m)
      BY <2>1, ReadStep
    <2>2. CASE NothingToAsk
      BY <2>2, NothingToAskStep
    <2>3. CASE InputsFail
      BY <2>3, InputsFailStep
    <2>4. CASE CallFails \/ \E r \in Replies : ReplyRejected(r)
      BY <2>4, FailingStep
    <2>5. CASE \E r \in Replies : ReplyAccepted(r)
      BY <2>5, AcceptedStep
    <2>6. CASE \E r \in Replies : ReplyAgain(r)
      BY <2>6, AgainStep
    <2> QED BY <1>2, <2>1, <2>2, <2>3, <2>4, <2>5, <2>6 DEF Judge
  <1>3. CASE Deliver
    <2>1. CASE \E S \in SUBSET Spans, ok \in BOOLEAN : ExportInBackground(S, ok)
      BY <2>1, ExportStep
    <2>2. CASE Flush
      BY <2>2, FlushStep
    <2>3. CASE NothingToScore \/ \E S \in SUBSET Keys : SendScores(S)
      BY <2>3, ScoresStep
    <2>4. CASE WriteFile \/ FileFails
      BY <2>4, FileStep
    <2>5. CASE ReportError \/ Report
      BY <2>5, ReportStep
    <2> QED BY <1>3, <2>1, <2>2, <2>3, <2>4, <2>5 DEF Deliver
  <1>4. CASE Kill
    BY <1>4, KillStep
  <1>5. CASE Terminated \/ UNCHANGED vars
    BY <1>5, StutterStep DEF Terminated
  <1> QED BY <1>1, <1>2, <1>3, <1>4, <1>5 DEF Next

\* The inductive invariant holds of every evaluation.
THEOREM Invariance == Spec => []IInv
  BY InitIInv, Inductive, PTL DEF Spec

\* TypeOK: an evaluation stays well typed, its attempts within their bound.
THEOREM TypeCorrect == Spec => []TypeOK
  <1>1. IInv => TypeOK
    BY DEF IInv
  <1> QED BY <1>1, Invariance, PTL

\* EndIsHonest: how run ends says truly where the answer is to be found.
THEOREM EndsAreHonest == Spec => []EndIsHonest
  <1>1. IInv => EndIsHonest
    BY DEF IInv, Promises, EndIsHonest
  <1> QED BY <1>1, Invariance, PTL

\* ResultIsSound: each verdict was asked for and given once, and stands on evidence.
THEOREM ResultsAreSound == Spec => []ResultIsSound
  <1>1. IInv => ResultIsSound
    BY DEF IInv, Promises, ResultIsSound
  <1> QED BY <1>1, Invariance, PTL

-----------------------------------------------------------------------------
\* A run that goes on answers, once, or does nothing its caller could see:
\* nothing is on record before the end.
LEMMA GoingOn ==
  ASSUME IInv, IInv', source' = source, end = "running", end' = "running",
         answer' = answer \/ (answer = NoAnswer /\ answer' \in Answers)
  PROVE  [Promise!Next]_(Promise!vars)
  <1>1. Kept = {} /\ Kept' = {} /\ Private' = Private
    BY DEF IInv, TypeOK, Delivered, Kept, Private
  <1>2. CASE answer' = answer
    BY <1>1, <1>2 DEF Promise!vars
  <1>3. CASE answer = NoAnswer /\ answer' \in Answers
    <2>1. Promise!Answer(answer')
      BY <1>1, <1>3 DEF Promise!Answer
    <2> QED BY <2>1, <1>3 DEF Promise!Next
  <1> QED BY <1>2, <1>3

\* An end keeps its word.
LEMMA Ending ==
  ASSUME IInv, IInv', source' = source, end = "running", end' # "running", answer' = answer,
         end' = "refused" => answer = NoAnswer
  PROVE  [Promise!Next]_(Promise!vars)
  <1>1. Kept = {} /\ Private' = Private /\ end' \in Promise!Ends
    BY DEF IInv, TypeOK, Delivered, Kept, Private, Ends, Promise!Ends
  <1>2. Kept' \in SUBSET Promise!Places
    BY DEF Kept, Promise!Places
  <1>3. Private => "file" \notin Kept'
    <2>1. Private => file' \in {NoFile, Bare}
      BY <1>1 DEF IInv, Promises, StageFilesAreBare
    <2> QED BY <2>1 DEF Kept, Bare
  <1>4. end' = "in_error" => answer = NoAnswer
    BY DEF IInv, Promises, ToldIsRecorded
  <1>5. ASSUME end' \in {"returned", "untold"} PROVE answer # NoAnswer /\ "langfuse" \in Kept'
    <2>1. WholeTrace' /\ (sent = Scored)' /\ failed' = (answer' = NoAnswer) /\ failed' = FALSE
      BY <1>5 DEF IInv, Promises, ToldIsRecorded
    <2>2. answer' # NoAnswer
      BY <2>1
    <2> QED BY <2>1, <2>2, <1>5 DEF Kept
  <1>6. ASSUME end' = "undelivered", answer # NoAnswer, ~Private PROVE "file" \in Kept'
    <2>1. file' # NoFile /\ file'.answer = answer'
      BY <1>6, <1>1 DEF IInv, Promises, UndeliveredIsFiled
    <2> QED BY <2>1, <1>6 DEF Kept
  <1>7. Promise!Promised(end', Kept')
    <2> HIDE DEF Kept
    <2> QED BY <1>3, <1>4, <1>5, <1>6 DEF Promise!Promised
  <1>8. Promise!End(end', Kept')
    BY <1>1, <1>7 DEF Promise!End
  <1> QED BY <1>1, <1>2, <1>8 DEF Promise!Next

LEMMA Simulation == IInv /\ IInv' /\ [Next]_vars => [Promise!Next]_(Promise!vars)
  <1> SUFFICES ASSUME IInv, IInv', [Next]_vars PROVE [Promise!Next]_(Promise!vars)
    OBVIOUS
  <1>1. CASE Refuse
    <2>1. source' = source /\ end = "running" /\ end' # "running" /\ answer' = answer /\ answer = NoAnswer
      BY <1>1 DEF IInv, TypeOK, Judging, Early, Refuse, EndWith, judging
    <2> QED BY <2>1, Ending
  <1>2. CASE Connect \/ Judge
    <2>1. end = "running" /\ end' = end /\ source' = source
      BY <1>2 DEF IInv, TypeOK, Connect, Judge, ReadInputs, NothingToAsk, InputsFail, CallFails, Call,
                  ReplyAccepted, ReplyAgain, ReplyRejected
    <2>2. answer = NoAnswer /\ answer' \in Answers \cup {NoAnswer}
      BY <1>2 DEF IInv, TypeOK, Judging, Early, Connect, Judge, ReadInputs, NothingToAsk, InputsFail,
                  CallFails, Call, ReplyAccepted, ReplyAgain, ReplyRejected
    <2> QED BY <2>1, <2>2, GoingOn
  <1>3. CASE Deliver
    <2>1. source' = source /\ answer' = answer /\ end = "running" /\ end' # "refused"
      BY <1>3 DEF IInv, TypeOK, Deliver, ExportInBackground, Flush, NothingToScore, SendScores,
                  WriteFile, FileFails, ReportError, Report, EndWith, judging
    <2> QED BY <2>1, GoingOn, Ending
  <1>4. CASE Kill
    <2>1. source' = source /\ answer' = answer /\ end = "running" /\ end' = "killed"
      BY <1>4 DEF IInv, TypeOK, Kill, EndWith, judging
    <2> QED BY <2>1, Ending
  <1>5. CASE Terminated \/ UNCHANGED vars
    <2>1. UNCHANGED <<Private, answer, Kept, end>>
      BY <1>5 DEF Terminated, vars, judging, tracing, Private, Kept, WholeTrace, Scored
    <2> QED BY <2>1 DEF Promise!vars
  <1> QED BY <1>1, <1>2, <1>3, <1>4, <1>5 DEF Next

\* KeepsPromise: every evaluation is one of EvaluationPromise, for any keys,
\* any number of attempts, and whatever of the delivery fails.
THEOREM Refinement == Spec => KeepsPromise
  <1>1. Init => Promise!Init
    BY DEF Init, Kept, Private, Promise!Init
  <1> QED BY <1>1, Invariance, Simulation, PTL DEF Spec, KeepsPromise, Promise!Spec
=============================================================================
