------------------------ MODULE ResearchSessionProofs ------------------------
(***************************************************************************)
(* Proofs about ResearchSession for every value of its constants.          *)
(***************************************************************************)
EXTENDS ResearchSession, FiniteSetTheorems, TLAPS

Typed == TypeOK /\ PlanningBound

LEMMA InitTyped == Init => Typed
BY SessionAssumption DEF Init, Typed, TypeOK, PlanningBound

LEMMA CallStepTyped ==
  ASSUME Typed, NEW i \in DOMAIN batch, CallStep(i)
  PROVE  Typed'
<1> USE DEF Typed, TypeOK, PlanningBound, loopVars, queryVars, docVars, batchVars, Moves
<1>0. batch[i] \in Calls
  OBVIOUS
<1>1. CASE Refuse(i)
  BY <1>1 DEF Refuse
<1>2. CASE Search(i)
  BY <1>0, <1>2 DEF Search, Calls
<1>3. CASE Requery(i)
  BY <1>0, <1>3, SessionAssumption DEF Requery, MayRequery, Calls
<1>4. CASE SearchReturns(i)
  BY <1>4 DEF SearchReturns, Unreturned
<1>5. CASE SearchFails(i)
  BY <1>5 DEF SearchFails, Unreturned
<1>6. CASE Fetch(i)
  BY <1>0, <1>6 DEF Fetch, Calls
<1>7. ASSUME NEW u \in Urls, NEW page \in BOOLEAN, FetchUrl(i, u, page)
      PROVE  Typed'
  BY <1>7 DEF FetchUrl
<1>8. ASSUME NEW fits \in BOOLEAN, Keep(i, fits)
      PROVE  Typed'
  BY <1>0, <1>8 DEF Keep, Calls
<1>9. QED
  BY <1>1, <1>2, <1>3, <1>4, <1>5, <1>6, <1>7, <1>8 DEF CallStep

\* What a phase records are URLs again, whichever answer it takes.
LEMMA RecordTyped ==
  ASSUME TypeOK, RecordResults
  PROVE  /\ results' \in [Queries -> SUBSET Urls]
         /\ docs' \in [Queries -> SUBSET Urls]
         /\ pending' \in SUBSET Urls
<1>1. \A q \in Queries : Recorded(q) \in SUBSET Urls
  BY DEF Recorded, Answered, LastAnswer, TypeOK
<1>2. \A q \in Queries : NewDocs(q) \in SUBSET Urls
  BY DEF NewDocs, Answered, TypeOK
<1>3. QED
  BY <1>1, <1>2 DEF RecordResults, TypeOK

LEMMA StepTyped ==
  ASSUME Typed, [Next]_vars
  PROVE  Typed'
<1> USE DEF Typed
<1>1. CASE PlanAccepted \/ PlanInvalid \/ InvocationFails
  BY <1>1, SessionAssumption
  DEF PlanAccepted, PlanInvalid, InvocationFails, Invoke, StepsLeft, TypeOK,
      PlanningBound, loopVars, queryVars, docVars, batchVars, threadVars
<1>2. CASE ReplyWithoutCalls \/ OutOfSteps
  BY <1>2, SessionAssumption
  DEF ReplyWithoutCalls, OutOfSteps, Report, Invoke, StepsLeft, TypeOK,
      PlanningBound, queryVars, batchVars, threadVars
<1>3. ASSUME NEW b \in Batches, ReplyWithCalls(b)
      PROVE  Typed'
  BY <1>3, SessionAssumption
  DEF ReplyWithCalls, TakePending, Invoke, StepsLeft, Available, TypeOK,
      PlanningBound, queryVars
<1>4. CASE \E i \in DOMAIN batch : CallStep(i)
  BY <1>4, CallStepTyped
<1>5. CASE NextPhase
  BY <1>5, RecordTyped DEF NextPhase, TypeOK, PlanningBound, loopVars, threadVars
<1>6. CASE FinishBatch
  <2>1. batch' = <<>> /\ status' = <<>> /\ found' = <<>> /\ waiting' = <<>>
        /\ fetched' = <<>>
    BY <1>6 DEF FinishBatch
  <2>2. batch' \in Seq(Calls) /\ DOMAIN batch' = {}
    BY <2>1
  <2>3. /\ status' \in [DOMAIN batch' -> {"ready", "away", "answered", "refused"}]
        /\ found' \in [DOMAIN batch' -> SUBSET Urls]
        /\ waiting' \in [DOMAIN batch' -> SUBSET Urls]
        /\ fetched' \in [DOMAIN batch' -> SUBSET Urls]
    BY <2>1
  <2>4. QED
    BY <1>6, <2>2, <2>3, RecordTyped DEF FinishBatch, TypeOK, PlanningBound
<1>7. CASE UNCHANGED vars
  BY <1>7 DEF vars, TypeOK, PlanningBound, loopVars, queryVars, docVars, batchVars,
              threadVars
<1>8. QED
  BY <1>1, <1>2, <1>3, <1>4, <1>5, <1>6, <1>7 DEF Next, Terminated

\* Types, and the budget of MAX_AGENT_STEPS invocations that the retry of the
\* planning call and every reply of the model draw on, hold in every state.
THEOREM TypeCorrect == Spec => []TypeOK
<1>1. Typed /\ [Next]_vars => Typed'
  BY StepTyped
<1>2. QED
  BY InitTyped, <1>1, PTL DEF Spec, Typed

-----------------------------------------------------------------------------
(* Facts about what a query holds                                          *)

LEMMA DisjointCardinality ==
  ASSUME NEW A, NEW B, IsFiniteSet(A), IsFiniteSet(B), A \cap B = {}
  PROVE  Cardinality(A \cup B) = Cardinality(A) + Cardinality(B)
<1>1. Cardinality(A \cup B) = Cardinality(A) + Cardinality(B) - Cardinality(A \cap B)
  BY FS_Union
<1>2. Cardinality(A) \in Nat /\ Cardinality(B) \in Nat /\ Cardinality(A \cap B) = 0
  BY FS_CardinalityType, FS_EmptySet
<1>3. QED
  BY <1>1, <1>2

LEMMA InOffered ==
  ASSUME NEW q \in Queries, NEW u
  PROVE  u \in Offered(q) <=>
           \/ u \in results[q]
           \/ \E i \in DOMAIN batch : Running(i) /\ batch[i].query = q /\ u \in found[i]
BY DEF Offered

LEMMA Idle ==
  ASSUME mode # "executing", NEW q \in Queries
  PROVE  Offered(q) = results[q] /\ Collected(q) = docs[q]
BY DEF Offered, Collected, Running

LEMMA PhaseTools ==
  /\ PhaseTool[1] = "search" /\ PhaseTool[2] = "fetch"
  /\ PhaseTool[3] = "keep" /\ PhaseTool[4] = "requery"
BY DEF PhaseTool

\* The calls under way are of the tool of the phase, and of no other.
LEMMA PhaseOfRunning ==
  ASSUME TypeOK, NEW i \in DOMAIN batch, Running(i)
  PROVE  /\ batch[i].tool = "search" <=> phase = 1
         /\ batch[i].tool = "fetch" <=> phase = 2
         /\ batch[i].tool = "keep" <=> phase = 3
         /\ batch[i].tool = "requery" <=> phase = 4
<1>1. phase \in {1, 2, 3, 4}
  BY DEF TypeOK
<1>2. QED
  BY <1>1, PhaseTools DEF Running

\* A requery begins in the last phase only.
LEMMA RequeryIsLast ==
  ASSUME TypeOK, CallShape, phase < 4, NEW i \in DOMAIN batch,
         batch[i].tool = "requery"
  PROVE  status[i] = "ready"
<1>1. \A k \in 1..phase : k \in {1, 2, 3}
  BY DEF TypeOK
<1>2. QED
  BY <1>1, PhaseTools DEF CallShape

-----------------------------------------------------------------------------
(* The steps of a call preserve the inductive invariant                    *)

LEMMA InitIInv == Init => IInv
<1> SUFFICES ASSUME Init PROVE IInv
  OBVIOUS
<1>1. \A q \in Queries : Offered(q) = {}
  BY DEF Init, Offered, Running
<1>2. Cardinality({}) = 0
  BY FS_EmptySet
<1>3. DOMAIN batch = {}
  BY DEF Init
<1>4. FetchRound
  BY <1>2, SessionAssumption DEF Init, FetchRound
<1>5. QED
  BY <1>1, <1>3, <1>4, InitTyped
  DEF Init, IInv, Typed, CallShape, HeldWasReturned, PagesWereSelected, KeptAreDocuments, OneOwner, FetchedOnce,
      RequeryOnlyWhileShort, FetchPending, VerdictsOnDocuments,
      EveryDocumentJudged, SearchedOnce, Documents

LEMMA CallOfQuery ==
  ASSUME TypeOK, NEW i \in DOMAIN batch
  PROVE  batch[i] \in Calls /\ batch[i].query \in Queries /\ batch[i].urls \in SUBSET Urls
<1>1. batch[i] \in Calls
  BY DEF TypeOK
<1>2. QED
  BY <1>1 DEF Calls

\* A call that begins, or changes its status, is one of a phase already begun.
LEMMA RunningHasBegun ==
  ASSUME TypeOK, NEW i \in DOMAIN batch, Running(i)
  PROVE  \E k \in 1..phase : batch[i].tool = PhaseTool[k]
BY DEF TypeOK, Running

LEMMA RefuseStep ==
  ASSUME IInv, NEW i \in DOMAIN batch, Refuse(i)
  PROVE  IInv'
<1> USE DEF IInv, TypeOK
<1>0. /\ UNCHANGED <<mode, steps, candidates, searched, requeries, results, seen,
                     returned, docs, kept, pending, previous, judged, batch, phase,
                     allowed, found, waiting, fetched>>
      /\ status' = [status EXCEPT ![i] = "refused"]
      /\ status[i] = "ready" /\ Running(i)
  BY DEF Refuse, Moves, Ready, loopVars, queryVars, docVars, batchVars
<1>1. Documents' = Documents /\ \A q \in Queries : Offered(q)' = Offered(q)
  BY <1>0 DEF Offered, Running, Documents
<1>2. TypeOK' /\ PlanningBound'
  BY CallStepTyped DEF Typed, CallStep
<1>3. CallShape'
  BY <1>0 DEF CallShape, Running
<1>4. HeldWasReturned' /\ OneOwner'
  BY <1>0, <1>1 DEF HeldWasReturned, OneOwner
<1>5. PagesWereSelected' /\ KeptAreDocuments'
  BY <1>0, <1>1 DEF PagesWereSelected, KeptAreDocuments
<1>6. FetchRound' /\ FetchedOnce'
  BY <1>0, <1>1 DEF FetchRound, FetchedOnce
<1>7. RequeryOnlyWhileShort' /\ SearchedOnce'
  BY <1>0 DEF RequeryOnlyWhileShort, SearchedOnce, Short, KeptOf, Required
<1>8. FetchPending' /\ VerdictsOnDocuments' /\ EveryDocumentJudged'
  BY <1>0, <1>1 DEF FetchPending, VerdictsOnDocuments, EveryDocumentJudged
<1>9. QED
  BY <1>2, <1>3, <1>4, <1>5, <1>6, <1>7, <1>8

LEMMA SearchStep ==
  ASSUME IInv, NEW i \in DOMAIN batch, Search(i)
  PROVE  IInv'
<1> USE DEF IInv, TypeOK
<1> DEFINE q == batch[i].query
<1>0. /\ UNCHANGED <<mode, steps, candidates, requeries, results, seen,
                     returned, docs, kept, pending, previous, judged, batch, phase,
                     allowed, found, waiting, fetched>>
      /\ status' = [status EXCEPT ![i] = "away"]
      /\ searched' = [searched EXCEPT ![q] = TRUE]
      /\ status[i] = "ready" /\ Running(i)
      /\ batch[i].tool = "search" /\ ~searched[q]
  BY DEF Search, MaySearch, Moves, Ready, loopVars, docVars, batchVars
<1>q. q \in Queries
  BY CallOfQuery
<1>1. Documents' = Documents /\ \A p \in Queries : Offered(p)' = Offered(p)
  BY <1>0 DEF Offered, Running, Documents
<1>2. TypeOK' /\ PlanningBound'
  BY CallStepTyped DEF Typed, CallStep
<1>3. CallShape'
  BY <1>0, RunningHasBegun DEF CallShape
<1>4. HeldWasReturned' /\ OneOwner'
  BY <1>0, <1>1 DEF HeldWasReturned, OneOwner
<1>5. PagesWereSelected' /\ KeptAreDocuments'
  BY <1>0, <1>1 DEF PagesWereSelected, KeptAreDocuments
<1>6. FetchRound' /\ FetchedOnce'
  BY <1>0, <1>1 DEF FetchRound, FetchedOnce
<1>7. RequeryOnlyWhileShort'
  BY <1>0 DEF RequeryOnlyWhileShort, Short, KeptOf, Required
<1>8. FetchPending' /\ VerdictsOnDocuments' /\ EveryDocumentJudged'
  BY <1>0, <1>1 DEF FetchPending, VerdictsOnDocuments, EveryDocumentJudged
<1>9. SearchedOnce'
  <2>1. \A p \in Queries : ~searched'[p] => results'[p] = {}
    BY <1>0 DEF SearchedOnce
  <2>2. ASSUME NEW j \in DOMAIN batch, phase = 1, batch[j].tool = "search",
               status'[j] \in {"away", "answered"}
        PROVE  /\ searched'[batch[j].query]
               /\ results[batch[j].query] = {}
               /\ \A k \in DOMAIN batch \ {j} :
                    batch[k].tool = "search" /\ batch[k].query = batch[j].query
                      => status'[k] \in {"ready", "refused"}
    <3>1. CASE j = i
      <4>1. \A k \in DOMAIN batch \ {i} :
              batch[k].tool = "search" /\ batch[k].query = q
                => status[k] \notin {"away", "answered"}
        BY <1>0, <2>2 DEF SearchedOnce
      <4>2. QED
        BY <1>0, <1>q, <2>2, <3>1, <4>1 DEF SearchedOnce
    <3>2. CASE j # i
      <4>1. status[j] \in {"away", "answered"}
        BY <1>0, <2>2, <3>2
      <4>2. searched[batch[j].query] /\ batch[j].query # q
        BY <1>0, <2>2, <4>1 DEF SearchedOnce
      <4>3. batch[j].query \in Queries
        BY CallOfQuery
      <4>4. QED
        BY <1>0, <1>q, <2>2, <4>1, <4>2, <4>3 DEF SearchedOnce
    <3>3. QED
      BY <3>1, <3>2
  <2>3. QED
    BY <1>0, <2>1, <2>2 DEF SearchedOnce
<1>10. QED
  BY <1>2, <1>3, <1>4, <1>5, <1>6, <1>7, <1>8, <1>9

LEMMA RequeryStep ==
  ASSUME IInv, NEW i \in DOMAIN batch, Requery(i)
  PROVE  IInv'
<1> USE DEF IInv, TypeOK
<1> DEFINE q == batch[i].query
<1>0. /\ UNCHANGED <<mode, steps, candidates, searched, seen,
                     returned, docs, kept, pending, previous, judged, batch, phase,
                     allowed, found, waiting, fetched>>
      /\ status' = [status EXCEPT ![i] = "away"]
      /\ results' = [results EXCEPT ![q] = {}]
      /\ status[i] = "ready" /\ Running(i)
      /\ batch[i].tool = "requery" /\ Short(q) /\ searched[q]
  BY DEF Requery, MayRequery, Moves, Ready, loopVars, docVars, batchVars
<1>q. q \in Queries
  BY CallOfQuery
<1>1. Documents' = Documents /\ \A p \in Queries : Offered(p)' \subseteq Offered(p)
  <2>1. Documents' = Documents
    BY <1>0 DEF Documents
  <2>2. ASSUME NEW p \in Queries PROVE Offered(p)' \subseteq Offered(p)
    BY <1>0 DEF Offered, Running
  <2>3. QED
    BY <2>1, <2>2
<1>2. TypeOK' /\ PlanningBound'
  BY CallStepTyped DEF Typed, CallStep
<1>3. CallShape'
  BY <1>0, RunningHasBegun DEF CallShape
<1>4. HeldWasReturned' /\ OneOwner'
  BY <1>0, <1>1 DEF HeldWasReturned, OneOwner
<1>5. PagesWereSelected' /\ KeptAreDocuments'
  BY <1>0, <1>1, PhaseTools DEF PagesWereSelected, KeptAreDocuments, Running
<1>6. FetchRound' /\ FetchedOnce'
  BY <1>0, <1>1 DEF FetchRound, FetchedOnce
<1>7. RequeryOnlyWhileShort'
  BY <1>0 DEF RequeryOnlyWhileShort, Short, KeptOf, Required
<1>8. FetchPending' /\ VerdictsOnDocuments' /\ EveryDocumentJudged'
  BY <1>0, <1>1 DEF FetchPending, VerdictsOnDocuments, EveryDocumentJudged
<1>9. SearchedOnce'
  BY <1>0, PhaseTools DEF SearchedOnce, Running
<1>10. QED
  BY <1>2, <1>3, <1>4, <1>5, <1>6, <1>7, <1>8, <1>9

LEMMA SearchReturnsStep ==
  ASSUME IInv, NEW i \in DOMAIN batch, SearchReturns(i)
  PROVE  IInv'
<1> USE DEF IInv, TypeOK
<1> DEFINE q == batch[i].query
<1>0. PICK fresh \in SUBSET (Urls \ returned) :
        /\ returned' = returned \cup fresh
        /\ found' = [found EXCEPT ![i] = fresh]
  BY DEF SearchReturns, Unreturned
<1>1. /\ UNCHANGED <<mode, steps, candidates, searched, requeries, results, seen,
                     docs, kept, pending, previous, judged, batch, phase,
                     allowed, waiting, fetched>>
      /\ status' = [status EXCEPT ![i] = "answered"]
      /\ status[i] = "away" /\ Running(i)
      /\ batch[i].tool \in {"search", "requery"}
  BY DEF SearchReturns, Searching, Moves, loopVars, queryVars, docVars, batchVars
<1>q. q \in Queries
  BY CallOfQuery
<1>2. Documents' = Documents
  BY <1>1 DEF Documents
<1>3. ASSUME NEW p \in Queries
      PROVE  Offered(p)' \subseteq Offered(p) \cup (IF p = q THEN fresh ELSE {})
  BY <1>0, <1>1 DEF Offered, Running
<1>4. TypeOK' /\ PlanningBound'
  BY CallStepTyped DEF Typed, CallStep
<1>5. CallShape'
  BY <1>0, <1>1, RunningHasBegun DEF CallShape
<1>6. HeldWasReturned'
  BY <1>0, <1>1, <1>3 DEF HeldWasReturned
<1>7. OneOwner'
  BY <1>0, <1>1, <1>3 DEF OneOwner, HeldWasReturned
<1>8. PagesWereSelected' /\ KeptAreDocuments'
  BY <1>1, <1>2 DEF PagesWereSelected, KeptAreDocuments
<1>9. FetchRound' /\ FetchedOnce'
  BY <1>1, <1>2 DEF FetchRound, FetchedOnce
<1>10. RequeryOnlyWhileShort'
  BY <1>1 DEF RequeryOnlyWhileShort, Short, KeptOf, Required
<1>11. FetchPending' /\ VerdictsOnDocuments' /\ EveryDocumentJudged'
  BY <1>1, <1>2 DEF FetchPending, VerdictsOnDocuments, EveryDocumentJudged
<1>12. SearchedOnce'
  BY <1>1 DEF SearchedOnce
<1>13. QED
  BY <1>4, <1>5, <1>6, <1>7, <1>8, <1>9, <1>10, <1>11, <1>12

LEMMA SearchFailsStep ==
  ASSUME IInv, NEW i \in DOMAIN batch, SearchFails(i)
  PROVE  IInv'
<1> USE DEF IInv, TypeOK
<1>0. /\ UNCHANGED <<mode, steps, candidates, searched, requeries, results, seen,
                     docs, kept, pending, previous, judged, batch, phase,
                     allowed, found, waiting, fetched>>
      /\ returned \subseteq returned'
      /\ status' = [status EXCEPT ![i] = "refused"]
      /\ status[i] = "away" /\ Running(i)
      /\ batch[i].tool \in {"search", "requery"}
  BY DEF SearchFails, Searching, Moves, loopVars, queryVars, docVars, batchVars
<1>1. Documents' = Documents /\ \A p \in Queries : Offered(p)' = Offered(p)
  BY <1>0 DEF Offered, Running, Documents
<1>2. TypeOK' /\ PlanningBound'
  BY CallStepTyped DEF Typed, CallStep
<1>3. CallShape'
  BY <1>0, RunningHasBegun DEF CallShape
<1>4. HeldWasReturned' /\ OneOwner'
  BY <1>0, <1>1 DEF HeldWasReturned, OneOwner
<1>5. PagesWereSelected' /\ KeptAreDocuments'
  BY <1>0, <1>1 DEF PagesWereSelected, KeptAreDocuments
<1>6. FetchRound' /\ FetchedOnce'
  BY <1>0, <1>1 DEF FetchRound, FetchedOnce
<1>7. RequeryOnlyWhileShort' /\ SearchedOnce'
  BY <1>0 DEF RequeryOnlyWhileShort, SearchedOnce, Short, KeptOf, Required
<1>8. FetchPending' /\ VerdictsOnDocuments' /\ EveryDocumentJudged'
  BY <1>0, <1>1 DEF FetchPending, VerdictsOnDocuments, EveryDocumentJudged
<1>9. QED
  BY <1>2, <1>3, <1>4, <1>5, <1>6, <1>7, <1>8

LEMMA FetchStep ==
  ASSUME IInv, NEW i \in DOMAIN batch, Fetch(i)
  PROVE  IInv'
<1> USE DEF IInv, TypeOK
<1> DEFINE q == batch[i].query
           S == batch[i].urls
<1>0. /\ UNCHANGED <<mode, steps, candidates, searched, requeries, results,
                     returned, docs, kept, pending, previous, judged, batch, phase,
                     allowed, found, fetched>>
      /\ status' = [status EXCEPT ![i] = "away"]
      /\ seen' = [seen EXCEPT ![q] = @ \cup S]
      /\ waiting' = [waiting EXCEPT ![i] = S]
      /\ status[i] = "ready" /\ Running(i)
      /\ batch[i].tool = "fetch"
      /\ S \subseteq allowed[q] /\ S \cap seen[q] = {}
      /\ Cardinality(S) + Cardinality(allowed[q] \cap seen[q]) <= FetchBatch
  BY DEF Fetch, MayFetch, Moves, Ready, loopVars, docVars, batchVars
<1>q. q \in Queries /\ S \in SUBSET Urls
  BY CallOfQuery
<1>1. Documents' = Documents /\ \A p \in Queries : Offered(p)' = Offered(p)
  BY <1>0 DEF Offered, Running, Documents
<1>2. TypeOK' /\ PlanningBound'
  BY CallStepTyped DEF Typed, CallStep
<1>p. phase = 2
  BY <1>0, PhaseOfRunning
<1>3. CallShape'
  <2>1. \E k \in 1..phase : batch[i].tool = PhaseTool[k]
    BY <1>0, RunningHasBegun
  <2>2. found[i] = {} /\ fetched[i] = {}
    BY <1>0 DEF CallShape
  <2>3. QED
    BY <1>0, <1>p, <2>1, <2>2 DEF CallShape
<1>s. S \subseteq Offered(q)
  BY <1>0, <1>q, <1>p DEF PagesWereSelected, Offered
<1>4. HeldWasReturned' /\ OneOwner'
  BY <1>0, <1>q, <1>1, <1>s DEF HeldWasReturned, OneOwner
<1>5. PagesWereSelected' /\ KeptAreDocuments'
  BY <1>0, <1>q, <1>1 DEF PagesWereSelected, KeptAreDocuments
<1>6. FetchRound'
  <2>1. IsFiniteSet(S) /\ IsFiniteSet(allowed[q] \cap seen[q])
    BY <1>q, SessionAssumption, FS_Subset
  <2>2. (allowed[q] \cap seen[q]) \cap S = {}
    BY <1>0
  <2>3. Cardinality((allowed[q] \cap seen[q]) \cup S)
          = Cardinality(allowed[q] \cap seen[q]) + Cardinality(S)
    BY <2>1, <2>2, DisjointCardinality
  <2>4. /\ Cardinality(S) \in Nat /\ Cardinality(allowed[q] \cap seen[q]) \in Nat
    BY <2>1, FS_CardinalityType
  <2>5. allowed[q] \cap seen'[q] = (allowed[q] \cap seen[q]) \cup S
    BY <1>0, <1>q
  <2>6. Cardinality(allowed[q] \cap seen'[q]) <= FetchBatch
    <3>1. Cardinality(allowed[q] \cap seen'[q])
            = Cardinality(allowed[q] \cap seen[q]) + Cardinality(S)
      BY <2>3, <2>5, Zenon
    <3>2. Cardinality(S) + Cardinality(allowed[q] \cap seen[q])
            = Cardinality(allowed[q] \cap seen[q]) + Cardinality(S)
      BY <2>4
    <3>3. Cardinality(S) + Cardinality(allowed[q] \cap seen[q]) <= FetchBatch
      BY <1>0, Zenon
    <3>4. QED
      BY <3>1, <3>2, <3>3, Zenon
  <2>7. QED
    BY <1>0, <1>q, <2>6 DEF FetchRound
<1>7. FetchedOnce'
  <2>1. \A p \in Queries : S \cap seen[p] = {}
    BY <1>0, <1>q, <1>s DEF OneOwner
  <2>2. S \cap Documents = {}
    BY <2>1 DEF Documents, PagesWereSelected
  <2>3. \A j \in DOMAIN batch : S \cap (waiting[j] \cup fetched[j]) = {}
    BY <2>1, CallOfQuery DEF PagesWereSelected
  <2>4. QED
    BY <1>0, <1>1, <2>2, <2>3 DEF FetchedOnce
<1>8. RequeryOnlyWhileShort' /\ SearchedOnce'
  BY <1>0, <1>p DEF RequeryOnlyWhileShort, SearchedOnce, Short, KeptOf, Required
<1>9. FetchPending' /\ VerdictsOnDocuments' /\ EveryDocumentJudged'
  BY <1>0, <1>1 DEF FetchPending, VerdictsOnDocuments, EveryDocumentJudged
<1>10. QED
  BY <1>2, <1>3, <1>4, <1>5, <1>6, <1>7, <1>8, <1>9

LEMMA FetchUrlStep ==
  ASSUME IInv, NEW i \in DOMAIN batch, NEW u \in Urls, NEW page \in BOOLEAN,
         FetchUrl(i, u, page)
  PROVE  IInv'
<1> USE DEF IInv, TypeOK
<1> DEFINE s == IF waiting[i] = {u} THEN "answered" ELSE "away"
<1>0. /\ UNCHANGED <<mode, steps, candidates, searched, requeries, results, seen,
                     returned, docs, kept, pending, previous, judged, batch, phase,
                     allowed, found>>
      /\ status' = [status EXCEPT ![i] = s]
      /\ waiting' = [waiting EXCEPT ![i] = @ \ {u}]
      /\ fetched' = [fetched EXCEPT ![i] = IF page THEN @ \cup {u} ELSE @]
      /\ Running(i) /\ batch[i].tool = "fetch" /\ u \in waiting[i]
  BY DEF FetchUrl, Moves, loopVars, queryVars, docVars, batchVars
<1>1. Documents' = Documents /\ \A p \in Queries : Offered(p)' = Offered(p)
  BY <1>0 DEF Offered, Running, Documents
<1>2. TypeOK' /\ PlanningBound'
  BY CallStepTyped DEF Typed, CallStep
<1>p. phase = 2
  BY <1>0, PhaseOfRunning
<1>3. CallShape'
  BY <1>0, <1>p, RunningHasBegun DEF CallShape
<1>4. HeldWasReturned' /\ OneOwner'
  BY <1>0, <1>1 DEF HeldWasReturned, OneOwner
<1>5. PagesWereSelected' /\ KeptAreDocuments'
  BY <1>0, <1>1 DEF PagesWereSelected, KeptAreDocuments
<1>6. FetchRound' /\ FetchedOnce'
  BY <1>0, <1>1 DEF FetchRound, FetchedOnce
<1>7. RequeryOnlyWhileShort' /\ SearchedOnce'
  BY <1>0, <1>p DEF RequeryOnlyWhileShort, SearchedOnce, Short, KeptOf, Required
<1>8. FetchPending'
  BY <1>0, <1>1 DEF FetchPending, FetchedOnce
<1>9. VerdictsOnDocuments' /\ EveryDocumentJudged'
  BY <1>0, <1>1 DEF VerdictsOnDocuments, EveryDocumentJudged
<1>10. QED
  BY <1>2, <1>3, <1>4, <1>5, <1>6, <1>7, <1>8, <1>9

LEMMA KeepStep ==
  ASSUME IInv, NEW i \in DOMAIN batch, NEW fits \in BOOLEAN, Keep(i, fits)
  PROVE  IInv'
<1> USE DEF IInv, TypeOK
<1>0. /\ UNCHANGED <<mode, steps, candidates, searched, requeries, results, seen,
                     returned, docs, pending, previous, judged, batch, phase,
                     allowed, found, waiting, fetched>>
      /\ status' = [status EXCEPT ![i] = "answered"]
      /\ kept' \subseteq kept \cup Documents
      /\ status[i] = "ready" /\ Running(i) /\ batch[i].tool = "keep"
  BY DEF Keep, MayKeep, Moves, Ready, loopVars, queryVars, batchVars
<1>1. Documents' = Documents /\ \A p \in Queries : Offered(p)' = Offered(p)
  BY <1>0 DEF Offered, Running, Documents
<1>2. TypeOK' /\ PlanningBound'
  BY CallStepTyped DEF Typed, CallStep
<1>p. phase = 3
  BY <1>0, PhaseOfRunning
<1>3. CallShape'
  BY <1>0, RunningHasBegun DEF CallShape
<1>4. HeldWasReturned' /\ OneOwner'
  BY <1>0, <1>1 DEF HeldWasReturned, OneOwner
<1>5. PagesWereSelected' /\ KeptAreDocuments'
  BY <1>0, <1>1 DEF PagesWereSelected, KeptAreDocuments
<1>6. FetchRound' /\ FetchedOnce'
  BY <1>0, <1>1 DEF FetchRound, FetchedOnce
<1>7. RequeryOnlyWhileShort' /\ SearchedOnce'
  BY <1>0, <1>p, RequeryIsLast DEF RequeryOnlyWhileShort, SearchedOnce
<1>8. FetchPending' /\ VerdictsOnDocuments' /\ EveryDocumentJudged'
  BY <1>0, <1>1 DEF FetchPending, VerdictsOnDocuments, EveryDocumentJudged
<1>9. QED
  BY <1>2, <1>3, <1>4, <1>5, <1>6, <1>7, <1>8

-----------------------------------------------------------------------------
(* The end of a phase                                                      *)

LEMMA RecordedWasOffered ==
  ASSUME TypeOK, mode = "executing", NEW q \in Queries
  PROVE  Recorded(q) \subseteq Offered(q)
<1> DEFINE I == Answered(PhaseTool[phase], q)
<1>1. \A i \in I : i \in DOMAIN batch /\ Running(i) /\ batch[i].query = q
  BY DEF Answered, Running
<1>2. \A i \in I : found[i] \subseteq Offered(q)
  BY <1>1 DEF Offered
<1>3. results[q] \subseteq Offered(q)
  BY DEF Offered
<1>4. CASE \E i \in I : LastAnswer(I, i)
  <2>1. (CHOOSE i \in I : LastAnswer(I, i)) \in I
    BY <1>4
  <2>2. QED
    BY <1>2, <1>4, <2>1 DEF Recorded
<1>5. CASE ~\E i \in I : LastAnswer(I, i)
  BY <1>3, <1>5 DEF Recorded
<1>6. QED
  BY <1>4, <1>5

\* No page is awaited any more, and the calls of the next phases are untouched.
LEMMA PhaseEnds ==
  ASSUME TypeOK, CallShape, PhaseDone
  PROVE  /\ \A i \in DOMAIN batch : waiting[i] = {}
         /\ phase < 4 => \A i \in DOMAIN batch :
              batch[i].tool = PhaseTool[phase + 1] => found[i] = {} /\ fetched[i] = {}
<1>1. ASSUME NEW i \in DOMAIN batch, waiting[i] # {}
      PROVE  FALSE
  <2>1. status[i] = "away" /\ batch[i].tool = "fetch" /\ phase = 2
    BY <1>1 DEF CallShape
  <2>2. QED
    BY <2>1, PhaseTools DEF PhaseDone
<1>2. ASSUME phase < 4, NEW i \in DOMAIN batch, batch[i].tool = PhaseTool[phase + 1]
      PROVE  found[i] = {} /\ fetched[i] = {}
  <2>1. \A k \in 1..phase : PhaseTool[k] # PhaseTool[phase + 1]
    <3>1. phase \in {1, 2, 3}
      BY <1>2 DEF TypeOK
    <3>2. QED
      BY <3>1, PhaseTools
  <2>2. status[i] = "ready"
    BY <1>2, <2>1 DEF CallShape
  <2>3. QED
    BY <2>2 DEF CallShape
<1>3. QED
  BY <1>1, <1>2

\* What the end of a phase, the last one included, records.
LEMMA Recording ==
  ASSUME IInv, PhaseDone, RecordResults
  PROVE  /\ \A q \in Queries : results'[q] \subseteq Offered(q)
         /\ \A q \in Queries : ~searched[q] => results'[q] = {}
         /\ \A q \in Queries : docs[q] \subseteq docs'[q] /\ docs'[q] \subseteq seen[q]
         /\ phase # 2 => docs' = docs /\ pending' = pending
         /\ pending \subseteq pending'
         /\ Documents' = Documents \cup pending'
         /\ phase = 2 => pending' \cap Documents = {}
<1> USE DEF IInv
<1>1. \A q \in Queries : results'[q] \subseteq Offered(q)
  <2>1. \A q \in Queries : results[q] \subseteq Offered(q)
    BY DEF Offered
  <2>2. QED
    BY <2>1, RecordedWasOffered DEF RecordResults, PhaseDone
<1>2. ASSUME NEW q \in Queries, ~searched[q]
      PROVE  results'[q] = {}
  <2>1. results[q] = {}
    BY <1>2 DEF SearchedOnce
  <2>2. PhaseTool[phase] \in {"search", "requery"} => Answered(PhaseTool[phase], q) = {}
    BY <1>2, PhaseTools DEF SearchedOnce, Answered, TypeOK
  <2>3. QED
    BY <2>1, <2>2 DEF RecordResults, Recorded
<1>3. \A q \in Queries : NewDocs(q) \subseteq seen[q]
  BY DEF NewDocs, Answered, PagesWereSelected
<1>4. \A q \in Queries : docs[q] \subseteq docs'[q] /\ docs'[q] \subseteq seen[q]
  BY <1>3 DEF RecordResults, PagesWereSelected, TypeOK
<1>5. phase # 2 => docs' = docs /\ pending' = pending
  <2>1. phase \in {1, 2, 3, 4}
    BY DEF TypeOK
  <2>2. QED
    BY <2>1, PhaseTools DEF RecordResults
<1>6. CASE phase = 2
  <2>1. /\ docs' = [q \in Queries |-> docs[q] \cup (NewDocs(q) \ Documents)]
        /\ pending' = pending \cup UNION {NewDocs(q) : q \in Queries}
    BY <1>6, PhaseTools DEF RecordResults
  <2>2. pending = {}
    BY <1>6 DEF FetchPending, PhaseDone
  <2>3. \A q \in Queries : NewDocs(q) \cap Documents = {}
    BY <1>6 DEF FetchPending, PhaseDone, NewDocs, Answered
  <2>4. Documents' = Documents \cup UNION {NewDocs(q) : q \in Queries}
    BY <2>1, <2>3 DEF Documents
  <2>5. pending' = UNION {NewDocs(q) : q \in Queries}
    BY <2>1, <2>2
  <2>6. QED
    BY <1>1, <1>2, <1>4, <1>6, <2>2, <2>3, <2>4, <2>5
<1>7. CASE phase # 2
  <2>1. Documents' = Documents
    BY <1>5, <1>7 DEF Documents
  <2>2. QED
    BY <1>1, <1>2, <1>4, <1>5, <1>7, <2>1 DEF VerdictsOnDocuments
<1>8. QED
  BY <1>6, <1>7

\* With an unseen URL only on offer, no round has taken any.
LEMMA FreshRound ==
  ASSUME NEW A, NEW B
  PROVE  Cardinality((A \ B) \cap B) <= FetchBatch
<1>1. (A \ B) \cap B = {}
  OBVIOUS
<1>2. Cardinality((A \ B) \cap B) = 0
  BY <1>1, FS_EmptySet, Zenon
<1>3. QED
  BY <1>2, SessionAssumption

LEMMA NextPhaseStep ==
  ASSUME IInv, NextPhase
  PROVE  IInv'
<1> USE DEF IInv, TypeOK
<1>0. /\ UNCHANGED <<mode, steps, candidates, searched, requeries, seen, returned,
                     kept, previous, judged, batch, status, found, waiting, fetched>>
      /\ phase' = phase + 1 /\ phase < 4 /\ mode = "executing"
      /\ allowed' = [q \in Queries |-> results'[q] \ seen[q]]
      /\ PhaseDone /\ RecordResults
  BY DEF NextPhase, PhaseDone, loopVars, threadVars
<1>1. TypeOK' /\ PlanningBound'
  BY StepTyped DEF Typed, Next
<1>2. \A i \in DOMAIN batch : waiting[i] = {}
  BY <1>0, PhaseEnds
<1>3. \A q \in Queries : Offered(q)' \subseteq Offered(q)
  <2>1. \A q \in Queries : results'[q] \subseteq Offered(q)
    BY <1>0, Recording
  <2>2. \A i \in DOMAIN batch : batch[i].tool = PhaseTool[phase + 1] => found[i] = {}
    BY <1>0, PhaseEnds
  <2>3. \A q \in Queries : Offered(q)' = results'[q]
    BY <1>0, <2>2 DEF Offered, Running
  <2>4. QED
    BY <2>1, <2>3
<1>4. CallShape'
  <2>1. 1..phase \subseteq 1..(phase + 1)
    OBVIOUS
  <2>2. QED
    BY <1>0, <1>2, <2>1 DEF CallShape
<1>5. HeldWasReturned' /\ OneOwner'
  BY <1>0, <1>3 DEF HeldWasReturned, OneOwner
<1>6. PagesWereSelected'
  BY <1>0, Recording DEF PagesWereSelected
<1>7. KeptAreDocuments'
  BY <1>0, Recording DEF KeptAreDocuments
<1>8. FetchRound'
  BY <1>0, FreshRound DEF FetchRound
<1>9. FetchedOnce'
  BY <1>0, <1>2 DEF FetchedOnce
<1>10. RequeryOnlyWhileShort'
  BY <1>0, RequeryIsLast DEF RequeryOnlyWhileShort
<1>11. FetchPending'
  <2>1. phase = 1 => pending' = pending /\ Documents' = Documents
    BY <1>0, Recording DEF Documents
  <2>2. QED
    BY <1>0, <2>1 DEF FetchPending
<1>12. VerdictsOnDocuments'
  BY <1>0, Recording DEF VerdictsOnDocuments
<1>13. EveryDocumentJudged'
  BY <1>0, Recording DEF EveryDocumentJudged, VerdictsOnDocuments
<1>14. SearchedOnce'
  BY <1>0, Recording DEF SearchedOnce
<1>15. QED
  BY <1>1, <1>4, <1>5, <1>6, <1>7, <1>8, <1>9, <1>10, <1>11, <1>12, <1>13, <1>14

LEMMA FinishBatchStep ==
  ASSUME IInv, FinishBatch
  PROVE  IInv'
<1> USE DEF IInv, TypeOK
<1>0. /\ UNCHANGED <<steps, candidates, searched, requeries, seen, returned, kept>>
      /\ phase' = 1 /\ phase = 4 /\ mode = "executing" /\ mode' = "asking"
      /\ judged' = judged \cup previous /\ previous' = {}
      /\ allowed' = [q \in Queries |-> results'[q] \ seen[q]]
      /\ PhaseDone /\ RecordResults
  BY DEF FinishBatch, PhaseDone
<1>b. DOMAIN batch' = {}
  BY DEF FinishBatch
<1>1. TypeOK' /\ PlanningBound'
  BY StepTyped DEF Typed, Next
<1>2. docs' = docs /\ pending' = pending
  BY <1>0, Recording
<1>3. Documents' = Documents
  BY <1>2 DEF Documents
<1>4. \A q \in Queries : Offered(q)' = results'[q]
  BY <1>b DEF Offered
<1>5. \A q \in Queries : Offered(q)' \subseteq Offered(q)
  BY <1>0, <1>4, Recording
<1>6. CallShape' /\ FetchedOnce' /\ RequeryOnlyWhileShort' /\ FetchPending'
  BY <1>0, <1>b DEF CallShape, FetchedOnce, RequeryOnlyWhileShort, FetchPending
<1>7. HeldWasReturned' /\ OneOwner'
  BY <1>0, <1>5 DEF HeldWasReturned, OneOwner
<1>8. PagesWereSelected' /\ KeptAreDocuments'
  BY <1>0, <1>b, <1>2, <1>3 DEF PagesWereSelected, KeptAreDocuments
<1>9. FetchRound'
  BY <1>0, FreshRound DEF FetchRound
<1>10. VerdictsOnDocuments' /\ EveryDocumentJudged'
  BY <1>0, <1>2, <1>3 DEF VerdictsOnDocuments, EveryDocumentJudged
<1>11. SearchedOnce'
  BY <1>0, <1>b, Recording DEF SearchedOnce
<1>12. QED
  BY <1>1, <1>6, <1>7, <1>8, <1>9, <1>10, <1>11

-----------------------------------------------------------------------------
(* The turns of the loop                                                   *)

LEMMA ReplyStep ==
  ASSUME IInv, NEW b \in Batches, ReplyWithCalls(b)
  PROVE  IInv'
<1> USE DEF IInv, TypeOK
<1>0. /\ UNCHANGED <<candidates, searched, requeries, results, seen, returned,
                     docs, kept, judged>>
      /\ mode = "asking" /\ mode' = "executing"
      /\ previous' = pending /\ pending' = {}
      /\ batch' = b /\ phase' = 1
      /\ allowed' = [q \in Queries |-> results[q] \ seen[q]]
      /\ status' = [i \in DOMAIN b |-> "ready"]
      /\ found' = [i \in DOMAIN b |-> {}]
      /\ waiting' = [i \in DOMAIN b |-> {}]
      /\ fetched' = [i \in DOMAIN b |-> {}]
  BY DEF ReplyWithCalls, TakePending, Available, queryVars
<1>1. TypeOK' /\ PlanningBound'
  BY StepTyped DEF Typed, Next
<1>2. Documents' = Documents
  BY <1>0 DEF Documents
<1>3. \A q \in Queries : Offered(q)' \subseteq Offered(q)
  BY <1>0 DEF Offered
<1>4. CallShape' /\ FetchedOnce' /\ RequeryOnlyWhileShort' /\ FetchPending'
  BY <1>0 DEF CallShape, FetchedOnce, RequeryOnlyWhileShort, FetchPending
<1>5. HeldWasReturned' /\ OneOwner'
  BY <1>0, <1>3 DEF HeldWasReturned, OneOwner
<1>6. PagesWereSelected' /\ KeptAreDocuments'
  BY <1>0, <1>2 DEF PagesWereSelected, KeptAreDocuments
<1>7. FetchRound'
  BY <1>0, FreshRound DEF FetchRound
<1>8. VerdictsOnDocuments' /\ EveryDocumentJudged'
  BY <1>0, <1>2 DEF VerdictsOnDocuments, EveryDocumentJudged
<1>9. SearchedOnce'
  BY <1>0 DEF SearchedOnce
<1>10. QED
  BY <1>1, <1>4, <1>5, <1>6, <1>7, <1>8, <1>9

\* The remaining turns leave the queries and the calls alone.
LEMMA OtherTurnStep ==
  ASSUME IInv,
         \/ PlanAccepted \/ PlanInvalid \/ InvocationFails
         \/ ReplyWithoutCalls \/ OutOfSteps
  PROVE  IInv'
<1> USE DEF IInv, TypeOK
<1>0. /\ UNCHANGED <<searched, requeries, results, seen, returned, docs, kept,
                     pending, previous, batch, phase, allowed, status, found,
                     waiting, fetched>>
      /\ mode \in {"planning", "asking"} /\ mode' # "executing"
      /\ \/ judged' = judged /\ mode' # "finished"
         \/ judged' = judged \cup pending /\ mode' = "finished"
  BY DEF PlanAccepted, PlanInvalid, InvocationFails, ReplyWithoutCalls, OutOfSteps,
         Report, queryVars, docVars, batchVars, threadVars
<1>1. TypeOK' /\ PlanningBound'
  BY StepTyped DEF Typed, Next
<1>2. Documents' = Documents /\ \A q \in Queries : Offered(q)' = Offered(q)
  BY <1>0 DEF Documents, Offered, Running
<1>3. CallShape' /\ FetchRound'
  BY <1>0 DEF CallShape, FetchRound
<1>4. HeldWasReturned' /\ OneOwner'
  BY <1>0, <1>2 DEF HeldWasReturned, OneOwner
<1>5. PagesWereSelected' /\ KeptAreDocuments' /\ FetchedOnce'
  BY <1>0, <1>2 DEF PagesWereSelected, KeptAreDocuments, FetchedOnce
<1>6. RequeryOnlyWhileShort' /\ SearchedOnce' /\ FetchPending'
  BY <1>0 DEF RequeryOnlyWhileShort, Short, KeptOf, Required, SearchedOnce,
              FetchPending
<1>7. VerdictsOnDocuments' /\ EveryDocumentJudged'
  BY <1>0, <1>2 DEF VerdictsOnDocuments, EveryDocumentJudged
<1>8. QED
  BY <1>1, <1>3, <1>4, <1>5, <1>6, <1>7

LEMMA InductiveStep ==
  ASSUME IInv, [Next]_vars
  PROVE  IInv'
<1>1. CASE UNCHANGED vars
  <2>1. UNCHANGED <<mode, steps, candidates, searched, requeries, results, seen,
                    returned, docs, kept, pending, previous, judged, batch, phase,
                    allowed, status, found, waiting, fetched>>
    BY <1>1 DEF vars, loopVars, queryVars, docVars, batchVars, threadVars
  <2>2. Documents' = Documents /\ \A q \in Queries : Offered(q)' = Offered(q)
    BY <2>1 DEF Documents, Offered, Running
  <2>3. HeldWasReturned' /\ OneOwner'
    BY <2>1, <2>2 DEF IInv, HeldWasReturned, OneOwner
  <2>4. PagesWereSelected' /\ KeptAreDocuments' /\ FetchedOnce' /\ FetchPending'
    BY <2>1, <2>2 DEF IInv, PagesWereSelected, KeptAreDocuments, FetchedOnce, FetchPending
  <2>5. VerdictsOnDocuments' /\ EveryDocumentJudged' /\ CallShape' /\ FetchRound'
    BY <2>1, <2>2 DEF IInv, VerdictsOnDocuments, EveryDocumentJudged, CallShape, FetchRound
  <2>6. RequeryOnlyWhileShort' /\ SearchedOnce'
    BY <2>1 DEF IInv, RequeryOnlyWhileShort, Short, KeptOf, Required, SearchedOnce
  <2>7. TypeOK' /\ PlanningBound'
    BY StepTyped DEF IInv, Typed
  <2>8. QED
    BY <2>3, <2>4, <2>5, <2>6, <2>7 DEF IInv
<1>2. ASSUME NEW b \in Batches, ReplyWithCalls(b) PROVE IInv'
  BY <1>2, ReplyStep
<1>3. ASSUME NEW i \in DOMAIN batch, CallStep(i) PROVE IInv'
  BY <1>3, RefuseStep, SearchStep, RequeryStep, SearchReturnsStep, SearchFailsStep,
     FetchStep, FetchUrlStep, KeepStep DEF CallStep
<1>4. CASE NextPhase \/ FinishBatch
  BY <1>4, NextPhaseStep, FinishBatchStep
<1>5. CASE PlanAccepted \/ PlanInvalid \/ InvocationFails \/ ReplyWithoutCalls \/ OutOfSteps
  BY <1>5, OtherTurnStep
<1>6. QED
  BY <1>1, <1>2, <1>3, <1>4, <1>5 DEF Next, Terminated

LEMMA Inductive == Spec => []IInv
<1>1. IInv /\ [Next]_vars => IInv'
  BY InductiveStep
<1>2. QED
  BY InitIInv, <1>1, PTL DEF Spec

\* Concurrent searches and requeries never give two queries the same URL.
THEOREM UrlsHaveOneOwner == Spec => []OneOwner
BY Inductive, PTL DEF IInv

\* A round of fetches takes at most FETCH_BATCH URLs of a query, however many
\* fetch calls the reply holds.
THEOREM RoundsAreBounded == Spec => []FetchRound
BY Inductive, PTL DEF IInv

\* No URL is fetched by two calls, or again after it gave a document.
THEOREM UrlsAreFetchedOnce == Spec => []FetchedOnce
BY Inductive, PTL DEF IInv

\* A query whose evidence a reply completes is not searched again by it.
THEOREM RequeriesLackEvidence == Spec => []RequeryOnlyWhileShort
BY Inductive, PTL DEF IInv

\* Every document is judged once, and all are when the result is assembled.
THEOREM DocumentsAreJudged == Spec => []EveryDocumentJudged
BY Inductive, PTL DEF IInv

-----------------------------------------------------------------------------
(* The session implements EvidenceTrail: each of its steps is a step of the *)
(* trail or changes nothing the trail can see.                              *)

LEMMA InitRefines == Init => Trail!Init
<1> SUFFICES ASSUME Init PROVE Trail!Init
  OBVIOUS
<1>1. \A q \in Queries : Offered(q) = {} /\ Collected(q) = {}
  BY Idle DEF Init
<1>2. OfferedMap = [q \in Queries |-> {}] /\ CollectedMap = [q \in Queries |-> {}]
  BY <1>1 DEF OfferedMap, CollectedMap
<1>3. QED
  BY <1>2 DEF Init, Trail!Init, Closed

\* What the trail sees of a step that changes none of its variables.
LEMMA Stutter ==
  ASSUME UNCHANGED <<returned, seen, kept, candidates>>, Closed' = Closed,
         \A q \in Queries : Offered(q)' = Offered(q),
         \A q \in Queries : Collected(q)' = Collected(q)
  PROVE  UNCHANGED Trail!vars
<1>1. OfferedMap' = OfferedMap /\ CollectedMap' = CollectedMap
  BY DEF OfferedMap, CollectedMap
<1>2. QED
  BY <1>1 DEF Trail!vars

LEMMA SearchRefines ==
  ASSUME IInv, NEW i \in DOMAIN batch, Refuse(i) \/ Search(i)
  PROVE  UNCHANGED Trail!vars
<1>1. UNCHANGED <<mode, candidates, results, seen, returned, docs, kept, batch, phase,
                  found, fetched>>
  BY DEF Refuse, Search, loopVars, queryVars, docVars, batchVars
<1>2. \A q \in Queries : Offered(q)' = Offered(q) /\ Collected(q)' = Collected(q)
  BY <1>1 DEF Offered, Collected, Running
<1>3. QED
  BY <1>1, <1>2, Stutter DEF Closed

LEMMA SearchReturnsRefines ==
  ASSUME IInv, NEW i \in DOMAIN batch, SearchReturns(i)
  PROVE  ~Closed /\ \E q \in Queries : Trail!Offer(q)
<1> DEFINE q == batch[i].query
<1>0. PICK fresh \in SUBSET (Urls \ returned) :
        /\ returned' = returned \cup fresh
        /\ found' = [found EXCEPT ![i] = fresh]
  BY DEF SearchReturns, Unreturned
<1>1. /\ UNCHANGED <<mode, candidates, results, seen, docs, kept, batch, phase, fetched>>
      /\ Running(i) /\ status[i] = "away"
  BY DEF SearchReturns, Searching, loopVars, queryVars, docVars, batchVars
<1>q. q \in Queries
  BY CallOfQuery DEF IInv
<1>2. found[i] = {}
  BY <1>1 DEF IInv, CallShape
<1>3. \A p \in Queries : Collected(p)' = Collected(p)
  BY <1>1 DEF Collected, Running
<1>4. \A p \in Queries : Offered(p)' = IF p = q THEN Offered(p) \cup fresh ELSE Offered(p)
  BY <1>0, <1>1, <1>2 DEF IInv, TypeOK, Offered, Running
<1>5. OfferedMap' = [OfferedMap EXCEPT ![q] = @ \cup fresh] /\ CollectedMap' = CollectedMap
  BY <1>3, <1>4, <1>q DEF OfferedMap, CollectedMap
<1>6. Trail!Offer(q)
  BY <1>0, <1>1, <1>5 DEF Trail!Offer, Closed
<1>7. QED
  BY <1>1, <1>6, <1>q DEF Running, Closed

LEMMA SearchFailsRefines ==
  ASSUME IInv, NEW i \in DOMAIN batch, SearchFails(i)
  PROVE  ~Closed /\ Trail!Burn
<1>1. /\ UNCHANGED <<mode, candidates, results, seen, docs, kept, batch, phase,
                     found, fetched>>
      /\ Running(i) /\ returned \subseteq returned' /\ returned' \subseteq Urls
  BY DEF SearchFails, Searching, Unreturned, loopVars, queryVars, docVars, batchVars,
         IInv, TypeOK
<1>2. \A p \in Queries : Offered(p)' = Offered(p) /\ Collected(p)' = Collected(p)
  BY <1>1 DEF Offered, Collected, Running
<1>3. OfferedMap' = OfferedMap /\ CollectedMap' = CollectedMap
  BY <1>2 DEF OfferedMap, CollectedMap
<1>4. QED
  BY <1>1, <1>3 DEF Trail!Burn, Running, Closed

\* Only a fetch phase holds pages that are not recorded yet.
LEMMA CollectedIsRecorded ==
  ASSUME TypeOK, CallShape, phase # 2, NEW q \in Queries
  PROVE  Collected(q) = docs[q]
<1>1. \A i \in DOMAIN batch : Running(i) => fetched[i] = {}
  BY PhaseOfRunning DEF CallShape
<1>2. QED
  BY <1>1 DEF Collected

\* The trail counts with the same Cardinality.
LEMMA SameSize ==
  ASSUME NEW S PROVE Trail!Cardinality(S) = Cardinality(S)
  BY DEF Trail!Cardinality, Cardinality, Trail!IsFiniteSet, IsFiniteSet

LEMMA ShortIsLacking ==
  ASSUME TypeOK, CallShape, phase # 2, NEW q \in Queries, Short(q)
  PROVE  Trail!Lacking(q)
<1>1. CollectedMap[q] = docs[q]
  BY CollectedIsRecorded DEF CollectedMap
<1>2. Trail!Evidence(q) = KeptOf(q)
  BY <1>1 DEF KeptOf, Trail!Evidence
<1>3. QED
  BY <1>2, SameSize DEF Short, Required, Trail!Lacking

\* What makes a step a Withdraw of the trail.
LEMMA WithdrawStep ==
  ASSUME TypeOK, UNCHANGED <<returned, seen, kept, candidates>>, Closed' = Closed,
         \A p \in Queries : Offered(p)' \subseteq Offered(p),
         \A p \in Queries : Offered(p)' # Offered(p) => Trail!Lacking(p),
         \A p \in Queries : Collected(p)' = Collected(p)
  PROVE  Trail!Withdraw
<1>1. CollectedMap' = CollectedMap
  BY DEF CollectedMap
<1>2. \A p \in Queries : Offered(p) \in SUBSET Urls
  BY DEF Offered, TypeOK
<1>3. OfferedMap' \in [Queries -> SUBSET Urls]
  BY <1>2 DEF OfferedMap
<1>4. \A p \in Queries : OfferedMap'[p] \subseteq OfferedMap[p]
  BY DEF OfferedMap
<1>5. \A p \in Queries : OfferedMap'[p] # OfferedMap[p] => Trail!Lacking(p)
  BY DEF OfferedMap
<1>6. QED
  BY <1>1, <1>3, <1>4, <1>5 DEF Trail!Withdraw

LEMMA RequeryRefines ==
  ASSUME IInv, NEW i \in DOMAIN batch, Requery(i)
  PROVE  ~Closed /\ Trail!Withdraw
<1> DEFINE q == batch[i].query
<1> USE DEF IInv
<1>1. /\ UNCHANGED <<mode, candidates, seen, returned, docs, kept, batch, phase,
                     found, fetched>>
      /\ results' = [results EXCEPT ![q] = {}]
      /\ Running(i) /\ batch[i].tool = "requery" /\ Short(q)
  BY DEF Requery, MayRequery, Ready, loopVars, docVars, batchVars
<1>q. q \in Queries
  BY CallOfQuery
<1>2. ASSUME NEW p \in Queries
      PROVE  /\ Offered(p)' \subseteq Offered(p)
             /\ p # q => Offered(p)' = Offered(p)
             /\ Collected(p)' = Collected(p)
  BY <1>1, <1>q DEF TypeOK, Offered, Collected, Running
<1>3. Trail!Lacking(q)
  BY <1>1, <1>q, PhaseOfRunning, ShortIsLacking
<1>4. \A p \in Queries : Offered(p)' # Offered(p) => Trail!Lacking(p)
  BY <1>2, <1>3
<1>5. Trail!Withdraw
  BY <1>1, <1>2, <1>4, WithdrawStep DEF Closed
<1>6. QED
  BY <1>1, <1>5 DEF Running, Closed

LEMMA FetchRefines ==
  ASSUME IInv, NEW i \in DOMAIN batch, Fetch(i)
  PROVE  ~Closed /\ \E q \in Queries : Trail!Select(q)
<1> DEFINE q == batch[i].query
           S == batch[i].urls
<1> USE DEF IInv
<1>1. /\ UNCHANGED <<mode, candidates, results, returned, docs, kept, batch, phase,
                     found, fetched>>
      /\ seen' = [seen EXCEPT ![q] = @ \cup S]
      /\ Running(i) /\ batch[i].tool = "fetch"
      /\ S \subseteq allowed[q] /\ S \cap seen[q] = {}
  BY DEF Fetch, MayFetch, Ready, loopVars, docVars, batchVars
<1>q. q \in Queries
  BY CallOfQuery
<1>2. \A p \in Queries : Offered(p)' = Offered(p) /\ Collected(p)' = Collected(p)
  BY <1>1 DEF Offered, Collected, Running
<1>3. OfferedMap' = OfferedMap /\ CollectedMap' = CollectedMap
  BY <1>2 DEF OfferedMap, CollectedMap
<1>4. S \in SUBSET (OfferedMap[q] \ seen[q])
  <2>1. S \subseteq results[q]
    BY <1>1, <1>q, PhaseOfRunning DEF PagesWereSelected
  <2>2. QED
    BY <1>1, <1>q, <2>1 DEF OfferedMap, Offered
<1>5. Trail!Select(q)
  BY <1>1, <1>3, <1>4 DEF Trail!Select, Closed
<1>6. QED
  BY <1>1, <1>5, <1>q DEF Running, Closed

LEMMA FetchUrlRefines ==
  ASSUME IInv, NEW i \in DOMAIN batch, NEW u \in Urls, NEW page \in BOOLEAN,
         FetchUrl(i, u, page)
  PROVE  UNCHANGED Trail!vars \/ (~Closed /\ \E q \in Queries : Trail!Collect(q))
<1> DEFINE q == batch[i].query
<1> USE DEF IInv
<1>1. /\ UNCHANGED <<mode, candidates, results, seen, returned, docs, kept, batch,
                     phase, found>>
      /\ fetched' = [fetched EXCEPT ![i] = IF page THEN @ \cup {u} ELSE @]
      /\ Running(i) /\ u \in waiting[i]
  BY DEF FetchUrl, loopVars, queryVars, docVars, batchVars
<1>q. q \in Queries
  BY CallOfQuery
<1>2. \A p \in Queries : Offered(p)' = Offered(p)
  BY <1>1 DEF Offered, Running
<1>3. CASE page
  <2>1. \A p \in Queries :
          Collected(p)' = IF p = q THEN Collected(p) \cup {u} ELSE Collected(p)
    BY <1>1, <1>3 DEF TypeOK, Collected, Running
  <2>2. u \in seen[q]
    BY <1>1 DEF PagesWereSelected
  <2>3. u \notin Collected(q)
    <3>1. u \notin docs[q]
      BY <1>1, <1>q DEF FetchedOnce, Documents
    <3>2. \A j \in DOMAIN batch : u \notin fetched[j]
      BY <1>1 DEF FetchedOnce
    <3>3. QED
      BY <3>1, <3>2 DEF Collected
  <2>4. /\ OfferedMap' = OfferedMap
        /\ CollectedMap' = [CollectedMap EXCEPT ![q] = @ \cup {u}]
        /\ u \in seen[q] \ CollectedMap[q]
    BY <1>2, <1>q, <2>1, <2>2, <2>3 DEF OfferedMap, CollectedMap
  <2>5. Trail!Collect(q)
    BY <1>1, <2>4 DEF Trail!Collect, Closed
  <2>6. QED
    BY <1>1, <2>5, <1>q DEF Running, Closed
<1>4. CASE ~page
  <2>1. fetched' = fetched
    BY <1>1, <1>4 DEF TypeOK
  <2>2. \A p \in Queries : Collected(p)' = Collected(p)
    BY <1>1, <2>1 DEF Collected, Running
  <2>3. QED
    BY <1>1, <1>2, <2>2, Stutter DEF Closed
<1>5. QED
  BY <1>3, <1>4

LEMMA KeepRefines ==
  ASSUME IInv, NEW i \in DOMAIN batch, NEW fits \in BOOLEAN, Keep(i, fits)
  PROVE  UNCHANGED Trail!vars \/ (~Closed /\ \E q \in Queries : Trail!Keep(q))
<1> USE DEF IInv
<1>1. /\ UNCHANGED <<mode, candidates, results, seen, returned, docs, batch, phase,
                     found, fetched>>
      /\ Running(i) /\ batch[i].tool = "keep"
      /\ Cardinality(batch[i].urls) = 1 /\ batch[i].urls \subseteq Documents
      /\ kept' = IF fits THEN kept \cup batch[i].urls ELSE kept
  BY DEF Keep, MayKeep, Ready, loopVars, queryVars, batchVars
<1>2. \A p \in Queries : Offered(p)' = Offered(p) /\ Collected(p)' = Collected(p)
  BY <1>1 DEF Offered, Collected, Running
<1>3. CASE fits
  <2>1. PICK u : batch[i].urls = {u}
    <3>1. IsFiniteSet(batch[i].urls)
      BY CallOfQuery, SessionAssumption, FS_Subset
    <3>2. QED
      BY <1>1, <3>1, FS_Singleton
  <2>2. PICK q \in Queries : u \in docs[q]
    BY <1>1, <2>1 DEF Documents
  <2>3. u \in CollectedMap[q]
    BY <2>2 DEF CollectedMap, Collected
  <2>4. OfferedMap' = OfferedMap /\ CollectedMap' = CollectedMap
    BY <1>2 DEF OfferedMap, CollectedMap
  <2>5. Trail!Keep(q)
    BY <1>1, <1>3, <2>1, <2>3, <2>4 DEF Trail!Keep, Closed
  <2>6. QED
    BY <1>1, <2>5 DEF Running, Closed
<1>4. CASE ~fits
  BY <1>1, <1>2, <1>4, Stutter DEF Closed
<1>5. QED
  BY <1>3, <1>4

-----------------------------------------------------------------------------
(* The end of a phase hands over what its calls hold                       *)

\* The last answer to a query is unique, and Recorded picks it.
LEMMA RecordedAnswer ==
  ASSUME NEW q \in Queries, NEW i \in Answered(PhaseTool[phase], q),
         LastAnswer(Answered(PhaseTool[phase], q), i), TypeOK
  PROVE  Recorded(q) = found[i]
<1> DEFINE I == Answered(PhaseTool[phase], q)
<1>1. \A j \in I : j \in Nat
  BY DEF Answered, TypeOK
<1>2. \A j : LastAnswer(I, j) => j = i
  BY <1>1 DEF LastAnswer
<1>3. (CHOOSE j \in I : LastAnswer(I, j)) = i
  BY <1>2
<1>4. QED
  BY <1>3 DEF Recorded

LEMMA NothingRecorded ==
  ASSUME NEW q \in Queries, Answered(PhaseTool[phase], q) = {}
  PROVE  Recorded(q) = results[q]
BY DEF Recorded, LastAnswer

\* A phase of searches loses nothing: a query is searched by one call only.
LEMMA SearchesAreRecorded ==
  ASSUME IInv, PhaseDone, phase = 1, NEW q \in Queries
  PROVE  Recorded(q) = Offered(q)
<1> USE DEF IInv
<1> DEFINE I == Answered(PhaseTool[phase], q)
<1>1. \A i \in DOMAIN batch : Running(i) <=> batch[i].tool = "search"
  BY PhaseTools DEF Running, PhaseDone
<1>2. CASE I = {}
  <2>1. \A i \in DOMAIN batch : Running(i) /\ batch[i].query = q => found[i] = {}
    BY <1>1, <1>2, PhaseTools DEF Answered, CallShape
  <2>2. QED
    BY <1>2, <2>1, NothingRecorded DEF Offered
<1>3. ASSUME NEW i \in I
      PROVE  Recorded(q) = Offered(q)
  <2>1. i \in DOMAIN batch /\ Running(i) /\ batch[i].query = q /\ status[i] = "answered"
    BY <1>1, PhaseTools DEF Answered
  <2>2. batch[i].tool = "search"
    BY <1>1, <2>1
  <2>3. /\ results[q] = {}
        /\ \A j \in DOMAIN batch \ {i} :
             batch[j].tool = "search" /\ batch[j].query = q
               => status[j] \in {"ready", "refused"}
    BY <2>1, <2>2 DEF SearchedOnce
  <2>4. \A j \in DOMAIN batch \ {i} : Running(j) /\ batch[j].query = q => found[j] = {}
    BY <1>1, <2>3 DEF CallShape
  <2>5. \A j \in I : j = i
    BY <2>3, PhaseTools DEF Answered
  <2>6. LastAnswer(I, i)
    BY <2>5, <2>1 DEF LastAnswer, TypeOK
  <2>7. Offered(q) = found[i]
    BY <2>1, <2>3, <2>4 DEF Offered
  <2>8. QED
    BY <2>6, <2>7, RecordedAnswer
<1>4. QED
  BY <1>2, <1>3

\* What the queries hold after a phase.
LEMMA PhaseHandsOver ==
  ASSUME IInv, PhaseDone, NextPhase \/ FinishBatch, NEW q \in Queries
  PROVE  /\ Offered(q)' = results'[q]
         /\ Collected(q)' = docs'[q]
<1> USE DEF IInv
<1>1. CASE FinishBatch
  BY <1>1 DEF FinishBatch, Offered, Collected, Running
<1>2. CASE NextPhase
  <2>1. /\ UNCHANGED <<mode, batch, found, fetched>>
        /\ phase' = phase + 1 /\ phase < 4
    BY <1>2 DEF NextPhase, loopVars, threadVars
  <2>2. \A i \in DOMAIN batch' : Running(i)' => found'[i] = {} /\ fetched'[i] = {}
    BY <2>1, PhaseEnds DEF Running
  <2>3. QED
    BY <2>2 DEF Offered, Collected
<1>3. QED
  BY <1>1, <1>2

\* A query that loses URLs at the end of a phase has been searched again.
LEMMA LossIsLacking ==
  ASSUME IInv, PhaseDone, RecordResults, NEW q \in Queries, results'[q] # Offered(q)
  PROVE  Trail!Lacking(q)
<1> USE DEF IInv
<1>0. phase \in {1, 2, 3, 4} /\ mode = "executing"
  BY DEF TypeOK, PhaseDone
<1>1. phase \in {1, 4} => results'[q] = Recorded(q)
  BY PhaseTools DEF RecordResults
<1>2. phase # 1
  BY <1>1, SearchesAreRecorded
<1>3. ASSUME phase \in {2, 3}
      PROVE  FALSE
  <2>1. results' = results
    BY <1>3, PhaseTools DEF RecordResults
  <2>2. \A i \in DOMAIN batch : Running(i) => found[i] = {}
    BY <1>3, PhaseOfRunning DEF CallShape
  <2>3. QED
    BY <2>1, <2>2 DEF Offered
<1>4. phase = 4
  BY <1>0, <1>2, <1>3
<1>5. PICK i \in DOMAIN batch : batch[i].tool = "requery" /\ batch[i].query = q
                              /\ status[i] = "answered"
  <2>1. CASE Answered(PhaseTool[phase], q) = {}
    <3>1. \A i \in DOMAIN batch : Running(i) /\ batch[i].query = q => found[i] = {}
      BY <2>1 DEF Answered, CallShape, Running
    <3>2. QED
      BY <1>1, <1>4, <2>1, <3>1, NothingRecorded DEF Offered
  <2>2. CASE Answered(PhaseTool[phase], q) # {}
    BY <1>4, <2>2, PhaseTools DEF Answered
  <2>3. QED
    BY <2>1, <2>2
<1>6. QED
  BY <1>4, <1>5, ShortIsLacking DEF RequeryOnlyWhileShort

\* The pages of a fetch phase become documents of their query, all of them.
LEMMA PagesAreRecorded ==
  ASSUME IInv, PhaseDone, RecordResults, NEW q \in Queries
  PROVE  docs'[q] = Collected(q)
<1> USE DEF IInv
<1>1. CASE phase # 2
  BY <1>1, Recording, CollectedIsRecorded
<1>2. CASE phase = 2
  <2>1. docs'[q] = docs[q] \cup (NewDocs(q) \ Documents)
    BY <1>2, PhaseTools DEF RecordResults
  <2>2. \A i \in DOMAIN batch : fetched[i] \cap Documents = {}
    BY <1>2 DEF FetchPending, PhaseDone
  <2>3. NewDocs(q) \cap Documents = {}
    BY <2>2 DEF NewDocs, Answered
  <2>4. \A i \in DOMAIN batch : fetched[i] # {} /\ Running(i) => status[i] = "answered"
    BY DEF PhaseDone, CallShape, Running
  <2>5. \A i \in DOMAIN batch : Running(i) <=> batch[i].tool = "fetch"
    BY <1>2, PhaseTools DEF Running, PhaseDone
  <2>6. Collected(q) = docs[q] \cup NewDocs(q)
    BY <2>4, <2>5 DEF Collected, NewDocs, Answered
  <2>7. QED
    BY <2>1, <2>3, <2>6
<1>3. QED
  BY <1>1, <1>2

LEMMA PhaseRefines ==
  ASSUME IInv, NextPhase \/ FinishBatch
  PROVE  ~Closed /\ Trail!Withdraw
<1> USE DEF IInv
<1>1. /\ UNCHANGED <<returned, seen, kept, candidates>>
      /\ ~Closed /\ Closed' = Closed
      /\ PhaseDone /\ RecordResults
  BY DEF NextPhase, FinishBatch, PhaseDone, loopVars, Closed
<1>2. \A q \in Queries : Offered(q)' \subseteq Offered(q)
  BY <1>1, Recording, PhaseHandsOver
<1>3. \A q \in Queries : Offered(q)' # Offered(q) => Trail!Lacking(q)
  BY <1>1, LossIsLacking, PhaseHandsOver
<1>4. \A q \in Queries : Collected(q)' = Collected(q)
  BY <1>1, PagesAreRecorded, PhaseHandsOver
<1>5. QED
  BY <1>1, <1>2, <1>3, <1>4, WithdrawStep

-----------------------------------------------------------------------------
(* The turns of the loop                                                   *)

\* A turn that begins or abandons something moves no URL.
LEMMA TurnHolds ==
  ASSUME IInv, UNCHANGED <<results, docs>>, mode # "executing",
         mode' # "executing" \/ \E b \in Batches : ReplyWithCalls(b)
  PROVE  \A q \in Queries : Offered(q)' = Offered(q) /\ Collected(q)' = Collected(q)
<1>1. CASE mode' # "executing"
  BY <1>1 DEF Offered, Collected, Running
<1>2. ASSUME NEW b \in Batches, ReplyWithCalls(b)
      PROVE  \A q \in Queries : Offered(q)' = Offered(q) /\ Collected(q)' = Collected(q)
  <2>1. /\ batch' = b
        /\ \A i \in DOMAIN b : found'[i] = {} /\ fetched'[i] = {}
    BY <1>2 DEF ReplyWithCalls
  <2>2. QED
    BY <2>1 DEF Offered, Collected, Running
<1>3. QED
  BY <1>1, <1>2

LEMMA ReplyRefines ==
  ASSUME IInv, NEW b \in Batches, ReplyWithCalls(b)
  PROVE  UNCHANGED Trail!vars
<1>1. /\ UNCHANGED <<returned, seen, kept, candidates, results, docs>>
      /\ Closed' = Closed /\ mode # "executing"
  BY DEF ReplyWithCalls, queryVars, Closed
<1>2. QED
  BY <1>1, TurnHolds, Stutter

LEMMA PlanRefines ==
  ASSUME IInv, PlanAccepted \/ PlanInvalid \/ InvocationFails
  PROVE  UNCHANGED Trail!vars \/ (~Closed /\ Trail!Abandon)
<1>1. /\ UNCHANGED <<returned, seen, kept, candidates, results, docs>>
      /\ ~Closed /\ mode # "executing" /\ mode' # "executing"
  BY DEF PlanAccepted, PlanInvalid, InvocationFails, queryVars, docVars, Closed
<1>2. \A q \in Queries : Offered(q)' = Offered(q) /\ Collected(q)' = Collected(q)
  BY <1>1, TurnHolds
<1>3. OfferedMap' = OfferedMap /\ CollectedMap' = CollectedMap
  BY <1>2 DEF OfferedMap, CollectedMap
<1>4. Closed' \in BOOLEAN
  BY DEF Closed
<1>5. CASE Closed'
  BY <1>1, <1>3, <1>5, Zenon DEF Trail!Abandon
<1>6. CASE ~Closed'
  BY <1>1, <1>2, <1>6, Stutter DEF Closed
<1>7. QED
  BY <1>5, <1>6

LEMMA ReportRefines ==
  ASSUME IInv, ReplyWithoutCalls \/ OutOfSteps
  PROVE  ~Closed /\ Trail!Publish
<1>1. /\ UNCHANGED <<returned, seen, kept, results, docs>>
      /\ ~Closed /\ mode # "executing" /\ mode' = "finished"
      /\ candidates' = {q \in Queries \ TopicQueries : Enough(q)}
  BY DEF ReplyWithoutCalls, OutOfSteps, Report, queryVars, Closed
<1>2. \A q \in Queries : Offered(q)' = Offered(q) /\ Collected(q)' = Collected(q)
  BY <1>1, TurnHolds
<1>3. OfferedMap' = OfferedMap /\ CollectedMap' = CollectedMap
  BY <1>2 DEF OfferedMap, CollectedMap
<1>4. \A q \in Queries : Trail!Evidence(q) = KeptOf(q)
  BY <1>1, Idle DEF Trail!Evidence, CollectedMap, KeptOf
<1>5. candidates' = {q \in Queries \ TopicQueries :
                       Trail!Cardinality(Trail!Evidence(q)) >= SufficientDocs}
  BY <1>1, <1>4, SameSize DEF Enough
<1>6. Closed' = TRUE
  BY <1>1 DEF Closed
<1>7. QED
  BY <1>1, <1>3, <1>5, <1>6 DEF Trail!Publish

LEMMA StepRefines ==
  ASSUME IInv, [Next]_vars
  PROVE  [Trail!Next]_(Trail!vars)
<1>1. CASE UNCHANGED vars
  <2>1. UNCHANGED <<mode, candidates, results, seen, returned, docs, kept, batch,
                    phase, found, fetched>>
    BY <1>1 DEF vars, loopVars, queryVars, docVars, batchVars, threadVars
  <2>2. \A q \in Queries : Offered(q)' = Offered(q) /\ Collected(q)' = Collected(q)
    BY <2>1 DEF Offered, Collected, Running
  <2>3. QED
    BY <2>1, <2>2, Stutter DEF Closed
<1>2. CASE PlanAccepted \/ PlanInvalid \/ InvocationFails
  BY <1>2, PlanRefines DEF Trail!Next
<1>3. CASE ReplyWithoutCalls \/ OutOfSteps
  BY <1>3, ReportRefines DEF Trail!Next
<1>4. ASSUME NEW b \in Batches, ReplyWithCalls(b) PROVE [Trail!Next]_(Trail!vars)
  BY <1>4, ReplyRefines
<1>5. ASSUME NEW i \in DOMAIN batch, CallStep(i) PROVE [Trail!Next]_(Trail!vars)
  <2>1. CASE Refuse(i) \/ Search(i)
    BY <2>1, SearchRefines
  <2>2. CASE Requery(i)
    BY <2>2, RequeryRefines DEF Trail!Next
  <2>3. CASE SearchReturns(i)
    BY <2>3, SearchReturnsRefines DEF Trail!Next
  <2>4. CASE SearchFails(i)
    BY <2>4, SearchFailsRefines DEF Trail!Next
  <2>5. CASE Fetch(i)
    BY <2>5, FetchRefines DEF Trail!Next
  <2>6. ASSUME NEW u \in Urls, NEW page \in BOOLEAN, FetchUrl(i, u, page)
        PROVE  [Trail!Next]_(Trail!vars)
    BY <2>6, FetchUrlRefines DEF Trail!Next
  <2>7. ASSUME NEW fits \in BOOLEAN, Keep(i, fits) PROVE [Trail!Next]_(Trail!vars)
    BY <2>7, KeepRefines DEF Trail!Next
  <2>8. QED
    BY <1>5, <2>1, <2>2, <2>3, <2>4, <2>5, <2>6, <2>7 DEF CallStep
<1>6. CASE NextPhase \/ FinishBatch
  BY <1>6, PhaseRefines DEF Trail!Next
<1>7. QED
  BY <1>1, <1>2, <1>3, <1>4, <1>5, <1>6 DEF Next, Terminated

\* Concurrent calls, batches, failed searches and requeries included, the
\* session is an EvidenceTrail: run_research publishes exactly the queries whose
\* own kept documents suffice, and drops URLs of a query only for lack of them.
THEOREM Refinement == Spec => ImplementsTrail
<1>1. IInv /\ [Next]_vars => [Trail!Next]_(Trail!vars)
  BY StepRefines
<1>2. QED
  BY InitRefines, Inductive, <1>1, PTL DEF Spec, Trail!Spec, ImplementsTrail
=============================================================================
