--------------------------- MODULE ResearchSession ---------------------------
(***************************************************************************)
(* The research session: the loop of research/runner.py that lets a        *)
(* language model gather evidence with four tools (search, fetch, keep,    *)
(* requery).                                                               *)
(*                                                                         *)
(* Every reply of the model is a batch of tool calls.  A batch runs in     *)
(* four phases.  The calls of a phase run concurrently on a thread pool,   *)
(* except those of keep, which run one after another.  The answers are     *)
(* recorded in call order when the phase has ended.  One lock guards the   *)
(* admission checks of a call, another one (in SearchTool) the removal of  *)
(* URLs already returned: each guarded section is one step below.          *)
(*                                                                         *)
(* A document is named by the URL it was fetched from: FetchTool gives     *)
(* one URL one document as long as no URL is fetched twice, which is what  *)
(* FetchedOnce checks.                                                     *)
(***************************************************************************)
EXTENDS Naturals, FiniteSets, Sequences

CONSTANTS
  Queries,             \* ids of the planned queries
  TopicQueries,        \* the ids whose related_nfr is null
  Urls,                \* URLs the search service may return
  Batches,             \* replies of the model: sequences of calls
  FetchBatch,          \* FETCH_BATCH
  MaxRequery,          \* MAX_REQUERY
  SufficientDocs,      \* SUFFICIENT_DOCS
  SufficientDocsTopic, \* SUFFICIENT_DOCS_TOPIC
  ResultsPerQuery,     \* RESULTS_PER_QUERY
  MaxAgentSteps        \* MAX_AGENT_STEPS

(***************************************************************************)
(* A call: urls holds the selection of a fetch and the document of a keep. *)
(* ok is FALSE when the arguments alone make the tool refuse it: malformed *)
(* arguments, an id or a sentence number that does not exist, a URL listed *)
(* twice, or a requery that repeats the query's text.                      *)
(***************************************************************************)
Tools == {"search", "fetch", "keep", "requery"}

Calls == [tool : Tools \cup {"unknown"}, query : Queries,
          urls : SUBSET Urls, ok : BOOLEAN]

\* Mutant: requery before keep.
PhaseTool_RequeryFirst == <<"search", "fetch", "requery", "keep">>

PhaseTool == <<"search", "fetch", "keep", "requery">>

ASSUME SessionAssumption ==
  /\ IsFiniteSet(Urls)
  /\ TopicQueries \subseteq Queries
  /\ Batches \subseteq Seq(Calls)
  /\ {FetchBatch, MaxRequery, SufficientDocs, SufficientDocsTopic} \subseteq Nat
  /\ ResultsPerQuery \in Nat
  /\ MaxAgentSteps \in Nat /\ MaxAgentSteps >= 2

VARIABLES
  mode,        \* what the loop of run_research is doing
  steps,       \* invocations of the model so far, planning included
  searched, requeries, results, seen,  \* the fields of _Query, by query
  returned,    \* SearchTool._seen_urls
  docs,        \* _Session.doc_queries, inverted: the documents of a query
  kept,        \* KeepTool.documents
  pending,     \* _Session.pending: documents fetched by the last batch
  previous,    \* previous_batch of execute
  judged,      \* documents finish_batch has been told about
  batch,       \* calls being executed
  phase,       \* index in PhaseTool
  allowed,     \* unseen URLs per query when the phase began
  status,      \* per call: ready, away, answered or refused
  found,       \* per call: URLs a search came back with
  waiting,     \* per call: URLs still being fetched
  fetched,     \* per call: URLs fetched successfully
  candidates   \* NFR queries in the result

queryVars  == <<searched, requeries, results, seen>>
docVars    == <<docs, kept, pending, previous, judged>>
batchVars  == <<batch, phase, allowed>>
threadVars == <<status, found, waiting, fetched>>
loopVars   == <<mode, steps, candidates>>
vars == <<loopVars, queryVars, returned, docVars, batchVars, threadVars>>

-----------------------------------------------------------------------------
Available(q) == results[q] \ seen[q]

KeptOf(q) == kept \cap docs[q]

Required(q) == IF q \in TopicQueries THEN SufficientDocsTopic ELSE SufficientDocs

Short(q) == Cardinality(KeptOf(q)) < Required(q)

Documents == UNION {docs[q] : q \in Queries}

Running(i) == mode = "executing" /\ i \in DOMAIN batch
              /\ batch[i].tool = PhaseTool[phase]

TypeOK ==
  /\ mode \in {"planning", "asking", "executing", "finished", "failed"}
  /\ steps \in 0..MaxAgentSteps
  /\ searched \in [Queries -> BOOLEAN]
  /\ requeries \in [Queries -> 0..MaxRequery]
  /\ results \in [Queries -> SUBSET Urls]
  /\ seen \in [Queries -> SUBSET Urls]
  /\ returned \in SUBSET Urls
  /\ docs \in [Queries -> SUBSET Urls]
  /\ {kept, pending, previous, judged} \subseteq SUBSET Urls
  /\ batch \in Seq(Calls)
  /\ phase \in 1..4
  /\ allowed \in [Queries -> SUBSET Urls]
  /\ status \in [DOMAIN batch -> {"ready", "away", "answered", "refused"}]
  /\ found \in [DOMAIN batch -> SUBSET Urls]
  /\ waiting \in [DOMAIN batch -> SUBSET Urls]
  /\ fetched \in [DOMAIN batch -> SUBSET Urls]
  /\ candidates \in SUBSET (Queries \ TopicQueries)

Init ==
  /\ mode = "planning" /\ steps = 0 /\ candidates = {}
  /\ searched = [q \in Queries |-> FALSE]
  /\ requeries = [q \in Queries |-> 0]
  /\ results = [q \in Queries |-> {}]
  /\ seen = [q \in Queries |-> {}]
  /\ returned = {}
  /\ docs = [q \in Queries |-> {}]
  /\ kept = {} /\ pending = {} /\ previous = {} /\ judged = {}
  /\ batch = <<>> /\ phase = 1 /\ allowed = [q \in Queries |-> {}]
  /\ status = <<>> /\ found = <<>> /\ waiting = <<>> /\ fetched = <<>>

-----------------------------------------------------------------------------
(* The loop: planning with one retry, then one reply of the model per turn *)

\* Mutant: only the planning calls are counted.
Invoke_PlanningOnly == steps' = IF mode = "planning" THEN steps + 1 ELSE steps

Invoke == steps' = steps + 1

StepsLeft == steps < MaxAgentSteps

PlanAccepted ==
  /\ mode = "planning" /\ Invoke
  /\ mode' = "asking"
  /\ UNCHANGED <<candidates, queryVars, returned, docVars, batchVars, threadVars>>

PlanInvalid ==
  /\ mode = "planning" /\ Invoke
  /\ mode' = IF steps = 0 THEN "planning" ELSE "failed"
  /\ UNCHANGED <<candidates, queryVars, returned, docVars, batchVars, threadVars>>

\* An exception of the provider ends run_research: nothing is returned.
InvocationFails ==
  /\ mode \in {"planning", "asking"}
  /\ mode = "asking" => StepsLeft
  /\ Invoke
  /\ mode' = "failed"
  /\ UNCHANGED <<candidates, queryVars, returned, docVars, batchVars, threadVars>>

Enough(q) == Cardinality(KeptOf(q)) >= SufficientDocs

\* The loop is left: the last documents are judged and the result assembled.
Report ==
  /\ mode' = "finished"
  /\ judged' = judged \cup pending
  /\ candidates' = {q \in Queries \ TopicQueries : Enough(q)}
  /\ UNCHANGED <<queryVars, returned, docs, kept, pending, previous,
                 batchVars, threadVars>>

ReplyWithoutCalls ==
  /\ mode = "asking" /\ StepsLeft /\ Invoke
  /\ Report

OutOfSteps ==
  /\ mode = "asking" /\ ~StepsLeft
  /\ Report /\ UNCHANGED steps

\* Mutant: the pending documents are handed over but not forgotten.
TakePending_NoReset == previous' = pending /\ UNCHANGED pending

TakePending == previous' = pending /\ pending' = {}

ReplyWithCalls(b) ==
  /\ mode = "asking" /\ StepsLeft /\ Invoke
  /\ b # <<>>
  /\ mode' = "executing"
  /\ TakePending
  /\ batch' = b /\ phase' = 1
  /\ allowed' = [q \in Queries |-> Available(q)]
  /\ status' = [i \in DOMAIN b |-> "ready"]
  /\ found' = [i \in DOMAIN b |-> {}]
  /\ waiting' = [i \in DOMAIN b |-> {}]
  /\ fetched' = [i \in DOMAIN b |-> {}]
  /\ UNCHANGED <<candidates, queryVars, returned, docs, kept, judged>>

-----------------------------------------------------------------------------
(* The calls of a phase, each on its thread                                *)

MaySearch(c) == c.ok /\ ~searched[c.query]

\* Mutants: the check against the URLs already taken is dropped, and the
\* limit counts the selection of this call only.
MayFetch_Unseen(c) ==
  /\ c.ok /\ c.urls # {}
  /\ c.urls \subseteq allowed[c.query]
  /\ Cardinality(c.urls) <= FetchBatch

MayFetch_PerCall(c) ==
  MayFetch_Unseen(c) /\ c.urls \cap seen[c.query] = {}

MayFetch(c) ==
  /\ c.ok /\ c.urls # {}
  /\ c.urls \subseteq allowed[c.query]
  /\ c.urls \cap seen[c.query] = {}
  /\ Cardinality(c.urls) + Cardinality(allowed[c.query] \cap seen[c.query])
       <= FetchBatch

MayKeep(c) == c.ok /\ Cardinality(c.urls) = 1 /\ c.urls \subseteq Documents

\* Mutant: the evidence of the query is not looked at.
MayRequery_AnyTime(c) ==
  /\ c.ok /\ searched[c.query]
  /\ requeries[c.query] < MaxRequery

MayRequery(c) ==
  /\ c.ok /\ searched[c.query]
  /\ Short(c.query)
  /\ requeries[c.query] < MaxRequery

Admitted(c) ==
  CASE c.tool = "search"  -> MaySearch(c)
    [] c.tool = "fetch"   -> MayFetch(c)
    [] c.tool = "keep"    -> MayKeep(c)
    [] c.tool = "requery" -> MayRequery(c)
    [] OTHER              -> FALSE

\* keep calls run in call order, the others in any order.
Ready(i) ==
  /\ Running(i) /\ status[i] = "ready"
  /\ batch[i].tool = "keep" =>
       \A j \in 1..(i - 1) : batch[j].tool = "keep" => status[j] # "ready"

Moves(i, s) == status' = [status EXCEPT ![i] = s]

Refuse(i) ==
  /\ Ready(i) /\ ~Admitted(batch[i])
  /\ Moves(i, "refused")
  /\ UNCHANGED <<loopVars, queryVars, returned, docVars, batchVars,
                 found, waiting, fetched>>

Search(i) ==
  /\ Ready(i) /\ batch[i].tool = "search" /\ MaySearch(batch[i])
  /\ searched' = [searched EXCEPT ![batch[i].query] = TRUE]
  /\ Moves(i, "away")
  /\ UNCHANGED <<loopVars, requeries, results, seen, returned, docVars,
                 batchVars, found, waiting, fetched>>

Requery(i) ==
  /\ Ready(i) /\ batch[i].tool = "requery" /\ MayRequery(batch[i])
  /\ requeries' = [requeries EXCEPT ![batch[i].query] = @ + 1]
  /\ results' = [results EXCEPT ![batch[i].query] = {}]
  /\ Moves(i, "away")
  /\ UNCHANGED <<loopVars, searched, seen, returned, docVars, batchVars,
                 found, waiting, fetched>>

Searching(i) == Running(i) /\ status[i] = "away"
                /\ batch[i].tool \in {"search", "requery"}

\* Mutant: the URLs of one query only are told apart.
Unreturned_PerQuery(i) == Urls \ (results[batch[i].query] \cup seen[batch[i].query])

\* URLs not returned before, by any query.
Unreturned(i) == Urls \ returned

\* The service answers; URLs returned before, by any query, are left out.
SearchReturns(i) ==
  /\ Searching(i)
  /\ \E fresh \in SUBSET Unreturned(i) :
       /\ Cardinality(fresh) <= ResultsPerQuery
       /\ returned' = returned \cup fresh
       /\ found' = [found EXCEPT ![i] = fresh]
  /\ Moves(i, "answered")
  /\ UNCHANGED <<loopVars, queryVars, docVars, batchVars, waiting, fetched>>

\* The request fails, or an item of the answer is malformed: the URLs read
\* before that item are marked as returned although nobody receives them.
SearchFails(i) ==
  /\ Searching(i)
  /\ \E burnt \in SUBSET Unreturned(i) :
       /\ Cardinality(burnt) < ResultsPerQuery
       /\ returned' = returned \cup burnt
  /\ Moves(i, "refused")
  /\ UNCHANGED <<loopVars, queryVars, docVars, batchVars, found, waiting, fetched>>

Fetch(i) ==
  /\ Ready(i) /\ batch[i].tool = "fetch" /\ MayFetch(batch[i])
  /\ seen' = [seen EXCEPT ![batch[i].query] = @ \cup batch[i].urls]
  /\ waiting' = [waiting EXCEPT ![i] = batch[i].urls]
  /\ Moves(i, "away")
  /\ UNCHANGED <<loopVars, searched, requeries, results, returned, docVars,
                 batchVars, found, fetched>>

\* One URL of the selection is done; page says whether it gave a document.
FetchUrl(i, u, page) ==
  /\ Running(i) /\ batch[i].tool = "fetch" /\ u \in waiting[i]
  /\ waiting' = [waiting EXCEPT ![i] = @ \ {u}]
  /\ fetched' = [fetched EXCEPT ![i] = IF page THEN @ \cup {u} ELSE @]
  /\ Moves(i, IF waiting[i] = {u} THEN "answered" ELSE "away")
  /\ UNCHANGED <<loopVars, queryVars, returned, docVars, batchVars, found>>

\* fits is FALSE when no chosen sentence fits the budget: a document without
\* an earlier selection is then not kept.
Keep(i, fits) ==
  /\ Ready(i) /\ batch[i].tool = "keep" /\ MayKeep(batch[i])
  /\ kept' = IF fits THEN kept \cup batch[i].urls ELSE kept
  /\ Moves(i, "answered")
  /\ UNCHANGED <<loopVars, queryVars, returned, docs, pending, previous, judged,
                 batchVars, found, waiting, fetched>>

-----------------------------------------------------------------------------
(* The end of a phase: answers are recorded in call order                  *)

PhaseDone ==
  /\ mode = "executing"
  /\ \A i \in DOMAIN batch :
       batch[i].tool = PhaseTool[phase] => status[i] \in {"answered", "refused"}

Answered(tool, q) ==
  {i \in DOMAIN batch : /\ batch[i].tool = tool /\ batch[i].query = q
                        /\ status[i] = "answered"}

LastAnswer(I, i) == i \in I /\ \A j \in I : j <= i

Recorded(q) ==
  LET I == Answered(PhaseTool[phase], q)
  IN  IF \E i \in I : LastAnswer(I, i)
      THEN found[CHOOSE i \in I : LastAnswer(I, i)]
      ELSE results[q]

NewDocs(q) == UNION {fetched[i] : i \in Answered("fetch", q)}

RecordResults ==
  \/ /\ PhaseTool[phase] \in {"search", "requery"}
     /\ results' = [q \in Queries |-> Recorded(q)]
     /\ UNCHANGED <<docs, pending>>
  \/ /\ PhaseTool[phase] = "fetch"
     /\ docs' = [q \in Queries |-> docs[q] \cup (NewDocs(q) \ Documents)]
     /\ pending' = pending \cup UNION {NewDocs(q) : q \in Queries}
     /\ UNCHANGED results
  \/ /\ PhaseTool[phase] = "keep"
     /\ UNCHANGED <<results, docs, pending>>

NextPhase ==
  /\ PhaseDone /\ phase < 4
  /\ RecordResults
  /\ phase' = phase + 1
  /\ allowed' = [q \in Queries |-> results'[q] \ seen[q]]
  /\ UNCHANGED <<loopVars, searched, requeries, seen, returned, kept,
                 previous, judged, batch, threadVars>>

\* finish_batch judges the documents of the batch before this one.
FinishBatch ==
  /\ PhaseDone /\ phase = 4
  /\ RecordResults
  /\ judged' = judged \cup previous
  /\ previous' = {}
  /\ mode' = "asking"
  /\ batch' = <<>> /\ phase' = 1
  /\ allowed' = [q \in Queries |-> results'[q] \ seen[q]]
  /\ status' = <<>> /\ found' = <<>> /\ waiting' = <<>> /\ fetched' = <<>>
  /\ UNCHANGED <<steps, candidates, searched, requeries, seen, returned, kept>>

Terminated == mode \in {"finished", "failed"} /\ UNCHANGED vars

CallStep(i) ==
  \/ Refuse(i) \/ Search(i) \/ Requery(i) \/ SearchReturns(i) \/ SearchFails(i)
  \/ Fetch(i)
  \/ \E u \in Urls, page \in BOOLEAN : FetchUrl(i, u, page)
  \/ \E fits \in BOOLEAN : Keep(i, fits)

Next ==
  \/ PlanAccepted \/ PlanInvalid \/ InvocationFails
  \/ ReplyWithoutCalls \/ OutOfSteps
  \/ \E b \in Batches : ReplyWithCalls(b)
  \/ \E i \in DOMAIN batch : CallStep(i)
  \/ NextPhase \/ FinishBatch
  \/ Terminated

Spec == Init /\ [][Next]_vars

(***************************************************************************)
(* Every thread of the pool runs, and every request outside the process    *)
(* ends: HTTP requests carry a timeout, and an answer, an error or a       *)
(* timeout of the model's provider all end the invocation.                 *)
(***************************************************************************)
FairSpec == Spec /\ WF_vars(Next)

-----------------------------------------------------------------------------
(* Properties                                                              *)

\* URLs in the hands of a query: its results and what its calls of the
\* current phase have been given.
Offered(q) ==
  results[q] \cup UNION {found[i] : i \in {j \in DOMAIN batch :
                                        Running(j) /\ batch[j].query = q}}

\* Documents of a query, those not yet recorded included.
Collected(q) ==
  docs[q] \cup UNION {fetched[i] : i \in {j \in DOMAIN batch :
                                        Running(j) /\ batch[j].query = q}}

OfferedMap == [q \in Queries |-> Offered(q)]

CollectedMap == [q \in Queries |-> Collected(q)]

Closed == mode \in {"finished", "failed"}

Trail == INSTANCE EvidenceTrail WITH
  used <- returned, selected <- seen, offered <- OfferedMap,
  documents <- CollectedMap, closed <- Closed

\* The session implements the abstract trail: concurrent calls, batches and
\* retries never break what EvidenceTrail promises of each URL.
ImplementsTrail == Trail!Spec

\* A URL belongs to one query: searches running side by side, and the ones a
\* requery adds, never give two queries the same URL (SearchTool._collect).
OneOwner ==
  \A p, q \in Queries : p # q =>
    (Offered(p) \cup seen[p]) \cap (Offered(q) \cup seen[q]) = {}

\* However many fetch calls a reply makes for a query, at most FETCH_BATCH of
\* its URLs are taken in that round (_Session._fetch counts under the lock).
FetchRound ==
  \A q \in Queries : Cardinality(allowed[q] \cap seen[q]) <= FetchBatch

\* No URL is fetched by two calls at once or again after it gave a document:
\* FetchTool's unlocked cache is never raced, so one URL has one document.
FetchedOnce ==
  \A i \in DOMAIN batch :
    /\ waiting[i] \cap (Documents \cup fetched[i]) = {}
    /\ \A j \in DOMAIN batch \ {i} :
         waiting[i] \cap (waiting[j] \cup fetched[j]) = {}

\* A reply that both keeps the missing documents of a query and asks to search
\* it again does not drop the query's results: keep runs before requery.
RequeryOnlyWhileShort ==
  \A i \in DOMAIN batch :
    batch[i].tool = "requery" /\ status[i] \in {"away", "answered"}
      => Short(batch[i].query)

\* Every document gets its verdict once: it waits in the last batch or the one
\* being executed, or was judged; when the result is assembled none waits.
EveryDocumentJudged ==
  /\ Documents \subseteq judged \cup previous \cup pending
  /\ previous \cap pending = {}
  /\ IF mode = "finished" THEN Documents \subseteq judged
                          ELSE judged \cap (previous \cup pending) = {}

\* The session ends, whatever the model answers (MAX_AGENT_STEPS).
Termination == <>Closed

\* docs/nfr-design.md: requery is allowed only once all unseen URLs of the
\* query have been looked at. The code does not ask for it.
RequeryAfterAllSeen ==
  [][\A q \in Queries : requeries'[q] > requeries[q] => Available(q) = {}]_vars

\* docs/nfr-design.md: what is not kept when its batch has been judged counts
\* as discarded. The code still accepts a keep of it later.
DiscardIsFinal == [][(kept' \ kept) \cap judged = {}]_vars

-----------------------------------------------------------------------------
(* The inductive strengthening of the invariants above                     *)

\* Planning makes at most two invocations.
PlanningBound == mode = "planning" => steps <= 1

\* A call that has not begun holds nothing; only a search call finds URLs and
\* only a fetch call waits for pages, while it is away; calls of later phases
\* have not begun.
CallShape ==
  \A i \in DOMAIN batch :
    /\ found[i] # {} => status[i] = "answered"
                        /\ batch[i].tool \in {"search", "requery"}
    /\ waiting[i] # {} => /\ status[i] = "away"
                          /\ batch[i].tool = "fetch" /\ phase = 2
    /\ fetched[i] # {} => /\ status[i] \in {"away", "answered"}
                          /\ batch[i].tool = "fetch"
    /\ status[i] # "ready" => \E k \in 1..phase : batch[i].tool = PhaseTool[k]

\* What a query holds was returned by a search.
HeldWasReturned == \A q \in Queries : Offered(q) \cup seen[q] \subseteq returned

\* The documents of a query and the pages of its calls were selected for it,
\* and a fetch phase selects from the results the phase began with.
PagesWereSelected ==
  /\ \A q \in Queries : docs[q] \subseteq seen[q]
  /\ \A i \in DOMAIN batch : waiting[i] \cup fetched[i] \subseteq seen[batch[i].query]
  /\ phase = 2 => \A q \in Queries : allowed[q] \subseteq results[q]

KeptAreDocuments == kept \subseteq Documents

\* Fetched pages become documents when the fetch phase ends, not before.
FetchPending ==
  mode = "executing" /\ phase <= 2 =>
    /\ pending = {}
    /\ \A i \in DOMAIN batch : fetched[i] \cap Documents = {}

\* Verdicts are passed on documents only.
VerdictsOnDocuments ==
  /\ judged \cup previous \cup pending \subseteq Documents
  /\ mode # "executing" => previous = {}

\* A query is searched once, before any requery: its first answer finds it
\* without results.
SearchedOnce ==
  /\ \A q \in Queries : ~searched[q] => results[q] = {}
  /\ \A i \in DOMAIN batch :
       batch[i].tool = "requery" /\ status[i] \in {"away", "answered"}
         => searched[batch[i].query]
  /\ \A i \in DOMAIN batch :
       phase = 1 /\ batch[i].tool = "search" /\ status[i] \in {"away", "answered"}
         => /\ searched[batch[i].query]
            /\ results[batch[i].query] = {}
            /\ \A j \in DOMAIN batch \ {i} :
                 batch[j].tool = "search" /\ batch[j].query = batch[i].query
                   => status[j] \in {"ready", "refused"}

IInv ==
  /\ TypeOK /\ PlanningBound /\ CallShape /\ OneOwner
  /\ HeldWasReturned /\ PagesWereSelected /\ KeptAreDocuments
  /\ FetchRound /\ FetchedOnce /\ RequeryOnlyWhileShort
  /\ FetchPending /\ VerdictsOnDocuments /\ EveryDocumentJudged /\ SearchedOnce
=============================================================================
