# Verification of ArchGen

ArchGen writes scoring rubrics for system design interviews: it asks for a
seniority and a topic in a terminal application, lets a language model gather
evidence on the web, selects non-functional requirements (NFRs), has a rubric
written, checked, rendered, judged and repaired, and delivers a Markdown sheet.
This directory holds TLA+ models of its core logic, the TLC configurations that
check them and the theorems that TLAPS proves about them. `PROJECT.json` maps
every definition to the lines it models (paths below are relative to
`src/src/archgen/`).

## The system

| Component | State | Operations | Hard part |
|---|---|---|---|
| Research session (`research/runner.py`) | per query: searched, requeries, results, seen; documents of a query; pending documents | reply of the model: a batch of search, fetch, keep and requery calls | calls of a phase run on a thread pool; admission under a lock, answers recorded after it |
| Search (`retrieval/search.py`) | URLs returned | search | second lock, malformed answers half way |
| Fetch (`retrieval/crawler.py`) | cache by URL | fetch with one retry | cache without a lock |
| Keep (`research/keep.py`) | chosen sentences, kept documents, past messages | register, keep, finish_batch | order of calls, budget of 2000 characters |
| Research plan (`research/agent.py`, `domain/research.py`) | candidates, queries | plan with one retry, tidy, validate | additions and removals at the limits |
| Generation graph (`core/graph.py`) | draft, findings, repairs, status, files | the nodes and edges of the graph | shared repair budget, stale findings, interruption while saving |
| Author (`export/agent.py`) | none | select_nfrs, generate_rubric, up to three attempts | nested retries, which errors are the author's |
| Harness (`harness/`) | none | nine checks over an export | what they guarantee to the renderer |
| Renderer (`render/`) | none | render, read back, compare | values that do not survive the round trip |
| Judge (`judge/judge.py`) | none | findings for a draft | invalid answers |
| Service (`core/service.py`) | run directory | run a generation, start the evaluation | failure recorded, evaluation not guaranteed |
| Terminal application (`tui/`, `intake/`) | slots, scope dialogue, generating | submit, confirm, generate | worker thread and late progress |
| Evaluation (`evaluation.py`, `golden_evaluation.py`) | trace, scores, failure file | evaluate with retries, deliver | a trace exported in the background, partial delivery |
| Stage evaluation (`stage_evaluation.py`) | criteria, snapshot, result and error file of a stage | evaluate one or all stages of a past run | reruns after a failure, two commands on one directory, edited criteria |
| Comparison (`validation_comparison.py`) | rows, evaluations by sheet, baseline | compare one sheet under other checks and repairs | a failure of one condition must not cost the others |

The application starts a generation through the service; the service builds the
graph and gives it the session as its research node, the author and the judge
as functions; the graph calls harness and renderer; the files of the run
directory are what the evaluation reads later.

What makes each correct: the session never loses track of whose evidence a
document is, fetches nothing twice, ends, and reports exactly the candidates
with enough evidence; the graph delivers only the verified latest draft, at
most `MaxRepairs` repairs after the first, and explains every failure; the
checks let only drafts pass whose sheet is whole; the application generates the
draft the user has agreed to and nothing else, once at a time, and locks nobody
out. A plan gives every candidate its query and loses none it could keep; the
keep tool uses its budget, never drops what it kept and shows the model nothing
outdated; a search offers no URL twice, a URL becomes one document, and to the session each
search and each fetch is one step. An
evaluation says truly where its answer is, a stage is evaluated once in a
directory, and the rows of a comparison differ only where the sheets do.

## Modules

| Module | Models |
|---|---|
| `EvidenceTrail` | abstract: what a session promises of each URL, document and query |
| `ResearchSession` | the session: loop, batches, phases, calls on threads, locks |
| `RubricDelivery` | abstract: bounded drafts of one selection, at most one delivered, the latest and acceptable |
| `GenerationGraph` | the graph, its model calls and retries, files, interruptions, `run_generation` |
| `GenerationHarness` | the graph with the checks of `RubricChecks` in the place of its constants |
| `RubricChecks` | the harness, the grouping of criteria on the sheet, rewriting of a rubric |
| `SheetText` | how a descriptor and a description are written into the sheet and read back |
| `ScoringSheet` | drafts under the checks, and texts being written, side by side |
| `ResearchPlan` | the initial plan: both replies, tidying entry by entry, validation |
| `KeepTool` | the choice of sentences within the budget, the rewriting of past messages |
| `SearchPromise`, `FetchPromise` | abstract: a call answered in one step, as the session sees it |
| `SearchTool`, `FetchTool` | the two tools with threads, call by call |
| `ResearchTools` | the plan and the three tools side by side |
| `ScopeAgreement` | abstract: one brief, agreed once, generated by one run at a time |
| `ArchGenApp` | the terminal application: slot, scope dialogue, workers and their threads, input field |
| `EvaluationPromise` | abstract: an evaluation is answered at most once, and its end tells where the answer is |
| `EvaluationRun` | one evaluation by a judge: attempts, trace, scores, failure file |
| `StageEvaluation` | `run_stage` and `main`: processes on one output directory |
| `RunComparison` | `compare_run`: conditions, repairs, evaluations, rows |
| `MC...` | instances for TLC |
| `...Proofs` | theorems |

Three modules compose others. In `GenerationHarness` the graph of
`GenerationGraph` runs over the checks of `RubricChecks`. `ResearchTools` and
`ScoringSheet` put components side by side that share no state: a variable `part`
says whose behaviour it is; `ToolsAreTheirParts` proves of the first that each
component behaves as it would alone, `DraftsAreChecked` of the second that its
drafts are those of the checks. `ResearchSession` is the module in which the tools
of the research work together, each call as one or two steps; `KeepTool`,
`SearchTool` and `FetchTool` show what those steps are made of, and
`SearchPromise` and `FetchPromise` are those steps by themselves: `CallsAreOneStep`
says that the two tools implement them.

**ResearchSession.** A document is named by its URL. Each guarded section of
the code is one step: `Search`, `Fetch` and `Requery` are the sections under
`_Session.lock`, `SearchReturns`/`SearchFails` the one under
`SearchTool._lock`, `FetchUrl` the end of one page. `Keep` calls run in call
order. `NextPhase` and `FinishBatch` are the code between phases (answers
recorded in call order, `allowed` computed anew, the batch before judged). The
model's replies are any of `Batches`; a call that its arguments alone condemn
has `ok = FALSE`. Left out: texts, ranks, prompts, and the deletion of past
messages. What a search returns is any set of URLs not returned before; a failed one may
mark some as returned.

**GenerationGraph.** One action per node; the author node is two, one for each
thing it asks the model for. `AskAgain` is an answer refused for its language.
`Break` ends any node with an exception or with the death of the process;
in `finalize` it leaves the files written so far (`Written(k)`, in the order of
the code; the writing of one file is taken as atomic). `RecordError` writes
`error.json`, `Return` may start the evaluation. What the checks and the
re-reading of the sheet find is a constant function of the export.

**RubricChecks.** Each check is an operator with the name of its function. A
finding keeps code, root of its path and item. `Section` says under which NFR
the template prints a criterion. `Rewrite` is a repair that answers with any
rubric.

**SheetText.** A text is a sequence of characters of which only those are told
apart that mean something to the sheet; what the reader looks for as a whole, as
the beginning of a heading, the label of a description or the header of a table,
is one character. `Row` and `SectionOf` are what the template and its filter make
of a descriptor and of a description: the row of a table, and the section of a
criterion from the newline before its heading to the first character of its
levels, the line of the label included. `ReadCell`, and `Chunk`, `_block` and
`LevelsTable`, are the code of `post_render.py`, each `split` with the marker it
has there (`Before`, `After`), so that a marker can be missing, or share its
newline with the one before. Of the splitting at `\n## ` and of the rows of the
summary it is asked that they find nothing in a section. The module has no state;
in `ScoringSheet` a text grows by one character at a time (`Write`), so that every
text up to `MaxLength` is written.

**ResearchPlan.** A reply lists candidates and queries; tidying reads them one by
one (`ReadCandidate`, `TakeQuery`, `DropUnknown` and the like), so that the order in which
limits are met matters as in the code. Kinds and texts stand for their normal
forms.

**KeepTool.** `keep` builds the selection anew from what was chosen before
followed by what is asked for, one turn of its loop after the other (`PassOver`,
`Pick`, `Skip`, then `Keep`). A sentence is its length. The messages of past
fetches are kept with what they show of each document. The runner also takes
messages out of the conversation (`del messages[3:]`); the tool holds on to
them and goes on rewriting them, so they stay in the model, though nobody reads
them any more: `ConversationIsCurrent` is a promise of the tool, and no run
depends on it for messages of earlier replies.

**SearchTool, FetchTool.** Calls are threads. A search asks the service, waits
for the lock, and goes through the response item by item; a malformed item
raises. A fetch looks into the cache, requests the page, perhaps once more, and
stores document and cache entry one after the other, without a lock. Two calls
for one URL at a time do not occur: that is `FetchedOnce` of the session, and a
guard here. In `SearchPromise` a URL is used once its call is answered: until
then what a call has collected is only in the tool. In `FetchPromise` a document
is there once it is filed under its URL; one stored and not yet filed is not.

**ArchGenApp.** A handler of the application, and the stretch of a worker
between two awaits, is one step of the event loop. An answer is entered
(`Enter`) some time before it is handled (`FillSlot`, `Confirm`, `RejectBlank`,
`Reply`, or `Ignore` while the application is busy), a phase is posted
(`ReportProgress`) some time before it is shown, and `Ctrl+G` comes at any
time. `disabled` and `hidden` are the properties of the input widget, set where
the code sets them. The conversation keeps who spoke and which draft was
offered. Fake mode, where the decision is made without a thread, is the same
behaviour with nothing between `Ask` and `Decide`. `Quit` cancels the workers;
the thread of a generation goes on.

**EvaluationRun.** The judges of a rubric, of a golden comparison and of a stage
are told apart by `source`; they differ in which inputs and replies they refuse.
What is asked for, and the rows of a reply, are lists of pairs of a criterion and a
target, in any order and with any repetitions; `Complete` compares lengths and
sets, as the code does.
Spans are exported in the background (`ExportInBackground`), in any batches, until the
flush; an export that fails is noticed by `CheckedExporter`. Of the scores the
service takes any part, and its receipt tells
whether any was rejected. The exporter is always there: only tests pass a client of
their own. `Kill` is the death of the process. The model has one evaluation;
`golden_evaluation.run_comparison` makes two in a row.

**StageEvaluation.** Several processes, several commands, one directory, no lock.
`Edit` changes the criteria while an evaluation runs; `Kill` may come between
any two steps and the command be given again. The call of `EvaluationRun` is
one step here with the ends `EvaluationPromise` allows.

**RunComparison.** The harness is a function of the sheet; judge, author and
evaluator answer anything or fail. Rows hold the sets whose sizes the code
reports.

## What is checked

| Run | Bounds | Shows |
|---|---|---|
| `research_pairs` | 2 queries (topic, NFR), 3 URLs, replies of two calls, 5 invocations | all interleavings of two calls of one tool, and keep with requery or fetch; every invariant, and `ImplementsTrail` |
| `research_long` | the same queries, 2 URLs, 7 invocations, refused and unknown calls | `Termination` of sessions with search, fetch, keep, requery, fetch, keep |
| `requery_doc`, `discard_doc` | 3 URLs, single calls after a double search, 7 invocations | two statements of `docs/nfr-design.md` the code does not keep |
| `research_tools` | plan: 1 or 2 candidates, 3 queries, lists of 5; keep: 2 documents of 3 and 2 sentences, budget 10; 2 searches, responses of 3 items; 5 fetches of 2 URLs by 2 threads | the plan and the three tools, that each answers, and that a search or a fetch is one step to its caller (`CallsAreOneStep`) |
| `generation` | 4 selections, 5 rubrics, the real checks; 2 repairs, 3 attempts | everything the graph promises, under interruption at any step, `ImplementsDelivery`, `Termination`; delivered sheets are whole, and the run gives up only on the hopeless |
| `sheet` | 10 selections and 242 rubrics, a few flaws each; texts of 5 characters of 12 | what a passing draft looks like; which errors rewriting can mend; which texts come back |
| `checks_wide` | 3 NFRs, at most 2 criteria | a statement of `export/agent.py` the code does not keep |
| `dialogue` | 2 levels, 2 drafts, 2 phases, answers until 5 messages, 2 messages waiting of a kind | everything `ArchGenApp` promises, assessments and runs failing, `ImplementsAgreement`, `Answered` |
| `evaluation` | 2 keys, lists of up to 3 asked for and up to 3 rows, 3 attempts | every way an evaluation may end, and `KeepsPromise` |
| `stage_evaluation` | 2 stages, 2 criteria texts, 2 processes, 3 commands, 2 edits | one evaluation of a stage, honest results and exit codes |
| `comparison` | 3 sheets, 2 keys, 6 orders of two or three conditions, one review that may be malformed | rows that can be compared, `EveryConditionIsRecorded` |

A property that is a conjunction of named parts (`RowsAreComparable`,
`EndIsHonest`, `OutcomeIsFinal` and others) is stated part by part in its
module, each with its comment. Type invariants are not run where they are
proved by themselves; elsewhere they are a part of the property run
(`PlanIsSound`, `OfferedOnce`, `OneDocumentPerUrl`, `TextComesBack`,
`RowsAreComparable`). Deadlock is checked everywhere; a state in which the system really
rests has a step of its own that says so (`Terminated` and the like).

Why the bounds are enough. Two queries are needed for ownership, and the
symmetric third adds none; three URLs, which one search may all return, exceed `FetchBatch = 2`, so that a round
can be overdrawn by two calls; `MaxRequery = 1`, `SufficientDocsTopic = 1` and
`MaxRepairs = 2` are the values of the code. Five or seven invocations (instead
of 20) include planning, a search, a fetch, a keep and a requery with what
follows. `Attempts = 3` and `MaxAttempts = 3` are the code's. In `sheet` one or
two criteria stand for two to four and two scores for four: every comparison of
the checks has a draft on either side of it; five characters are enough for an
escape, a bar and a break with something on either side. In `research_tools`
the first two sentences of one document fill the budget exactly, one of the
other fills it alone and one never fits; lists of five exceed every limit of the
plan; three items exceed what one search returns; five fetches come back to each
URL after a failure and after a success. In `evaluation` three rows for
two keys have the right keys and a row too many, two rows for one key have the
right number and a key too few, and a key asked for twice lets both pass. In `stage_evaluation` two processes compete for a stage
and a third command comes after both. In `comparison` each condition of the
code runs, before and after another one. In `dialogue` five messages hold a
question, two answers and a rejected draft, or as many failed assessments; two
answers waiting are what it takes to overtake the handling of the first. URLs,
and the processes and texts of the stage evaluation, are symmetric in runs
without fairness; no symmetry is used for liveness.

Fairness: weak fairness of the next step in the session, the graph, the plan and
the comparison, of each call (a thread) of searches and fetches, and of
the workers alone in the application (nothing is assumed of its user). It says
that a thread of the pool runs and that requests end. `evaluation` and
`stage_evaluation` assume none: a process may be killed or stop anywhere. The models are built with a
timeout (`core/service.py:175`), pages are fetched with one
(`retrieval/crawler.py:62`), and the search client answers or raises; a search
needs no strong fairness for its lock, since each call takes it once. Nothing is
assumed about *what* the model, the judge or the services answer.

Mutants: beside a definition some modules hold a changed one (`..._OffByOne`
and the like), named in `PROJECT.json` with the property that must fail when it
takes the definition's place. They show that the property depends on that code.

## What is proved

For every value of the constants that satisfies the named assumptions:

* `ResearchSessionProofs`: `TypeOK`, `OneOwner`, `FetchRound`, `FetchedOnce`,
  `RequeryOnlyWhileShort` and `EveryDocumentJudged`, all from the inductive
  `IInv`. None of them is inductive alone. `OneOwner` needs to know that what a
  query holds was returned by some search (`HeldWasReturned`); `FetchedOnce`
  that pages were selected for the query of the call (`PagesWereSelected`) and
  that a fetched page is no document before the phase ends (`FetchPending`);
  `EveryDocumentJudged` that verdicts concern documents only; and the
  refinement that a first answer finds a query without results
  (`SearchedOnce`), for it would otherwise withdraw offers. And `ResearchSession`
  implements `EvidenceTrail`: offers and documents of the trail include what the
  calls of the running phase hold; most steps map to one abstract step, the end
  of a phase to a stutter or a withdrawal, a page to the collection of a document.
* `ResearchToolsProofs`, of the keep tool: `TypeOK`, `BudgetIsUsed` with its parts
  `CharsAreCounted`, `WithinBudget` and `SkippedForLackOfRoom`,
  `ConversationIsCurrent` and `KeptForGood`. The part of `IInv`
  that carries most of them is `Replay`: while a call goes through the sentences
  chosen before, what it has picked is a beginning of them and its count is the
  count of that time, so each fits again as it did then. It needs that every
  choice is on record with its count (`ChoicesCounted`). `CharsAreCounted`
  compares a running count with a sum over a set, so it rests on lemmas about
  `SumFunctionOnSet`: the order in which a set is added up is of no account
  (`AnyFirst`), so that one element more adds its term (`SumOfOneMore`).
* `ResearchToolsProofs`, of the plan and the other tools: `PlanIsSound`,
  `OfferedOnce` and `OneDocumentPerUrl`, each from an invariant of its module.
  `PlanIsSound` speaks of an accepted plan: that each query is for a candidate or
  the topic and has a text of its own is kept while the queries are read
  (`QueriesFit`), and that none is missing follows from the numbers the code
  compares. `OfferedOnce` rests on the lock (`Holding`) and on what a call is about
  to take being new as long as it holds it (`Looking`); `OneDocumentPerUrl` on no
  two calls being under way for one URL (`Exclusive`), which the session grants.
* `ResearchToolsProofs`, of the calls: `CallsAreOneStep` (`CallsAreSteps`). What a
  call does before it is answered changes nothing of `SearchPromise`
  (`UnseenUntilAnswered`), though it holds the lock and marks URLs as seen. Its
  answer takes at once what it collected item by item (`AnsweredAtOnce`): all of it
  is still new, since no other call holds any of it (`CollectedOnce`), and there is
  less of it than a search may return when it fails (`Room`). A fetch that
  delivers needs a document no URL has yet, although it was stored a step before:
  each result names a document stored for its own URL (`ResultsAreStored`), and
  the URL of a call under way has none (`Busy`).
* `ScoringSheetProofs`, of the checks: a draft without findings has a whole sheet and marks
  that add up (`SheetIsSound`); the errors hidden from the author are those
  of the selection alone (`UnrepairableIsOfSelection`), which no rewriting
  removes; and the errors passed to the author can always be mended together
  (`RepairCanSucceed`, for the property `RepairHasAWayOut`). The last constructs
  a rubric: a criterion for each NFR, with one point but for the first, which takes
  what is left. It asks for an author who may write any criteria, at least one
  and at most `WeightTotal` criteria, and a text for each score (`FreeAuthor`);
  the code has 2 to 4 criteria, 100 points, four scores and free text.
* `ScoringSheetProofs`, of the texts: `TextComesBack`, for texts of any length.
  `Pos` says where a character stands once the bars before it are escaped;
  `IsCell` and `IsField` say in its terms what the writer has made of a text and
  what the reader cuts out of the row. So the only bar without a backslash is the
  one between the cells (`CellBars`, `CellsOfRow`), and the places the reader
  keeps when it unescapes are those of the characters of the text (`Keeps`,
  `FieldUnescaped`), which gives each of them back. Of a description `SectionIs`
  says where its characters stand in the section and `SplitIs` what a `split`
  cuts out around the first of its markers. A text that is not `Ambiguous` has
  none that counts before the template's own (`PlainIs`): so the section is one
  criterion (`OneHeading`, `ChunkIs`), whose description ends at the blank line of
  the template (`BlockReturns`) and whose levels begin below its header
  (`TableReturns`).
* `GenerationGraphProofs`, of the graph alone: `TypeOK`, `PublishedIsVerified`,
  `FindingsAreCurrent`, `RunExplainsItself`, that the renderer never raises, and
  `ImplementsDelivery`, from an `IInv` that says what each node may rely on
  (`Rendering`, `Judging`, `Repairing`) and which three ways lead to `finalize`
  (`Stopped`, `Failing`, `Passing`). From the harness only this is assumed: an
  export without errors can be rendered.
* `GenerationGraphProofs`, of the graph over the checks: that assumption follows
  from the checks (`PassedIsRenderable`); a sheet on disk is whole and its marks
  add up (`DeliveredSheetIsWhole`); and a run that ends for errors of its
  selection could not have been saved by any rubric (`GivesUpOnTheHopeless`). The
  theorems of `ScoringSheetProofs` are cited through an instance. `IInv` says for
  them that what is published was found acceptable (`Delivered`), and that the
  errors a run ends for are those of the checks or of the judge on its last draft
  (`ErrorsAreSaid`, `GivenUp`).
* `ArchGenAppProofs`: the six invariants and `ImplementsAgreement`, from an
  `IInv` that ties the flags to the workers (`WorkersReport`), the workers to
  the threads (`OneThread`) and an assessment to a message that waits for its
  answer (`UserSpoke`, `Undecided`). `NeverStuck` follows from the
  first and from `FieldOpen`; `ImplementsAgreement` needs that an assessment
  under way belongs to no agreed draft, so that its decision cannot replace one.
* `EvaluationRunProofs`: `TypeOK`, `ResultIsSound`, `EndIsHonest` and
  `KeepsPromise`, from what holds while the judge is asked
  (`Judging`), once it has answered or failed (`Judged`), of the spans at each
  place of the run (`Traced`: each is queued, accepted, or its loss is known),
  and of scores and file (`Delivered`). That equal lengths and equal sets mean one
  row for each key is `SameLength`.
* `StageEvaluationProofs`: `TypeOK`, `ResultStands`, `ExitCodeIsHonest` and
  `OutcomeIsFinal`, for any number of processes, stages and commands. No lock
  keeps the processes apart: the argument is that a snapshot is created
  exclusively and never removed, so a stage has one owner at most and had none
  before (`Owners`, `Untouched`); `Written` says how far its owner has come, and
  `Accounted` that each stage a command is done with has a result or a failure.
* `RunComparisonProofs`: `TypeOK`, `RowsAreComparable` and that a comparison that
  returns has all its rows. Whatever is said of a sheet comes from the cache of
  evaluations, whose entries are never replaced, and the baseline is the entry of
  the initial sheet (`Cached`); a condition that ends as complete was checked
  after its last repair (`RoundsOver`, which needs `Rounds`).

Three arguments are inductions over data: that a sum does not depend on the order
of its terms, what one particular sum is, and what escaping makes of a text as
far as it goes. They are carried out by least counterexample (`Least`, from the
well-foundedness of the natural numbers): of the cases in which the claim fails
one is smallest, and with one element or character less it holds.

Only model-checked:

* liveness, which is beyond the prover: the two `Termination` properties,
  `Answered`, `ToolsAnswer`, `EveryConditionIsRecorded` (of the last the part
  about comparisons that return is `ReturnedIsWhole`).

## Disagreements found

* `docs/nfr-design.md:288` allows a requery only when all unseen URLs of the
  query have been looked at; `_Session._requery` does not ask for it.
* `docs/nfr-design.md:326` says a document not kept by the end of its batch is
  discarded; `KeepTool.keep` accepts it for the rest of the session.
* `export/agent.py:24` says only errors that can be mended are passed to the
  author; a selection of more than `CRITERIA_MAX` NFRs, which nothing rules
  out, gives errors that are passed on and that no rubric mends.

Met while modelling, each without a run of its own, because it is a choice the
models already make:

* The comment at `validation_comparison.py:210` says that the failure of a
  condition is recorded and the next independent one is run; a malformed review
  of one condition is raised outside of every `try` (line 274) and loses its row
  and all later ones. `EveryConditionIsRecorded` says exactly that. Some malformed
  labels are only met once the labels cover all findings: in the model such a
  condition may be recorded or raise.
* The docstring at `retrieval/search.py:14` speaks of URLs that were returned;
  URLs collected before a malformed item count as seen although their call
  returned nothing, and no later search offers them.
* The docstring at `render/post_render.py:66` calls a difference an error of the
  renderer; some texts are reported as one although both parts of the renderer
  work as written. Of the descriptors these are among those with a `<br>` of their
  own, with a line break that is no newline or stands at an end, or ending like a
  row of the summary (`Unlucky`). Of the descriptions they are among those with a
  line break that is no newline, a blank line, or a line that begins like a
  heading or ends like the header of a table or a row of the summary
  (`Ambiguous`). A description that begins with `### ` is one: `\n### ` takes the
  newline of the label above it (line 46), `_block` does not find the label
  (lines 245 to 247), and the description reads back empty; one with a line that
  begins with `## ` adds an NFR (line 37). `TextsComeBack` proves that every other
  text comes back.
* `evaluate` does not reject a rubric that repeats a heading, as the other two
  judges do; with one, the numbers of rows may be right and a key lack its row.
  `OnceForEachKey` is therefore stated for rubrics without repetitions.

## Plan

The plan of the first version is carried out. What would add most next:

1. The session over the real `KeepTool`, `SearchTool` and `FetchTool`, in place
   of steps that stand for them. That a search and a fetch are single steps is
   proved (`CallsAreSteps`); what is left is to put the tools into the session,
   whose instances are too large for that, and to do the same for `KeepTool`.
2. The two evaluations of a golden comparison in a row.
3. The headings, the summary and the requirement in `SheetText`.

## Not modelled

* The catalog and the prompt templates: read-only data.
* Configuration, command line and the scripts `try_*.py`: input and output
  around parts that are modelled, without state of their own.
* The language rules of the author: they decide only whether the model is asked
  again, which is a choice.
* The texts of prompts and messages, the percentages computed from verdicts, how
  text is extracted from a page and split into sentences.
* The writing of a single file, step by step: it is taken as atomic, except in
  `StageEvaluation`, where an opened file that is not yet written is a state.
