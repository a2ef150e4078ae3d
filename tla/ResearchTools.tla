---------------------------- MODULE ResearchTools ----------------------------
(***************************************************************************)
(* The plan of the research and the tools of its session side by side,     *)
(* each with an instance of its own.  They share no state, and what one    *)
(* does changes nothing for another: a behaviour is one of the plan, of    *)
(* the keep tool, of searches or of fetches, as part says.                 *)
(* ResearchSession is the module that has them all at work in one session. *)
(***************************************************************************)
EXTENDS KeepTool

CONSTANTS
  Kinds, Topic, Texts, MaxEntries,
  CandidatesMin, CandidatesMax, MaxQueries, MaxAttempts,
  Calls, Urls, Malformed, MaxItems, ResultsPerQuery, Free,
  Pages, MaxFetches, None

VARIABLES
  part,
  attempt, reading, entries, listed, candidates, texts, queries, reason,
  searching, response, results, lock, seen,
  fetching, url, page, stored, cached, fetches

planVars == <<attempt, reading, entries, listed, candidates, texts, queries, reason>>
searchVars == <<searching, response, results, lock, seen>>
fetchVars == <<fetching, url, page, stored, cached, fetches>>

toolVars == <<part, vars, planVars, searchVars, fetchVars>>

Plan == INSTANCE ResearchPlan

Searches == INSTANCE SearchTool WITH at <- searching

Fetches == INSTANCE FetchTool WITH
  Docs <- Pages, at <- fetching, doc <- page, documents <- stored

ASSUME ToolsAssumption ==
  Plan!PlanAssumption /\ Searches!SearchAssumption /\ Fetches!FetchAssumption

ToolsInit ==
  /\ part \in {"plan", "keep", "search", "fetch"}
  /\ Init /\ Plan!Init /\ Searches!Init /\ Fetches!Init

PlanStep == part = "plan" /\ Plan!Next /\ UNCHANGED <<part, vars, searchVars, fetchVars>>

KeepStep == part = "keep" /\ Next /\ UNCHANGED <<part, planVars, searchVars, fetchVars>>

IsSearch == part = "search" /\ UNCHANGED <<part, vars, planVars, fetchVars>>

SearchStep(c) == IsSearch /\ Searches!Step(c)

IsFetch == part = "fetch" /\ UNCHANGED <<part, vars, planVars, searchVars>>

FetchStep(c) == IsFetch /\ Fetches!Step(c)

ToolsNext ==
  \/ PlanStep \/ KeepStep
  \/ (\E c \in Calls : SearchStep(c)) \/ (IsSearch /\ Searches!Terminated)
  \/ (IsFetch /\ Fetches!Next)

ToolsSpec ==
  /\ ToolsInit /\ [][ToolsNext]_toolVars
  /\ WF_toolVars(PlanStep)
  /\ \A c \in Calls : WF_toolVars(SearchStep(c)) /\ WF_toolVars(FetchStep(c))

-----------------------------------------------------------------------------
(* The plan of ResearchPlan is sound, well-typed, and loses no candidate it
   was given. *)
PlanIsSound == Plan!TypeOK /\ Plan!PlanIsSound

(* What SearchTool says: no URL is offered twice, none is held back that no
   call has collected, and a call that returns few has nothing more to give. *)
OfferedOnce ==
  /\ Searches!TypeOK
  /\ Searches!ReturnedOnce /\ Searches!ReturnsWhatItCan
  /\ Searches!SeenWereCollected

(* What FetchTool says: one document for each URL, however often it is asked
   for, and each call is answered by that of its own. *)
OneDocumentPerUrl == Fetches!TypeOK /\ Fetches!OneDocumentPerUrl

(* The calls of both tools are the single steps ResearchSession takes them for
   (SearchPromise, FetchPromise), whatever interleaves with what they are made
   of. *)
CallsAreOneStep == Searches!IsOneStep /\ Fetches!IsOneStep

(* Planning ends after one retry at most, and every search and every fetch is
   answered: a malformed response keeps nobody waiting, a page that fails is
   asked for once more at most. *)
ToolsAnswer ==
  /\ part = "plan" => Plan!Settled
  /\ part = "search" => Searches!Answered
  /\ part = "fetch" => Fetches!Answered
=============================================================================
