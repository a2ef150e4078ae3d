---------------------------- MODULE ResearchPlan ----------------------------
(***************************************************************************)
(* The initial plan of the research (research/agent.py and                 *)
(* InitialResearchPlan of domain/research.py): a reply of the model is     *)
(* tidied entry by entry, validated, and asked for once more if it is      *)
(* refused.                                                                *)
(*                                                                         *)
(* A kind is one in its snake_case form, a text one in its normal form, so *)
(* two spellings of either are the same value.  A reply lists any          *)
(* candidates and then any queries, which are read one by one.             *)
(***************************************************************************)
EXTENDS Naturals, FiniteSets

CONSTANTS
  Kinds,
  Topic,           \* related_nfr = null
  Texts,
  CandidatesMin, CandidatesMax, MaxQueries,
  MaxEntries,      \* bound on the entries of each list of a reply
  MaxAttempts      \* one retry: 2

PlanAssumption ==
  /\ Topic \notin Kinds
  /\ CandidatesMin \in Nat /\ CandidatesMax \in Nat /\ MaxAttempts \in Nat \ {0}
  /\ MaxQueries \in Nat /\ MaxQueries > CandidatesMax
  /\ MaxEntries \in Nat

Queries == [text : Texts, kind : Kinds \cup {Topic}]

VARIABLES
  attempt,     \* replies asked for
  reading,     \* the list of the reply that is read
  entries,     \* how many of its entries have been read
  listed,      \* kinds the reply lists as candidates
  candidates,  \* nfr_candidates
  texts,       \* the texts of the queries read
  queries,     \* search_queries
  reason       \* why the last reply was refused

plan == <<entries, listed, candidates, texts, queries>>
vars == <<attempt, reading, plan, reason>>

Reasons == {"none", "schema", "candidates", "topic", "candidate", "queries"}

TypeOK ==
  /\ attempt \in 0..MaxAttempts
  /\ reading \in {"ask", "candidates", "queries", "accepted", "failed"}
  /\ entries \in 0..MaxEntries
  /\ listed \subseteq Kinds /\ candidates \subseteq Kinds
  /\ texts \subseteq Texts /\ queries \subseteq Queries
  /\ reason \in Reasons

Blank == entries' = 0 /\ listed' = {} /\ candidates' = {} /\ texts' = {} /\ queries' = {}

Init ==
  /\ attempt = 0 /\ reading = "ask" /\ entries = 0
  /\ listed = {} /\ candidates = {} /\ texts = {} /\ queries = {}
  /\ reason = "none"

Counted == attempt + 1

Ask ==
  /\ reading = "ask" /\ reading' = "candidates"
  /\ attempt' = Counted
  /\ Blank /\ UNCHANGED reason

\* The call fails, or its reply is no text: no plan, and no other try.
CallFails ==
  /\ reading = "ask" /\ reading' = "failed"
  /\ UNCHANGED <<attempt, plan, reason>>

\* The first candidate of a kind stays.
ReadCandidate(k) ==
  /\ reading = "candidates" /\ entries < MaxEntries
  /\ entries' = entries + 1
  /\ listed' = listed \cup {k}
  /\ candidates' = candidates \cup {k}
  /\ UNCHANGED <<attempt, reading, texts, queries, reason>>

CandidatesRead ==
  /\ reading = "candidates" /\ reading' = "queries"
  /\ entries' = 0
  /\ UNCHANGED <<attempt, listed, candidates, texts, queries, reason>>

Reading(q) ==
  /\ reading = "queries" /\ entries < MaxEntries
  /\ entries' = entries + 1
  /\ UNCHANGED <<attempt, reading, listed, reason>>

Repeated(q) == q.text \in texts

\* Of two queries with one text the first stays, whatever their kinds.
DropRepeated(q) ==
  /\ Reading(q) /\ Repeated(q)
  /\ UNCHANGED <<candidates, texts, queries>>

Unknown(q) == q.kind \notin candidates \cup {Topic}

\* Mutant: the limit on what is added is one too high.
Full_OffByOne == Cardinality(candidates) > CandidatesMax

Full == Cardinality(candidates) >= CandidatesMax

\* Its text counts as read: a later query with it is repeated.
DropUnknown(q) ==
  /\ Reading(q) /\ ~Repeated(q) /\ Unknown(q) /\ Full
  /\ texts' = texts \cup {q.text}
  /\ UNCHANGED <<candidates, queries>>

Added(q) == candidates \cup {q.kind}

AddUnknown(q) ==
  /\ Reading(q) /\ ~Repeated(q) /\ Unknown(q) /\ ~Full
  /\ candidates' = Added(q)
  /\ texts' = texts \cup {q.text} /\ queries' = queries \cup {q}

TakeQuery(q) ==
  /\ Reading(q) /\ ~Repeated(q) /\ ~Unknown(q)
  /\ texts' = texts \cup {q.text} /\ queries' = queries \cup {q}
  /\ UNCHANGED candidates

QueriesOf(k) == {q \in queries : q.kind = k}

OneEach == \A k \in candidates : Cardinality(QueriesOf(k)) = 1

Refusal ==
  IF Cardinality(candidates) \notin CandidatesMin..CandidatesMax THEN "candidates"
  ELSE IF Cardinality(QueriesOf(Topic)) # 1 THEN "topic"
  ELSE IF ~OneEach THEN "candidate"
  ELSE IF Cardinality(queries) > MaxQueries THEN "queries"
  ELSE "none"

Accept ==
  /\ reading = "queries" /\ Refusal = "none"
  /\ reading' = "accepted"
  /\ UNCHANGED <<attempt, plan, reason>>

AfterRefusal == IF attempt < MaxAttempts THEN "ask" ELSE "failed"

Refuse ==
  /\ reading = "queries" /\ Refusal # "none"
  /\ reason' = Refusal /\ reading' = AfterRefusal
  /\ Blank /\ UNCHANGED attempt

\* An entry is malformed, or the reply is no JSON.
MalformedReply ==
  /\ reading \in {"candidates", "queries"}
  /\ reason' = "schema" /\ reading' = AfterRefusal
  /\ Blank /\ UNCHANGED attempt

Terminated == reading \in {"accepted", "failed"} /\ UNCHANGED vars

Next ==
  \/ Ask \/ CallFails \/ CandidatesRead \/ Accept \/ Refuse \/ MalformedReply
  \/ \E k \in Kinds : ReadCandidate(k)
  \/ \E q \in Queries : DropRepeated(q) \/ DropUnknown(q) \/ AddUnknown(q) \/ TakeQuery(q)
  \/ Terminated

Spec == Init /\ [][Next]_vars

(* A reply has finitely many entries, and reading goes on to its end. *)
FairSpec == Spec /\ WF_vars(Next)

-----------------------------------------------------------------------------
(* Properties *)

(* A plan that is accepted searches once for the topic and once for each of
   its candidates, for nothing else, and never the same text twice.  Tidying
   loses none of the candidates a reply lists: it makes room for those that
   only a query names by what is left, and no further. *)
PlanIsSound ==
  /\ reading = "accepted" =>
       /\ {q.kind : q \in queries} = candidates \cup {Topic}
       /\ Cardinality(queries) = Cardinality(candidates) + 1
       /\ \A q, r \in queries : q.text = r.text \/ q.kind = r.kind => q = r
  /\ listed \subseteq candidates
  /\ candidates # listed => Cardinality(candidates) <= CandidatesMax

(* The plan is accepted or given up, after at most one retry. *)
Settled == <>(reading \in {"accepted", "failed"})
=============================================================================
