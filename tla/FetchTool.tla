------------------------------ MODULE FetchTool ------------------------------
(***************************************************************************)
(* The fetch tool of a research session (retrieval/crawler.py): a page is  *)
(* requested, once more if the failure may pass, and stored as a document. *)
(* A URL that was fetched is answered from the tool's results.             *)
(*                                                                         *)
(* Calls run on threads of their own and take no lock.  The session never  *)
(* has two calls for one URL at a time (FetchedOnce of ResearchSession);   *)
(* one after the other they may come.                                      *)
(***************************************************************************)
EXTENDS Naturals, FiniteSets

CONSTANTS
  Calls,
  Urls,
  Docs,       \* what uuid4 may give
  MaxFetches, \* bound on the calls for all URLs together
  None

FetchAssumption ==
  None \notin Urls /\ None \notin Docs /\ MaxFetches \in Nat

VARIABLES
  at,         \* per call: how far it has come,
  url,        \* what it is to fetch,
  doc,        \* and the document made of it
  documents,  \* the URL of each document stored
  cached,     \* _results: the document of each URL
  fetches     \* calls begun

vars == <<at, url, doc, documents, cached, fetches>>

Partial(S, T) == UNION {[D -> T] : D \in SUBSET S}

TypeOK ==
  /\ at \in [Calls -> {"idle", "request", "retry", "page", "store", "document", "failed"}]
  /\ url \in [Calls -> Urls \cup {None}]
  /\ doc \in [Calls -> Docs \cup {None}]
  /\ \A c \in Calls : at[c] \in {"store", "document"} => doc[c] # None
  /\ documents \in Partial(Docs, Urls) /\ cached \in Partial(Urls, Docs)
  /\ fetches \in 0..MaxFetches

Init ==
  /\ at = [c \in Calls |-> "idle"] /\ url = [c \in Calls |-> None]
  /\ doc = [c \in Calls |-> None]
  /\ documents = [d \in {} |-> None] /\ cached = [u \in {} |-> None]
  /\ fetches = 0

-----------------------------------------------------------------------------
Idle(c) == at[c] \in {"idle", "document", "failed"}

Move(c, from, to) == at[c] = from /\ at' = [at EXCEPT ![c] = to]

\* The session hands out a URL that no other call is fetching.
Called(c, u) ==
  /\ Idle(c) /\ fetches < MaxFetches /\ fetches' = fetches + 1
  /\ \A d \in Calls : Idle(d) \/ url[d] # u
  /\ url' = [url EXCEPT ![c] = u]
  /\ UNCHANGED <<documents, cached>>

\* Mutant: nothing is remembered.
Known_Never(u) == FALSE

Known(u) == u \in DOMAIN cached

AnswerFromCache(c, u) ==
  /\ Called(c, u) /\ Known(u)
  /\ at' = [at EXCEPT ![c] = "document"]
  /\ doc' = [doc EXCEPT ![c] = cached[u]]

Begin(c, u) ==
  /\ Called(c, u) /\ ~Known(u)
  /\ at' = [at EXCEPT ![c] = "request"]
  /\ doc' = [doc EXCEPT ![c] = None]

\* Timeouts, connection errors, 429 and 5xx are worth one retry.
AfterFailure(c) == IF at[c] = "request" THEN "retry" ELSE "failed"

Requested(c) ==
  /\ at[c] \in {"request", "retry"}
  /\ UNCHANGED <<url, doc, documents, cached, fetches>>

Arrives(c) == Requested(c) /\ at' = [at EXCEPT ![c] = "page"]

FailsForNow(c) == Requested(c) /\ at' = [at EXCEPT ![c] = AfterFailure(c)]

FailsForGood(c) == Requested(c) /\ at' = [at EXCEPT ![c] = "failed"]

AfterBlank == "failed"

\* The page has no text.
Blank(c) ==
  /\ Move(c, "page", AfterBlank)
  /\ UNCHANGED <<url, doc, documents, cached, fetches>>

Fresh(d) == d \in Docs \ DOMAIN documents /\ \A c \in Calls : doc[c] # d

StoreDocument(c, d) ==
  /\ Move(c, "page", "store")
  /\ Fresh(d)
  /\ doc' = [doc EXCEPT ![c] = d]
  /\ documents' = [e \in DOMAIN documents \cup {d} |->
                     IF e = d THEN url[c] ELSE documents[e]]
  /\ UNCHANGED <<url, cached, fetches>>

Filed(c) == {url[c]}

StoreResult(c) ==
  /\ Move(c, "store", "document")
  /\ cached' = [u \in DOMAIN cached \cup Filed(c) |->
                  IF u \in Filed(c) THEN doc[c] ELSE cached[u]]
  /\ UNCHANGED <<url, doc, documents, fetches>>

Terminated == fetches = MaxFetches /\ (\A c \in Calls : Idle(c)) /\ UNCHANGED vars

Step(c) ==
  \/ Arrives(c) \/ FailsForNow(c) \/ FailsForGood(c) \/ Blank(c)
  \/ (\E d \in Docs : StoreDocument(c, d)) \/ StoreResult(c)

Next ==
  \/ \E c \in Calls : \/ Step(c)
                     \/ \E u \in Urls : AnswerFromCache(c, u) \/ Begin(c, u)
  \/ Terminated

Spec == Init /\ [][Next]_vars

(* A request has a timeout of 20 seconds. *)
FairSpec == Spec /\ \A c \in Calls : WF_vars(Step(c))

-----------------------------------------------------------------------------
(* Properties *)

(* A URL is made one document of, however often it is asked for: the
   documents stored are those of the results, but for those being stored, and
   a call is answered by that of the URL it asked for, a new one or not. *)
OneDocumentPerUrl ==
  /\ \A d, e \in DOMAIN documents : documents[d] = documents[e] => d = e
  /\ \A d \in DOMAIN documents :
       \/ documents[d] \in DOMAIN cached /\ cached[documents[d]] = d
       \/ \E c \in Calls : at[c] = "store" /\ doc[c] = d
  /\ \A c \in Calls : at[c] = "document" =>
       doc[c] \in DOMAIN documents /\ documents[doc[c]] = url[c]

Promise == INSTANCE FetchPromise WITH
  pending <- [c \in Calls |-> IF Idle(c) THEN None ELSE url[c]],
  answer <- [c \in Calls |-> IF at[c] = "document" THEN doc[c] ELSE None],
  documentOf <- cached

(* To whoever calls it a fetch ends in one step, although the document is
   stored before it is filed under its URL. *)
IsOneStep == Promise!Spec

(* Every request is answered, after one retry at most. *)
Answered == \A c \in Calls : at[c] = "request" ~> Idle(c)
=============================================================================
