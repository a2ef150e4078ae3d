----------------------------- MODULE SearchTool -----------------------------
(***************************************************************************)
(* The search tool of a research session (retrieval/search.py): calls on   *)
(* threads of their own ask the service side by side, and collect one at a *)
(* time, under the tool's lock, what no call has returned before.          *)
(* ResearchSession takes the collecting for one step; here it is item by   *)
(* item, and an item of the response may be malformed.                     *)
(***************************************************************************)
EXTENDS Naturals, Sequences, FiniteSets, SequencesExt

CONSTANTS
  Calls,
  Urls,
  Malformed,         \* an item without a URL or without a title
  ResultsPerQuery,   \* RESULTS_PER_QUERY
  MaxItems,          \* bound on the items of a response
  Free               \* nobody holds the lock

SearchAssumption ==
  /\ Malformed \notin Urls /\ Free \notin Calls
  /\ ResultsPerQuery \in Nat \ {0} /\ MaxItems \in Nat

Items == Urls \cup {Malformed}

VARIABLES
  at,        \* per call: how far it has come,
  response,  \* the items not gone through yet,
  results,   \* what is collected,
  lock,
  seen       \* _seen_urls

vars == <<at, response, results, lock, seen>>

TypeOK ==
  /\ at \in [Calls -> {"request", "wait", "look", "take", "returned", "failed"}]
  /\ response \in [Calls -> Seq(Items)]
  /\ \A c \in Calls : Len(response[c]) <= MaxItems
  /\ results \in [Calls -> Seq(Urls)]
  /\ lock \in Calls \cup {Free}
  /\ seen \subseteq Urls

Init ==
  /\ at = [c \in Calls |-> "request"]
  /\ response = [c \in Calls |-> <<>>]
  /\ results = [c \in Calls |-> <<>>]
  /\ lock = Free /\ seen = {}

-----------------------------------------------------------------------------
Move(c, from, to) == at[c] = from /\ at' = [at EXCEPT ![c] = to]

Respond(c, r) ==
  /\ Move(c, "request", "wait")
  /\ response' = [response EXCEPT ![c] = r]
  /\ UNCHANGED <<results, lock, seen>>

RequestFails(c) ==
  /\ Move(c, "request", "failed")
  /\ UNCHANGED <<response, results, lock, seen>>

\* Mutant: nobody waits.
Acquirable_Always == TRUE

Acquirable == lock = Free

Acquire(c) ==
  /\ Move(c, "wait", "look")
  /\ Acquirable /\ lock' = c
  /\ UNCHANGED <<response, results, seen>>

\* The lock is released, whichever way the block is left.
Release == lock' = Free

Item(c) == Head(response[c])

Advance(c) == response' = [response EXCEPT ![c] = Tail(@)]

SkipSeen(c) ==
  /\ Move(c, "look", "look")
  /\ response[c] # <<>> /\ Item(c) \in seen
  /\ Advance(c)
  /\ UNCHANGED <<results, lock, seen>>

New(c) == Item(c) \in Urls \ seen

Look(c) ==
  /\ Move(c, "look", "take")
  /\ response[c] # <<>> /\ New(c)
  /\ UNCHANGED <<response, results, lock, seen>>

\* Mutant: the limit is looked at before the result is counted.
Full_TooLate(c) == Len(results[c]) = ResultsPerQuery

Full(c) == Len(results[c]) + 1 = ResultsPerQuery

Marked(c) == {Item(c)}

Take(c) ==
  /\ at[c] = "take"
  /\ results' = [results EXCEPT ![c] = Append(@, Item(c))]
  /\ seen' = seen \cup Marked(c)
  /\ IF Full(c)
     THEN at' = [at EXCEPT ![c] = "returned"] /\ Release
     ELSE at' = [at EXCEPT ![c] = "look"] /\ UNCHANGED lock
  /\ Advance(c)

\* Mutant: the response is gone through again.
AfterMalformed_Again == "wait"

AfterMalformed == "failed"

\* SearchResult or the missing key raises; the call is answered by an error.
ItemMalformed(c) ==
  /\ Move(c, "look", AfterMalformed)
  /\ response[c] # <<>> /\ Item(c) = Malformed
  /\ Release
  /\ UNCHANGED <<response, results, seen>>

Return(c) ==
  /\ Move(c, "look", "returned")
  /\ response[c] = <<>>
  /\ Release
  /\ UNCHANGED <<response, results, seen>>

Terminated ==
  /\ \A c \in Calls : at[c] \in {"returned", "failed"}
  /\ UNCHANGED vars

Step(c) ==
  \/ \E r \in BoundedSeq(Items, MaxItems) : Respond(c, r)
  \/ RequestFails(c) \/ Acquire(c) \/ SkipSeen(c) \/ Look(c) \/ Take(c)
  \/ ItemMalformed(c) \/ Return(c)

Next == (\E c \in Calls : Step(c)) \/ Terminated

Spec == Init /\ [][Next]_vars

(* The client's requests time out, and a thread that waits for the lock gets
   it in the end. *)
FairSpec == Spec /\ \A c \in Calls : WF_vars(Step(c))

-----------------------------------------------------------------------------
(* Properties *)

Collected(c) == ToSet(results[c])

(* No URL is offered twice, by one call or by two, although the calls run
   side by side and their responses overlap. *)
ReturnedOnce ==
  /\ \A c \in Calls : IsInjective(results[c])
  /\ \A c, d \in Calls : c # d => Collected(c) \cap Collected(d) = {}

(* The limit of results is kept, and a call that returns fewer has gone
   through all of its response. *)
ReturnsWhatItCan ==
  \A c \in Calls :
    /\ Len(results[c]) <= ResultsPerQuery
    /\ at[c] = "returned" /\ Len(results[c]) < ResultsPerQuery => response[c] = <<>>

(* A URL is held back only because a call has collected it. *)
SeenWereCollected == seen = UNION {Collected(c) : c \in Calls}

(* How a call was answered.  What it has collected is its own business until
   then: nobody else can collect while it holds the lock. *)
Answer(c) == IF at[c] \in {"returned", "failed"} THEN at[c] ELSE "asked"

Promise == INSTANCE SearchPromise WITH
  status <- [c \in Calls |-> Answer(c)],
  offered <- [c \in Calls |-> IF Answer(c) = "returned" THEN Collected(c) ELSE {}],
  used <- UNION {Collected(c) : c \in {d \in Calls : Answer(d) # "asked"}}

(* To whoever calls it a search is one step, although it goes through its
   response item by item and others wait for it or fail. *)
IsOneStep == Promise!Spec

(* Every call is answered: no failure keeps the others waiting. *)
Answered == \A c \in Calls : <>(at[c] \in {"returned", "failed"})
=============================================================================
