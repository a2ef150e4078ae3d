---------------------------- MODULE SearchPromise ----------------------------
(***************************************************************************)
(* What a session relies on of its search tool: a call is answered in one  *)
(* step, with URLs no call has had before, or fails and withholds fewer    *)
(* than it could have returned.  SearchReturns and SearchFails of          *)
(* ResearchSession are these steps.                                        *)
(***************************************************************************)
EXTENDS Naturals, FiniteSets

CONSTANTS Calls, Urls, ResultsPerQuery

VARIABLES
  status,   \* per call: how it was answered, if it was,
  offered,  \* and with which URLs
  used      \* the URLs no search will offer again

vars == <<status, offered, used>>

Init ==
  /\ status = [c \in Calls |-> "asked"]
  /\ offered = [c \in Calls |-> {}]
  /\ used = {}

Unused == Urls \ used

Returns(c) ==
  /\ status[c] = "asked"
  /\ \E fresh \in SUBSET Unused :
       /\ Cardinality(fresh) <= ResultsPerQuery
       /\ offered' = [offered EXCEPT ![c] = fresh]
       /\ used' = used \cup fresh
  /\ status' = [status EXCEPT ![c] = "returned"]

Fails(c) ==
  /\ status[c] = "asked"
  /\ \E burnt \in SUBSET Unused :
       /\ Cardinality(burnt) < ResultsPerQuery
       /\ used' = used \cup burnt
  /\ status' = [status EXCEPT ![c] = "failed"]
  /\ UNCHANGED offered

Next == \E c \in Calls : Returns(c) \/ Fails(c)

Spec == Init /\ [][Next]_vars
=============================================================================
