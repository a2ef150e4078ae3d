---------------------------- MODULE FetchPromise ----------------------------
(***************************************************************************)
(* What a session relies on of its fetch tool: a URL has one document, for *)
(* good.  A call for a URL that has one is answered by it; any other ends  *)
(* in one step, with a document no URL has yet, or fails and leaves the    *)
(* URL without.  FetchUrl of ResearchSession is such an end.               *)
(***************************************************************************)
CONSTANTS Calls, Urls, Docs, None

VARIABLES
  pending,     \* per call: the URL it is fetching, or None,
  answer,      \* and the document it was last answered by, or None
  documentOf   \* the document of each URL that has one

vars == <<pending, answer, documentOf>>

Init ==
  /\ pending = [c \in Calls |-> None]
  /\ answer = [c \in Calls |-> None]
  /\ documentOf = [u \in {} |-> None]

Taken == {documentOf[u] : u \in DOMAIN documentOf}

AnswersAtOnce(c, u) ==
  /\ pending[c] = None /\ u \in DOMAIN documentOf
  /\ answer' = [answer EXCEPT ![c] = documentOf[u]]
  /\ UNCHANGED <<pending, documentOf>>

Starts(c, u) ==
  /\ pending[c] = None
  /\ u \notin DOMAIN documentOf /\ \A d \in Calls : pending[d] # u
  /\ pending' = [pending EXCEPT ![c] = u]
  /\ answer' = [answer EXCEPT ![c] = None]
  /\ UNCHANGED documentOf

Ends(c) == pending[c] # None /\ pending' = [pending EXCEPT ![c] = None]

Delivers(c, d) ==
  /\ Ends(c)
  /\ d \in Docs \ Taken
  /\ documentOf' = [u \in DOMAIN documentOf \cup {pending[c]} |->
                      IF u = pending[c] THEN d ELSE documentOf[u]]
  /\ answer' = [answer EXCEPT ![c] = d]

Fails(c) == Ends(c) /\ UNCHANGED <<answer, documentOf>>

Next ==
  \E c \in Calls :
    \/ \E u \in Urls : AnswersAtOnce(c, u) \/ Starts(c, u)
    \/ (\E d \in Docs : Delivers(c, d)) \/ Fails(c)

Spec == Init /\ [][Next]_vars
=============================================================================
