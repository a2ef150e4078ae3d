---------------------------- MODULE EvidenceTrail ----------------------------
(***************************************************************************)
(* What a research session promises, without tools, threads or batches.    *)
(*                                                                         *)
(*   - a URL is offered to at most one query of a run, and at most once;   *)
(*   - an offer is withdrawn only from a query that lacks evidence;        *)
(*   - only an offered URL is selected, at most once, and only a selected  *)
(*     URL becomes a document, of the query it was offered to;             *)
(*   - only documents are kept, and what is kept stays;                    *)
(*   - the result names exactly the NFR queries with enough kept documents *)
(*     of their own, and nothing changes after it.                         *)
(***************************************************************************)
EXTENDS Naturals, FiniteSets

CONSTANTS Queries, TopicQueries, Urls, SufficientDocs, SufficientDocsTopic

VARIABLES used, offered, selected, documents, kept, closed, candidates

vars == <<used, offered, selected, documents, kept, closed, candidates>>

Evidence(q) == kept \cap documents[q]

Lacking(q) ==
  Cardinality(Evidence(q)) <
    (IF q \in TopicQueries THEN SufficientDocsTopic ELSE SufficientDocs)

Init ==
  /\ used = {} /\ kept = {} /\ closed = FALSE /\ candidates = {}
  /\ offered = [q \in Queries |-> {}]
  /\ selected = [q \in Queries |-> {}]
  /\ documents = [q \in Queries |-> {}]

Offer(q) ==
  /\ \E S \in SUBSET (Urls \ used) :
       /\ used' = used \cup S
       /\ offered' = [offered EXCEPT ![q] = @ \cup S]
  /\ UNCHANGED <<selected, documents, kept, closed, candidates>>

\* URLs of a failed search: used up, offered to nobody.
Burn ==
  /\ used \subseteq used' /\ used' \subseteq Urls
  /\ UNCHANGED <<offered, selected, documents, kept, closed, candidates>>

Withdraw ==
  /\ offered' \in [Queries -> SUBSET Urls]
  /\ \A q \in Queries :
       /\ offered'[q] \subseteq offered[q]
       /\ offered'[q] # offered[q] => Lacking(q)
  /\ UNCHANGED <<used, selected, documents, kept, closed, candidates>>

Select(q) ==
  /\ \E S \in SUBSET (offered[q] \ selected[q]) :
       selected' = [selected EXCEPT ![q] = @ \cup S]
  /\ UNCHANGED <<used, offered, documents, kept, closed, candidates>>

Collect(q) ==
  /\ \E u \in selected[q] \ documents[q] :
       documents' = [documents EXCEPT ![q] = @ \cup {u}]
  /\ UNCHANGED <<used, offered, selected, kept, closed, candidates>>

Keep(q) ==
  /\ \E u \in documents[q] : kept' = kept \cup {u}
  /\ UNCHANGED <<used, offered, selected, documents, closed, candidates>>

Publish ==
  /\ closed' = TRUE
  /\ candidates' = {q \in Queries \ TopicQueries :
                      Cardinality(Evidence(q)) >= SufficientDocs}
  /\ UNCHANGED <<used, offered, selected, documents, kept>>

\* The run is abandoned and nothing is published.
Abandon ==
  /\ closed' = TRUE
  /\ UNCHANGED <<used, offered, selected, documents, kept, candidates>>

Next ==
  /\ ~closed
  /\ \/ \E q \in Queries : Offer(q) \/ Select(q) \/ Collect(q) \/ Keep(q)
     \/ Burn \/ Withdraw \/ Publish \/ Abandon

Spec == Init /\ [][Next]_vars
=============================================================================
