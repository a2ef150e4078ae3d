-------------------------- MODULE MCResearchSession --------------------------
(***************************************************************************)
(* Instances of ResearchSession: a topic query, an NFR query and replies   *)
(* of the model of one or two calls.                                       *)
(***************************************************************************)
EXTENDS ResearchSession, TLC

Call(t, q, us) == [tool |-> t, query |-> q, urls |-> us, ok |-> TRUE]

BadCall(t, q) == [tool |-> t, query |-> q, urls |-> {}, ok |-> FALSE]

OfTool(t) == {Call(t, q, {}) : q \in Queries}

Selections == {S \in SUBSET Urls : Cardinality(S) \in 1..2}

Fetches == {Call("fetch", q, S) : q \in Queries, S \in Selections}

Keeps == {Call("keep", q, {u}) : q \in TopicQueries, u \in Urls}

Pairs(A, B) == {<<a, b>> : a \in A, b \in B}

Singles(A) == {<<a>> : a \in A}

\* One search reply, then one call per reply: the longest sessions.
LongBatches ==
  {<<>>}
    \cup Pairs(OfTool("search"), OfTool("search"))
    \cup Singles(Fetches \cup Keeps \cup OfTool("requery"))

\* Replies of two calls: the same tool side by side, and the mixtures whose
\* outcome depends on the order of the phases.
PairBatches ==
  {<<>>}
    \cup UNION {Pairs(A, A) : A \in {OfTool("search"), Fetches, Keeps, OfTool("requery")}}
    \cup Pairs(OfTool("requery"), Keeps)
    \cup Pairs(Fetches, Keeps)

\* Few replies, refused calls and unknown tools among them.
MixedBatches ==
  {<<>>}
    \cup Pairs(OfTool("search"), OfTool("search") \cup OfTool("unknown"))
    \cup Pairs(Fetches, {BadCall(t, q) : t \in Tools, q \in TopicQueries})
    \cup Pairs(Keeps, OfTool("requery"))

\* The longest sessions, with refused calls and mixtures in between.
AllBatches == LongBatches \cup MixedBatches

Symmetry == Permutations(Urls)
=============================================================================
