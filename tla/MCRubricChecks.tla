---------------------------- MODULE MCRubricChecks ----------------------------
(***************************************************************************)
(* Selections and rubrics with at most a few flaws each; two scores, two   *)
(* points in all, one or two criteria.                                     *)
(***************************************************************************)
EXTENDS RubricChecks

NFR(id) == [id |-> id, complete |-> TRUE, evidence |-> {"d"}]

Pair == <<NFR("a"), NFR("b")>>

Tradeoff(id, related, evidence) ==
  [id |-> id, related |-> related, evidence |-> evidence]

MCNfrs == {
  Pair, <<NFR("a"), NFR("a")>>, <<NFR("b"), NFR("a")>>,
  <<[NFR("a") EXCEPT !.complete = FALSE], NFR("b")>>,
  <<[NFR("a") EXCEPT !.evidence = {}], NFR("b")>>,
  <<NFR("a"), [NFR("b") EXCEPT !.evidence = {"d", "x"}]>>}

MCTradeoffs == {
  <<>>, <<Tradeoff("t", {"a", "b"}, {"d"})>>, <<Tradeoff("t", {}, {"d"})>>,
  <<Tradeoff("t", {"a", "x"}, {})>>,
  <<Tradeoff("t", {"a"}, {"d"}), Tradeoff("t", {"b"}, {"x"})>>}

MCSelections ==
  {[nfrs |-> n, tradeoffs |-> <<>>] : n \in MCNfrs}
    \cup {[nfrs |-> Pair, tradeoffs |-> t] : t \in MCTradeoffs}

Level(n, t) == [score |-> n, text |-> t]

GoodLevels == <<Level(1, "yes"), Level(0, "no")>>

Criterion(id, related, weight) ==
  [id |-> id, related |-> related, weight |-> weight, levels |-> GoodLevels]

MCCriteria == {
  Criterion("c", <<"a">>, 1), Criterion("e", <<"b">>, 1), Criterion("e", <<"a">>, 2),
  Criterion("e", <<>>, 1), Criterion("e", <<"a", "b">>, 1), Criterion("e", <<"x">>, 1),
  Criterion("c", <<"b">>, 1), Criterion("e", <<"b">>, 0), Criterion("c", <<"b">>, 3),
  Criterion("e", <<"b">>, -1)}
  \cup {[Criterion("e", <<"b">>, 1) EXCEPT !.levels = l] :
          l \in {<<>>, <<Level(0, "no")>>,
                 <<Level(0, "no"), Level(1, "yes"), Level(1, "well")>>,
                 <<Level(0, "no"), Level(1, "no")>>,
                 <<Level(0, "no"), Level(1, "blank")>>}}

MCRubrics ==
  {<<>>} \cup {<<c>> : c \in MCCriteria}
    \cup {<<c, d>> : c, d \in MCCriteria}
    \cup {<<Criterion("c", <<"a">>, 1), Criterion("e", <<"b">>, 1),
            Criterion("a", <<"c">>, 1)>>}

Wide == [nfrs |-> <<NFR("a"), NFR("b"), NFR("c")>>, tradeoffs |-> <<>>]

WideSelections == {Wide}

WideCriteria == {Criterion(i, <<n>>, w) : i \in {"c", "e", "a"},
                                          n \in {"a", "b", "c"}, w \in 1..2}

WideRubrics == UNION {[1..k -> WideCriteria] : k \in 0..3}
=============================================================================
