--------------------------- MODULE MCRunComparison ---------------------------
(* RunComparison with the five conditions of the code, two or three at a   *)
(* time and in more than one order.  The initial sheet has errors, of its  *)
(* repairs one has an error that no repair can reach.                      *)
EXTENDS RunComparison

CONSTANTS s0, s1, s2

MCSheets == {s0, s1, s2}

MCHarness == s0 :> {"fixable"} @@ s1 :> {} @@ s2 :> {"upstream"}

MCConditions == {"A", "B", "C", "D", "E"}

With(h, j, l) == [harness |-> h, judge |-> j, limit |-> l]

MCSettings ==
  [A |-> With(FALSE, FALSE, 0), B |-> With(TRUE, TRUE, 0), C |-> With(TRUE, FALSE, 2),
   D |-> With(FALSE, TRUE, 2), E |-> With(TRUE, TRUE, 2)]

MCOrders == {<<"A", "C">>, <<"C", "A">>, <<"B", "D">>, <<"D", "B">>, <<"E", "A">>, <<"A", "C", "E">>}
=============================================================================
