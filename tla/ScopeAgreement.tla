---------------------------- MODULE ScopeAgreement ----------------------------
(***************************************************************************)
(* What the terminal application promises, without widgets, workers or     *)
(* dialogue: user and agent agree on a brief once, and only that brief is  *)
(* ever generated, by one run at a time.                                   *)
(***************************************************************************)
EXTENDS Sequences

CONSTANTS Briefs, None

VARIABLES agreed, running

vars == <<agreed, running>>

Init == agreed = None /\ running = <<>>

Agree ==
  /\ agreed = None
  /\ agreed' \in Briefs
  /\ UNCHANGED running

Start ==
  /\ agreed # None /\ running = <<>>
  /\ running' = <<agreed>>
  /\ UNCHANGED agreed

End ==
  /\ running # <<>>
  /\ running' = <<>>
  /\ UNCHANGED agreed

Next == Agree \/ Start \/ End

Spec == Init /\ [][Next]_vars
=============================================================================
