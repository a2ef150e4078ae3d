---------------------------- MODULE RubricDelivery ----------------------------
(***************************************************************************)
(* What a generation run promises, without nodes, retries or files: it     *)
(* drafts rubrics for one selection of NFRs, a bounded number of times,    *)
(* and delivers at most one draft, the latest, which must be acceptable.   *)
(***************************************************************************)
EXTENDS Naturals

CONSTANTS Selections, Rubrics, Acceptable, MaxDrafts, None

VARIABLES draft, drafts, outcome

vars == <<draft, drafts, outcome>>

Init == draft = None /\ drafts = 0 /\ outcome = "open"

\* The first draft chooses the selection, the later ones keep it.
Draft ==
  /\ drafts < MaxDrafts
  /\ draft' \in Selections \X Rubrics
  /\ draft # None => draft'[1] = draft[1]
  /\ drafts' = drafts + 1
  /\ UNCHANGED outcome

Deliver ==
  /\ draft \in Acceptable
  /\ outcome' = "delivered"
  /\ UNCHANGED <<draft, drafts>>

Close ==
  /\ outcome' = "closed"
  /\ UNCHANGED <<draft, drafts>>

Next == outcome = "open" /\ (Draft \/ Deliver \/ Close)

Spec == Init /\ [][Next]_vars
=============================================================================
