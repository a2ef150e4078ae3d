------------------------------ MODULE KeepTool ------------------------------
(***************************************************************************)
(* The keep tool of the research session (research/keep.py): which         *)
(* sentences of a fetched document are kept within a budget of characters, *)
(* and what the messages registered of its fetches show of a document,     *)
(* those the runner has since dropped from the conversation included.      *)
(*                                                                         *)
(* Calls of keep run one after another.  The loop over the sentences is    *)
(* modelled turn by turn; nothing else happens meanwhile.  A call that is  *)
(* refused changes nothing and is no step here.  A message is that of a    *)
(* fetch: a list with one entry per document.  The query a document        *)
(* belongs to is left out: it only goes into the count of the answer.      *)
(***************************************************************************)
EXTENDS Naturals, FiniteSets, Sequences, Functions

CONSTANTS
  Docs,          \* ids of documents
  Size,          \* per document: the lengths of its sentences
  MaxKeepChars,  \* MAX_KEEP_CHARS
  Separator,     \* length of the blank line between two sentences
  Messages,      \* messages of fetch calls
  NoDoc,         \* no call of keep is under way
  MaxAsked       \* bound on the length of sentence_indices

ASSUME KeepAssumption ==
  /\ NoDoc \notin Docs
  /\ Size \in [Docs -> Seq(Nat)]
  /\ MaxKeepChars \in Nat /\ Separator \in Nat /\ MaxAsked \in Nat

Sentences(d) == 1..Len(Size[d])

AllSentences == UNION {Sentences(d) : d \in Docs}

VARIABLES
  fetched,    \* documents registered
  selected,   \* per document: sentences chosen, in the order of their choice
  counts,     \* per document: the value of used after each of them
  documents,  \* the kept documents, with the sentences they are made of
  shown,      \* per message: what is shown of each of its documents
  doc,        \* the call of keep under way: its document,
  order,      \* the sentences chosen before followed by those asked for,
  at,         \* how many of them the loop has gone through,
  picked,     \* selected_indices,
  used,       \* the value of used after each of them,
  skipped     \* skipped_indices

call == <<doc, order, at, picked, used, skipped>>
vars == <<fetched, selected, counts, documents, shown, call>>

-----------------------------------------------------------------------------
Whole == [is |-> "whole", sentences |-> {}]
Discarded == [is |-> "discarded", sentences |-> {}]
Chosen(S) == [is |-> "chosen", sentences |-> S]

Views == {Whole, Discarded} \cup {Chosen(S) : S \in SUBSET AllSentences}

Total(c) == IF c = <<>> THEN 0 ELSE c[Len(c)]

TypeOK ==
  /\ fetched \in SUBSET Docs
  /\ selected \in [Docs -> Seq(AllSentences)]
  /\ counts \in [Docs -> Seq(Nat)]
  /\ DOMAIN documents \subseteq fetched
  /\ \A d \in DOMAIN documents : documents[d] \in (SUBSET Sentences(d)) \ {{}}
  /\ DOMAIN shown = Messages
  /\ \A m \in Messages : /\ DOMAIN shown[m] \subseteq fetched
                         /\ \A d \in DOMAIN shown[m] : shown[m][d] \in Views
  /\ doc \in fetched \cup {NoDoc}
  /\ order \in Seq(AllSentences) /\ at \in 0..Len(order)
  /\ picked \in Seq(AllSentences) /\ used \in Seq(Nat)
  /\ skipped \in SUBSET AllSentences

Init ==
  /\ fetched = {}
  /\ selected = [d \in Docs |-> <<>>] /\ counts = [d \in Docs |-> <<>>]
  /\ documents = [d \in {} |-> {}]
  /\ shown = [m \in Messages |-> [d \in {} |-> Whole]]
  /\ doc = NoDoc /\ order = <<>> /\ at = 0
  /\ picked = <<>> /\ used = <<>> /\ skipped = {}

-----------------------------------------------------------------------------
(* A fetch call has ended with these documents; one may be known already.  *)
Register(m, ds) ==
  /\ doc = NoDoc
  /\ DOMAIN shown[m] = {} /\ ds # {}
  /\ fetched' = fetched \cup ds
  /\ shown' = [shown EXCEPT ![m] = [d \in ds |-> Whole]]
  /\ UNCHANGED <<selected, counts, documents, call>>

\* Mutant: the sentences asked for come before those chosen before.
Order_NewFirst(d, asked) == asked \o selected[d]

Order(d, asked) == selected[d] \o asked

Ask(d, asked) ==
  /\ doc = NoDoc
  /\ d \in fetched /\ asked # <<>>
  /\ doc' = d
  /\ order' = Order(d, asked)
  /\ at' = 0 /\ picked' = <<>> /\ used' = <<>> /\ skipped' = {}
  /\ UNCHANGED <<fetched, selected, counts, documents, shown>>

Sentence == order[at + 1]

\* dict.fromkeys: a sentence listed again is passed over.
Repeated == Sentence \in Range(picked) \cup skipped

\* Mutant: the blank lines are not counted.
Needed_NoSeparator == Size[doc][Sentence]

Needed == Size[doc][Sentence] + (IF picked = <<>> THEN 0 ELSE Separator)

\* Mutant: the budget is exclusive.
Fits_Exclusive == Total(used) + Needed < MaxKeepChars

Fits == Total(used) + Needed <= MaxKeepChars

Choosing == doc # NoDoc /\ at < Len(order) /\ at' = at + 1
            /\ UNCHANGED <<fetched, selected, counts, documents, shown, doc, order>>

PassOver == Choosing /\ Repeated /\ UNCHANGED <<picked, used, skipped>>

Pick ==
  /\ Choosing /\ ~Repeated /\ Fits
  /\ picked' = Append(picked, Sentence)
  /\ used' = Append(used, Total(used) + Needed)
  /\ UNCHANGED skipped

Skip ==
  /\ Choosing /\ ~Repeated /\ ~Fits
  /\ skipped' = skipped \cup {Sentence}
  /\ UNCHANGED <<picked, used>>

\* Mutant: a message in which the document was discarded is left alone.
UpdateMessages_Alive(ds, view) ==
  [m \in Messages |-> [d \in DOMAIN shown[m] |->
     IF d \in ds /\ shown[m][d] # Discarded THEN view ELSE shown[m][d]]]

UpdateMessages(ds, view) ==
  [m \in Messages |-> [d \in DOMAIN shown[m] |->
     IF d \in ds THEN view ELSE shown[m][d]]]

Store ==
  IF picked = <<>>
  THEN [d \in DOMAIN documents \ {doc} |-> documents[d]]
  ELSE [d \in DOMAIN documents \cup {doc} |->
          IF d = doc THEN Range(picked) ELSE documents[d]]

Keep ==
  /\ doc # NoDoc /\ at = Len(order)
  /\ selected' = [selected EXCEPT ![doc] = picked]
  /\ counts' = [counts EXCEPT ![doc] = used]
  /\ documents' = Store
  /\ shown' = UpdateMessages({doc}, Chosen(Range(picked)))
  /\ doc' = NoDoc
  /\ order' = <<>> /\ at' = 0 /\ picked' = <<>> /\ used' = <<>> /\ skipped' = {}
  /\ UNCHANGED fetched

\* The documents of an earlier fetch have had their turn.
FinishBatch(m) ==
  /\ doc = NoDoc
  /\ shown' = UpdateMessages(DOMAIN shown[m] \ DOMAIN documents, Discarded)
  /\ UNCHANGED <<fetched, selected, counts, documents, call>>

Next ==
  \/ \E m \in Messages, ds \in SUBSET Docs : Register(m, ds)
  \/ \E d \in Docs, n \in 1..MaxAsked :
        \E asked \in [1..n -> Sentences(d)] : Ask(d, asked)
  \/ PassOver \/ Pick \/ Skip \/ Keep
  \/ \E m \in Messages : FinishBatch(m)

Spec == Init /\ [][Next]_vars

-----------------------------------------------------------------------------
(* Properties *)

(* The characters of the document made of these sentences, as joined.      *)
ContentChars(d, S) ==
  SumFunctionOnSet(Size[d], S) + Separator * (Cardinality(S) - 1)

(* What keep counts as used is the length of the text it stores: the
   separators between its sentences, and none around them. *)
CharsAreCounted ==
  \A d \in DOMAIN documents : Total(counts[d]) = ContentChars(d, documents[d])

(* No document ever takes more than its budget, over all the calls of keep
   for it. *)
WithinBudget ==
  /\ \A d \in Docs : Total(counts[d]) <= MaxKeepChars
  /\ Total(used) <= MaxKeepChars

(* A sentence is skipped only when the text chosen has no room for it: the
   greedy choice is maximal, although it is made sentence by sentence. *)
SkippedForLackOfRoom ==
  \A s \in skipped :
     Total(used) + (IF picked = <<>> THEN 0 ELSE Separator) + Size[doc][s]
       > MaxKeepChars

(* The budget is kept, counted in the characters of the text stored, and used:
   nothing is left out that has room. *)
BudgetIsUsed == CharsAreCounted /\ WithinBudget /\ SkippedForLackOfRoom

(* The messages of the fetches are up to date: none calls a kept document
   discarded, and a choice shown is the present choice, in every message the
   document was fetched by. *)
ConversationIsCurrent ==
  \A m \in Messages : \A d \in DOMAIN shown[m] :
     /\ shown[m][d] = Discarded => d \notin DOMAIN documents
     /\ shown[m][d].is = "chosen" => shown[m][d].sentences = Range(selected[d])

(* A sentence once kept stays kept, whatever is asked for later and however
   little room is left. *)
KeptForGood ==
  [][\A d \in DOMAIN documents :
       d \in DOMAIN documents' /\ documents[d] \subseteq documents'[d]]_vars
=============================================================================
