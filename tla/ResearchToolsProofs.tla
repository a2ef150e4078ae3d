------------------------- MODULE ResearchToolsProofs -------------------------
(***************************************************************************)
(* Proofs about the tools of the research and its plan, for all documents, *)
(* limits, calls and replies: each part by an inductive invariant of its   *)
(* own (KeepTool, ResearchPlan, SearchTool, FetchTool), and then the parts *)
(* side by side, as ResearchTools has them.                                *)
(***************************************************************************)
EXTENDS ResearchTools, SequenceTheorems, FunctionTheorems, FiniteSetTheorems,
        WellFoundedInduction, TLAPS


-----------------------------------------------------------------------------
(* Sums.  SumFunctionOnSet adds its terms one after the other, in an order  *)
(* no reader knows.  That the order is of no account, so that one term more *)
(* is one term added, is shown by least counterexamples.                    *)

LEMMA Least ==
  ASSUME NEW T \in SUBSET Nat, T # {}
  PROVE  \E m \in T : \A k \in T : ~(k < m)
  <1>1. \E m \in T : \A k \in T : <<k, m>> \notin OpToRel(<, Nat)
    BY NatLessThanWellFounded, WFMin
  <1> QED BY <1>1 DEF OpToRel

First(s) == CHOOSE x \in s : TRUE

\* g adds up f over the subsets of S that have no more than n elements.
Layer(S, n) == {s \in SUBSET S : Cardinality(s) <= n}

AddsTo(g, f, S, n) ==
  g = [s \in Layer(S, n) |-> IF s = {} THEN 0 ELSE f[First(s)] + g[s \ {First(s)}]]

\* g adds up f over the subsets of S.
Adds(g, f, S) ==
  g = [s \in SUBSET S |-> IF s = {} THEN 0 ELSE f[First(s)] + g[s \ {First(s)}]]

LEMMA SumIsChosen ==
  ASSUME NEW f, NEW S
  PROVE  SumFunctionOnSet(f, S) = (CHOOSE g : Adds(g, f, S))[S]
  BY Zenon DEF SumFunctionOnSet, FoldFunctionOnSet, MapThenFoldSet, Adds, First

LEMMA FirstIsIn ==
  ASSUME NEW s, s # {}
  PROVE  First(s) \in s
  BY DEF First

\* Of a finite set every part is finite, and smaller without an element.
LEMMA Parts ==
  ASSUME NEW S, IsFiniteSet(S), NEW s \in SUBSET S
  PROVE  /\ Cardinality(s) \in Nat /\ Cardinality(s) <= Cardinality(S)
         /\ \A x \in s : /\ s \ {x} \in SUBSET S
                         /\ Cardinality(s \ {x}) = Cardinality(s) - 1
                         /\ Cardinality(s) > 0
         /\ Cardinality(s) = 0 => s = {}
  <1>1. IsFiniteSet(s) /\ Cardinality(s) \in Nat /\ Cardinality(s) <= Cardinality(S)
    BY FS_Subset, FS_CardinalityType
  <1>2. Cardinality(s) = 0 <=> s = {}
    BY <1>1, FS_EmptySet
  <1>3. ASSUME NEW x \in s PROVE Cardinality(s \ {x}) = Cardinality(s) - 1
    BY <1>1, FS_RemoveElement
  <1> QED BY <1>1, <1>2, <1>3

LEMMA AddsUpTo ==
  ASSUME NEW f, NEW S, IsFiniteSet(S), NEW n \in Nat
  PROVE  \E g : AddsTo(g, f, S, n)
  <1> DEFINE Bad == {k \in Nat : ~\E g : AddsTo(g, f, S, k)}
  <1>1. ASSUME Bad # {} PROVE FALSE
    <2>1. PICK m \in Bad : \A k \in Bad : ~(k < m)
      BY <1>1, Least
    <2>2. CASE m = 0
      <3> DEFINE g == [s \in Layer(S, 0) |-> 0]
      <3>1. \A s \in Layer(S, 0) : s = {}
        BY Parts DEF Layer
      <3>2. AddsTo(g, f, S, 0)
        BY <3>1 DEF AddsTo
      <3> QED BY <2>1, <2>2, <3>2
    <2>3. CASE m # 0
      <3>1. m \in Nat /\ m - 1 \in Nat /\ m - 1 \notin Bad
        BY <2>1, <2>3
      <3>2. PICK g : AddsTo(g, f, S, m - 1)
        BY <3>1
      <3> DEFINE Sum(s) == IF s = {} THEN 0 ELSE f[First(s)] + g[s \ {First(s)}]
                 h == [s \in Layer(S, m) |-> Sum(s)]
      <3>3. \A s \in Layer(S, m - 1) : s \in Layer(S, m) /\ g[s] = Sum(s)
        <4>1. \A s \in Layer(S, m - 1) : g[s] = Sum(s)
          BY <3>2 DEF AddsTo
        <4>2. \A s \in Layer(S, m - 1) : s \in Layer(S, m)
          BY <3>1, Parts DEF Layer
        <4> QED BY <4>1, <4>2
      <3>4. \A s \in Layer(S, m) : s # {} => s \ {First(s)} \in Layer(S, m - 1)
        BY <3>1, Parts, FirstIsIn DEF Layer
      <3>5. \A s \in Layer(S, m) : s # {} => h[s \ {First(s)}] = g[s \ {First(s)}]
        BY <3>3, <3>4
      <3>6. AddsTo(h, f, S, m)
        <4> DEFINE Term(k, s) == IF s = {} THEN 0 ELSE f[First(s)] + k[s \ {First(s)}]
        <4>1. \A s \in Layer(S, m) : h[s] = Term(h, s)
          BY <3>5
        <4>2. h = [s \in Layer(S, m) |-> h[s]]
          OBVIOUS
        <4> HIDE DEF Term, h
        <4>3. h = [s \in Layer(S, m) |-> Term(h, s)]
          BY <4>1, <4>2
        <4> QED BY <4>3 DEF AddsTo, Term
      <3> QED BY <2>1, <3>6
    <2> QED BY <2>2, <2>3
  <1> QED BY <1>1

LEMMA SumAdds ==
  ASSUME NEW f, NEW S, IsFiniteSet(S)
  PROVE  \E g : Adds(g, f, S) /\ SumFunctionOnSet(f, S) = g[S]
  <1>1. Cardinality(S) \in Nat
    BY FS_CardinalityType
  <1>2. Layer(S, Cardinality(S)) = SUBSET S
    BY Parts DEF Layer
  <1>3. PICK g : AddsTo(g, f, S, Cardinality(S))
    BY <1>1, AddsUpTo
  <1>4. Adds(g, f, S)
    BY <1>2, <1>3 DEF AddsTo, Adds
  <1>5. Adds(CHOOSE h : Adds(h, f, S), f, S)
    BY <1>4
  <1> QED BY <1>5, SumIsChosen

\* Any element of a set may be the first to be added.
LEMMA AnyFirst ==
  ASSUME NEW f, NEW S, IsFiniteSet(S), \A x \in S : f[x] \in Nat,
         NEW g, Adds(g, f, S), NEW s \in SUBSET S
  PROVE  /\ g[s] \in Nat
         /\ \A x \in s : g[s] = f[x] + g[s \ {x}]
  <1> DEFINE P(t) == g[t] \in Nat /\ \A x \in t : g[t] = f[x] + g[t \ {x}]
             Bad == {k \in Nat : \E t \in SUBSET S : Cardinality(t) = k /\ ~P(t)}
  <1>1. \A t \in SUBSET S : g[t] = IF t = {} THEN 0 ELSE f[First(t)] + g[t \ {First(t)}]
    BY DEF Adds
  <1> HIDE DEF P
  <1>2. ASSUME Bad # {} PROVE FALSE
    <2>1. PICK m \in Bad : \A k \in Bad : ~(k < m)
      BY <1>2, Least
    <2>2. PICK t \in SUBSET S : Cardinality(t) = m /\ ~P(t)
      BY <2>1
    <2>3. ASSUME NEW u \in SUBSET S, Cardinality(u) < m
          PROVE  g[u] \in Nat /\ \A x \in u : g[u] = f[x] + g[u \ {x}]
      <3>1. Cardinality(u) \in Nat
        BY Parts
      <3> QED BY <2>1, <2>3, <3>1 DEF P
    <2>4. t # {}
      <3>1. g[{}] = 0
        BY <1>1
      <3>2. P({})
        BY <3>1 DEF P
      <3> QED BY <2>2, <3>2
    <2> DEFINE c == First(t)
    <2>5. c \in t /\ g[t] = f[c] + g[t \ {c}]
      BY <1>1, <2>4, FirstIsIn
    <2> HIDE DEF c
    <2>6. \A x \in t : t \ {x} \in SUBSET S /\ Cardinality(t \ {x}) < m
      BY <2>2, Parts
    <2>7. g[t] \in Nat
      BY <2>3, <2>5, <2>6
    <2>8. ASSUME NEW x \in t, x # c PROVE g[t] = f[x] + g[t \ {x}]
      <3>1. g[t \ {c}] = f[x] + g[(t \ {c}) \ {x}]
        BY <2>3, <2>5, <2>6, <2>8
      <3>2. g[t \ {x}] = f[c] + g[(t \ {x}) \ {c}]
        BY <2>3, <2>5, <2>6, <2>8
      <3>3. (t \ {c}) \ {x} = (t \ {x}) \ {c}
        OBVIOUS
      <3>4. (t \ {c}) \ {x} \in SUBSET S /\ Cardinality((t \ {c}) \ {x}) < m
        <4>1. t \ {c} \in SUBSET S /\ x \in t \ {c}
          BY <2>8
        <4>2. Cardinality((t \ {c}) \ {x}) = Cardinality(t \ {c}) - 1
              /\ Cardinality(t \ {c}) \in Nat
          BY <4>1, Parts
        <4> QED BY <4>1, <4>2, <2>1, <2>5, <2>6
      <3>5. g[(t \ {c}) \ {x}] \in Nat /\ f[x] \in Nat /\ f[c] \in Nat
        BY <2>3, <2>5, <3>4
      <3>6. g[t \ {x}] = f[c] + g[(t \ {c}) \ {x}]
        BY <3>2, <3>3, Zenon
      <3> DEFINE rest == g[(t \ {c}) \ {x}]
      <3>7. g[t] = f[c] + (f[x] + rest) /\ g[t \ {x}] = f[c] + rest
        BY <2>5, <3>1, <3>6, Zenon
      <3>8. rest \in Nat
        BY <3>5
      <3> HIDE DEF rest
      <3> QED BY <3>5, <3>7, <3>8
    <2> QED BY <2>2, <2>5, <2>7, <2>8 DEF P
  <1>3. Cardinality(s) \in Nat
    BY Parts
  <1>4. P(s)
    BY <1>2, <1>3
  <1> QED BY <1>4 DEF P

\* The sum over a set does not depend on the set it is a part of.
LEMMA SumsAgree ==
  ASSUME NEW f, NEW S, IsFiniteSet(S), NEW R \in SUBSET S,
         NEW g, Adds(g, f, S), NEW h, Adds(h, f, R), NEW s \in SUBSET R
  PROVE  h[s] = g[s]
  <1> DEFINE Bad == {k \in Nat : \E t \in SUBSET R : Cardinality(t) = k /\ h[t] # g[t]}
  <1>1. ASSUME Bad # {} PROVE FALSE
    <2>1. PICK m \in Bad : \A k \in Bad : ~(k < m)
      BY <1>1, Least
    <2>2. PICK t \in SUBSET R : Cardinality(t) = m /\ h[t] # g[t]
      BY <2>1
    <2>3. /\ g[t] = IF t = {} THEN 0 ELSE f[First(t)] + g[t \ {First(t)}]
          /\ h[t] = IF t = {} THEN 0 ELSE f[First(t)] + h[t \ {First(t)}]
      BY DEF Adds
    <2>4. t # {} /\ h[t \ {First(t)}] # g[t \ {First(t)}]
      BY <2>2, <2>3
    <2>5. First(t) \in t
      BY <2>4, FirstIsIn
    <2>6. /\ t \ {First(t)} \in SUBSET R
          /\ Cardinality(t \ {First(t)}) \in Nat /\ Cardinality(t \ {First(t)}) < m
      BY <2>1, <2>2, <2>5, Parts
    <2> QED BY <2>1, <2>4, <2>6
  <1>2. Cardinality(s) \in Nat
    BY Parts
  <1> QED BY <1>1, <1>2

LEMMA SumOfNothing ==
  ASSUME NEW f
  PROVE  SumFunctionOnSet(f, {}) = 0
  <1>1. IsFiniteSet({})
    BY FS_EmptySet
  <1>2. PICK g : Adds(g, f, {}) /\ SumFunctionOnSet(f, {}) = g[{}]
    BY <1>1, SumAdds
  <1> QED BY <1>2 DEF Adds

LEMMA SumOfOneMore ==
  ASSUME NEW f, NEW S, IsFiniteSet(S), NEW x, x \notin S,
         \A y \in S \cup {x} : f[y] \in Nat
  PROVE  /\ SumFunctionOnSet(f, S \cup {x}) = f[x] + SumFunctionOnSet(f, S)
         /\ SumFunctionOnSet(f, S) \in Nat
  <1> DEFINE T == S \cup {x}
  <1>1. IsFiniteSet(T)
    BY FS_AddElement
  <1>2. PICK g : Adds(g, f, T) /\ SumFunctionOnSet(f, T) = g[T]
    BY <1>1, SumAdds
  <1>3. PICK h : Adds(h, f, S) /\ SumFunctionOnSet(f, S) = h[S]
    BY SumAdds
  <1>4. x \in T /\ T \ {x} = S /\ S \in SUBSET T
    OBVIOUS
  <1> HIDE DEF T
  <1>5. g[T] = f[x] + g[S] /\ g[S] \in Nat
    <2>1. \A y \in T : f[y] \in Nat
      BY DEF T
    <2>2. T \in SUBSET T
      OBVIOUS
    <2>3. g[T] = f[x] + g[T \ {x}]
      BY <1>1, <1>2, <1>4, <2>1, <2>2, AnyFirst
    <2>4. g[S] \in Nat
      BY <1>1, <1>2, <1>4, <2>1, AnyFirst
    <2> QED BY <1>4, <2>3, <2>4
  <1>6. h[S] = g[S]
    BY <1>1, <1>2, <1>3, <1>4, SumsAgree
  <1> QED BY <1>2, <1>3, <1>5, <1>6 DEF T
-----------------------------------------------------------------------------
(* The keep tool.  That a sentence once kept stays kept needs the values    *)
(* used had when it was chosen (counts): a later call goes through the same *)
(* values again, so that what fitted before fits now (Replay).              *)

\* A choice of sentences of d, with the characters used after each.
Counted(d, s, c) ==
  /\ Len(c) = Len(s)
  /\ \A i \in 1..Len(s) :
       /\ s[i] \in Sentences(d)
       /\ c[i] = (IF i = 1 THEN 0 ELSE c[i - 1] + Separator) + Size[d][s[i]]
       /\ c[i] <= MaxKeepChars
  /\ \A i, j \in 1..Len(s) : s[i] = s[j] => i = j

ChoicesCounted == \A d \in Docs : Counted(d, selected[d], counts[d])

CallCounted == doc # NoDoc => Counted(doc, picked, used)

NoCall == doc = NoDoc => picked = <<>> /\ used = <<>> /\ skipped = {}

\* The order of a call begins with the choice of before.
OrderOfCall ==
  doc # NoDoc =>
    /\ Len(selected[doc]) <= Len(order)
    /\ \A i \in 1..Len(order) : order[i] \in Sentences(doc)
    /\ \A i \in 1..Len(selected[doc]) : order[i] = selected[doc][i]

\* The loop repeats the choice of before, with the same counts.
Replay ==
  doc # NoDoc =>
    /\ at <= Len(selected[doc]) => Len(picked) = at /\ skipped = {}
    /\ \A i \in 1..at : i <= Len(selected[doc]) =>
         /\ i <= Len(picked)
         /\ picked[i] = selected[doc][i] /\ used[i] = counts[doc][i]

DocumentsAreChoices ==
  /\ \A d \in Docs : d \in DOMAIN documents <=> selected[d] # <<>>
  /\ \A d \in DOMAIN documents : documents[d] = Range(selected[d])

SkippedOfCall == \A s \in skipped : doc # NoDoc /\ s \in Sentences(doc)

IInv == /\ TypeOK /\ SkippedOfCall /\ ChoicesCounted /\ CallCounted /\ NoCall /\ OrderOfCall
        /\ Replay /\ DocumentsAreChoices /\ SkippedForLackOfRoom
        /\ ConversationIsCurrent

-----------------------------------------------------------------------------
LEMMA AppendFacts ==
  ASSUME NEW S, NEW s \in Seq(S), NEW x \in S
  PROVE  /\ Append(s, x) \in Seq(S)
         /\ Len(Append(s, x)) = Len(s) + 1
         /\ \A i \in 1..Len(s) : Append(s, x)[i] = s[i]
         /\ Append(s, x)[Len(s) + 1] = x
  OBVIOUS

LEMMA ChoiceRange ==
  ASSUME NEW S, NEW s \in Seq(S)
  PROVE  /\ Range(s) = {s[i] : i \in 1..Len(s)}
         /\ Range(s) \in SUBSET S
         /\ s = <<>> <=> Len(s) = 0
         /\ s = <<>> <=> Range(s) = {}
  BY DEF Range

LEMMA SizeType ==
  ASSUME NEW d \in Docs, NEW s \in Sentences(d)
  PROVE  /\ Size[d][s] \in Nat /\ s \in AllSentences
  BY KeepAssumption DEF Sentences, AllSentences

\* One more sentence that fits keeps a choice counted.
LEMMA CountedGrows ==
  ASSUME NEW d \in Docs, NEW s \in Seq(AllSentences), NEW c \in Seq(Nat),
         Counted(d, s, c), NEW x \in Sentences(d),
         \A i \in 1..Len(s) : s[i] # x,
         NEW n \in Nat,
         n = Total(c) + Size[d][x] + (IF s = <<>> THEN 0 ELSE Separator),
         n <= MaxKeepChars
  PROVE  /\ Counted(d, Append(s, x), Append(c, n))
         /\ Append(s, x) \in Seq(AllSentences) /\ Append(c, n) \in Seq(Nat)
  <1>1. x \in AllSentences /\ Size[d][x] \in Nat
    BY SizeType
  <1>2. /\ Append(s, x) \in Seq(AllSentences) /\ Append(c, n) \in Seq(Nat)
        /\ Len(Append(s, x)) = Len(s) + 1 /\ Len(Append(c, n)) = Len(c) + 1
        /\ \A i \in 1..Len(s) : Append(s, x)[i] = s[i]
        /\ \A i \in 1..Len(c) : Append(c, n)[i] = c[i]
        /\ Append(s, x)[Len(s) + 1] = x /\ Append(c, n)[Len(c) + 1] = n
    BY <1>1, AppendFacts
  <1>3. Len(s) \in Nat /\ Len(c) = Len(s) /\ Separator \in Nat
    BY KeepAssumption DEF Counted
  <1>4. n = (IF Len(s) + 1 = 1 THEN 0 ELSE c[Len(s)] + Separator) + Size[d][x]
    <2>1. CASE Len(s) = 0
      BY <2>1, <1>1, <1>3, c = <<>>, s = <<>> DEF Total
    <2>2. CASE Len(s) # 0
      <3>1. s # <<>> /\ c # <<>> /\ c[Len(s)] \in Nat
        BY <2>2, <1>3
      <3> QED BY <3>1, <2>2, <1>1, <1>3 DEF Total
    <2> QED BY <2>1, <2>2
  <1>5. ASSUME NEW i \in 1..(Len(s) + 1)
        PROVE  /\ Append(s, x)[i] \in Sentences(d)
               /\ Append(c, n)[i] = (IF i = 1 THEN 0 ELSE Append(c, n)[i - 1] + Separator)
                                    + Size[d][Append(s, x)[i]]
               /\ Append(c, n)[i] <= MaxKeepChars
    <2>1. CASE i = Len(s) + 1
      <3>1. i # 1 => Append(c, n)[i - 1] = c[Len(s)]
        BY <2>1, <1>2, <1>3
      <3> QED BY <3>1, <2>1, <1>2, <1>3, <1>4
    <2>2. CASE i \in 1..Len(s)
      <3>1. i # 1 => i - 1 \in 1..Len(s)
        BY <2>2, <1>3
      <3>2. i # 1 => Append(c, n)[i - 1] = c[i - 1]
        BY <3>1, <1>2, <1>3
      <3> QED BY <3>2, <2>2, <1>2, <1>3 DEF Counted
    <2> QED BY <2>1, <2>2, <1>3
  <1>6. ASSUME NEW i \in 1..(Len(s) + 1), NEW j \in 1..(Len(s) + 1),
               Append(s, x)[i] = Append(s, x)[j]
        PROVE  i = j
    BY <1>6, <1>2, <1>3 DEF Counted
  <1> QED BY <1>2, <1>3, <1>5, <1>6 DEF Counted

LEMMA TotalOfCounted ==
  ASSUME NEW d, NEW s \in Seq(AllSentences), NEW c \in Seq(Nat), Counted(d, s, c)
  PROVE  Total(c) \in Nat /\ Total(c) <= MaxKeepChars
  <1>1. CASE c = <<>>
    BY <1>1, KeepAssumption DEF Total
  <1>2. CASE c # <<>>
    BY <1>2 DEF Total, Counted
  <1> QED BY <1>1, <1>2

\* What a call of keep picks or skips next.
LEMMA NextSentence ==
  ASSUME IInv, Choosing
  PROVE  /\ doc \in Docs /\ at + 1 \in 1..Len(order)
         /\ Sentence \in Sentences(doc) /\ Sentence \in AllSentences
         /\ Size[doc][Sentence] \in Nat
         /\ Total(used) \in Nat /\ Total(used) <= MaxKeepChars
         /\ Needed = Size[doc][Sentence] + (IF picked = <<>> THEN 0 ELSE Separator)
         /\ Needed \in Nat
  <1>1. doc \in Docs /\ at + 1 \in 1..Len(order)
    BY DEF IInv, TypeOK, Choosing
  <1>2. Sentence \in Sentences(doc)
    BY <1>1 DEF IInv, OrderOfCall, Choosing, Sentence
  <1>3. Size[doc][Sentence] \in Nat /\ Sentence \in AllSentences
    BY <1>1, <1>2, SizeType
  <1>4. Total(used) \in Nat /\ Total(used) <= MaxKeepChars
    BY TotalOfCounted DEF IInv, TypeOK, CallCounted, Choosing
  <1> QED BY <1>1, <1>2, <1>3, <1>4, KeepAssumption DEF Needed

\* While the choice of before is gone through, every sentence fits again.
LEMMA ReplayFits ==
  ASSUME IInv, Choosing, at < Len(selected[doc])
  PROVE  /\ Sentence = selected[doc][at + 1] /\ ~Repeated /\ Fits
         /\ Total(used) + Needed = counts[doc][at + 1]
         /\ Len(picked) = at /\ Len(used) = at
  <1>1. /\ doc \in Docs /\ at \in Nat /\ at + 1 \in 1..Len(order)
        /\ selected[doc] \in Seq(AllSentences) /\ picked \in Seq(AllSentences)
        /\ used \in Seq(Nat) /\ counts[doc] \in Seq(Nat)
    BY DEF IInv, TypeOK, Choosing
  <1>2. /\ Len(picked) = at /\ skipped = {}
        /\ \A i \in 1..at : picked[i] = selected[doc][i] /\ used[i] = counts[doc][i]
    BY <1>1 DEF IInv, Replay, Choosing
  <1>3. Counted(doc, selected[doc], counts[doc]) /\ Counted(doc, picked, used)
    BY <1>1 DEF IInv, ChoicesCounted, CallCounted, Choosing
  <1>4. at + 1 \in 1..Len(selected[doc])
    BY <1>1
  <1>5. Sentence = selected[doc][at + 1]
    BY <1>4 DEF IInv, OrderOfCall, Choosing, Sentence
  <1>6. \A i \in 1..at : picked[i] # Sentence
    <2>1. \A i, j \in 1..Len(selected[doc]) :
             selected[doc][i] = selected[doc][j] => i = j
      BY <1>3 DEF Counted
    <2>2. \A i \in 1..at : i \in 1..Len(selected[doc]) /\ i # at + 1
      BY <1>1, <1>4
    <2> QED BY <2>1, <2>2, <1>2, <1>4, <1>5
  <1>7. ~Repeated
    BY <1>1, <1>2, <1>6, ChoiceRange DEF Repeated
  <1>8. Len(used) = at
    BY <1>2, <1>3 DEF Counted
  <1>9. Total(used) + Needed = counts[doc][at + 1]
    <2>1. counts[doc][at + 1] = (IF at + 1 = 1 THEN 0 ELSE counts[doc][(at + 1) - 1] + Separator)
                                + Size[doc][selected[doc][at + 1]]
      BY <1>3, <1>4 DEF Counted
    <2>2. Size[doc][Sentence] \in Nat /\ Separator \in Nat
      BY NextSentence, KeepAssumption
    <2>3. CASE at = 0
      <3>1. used = <<>> /\ picked = <<>>
        BY <2>3, <1>1, <1>2, <1>8
      <3>2. Total(used) = 0 /\ Needed = Size[doc][Sentence]
        BY <3>1, <2>2 DEF Total, Needed
      <3> QED BY <3>2, <2>1, <2>2, <2>3, <1>5
    <2>4. CASE at # 0
      <3>1. used # <<>> /\ picked # <<>> /\ at \in 1..at
        BY <2>4, <1>1, <1>2, <1>8
      <3>2. Total(used) = counts[doc][at] /\ Needed = Size[doc][Sentence] + Separator
        BY <3>1, <1>2, <1>8 DEF Total, Needed
      <3>3. counts[doc][at] \in Nat /\ (at + 1) - 1 = at
        BY <1>1, <1>3, <1>4, <2>4 DEF Counted
      <3>4. at + 1 # 1
        BY <2>4, <1>1
      <3>5. counts[doc][at + 1]
              = (counts[doc][at] + Separator) + Size[doc][Sentence]
        BY <3>3, <3>4, <2>1, <1>5
      <3> QED BY <3>2, <3>3, <3>5, <2>2
    <2> QED BY <2>3, <2>4
  <1>10. Fits
    BY <1>3, <1>4, <1>9 DEF Fits, Counted
  <1> QED BY <1>2, <1>5, <1>7, <1>8, <1>9, <1>10

-----------------------------------------------------------------------------
LEMMA InitIInv == Init => IInv
  <1> SUFFICES ASSUME Init PROVE IInv
    OBVIOUS
  <1>1. TypeOK
    BY DEF Init, TypeOK
  <1>2. ChoicesCounted /\ CallCounted
    BY DEF Init, ChoicesCounted, CallCounted, Counted
  <1>3. NoCall /\ OrderOfCall /\ Replay /\ DocumentsAreChoices /\ SkippedOfCall
    BY DEF Init, SkippedOfCall, NoCall, OrderOfCall, Replay, DocumentsAreChoices
  <1>4. SkippedForLackOfRoom /\ ConversationIsCurrent
    BY DEF Init, SkippedForLackOfRoom, ConversationIsCurrent
  <1> QED BY <1>1, <1>2, <1>3, <1>4 DEF IInv

LEMMA RegisterIInv ==
  ASSUME IInv, NEW m \in Messages, NEW ds \in SUBSET Docs, Register(m, ds)
  PROVE  IInv'
  <1>1. TypeOK'
    BY DEF IInv, TypeOK, Register, call, Views
  <1>2. ChoicesCounted' /\ CallCounted' /\ NoCall' /\ OrderOfCall' /\ Replay'
    BY DEF IInv, ChoicesCounted, CallCounted, NoCall, OrderOfCall, Replay,
           Register, call, Counted, Sentences
  <1>3. DocumentsAreChoices' /\ SkippedForLackOfRoom' /\ SkippedOfCall'
    BY DEF IInv, SkippedOfCall, Sentences, DocumentsAreChoices, SkippedForLackOfRoom, Register, call, Total
  <1>4. ConversationIsCurrent'
    <2> SUFFICES ASSUME NEW n \in Messages, NEW d \in DOMAIN shown'[n]
                 PROVE  /\ shown'[n][d] = Discarded => d \notin DOMAIN documents'
                        /\ shown'[n][d].is = "chosen"
                             => shown'[n][d].sentences = Range(selected'[d])
      BY DEF ConversationIsCurrent
    <2>1. CASE n = m
      BY <2>1 DEF Register, IInv, TypeOK, Whole, Discarded
    <2>2. CASE n # m
      BY <2>2 DEF Register, IInv, TypeOK, ConversationIsCurrent
    <2> QED BY <2>1, <2>2
  <1> QED BY <1>1, <1>2, <1>3, <1>4 DEF IInv

LEMMA AskIInv ==
  ASSUME IInv, NEW d \in Docs, NEW n \in 1..MaxAsked,
         NEW asked \in [1..n -> Sentences(d)], Ask(d, asked)
  PROVE  IInv'
  <1>1. /\ asked \in Seq(AllSentences) /\ asked \in Seq(Sentences(d))
        /\ selected[d] \in Seq(AllSentences)
        /\ \A i \in 1..Len(selected[d]) : selected[d][i] \in Sentences(d)
    <2>1. n \in Nat
      BY KeepAssumption
    <2>2. asked \in [1..n -> AllSentences]
      BY DEF AllSentences
    <2> QED BY <2>1, <2>2 DEF IInv, TypeOK, ChoicesCounted, Counted
  <1>2. /\ order' \in Seq(AllSentences)
        /\ Len(order') = Len(selected[d]) + Len(asked)
        /\ \A i \in 1..Len(order') : order'[i] \in Sentences(d)
        /\ \A i \in 1..Len(selected[d]) : order'[i] = selected[d][i]
    BY <1>1 DEF Ask, Order
  <1>3. TypeOK'
    BY <1>2 DEF IInv, TypeOK, Ask
  <1>4. ChoicesCounted' /\ CallCounted' /\ NoCall'
    <2>1. ChoicesCounted'
      BY DEF IInv, ChoicesCounted, Ask, Counted, Sentences
    <2>2. CallCounted'
      BY DEF CallCounted, Ask, Counted
    <2>3. NoCall'
      BY KeepAssumption DEF NoCall, Ask
    <2> QED BY <2>1, <2>2, <2>3
  <1>5. OrderOfCall'
    BY <1>1, <1>2 DEF OrderOfCall, Ask, Sentences
  <1>6. Replay' /\ SkippedOfCall'
    BY DEF Replay, SkippedOfCall, Ask
  <1>7. DocumentsAreChoices' /\ SkippedForLackOfRoom' /\ ConversationIsCurrent'
    BY DEF IInv, DocumentsAreChoices, SkippedForLackOfRoom, ConversationIsCurrent, Ask
  <1> QED BY <1>3, <1>4, <1>5, <1>6, <1>7 DEF IInv

LEMMA PassOverIInv == ASSUME IInv, PassOver PROVE IInv'
  <1> USE DEF PassOver
  <1>1. doc \in Docs /\ at \in Nat /\ at + 1 \in 1..Len(order) /\ Choosing
    BY NextSentence DEF IInv, TypeOK
  <1>2. TypeOK'
    <2>1. TypeOK /\ at' \in 0..Len(order)
      BY <1>1 DEF IInv, Choosing
    <2> QED BY <2>1 DEF TypeOK, Choosing
  <1>3. ChoicesCounted' /\ CallCounted' /\ NoCall' /\ OrderOfCall' /\ SkippedOfCall'
    BY DEF IInv, ChoicesCounted, CallCounted, NoCall, OrderOfCall, SkippedOfCall, Choosing,
           Counted, Sentences
  <1>4. ~(at < Len(selected[doc]))
    BY <1>1, ReplayFits
  <1>5. Len(selected[doc]) \in Nat
    BY <1>1 DEF IInv, TypeOK
  <1>6. Replay'
    BY <1>1, <1>4, <1>5 DEF IInv, Replay, Choosing
  <1>7. DocumentsAreChoices' /\ SkippedForLackOfRoom' /\ ConversationIsCurrent'
    BY DEF IInv, DocumentsAreChoices, SkippedForLackOfRoom, ConversationIsCurrent,
           Choosing
  <1> QED BY <1>2, <1>3, <1>6, <1>7 DEF IInv

LEMMA PickIInv == ASSUME IInv, Pick PROVE IInv'
  <1>1. /\ Choosing /\ ~Repeated /\ Fits
        /\ doc \in Docs /\ at \in Nat /\ at + 1 \in 1..Len(order)
        /\ picked \in Seq(AllSentences) /\ used \in Seq(Nat)
        /\ selected[doc] \in Seq(AllSentences) /\ counts[doc] \in Seq(Nat)
        /\ Counted(doc, picked, used)
    BY NextSentence DEF Pick, IInv, TypeOK, CallCounted, Choosing
  <1>2. /\ Sentence \in Sentences(doc) /\ Sentence \in AllSentences
        /\ Size[doc][Sentence] \in Nat /\ Total(used) \in Nat /\ Needed \in Nat
        /\ Needed = Size[doc][Sentence] + (IF picked = <<>> THEN 0 ELSE Separator)
        /\ Separator \in Nat /\ MaxKeepChars \in Nat
    BY <1>1, NextSentence, KeepAssumption
  <1>3. \A i \in 1..Len(picked) : picked[i] # Sentence
    <2>1. Sentence \notin Range(picked)
      BY <1>1 DEF Repeated
    <2>2. \A i \in 1..Len(picked) : picked[i] \in Range(picked)
      BY <1>1 DEF Range
    <2> QED BY <2>1, <2>2
  <1> DEFINE n == Total(used) + Needed
  <1>4. n \in Nat /\ n <= MaxKeepChars
        /\ n = Total(used) + Size[doc][Sentence] + (IF picked = <<>> THEN 0 ELSE Separator)
    BY <1>1, <1>2 DEF Fits
  <1>5. picked' = Append(picked, Sentence) /\ used' = Append(used, n)
    BY DEF Pick
  <1> HIDE DEF n
  <1>6. /\ Counted(doc, picked', used')
        /\ picked' \in Seq(AllSentences) /\ used' \in Seq(Nat)
    BY <1>1, <1>2, <1>3, <1>4, <1>5, CountedGrows
  <1>7. /\ Len(picked') = Len(picked) + 1 /\ Len(used') = Len(used) + 1
        /\ \A i \in 1..Len(picked) : picked'[i] = picked[i] /\ used'[i] = used[i]
        /\ picked'[Len(picked) + 1] = Sentence /\ used'[Len(picked) + 1] = n
        /\ Len(used) = Len(picked) /\ Len(picked) \in Nat
    <2>1. Len(used) = Len(picked)
      BY <1>1 DEF Counted
    <2> QED BY <2>1, <1>1, <1>2, <1>4, <1>5, AppendFacts
  <1>8. TypeOK'
    BY <1>1, <1>6 DEF IInv, TypeOK, Pick, Choosing
  <1>9. ChoicesCounted' /\ CallCounted' /\ NoCall' /\ OrderOfCall' /\ SkippedOfCall'
    <2>1. ChoicesCounted' /\ NoCall' /\ OrderOfCall' /\ SkippedOfCall'
      BY DEF IInv, ChoicesCounted, NoCall, OrderOfCall, SkippedOfCall, Pick, Choosing, Counted, Sentences
    <2>2. CallCounted'
      BY <1>6 DEF CallCounted, Pick, Choosing, Counted, Sentences
    <2> QED BY <2>1, <2>2
  <1>10. Replay'
    <2>1. doc' = doc /\ selected' = selected /\ counts' = counts
          /\ at' = at + 1 /\ skipped' = skipped
      BY DEF Pick, Choosing
    <2>2. Len(selected[doc]) \in Nat
      BY <1>1
    <2>3. CASE at < Len(selected[doc])
      <3>1. /\ Sentence = selected[doc][at + 1] /\ n = counts[doc][at + 1]
            /\ Len(picked) = at /\ skipped = {}
        BY <2>3, <1>1, ReplayFits DEF IInv, Replay, Choosing, n
      <3>2. ASSUME NEW i \in 1..at', i <= Len(selected[doc])
            PROVE  /\ i <= Len(picked')
                   /\ picked'[i] = selected[doc][i] /\ used'[i] = counts[doc][i]
        <4>1. CASE i = at + 1
          BY <4>1, <3>1, <1>7
        <4>2. CASE i \in 1..at
          <5>1. picked[i] = selected[doc][i] /\ used[i] = counts[doc][i]
            BY <4>2, <3>2, <1>1 DEF IInv, Replay, Choosing
          <5>2. i \in 1..Len(picked)
            BY <4>2, <3>1
          <5> QED BY <5>1, <5>2, <1>7
        <4> QED BY <4>1, <4>2, <2>1, <1>1
      <3> QED BY <3>1, <3>2, <2>1, <1>7 DEF Replay
    <2>4. CASE ~(at < Len(selected[doc]))
      <3>1. ASSUME NEW i \in 1..at', i <= Len(selected[doc])
            PROVE  /\ i <= Len(picked')
                   /\ picked'[i] = selected[doc][i] /\ used'[i] = counts[doc][i]
        <4>1. i \in 1..at
          BY <3>1, <2>1, <2>2, <2>4, <1>1
        <4>2. i <= Len(picked) /\ picked[i] = selected[doc][i] /\ used[i] = counts[doc][i]
          BY <4>1, <3>1, <1>1 DEF IInv, Replay, Choosing
        <4> QED BY <4>1, <4>2, <1>7, <1>1
      <3>2. ~(at' <= Len(selected[doc]))
        BY <2>1, <2>2, <2>4, <1>1
      <3> QED BY <3>1, <3>2, <2>1 DEF Replay
    <2> QED BY <2>3, <2>4
  <1>11. SkippedForLackOfRoom'
    <2> SUFFICES ASSUME NEW s \in skipped
                 PROVE  Total(used') + (IF picked' = <<>> THEN 0 ELSE Separator)
                          + Size[doc][s] > MaxKeepChars
      BY DEF SkippedForLackOfRoom, Pick, Choosing
    <2>1. Total(used') = n /\ picked' # <<>>
      BY <1>6, <1>7 DEF Total
    <2>2. Total(used) + (IF picked = <<>> THEN 0 ELSE Separator) + Size[doc][s]
            > MaxKeepChars
      BY DEF IInv, SkippedForLackOfRoom
    <2>3. Size[doc][s] \in Nat
      BY <1>1, SizeType DEF IInv, SkippedOfCall
    <2> DEFINE z == Size[doc][s]
               a == Total(used) + (IF picked = <<>> THEN 0 ELSE Separator)
    <2>4. a \in Nat /\ a <= n
      BY <1>2, <1>4
    <2>5. z \in Nat /\ a + z > MaxKeepChars
      BY <2>2, <2>3
    <2> HIDE DEF z, a
    <2>6. n + Separator + z > MaxKeepChars
      BY <2>4, <2>5, <1>2, <1>4
    <2>7. Total(used') + (IF picked' = <<>> THEN 0 ELSE Separator) = n + Separator
      BY <2>1
    <2> QED BY <2>6, <2>7 DEF z
  <1>12. DocumentsAreChoices' /\ ConversationIsCurrent'
    BY DEF IInv, DocumentsAreChoices, ConversationIsCurrent, Pick, Choosing
  <1> QED BY <1>8, <1>9, <1>10, <1>11, <1>12 DEF IInv

LEMMA SkipIInv == ASSUME IInv, Skip PROVE IInv'
  <1>1. /\ Choosing /\ ~Fits /\ doc \in Docs /\ at \in Nat
        /\ at + 1 \in 1..Len(order)
        /\ Sentence \in Sentences(doc) /\ Sentence \in AllSentences
    BY NextSentence DEF Skip, IInv, TypeOK
  <1>2. /\ picked' = picked /\ used' = used /\ doc' = doc /\ selected' = selected
        /\ counts' = counts /\ skipped' = skipped \cup {Sentence} /\ at' = at + 1
    BY DEF Skip, Choosing
  <1>3. TypeOK'
    <2>1. TypeOK /\ at' \in 0..Len(order) /\ skipped' \in SUBSET AllSentences
      BY <1>1, <1>2 DEF IInv, TypeOK
    <2> QED BY <2>1 DEF TypeOK, Skip, Choosing
  <1>4. ChoicesCounted' /\ CallCounted' /\ NoCall' /\ OrderOfCall' /\ SkippedOfCall'
    <2>1. ChoicesCounted' /\ CallCounted'
      BY <1>2 DEF IInv, ChoicesCounted, CallCounted, Counted, Sentences
    <2>2. order' = order /\ doc # NoDoc
      BY <1>1 DEF Skip, Choosing
    <2>3. NoCall' /\ OrderOfCall'
      BY <1>2, <2>2 DEF IInv, NoCall, OrderOfCall, Sentences
    <2>4. SkippedOfCall'
      BY <1>1, <1>2, <2>2 DEF IInv, SkippedOfCall, Sentences
    <2> QED BY <2>1, <2>3, <2>4
  <1>5. ~(at < Len(selected[doc])) /\ Len(selected[doc]) \in Nat
    BY <1>1, ReplayFits DEF IInv, TypeOK
  <1>6. Replay'
    BY <1>1, <1>2, <1>5 DEF IInv, Replay, Choosing
  <1>7. SkippedForLackOfRoom'
    <2>1. /\ ~(Total(used) + Needed <= MaxKeepChars)
          /\ Total(used) \in Nat /\ Size[doc][Sentence] \in Nat
          /\ Needed = Size[doc][Sentence] + (IF picked = <<>> THEN 0 ELSE Separator)
      BY <1>1, NextSentence DEF Fits
    <2>2. Total(used) + (IF picked = <<>> THEN 0 ELSE Separator)
            + Size[doc][Sentence] > MaxKeepChars
      BY <2>1, KeepAssumption
    <2> QED BY <2>2, <1>2 DEF IInv, SkippedForLackOfRoom
  <1>8. DocumentsAreChoices' /\ ConversationIsCurrent'
    BY DEF IInv, DocumentsAreChoices, ConversationIsCurrent, Skip, Choosing
  <1> QED BY <1>3, <1>4, <1>6, <1>7, <1>8 DEF IInv

\* At the end of a call everything chosen before has been chosen again.
LEMMA KeepKeeps ==
  ASSUME IInv, Keep
  PROVE  /\ doc \in Docs /\ Range(selected[doc]) \subseteq Range(picked)
         /\ selected[doc] # <<>> => picked # <<>>
  <1>1. /\ doc \in Docs /\ at = Len(order) /\ doc # NoDoc
        /\ selected[doc] \in Seq(AllSentences) /\ picked \in Seq(AllSentences)
    BY DEF IInv, TypeOK, Keep
  <1>2. /\ Len(selected[doc]) <= at /\ Len(selected[doc]) \in Nat /\ at \in Nat
    BY <1>1 DEF IInv, TypeOK, OrderOfCall
  <1>3. \A i \in 1..Len(selected[doc]) :
           i <= Len(picked) /\ picked[i] = selected[doc][i]
    BY <1>1, <1>2 DEF IInv, Replay
  <1>4. \A i \in 1..Len(selected[doc]) : i \in 1..Len(picked)
    BY <1>1, <1>3
  <1>5. Range(selected[doc]) \subseteq Range(picked)
    BY <1>1, <1>3, <1>4, ChoiceRange
  <1> QED BY <1>1, <1>5, ChoiceRange

LEMMA KeepIInv == ASSUME IInv, Keep PROVE IInv'
  <1>1. /\ doc \in Docs /\ doc # NoDoc /\ doc \in fetched
        /\ picked \in Seq(AllSentences) /\ used \in Seq(Nat)
        /\ Counted(doc, picked, used)
        /\ selected' = [selected EXCEPT ![doc] = picked]
        /\ counts' = [counts EXCEPT ![doc] = used]
        /\ selected \in [Docs -> Seq(AllSentences)] /\ counts \in [Docs -> Seq(Nat)]
        /\ DOMAIN shown = Messages /\ DOMAIN documents \subseteq Docs
    BY DEF IInv, TypeOK, CallCounted, Keep
  <1>2. \A d \in Docs : /\ selected'[d] = IF d = doc THEN picked ELSE selected[d]
                        /\ counts'[d] = IF d = doc THEN used ELSE counts[d]
    BY <1>1
  <1>3. /\ doc' = NoDoc /\ order' = <<>> /\ at' = 0 /\ picked' = <<>>
        /\ used' = <<>> /\ skipped' = {} /\ fetched' = fetched
    BY DEF Keep
  <1>4. Range(picked) \in SUBSET Sentences(doc) /\ (picked = <<>> <=> Range(picked) = {})
    <2>1. \A i \in 1..Len(picked) : picked[i] \in Sentences(doc)
      BY <1>1 DEF Counted
    <2>2. Range(picked) = {picked[i] : i \in 1..Len(picked)}
      BY <1>1, ChoiceRange
    <2>3. picked = <<>> <=> Range(picked) = {}
      BY <1>1, ChoiceRange
    <2> QED BY <2>1, <2>2, <2>3
  <1>5. /\ \A d \in Docs : d \in DOMAIN documents' <=>
             IF d = doc THEN picked # <<>> ELSE d \in DOMAIN documents
        /\ DOMAIN documents' \subseteq DOMAIN documents \cup {doc}
        /\ \A d \in DOMAIN documents' :
             documents'[d] = IF d = doc THEN Range(picked) ELSE documents[d]
    <2>1. CASE picked = <<>>
      BY <2>1, <1>1 DEF Keep, Store
    <2>2. CASE picked # <<>>
      BY <2>2, <1>1 DEF Keep, Store
    <2> QED BY <2>1, <2>2
  <1>6. \A m \in Messages :
           /\ DOMAIN shown'[m] = DOMAIN shown[m]
           /\ \A d \in DOMAIN shown[m] :
                shown'[m][d] = IF d = doc THEN Chosen(Range(picked)) ELSE shown[m][d]
    BY DEF Keep, UpdateMessages
  <1>7. TypeOK'
    <2>1. selected' \in [Docs -> Seq(AllSentences)] /\ counts' \in [Docs -> Seq(Nat)]
      BY <1>1
    <2>2. /\ DOMAIN documents' \subseteq fetched'
          /\ \A d \in DOMAIN documents' : documents'[d] \in (SUBSET Sentences(d)) \ {{}}
      BY <1>1, <1>3, <1>4, <1>5 DEF IInv, TypeOK
    <2>3. DOMAIN shown' = Messages
      BY DEF Keep, UpdateMessages
    <2>4. Chosen(Range(picked)) \in Views
      BY <1>1, ChoiceRange DEF Views
    <2>5. \A m \in Messages : /\ DOMAIN shown'[m] \subseteq fetched'
                              /\ \A d \in DOMAIN shown'[m] : shown'[m][d] \in Views
      BY <2>4, <1>3, <1>6 DEF IInv, TypeOK
    <2>6. /\ fetched' \in SUBSET Docs /\ doc' \in fetched' \cup {NoDoc}
          /\ order' \in Seq(AllSentences) /\ at' \in 0..Len(order')
          /\ picked' \in Seq(AllSentences) /\ used' \in Seq(Nat)
          /\ skipped' \in SUBSET AllSentences
      BY <1>3 DEF IInv, TypeOK
    <2> QED BY <2>1, <2>2, <2>3, <2>5, <2>6 DEF TypeOK, Sentences, Views, Chosen,
               Whole, Discarded, AllSentences
  <1>8. ChoicesCounted'
    <2>1. \A d \in Docs : Counted(d, selected'[d], counts'[d])
      BY <1>1, <1>2 DEF IInv, ChoicesCounted
    <2> QED BY <2>1 DEF ChoicesCounted, Counted, Sentences
  <1>9. CallCounted' /\ NoCall' /\ OrderOfCall' /\ Replay' /\ SkippedOfCall'
        /\ SkippedForLackOfRoom'
    BY <1>3 DEF CallCounted, NoCall, OrderOfCall, Replay, SkippedOfCall,
                SkippedForLackOfRoom
  <1>10. DocumentsAreChoices'
    <2>1. \A d \in Docs : d \in DOMAIN documents' <=> selected'[d] # <<>>
      BY <1>2, <1>5 DEF IInv, DocumentsAreChoices
    <2>2. \A d \in DOMAIN documents' : documents'[d] = Range(selected'[d])
      BY <1>1, <1>2, <1>5 DEF IInv, DocumentsAreChoices
    <2> QED BY <2>1, <2>2 DEF DocumentsAreChoices
  <1>11. ConversationIsCurrent'
    <2> SUFFICES ASSUME NEW m \in Messages, NEW d \in DOMAIN shown'[m]
                 PROVE  /\ shown'[m][d] = Discarded => d \notin DOMAIN documents'
                        /\ shown'[m][d].is = "chosen"
                             => shown'[m][d].sentences = Range(selected'[d])
      BY DEF ConversationIsCurrent
    <2>1. d \in DOMAIN shown[m] /\ d \in Docs
      BY <1>6 DEF IInv, TypeOK
    <2>2. CASE d = doc
      BY <2>1, <2>2, <1>1, <1>2, <1>6 DEF Chosen, Discarded
    <2>3. CASE d # doc
      BY <2>1, <2>3, <1>2, <1>5, <1>6 DEF IInv, ConversationIsCurrent
    <2> QED BY <2>2, <2>3
  <1> QED BY <1>7, <1>8, <1>9, <1>10, <1>11 DEF IInv

LEMMA FinishBatchIInv ==
  ASSUME IInv, NEW m \in Messages, FinishBatch(m)
  PROVE  IInv'
  <1> DEFINE ds == DOMAIN shown[m] \ DOMAIN documents
  <1>1. /\ DOMAIN shown' = Messages
        /\ \A n \in Messages :
           /\ DOMAIN shown'[n] = DOMAIN shown[n]
           /\ \A d \in DOMAIN shown[n] :
                shown'[n][d] = IF d \in ds THEN Discarded ELSE shown[n][d]
    BY DEF FinishBatch, UpdateMessages
  <1>2. UNCHANGED <<fetched, selected, counts, documents, call>>
    BY DEF FinishBatch
  <1>3. TypeOK'
    <2>1. \A n \in Messages : /\ DOMAIN shown'[n] \subseteq fetched
                              /\ \A d \in DOMAIN shown'[n] : shown'[n][d] \in Views
      BY <1>1 DEF IInv, TypeOK, Views
    <2> QED BY <2>1, <1>1, <1>2 DEF IInv, TypeOK, call
  <1>4. ChoicesCounted' /\ CallCounted' /\ NoCall' /\ OrderOfCall' /\ Replay'
        /\ SkippedOfCall' /\ SkippedForLackOfRoom' /\ DocumentsAreChoices'
    <2> USE <1>2 DEF IInv, call
    <2>1. ChoicesCounted' /\ CallCounted'
      BY DEF ChoicesCounted, CallCounted, Counted, Sentences
    <2>2. NoCall' /\ OrderOfCall' /\ SkippedOfCall'
      BY DEF NoCall, OrderOfCall, SkippedOfCall, Sentences
    <2>3. Replay' /\ DocumentsAreChoices'
      BY DEF Replay, DocumentsAreChoices
    <2>4. SkippedForLackOfRoom'
      BY DEF SkippedForLackOfRoom, Total
    <2> QED BY <2>1, <2>2, <2>3, <2>4
  <1>5. ConversationIsCurrent'
    <2> SUFFICES ASSUME NEW n \in Messages, NEW d \in DOMAIN shown'[n]
                 PROVE  /\ shown'[n][d] = Discarded => d \notin DOMAIN documents'
                        /\ shown'[n][d].is = "chosen"
                             => shown'[n][d].sentences = Range(selected'[d])
      BY DEF ConversationIsCurrent
    <2>1. documents' = documents /\ selected' = selected /\ d \in DOMAIN shown[n]
      BY <1>1, <1>2
    <2>2. CASE d \in ds
      BY <2>1, <2>2, <1>1 DEF Discarded
    <2>3. CASE d \notin ds
      BY <2>1, <2>3, <1>1 DEF IInv, ConversationIsCurrent
    <2> QED BY <2>2, <2>3
  <1> QED BY <1>3, <1>4, <1>5 DEF IInv

LEMMA StutterIInv == ASSUME IInv, UNCHANGED vars PROVE IInv'
  <1>1. TypeOK'
    BY DEF IInv, TypeOK, vars, call
  <1>2. ChoicesCounted' /\ CallCounted' /\ NoCall' /\ OrderOfCall' /\ Replay'
    BY DEF IInv, ChoicesCounted, CallCounted, NoCall, OrderOfCall, Replay,
       vars, call, Counted, Sentences
  <1>3. SkippedOfCall' /\ SkippedForLackOfRoom' /\ DocumentsAreChoices'
        /\ ConversationIsCurrent'
    BY DEF IInv, SkippedOfCall, SkippedForLackOfRoom, DocumentsAreChoices,
       ConversationIsCurrent, vars, call, Sentences, Total
  <1> QED BY <1>1, <1>2, <1>3 DEF IInv

LEMMA Inductive == IInv /\ [Next]_vars => IInv'
  <1> SUFFICES ASSUME IInv, [Next]_vars PROVE IInv'
    OBVIOUS
  <1>1. ASSUME NEW m \in Messages, NEW ds \in SUBSET Docs, Register(m, ds) PROVE IInv'
    BY <1>1, RegisterIInv
  <1>2. ASSUME NEW d \in Docs, NEW n \in 1..MaxAsked,
               NEW asked \in [1..n -> Sentences(d)], Ask(d, asked)
        PROVE  IInv'
    BY <1>2, AskIInv
  <1>3. CASE PassOver
    BY <1>3, PassOverIInv
  <1>4. CASE Pick
    BY <1>4, PickIInv
  <1>5. CASE Skip
    BY <1>5, SkipIInv
  <1>6. CASE Keep
    BY <1>6, KeepIInv
  <1>7. ASSUME NEW m \in Messages, FinishBatch(m) PROVE IInv'
    BY <1>7, FinishBatchIInv
  <1>8. CASE UNCHANGED vars
    BY <1>8, StutterIInv
  <1> QED BY <1>1, <1>2, <1>3, <1>4, <1>5, <1>6, <1>7, <1>8 DEF Next

\* The inductive invariant holds of every behaviour of the tool.
THEOREM Invariance == Spec => []IInv
  <1> QED BY InitIInv, Inductive, PTL DEF Spec

\* TypeOK: choices, counts and messages stay well formed, whatever is asked.
THEOREM TypeCorrect == Spec => []TypeOK
  <1>1. IInv => TypeOK
    BY DEF IInv
  <1> QED BY <1>1, Invariance, PTL

\* WithinBudget: no document outgrows its budget over all calls of keep.
THEOREM BudgetIsKept == Spec => []WithinBudget
  <1>1. IInv => WithinBudget
    <2> SUFFICES ASSUME IInv PROVE WithinBudget
      OBVIOUS
    <2>1. ASSUME NEW d \in Docs PROVE Total(counts[d]) <= MaxKeepChars
      BY TotalOfCounted DEF IInv, TypeOK, ChoicesCounted
    <2>2. Total(used) <= MaxKeepChars
      <3>1. CASE doc = NoDoc
        BY <3>1, KeepAssumption DEF IInv, NoCall, Total
      <3>2. CASE doc # NoDoc
        BY <3>2, TotalOfCounted DEF IInv, TypeOK, CallCounted
      <3> QED BY <3>1, <3>2
    <2> QED BY <2>1, <2>2 DEF WithinBudget
  <1> QED BY <1>1, Invariance, PTL

\* SkippedForLackOfRoom: the choice is maximal among what was asked for.
THEOREM ChoiceIsMaximal == Spec => []SkippedForLackOfRoom
  <1>1. IInv => SkippedForLackOfRoom
    BY DEF IInv
  <1> QED BY <1>1, Invariance, PTL

\* ConversationIsCurrent: messages agree with what is kept.
THEOREM MessagesAreCurrent == Spec => []ConversationIsCurrent
  <1>1. IInv => ConversationIsCurrent
    BY DEF IInv
  <1> QED BY <1>1, Invariance, PTL

\* KeptForGood: a later keep drops no sentence, for any budget and lengths.
THEOREM NothingIsDropped == Spec => KeptForGood
  <1> DEFINE Stays == \A d \in DOMAIN documents :
                        d \in DOMAIN documents' /\ documents[d] \subseteq documents'[d]
  <1>1. IInv /\ [Next]_vars => Stays
    <2> SUFFICES ASSUME IInv, [Next]_vars PROVE Stays
      OBVIOUS
    <2>1. CASE Keep
      <3>1. ASSUME NEW d \in DOMAIN documents
            PROVE  d \in DOMAIN documents' /\ documents[d] \subseteq documents'[d]
        <4>1. /\ d \in Docs /\ documents[d] = Range(selected[d]) /\ selected[d] # <<>>
          BY DEF IInv, TypeOK, DocumentsAreChoices
        <4>2. CASE d # doc
          BY <4>2, <2>1 DEF Keep, Store
        <4>3. CASE d = doc
          BY <4>1, <4>3, <2>1, KeepKeeps DEF Keep, Store
        <4> QED BY <4>2, <4>3
      <3> QED BY <3>1
    <2>2. CASE ~Keep
      <3>1. documents' = documents
        BY <2>2 DEF Next, vars, Register, Ask, PassOver, Pick, Skip, Choosing,
                    FinishBatch
      <3> QED BY <3>1
    <2> QED BY <2>1, <2>2
  <1>2. Stays => [Stays]_vars
    OBVIOUS
  <1> QED BY <1>1, Invariance, PTL DEF Spec, KeptForGood

\* The first i of the sentences chosen.
FirstOnes(s, i) == {s[j] : j \in 1..i}

LEMMA OneTimeMore ==
  ASSUME NEW a \in Nat, NEW k \in Nat
  PROVE  a * (k + 1) = a * k + a /\ a * k \in Nat
  OBVIOUS

\* The value of used after each choice is the length of the text so far.
LEMMA CharsSoFar ==
  ASSUME NEW d \in Docs, NEW s \in Seq(AllSentences), NEW c \in Seq(Nat),
         Counted(d, s, c), NEW i \in 1..Len(s)
  PROVE  c[i] = ContentChars(d, FirstOnes(s, i))
  <1> DEFINE F == Size[d]
             Sum(n) == SumFunctionOnSet(F, FirstOnes(s, n))
             P(n) == /\ IsFiniteSet(FirstOnes(s, n)) /\ Cardinality(FirstOnes(s, n)) = n
                     /\ Sum(n) \in Nat
                     /\ n # 0 => c[n] = Sum(n) + Separator * (n - 1)
             Bad == {n \in 0..Len(s) : ~P(n)}
  <1> HIDE DEF F, Sum, P
  <1>1. \A j \in 1..Len(s) : s[j] \in Sentences(d) /\ F[s[j]] \in Nat
    BY SizeType DEF Counted, F
  <1>2. P(0)
    <2>1. FirstOnes(s, 0) = {}
      BY DEF FirstOnes
    <2>2. IsFiniteSet(FirstOnes(s, 0)) /\ Cardinality(FirstOnes(s, 0)) = 0
      BY <2>1, FS_EmptySet
    <2>3. Sum(0) \in Nat
      <3>1. SumFunctionOnSet(F, {}) = 0
        BY SumOfNothing
      <3>2. Sum(0) = 0
        BY <2>1, <3>1, Zenon DEF Sum
      <3> QED BY <3>2
    <2>4. 0 # 0 => c[0] = Sum(0) + Separator * (0 - 1)
      OBVIOUS
    <2> QED BY <2>2, <2>3, <2>4, Zenon DEF P
  <1>3. ASSUME Bad # {} PROVE FALSE
    <2>1. Len(s) \in Nat /\ Bad \in SUBSET Nat
      OBVIOUS
    <2>2. PICK m \in Bad : \A k \in Bad : ~(k < m)
      BY <1>3, <2>1, Least
    <2>3. m \in 1..Len(s) /\ m - 1 \in 0..Len(s) /\ P(m - 1)
      BY <1>2, <2>1, <2>2
    <2>4. /\ FirstOnes(s, m) = FirstOnes(s, m - 1) \cup {s[m]}
          /\ s[m] \notin FirstOnes(s, m - 1)
          /\ \A y \in FirstOnes(s, m - 1) \cup {s[m]} : F[y] \in Nat
      <3>1. 1..m = (1..(m - 1)) \cup {m} /\ 1..(m - 1) \subseteq 1..Len(s)
            /\ m \notin 1..(m - 1)
        BY <2>3
      <3>2. \A j \in 1..(m - 1) : s[j] # s[m]
        BY <2>3, <3>1 DEF Counted
      <3> QED BY <1>1, <2>3, <3>1, <3>2 DEF FirstOnes
    <2>5. IsFiniteSet(FirstOnes(s, m)) /\ Cardinality(FirstOnes(s, m)) = m
      <3>1. IsFiniteSet(FirstOnes(s, m - 1)) /\ Cardinality(FirstOnes(s, m - 1)) = m - 1
        BY <2>3 DEF P
      <3> DEFINE T == FirstOnes(s, m - 1)
      <3>2. /\ IsFiniteSet(T) => IsFiniteSet(T \cup {s[m]})
            /\ IsFiniteSet(T) /\ s[m] \notin T
                 => Cardinality(T \cup {s[m]}) = Cardinality(T) + 1
        <4> HIDE DEF T
        <4> QED BY FS_AddElement
      <3> QED BY <2>1, <2>3, <2>4, <3>1, <3>2
    <2>6. Sum(m) = F[s[m]] + Sum(m - 1) /\ Sum(m) \in Nat
      <3>1. IsFiniteSet(FirstOnes(s, m - 1))
        BY <2>3 DEF P
      <3>2. Sum(m) = F[s[m]] + Sum(m - 1) /\ Sum(m - 1) \in Nat
        BY <2>4, <3>1, SumOfOneMore DEF Sum
      <3> QED BY <1>1, <2>3, <3>2
    <2>7. c[m] = (IF m = 1 THEN 0 ELSE c[m - 1] + Separator) + F[s[m]]
      BY <2>3 DEF Counted, F
    <2>8. c[m] = Sum(m) + Separator * (m - 1)
      <3>1. Separator \in Nat /\ F[s[m]] \in Nat /\ Sum(m - 1) \in Nat
        BY KeepAssumption, <1>1, <2>3 DEF P
      <3>2. CASE m = 1
        <4>1. Sum(0) = 0
          <5>1. FirstOnes(s, 0) = {}
            BY DEF FirstOnes
          <5> QED BY <5>1, SumOfNothing DEF Sum
        <4>2. m - 1 = 0 /\ Separator * 0 = 0
          BY <3>1, <3>2
        <4> QED BY <2>6, <2>7, <3>1, <3>2, <4>1, <4>2
      <3>3. CASE m # 1
        <4>1. m - 2 \in Nat /\ (m - 2) + 1 = m - 1 /\ (m - 1) - 1 = m - 2 /\ m - 1 # 0
          BY <2>1, <2>3, <3>3
        <4>2. c[m - 1] = Sum(m - 1) + Separator * (m - 2)
          BY <2>3, <4>1 DEF P
        <4>3. Separator * (m - 1) = Separator * (m - 2) + Separator
              /\ Separator * (m - 2) \in Nat
          BY <3>1, <4>1, OneTimeMore
        <4> DEFINE a == Separator * (m - 2)
                   b == Separator * (m - 1)
        <4>4. c[m] = ((Sum(m - 1) + a) + Separator) + F[s[m]]
          BY <2>7, <3>3, <4>2
        <4>5. b = a + Separator /\ a \in Nat
          BY <4>3
        <4> HIDE DEF a
        <4>6. c[m] = Sum(m) + (a + Separator)
          BY <2>6, <3>1, <4>4, <4>5
        <4> QED BY <4>5, <4>6
      <3> QED BY <3>2, <3>3
    <2>9. P(m)
      BY <2>5, <2>6, <2>8 DEF P
    <2> QED BY <2>2, <2>9
  <1>4. P(i) /\ i # 0
    BY <1>3
  <1> QED BY <1>4 DEF P, Sum, F, ContentChars

\* CharsAreCounted: what keep counts is the length of the text it stores, for
\* any sentences, in whatever order and over however many calls they came.
THEOREM CountIsLength == Spec => []CharsAreCounted
  <1>1. IInv => CharsAreCounted
    <2> SUFFICES ASSUME IInv, NEW d \in DOMAIN documents
                 PROVE  Total(counts[d]) = ContentChars(d, documents[d])
      BY DEF CharsAreCounted
    <2> DEFINE s == selected[d]
               c == counts[d]
    <2>1. /\ d \in Docs /\ s \in Seq(AllSentences) /\ c \in Seq(Nat)
          /\ s # <<>> /\ documents[d] = Range(s) /\ Counted(d, s, c)
      BY DEF IInv, TypeOK, ChoicesCounted, DocumentsAreChoices
    <2> HIDE DEF s, c
    <2>2. Len(s) \in 1..Len(s) /\ Len(c) = Len(s) /\ c # <<>>
      BY <2>1 DEF Counted
    <2>3. Total(c) = c[Len(s)] /\ FirstOnes(s, Len(s)) = documents[d]
      <3>1. Total(c) = c[Len(s)]
        BY <2>2 DEF Total
      <3>2. Range(s) = {s[i] : i \in 1..Len(s)}
        BY <2>1, ChoiceRange
      <3> QED BY <2>1, <3>1, <3>2 DEF FirstOnes
    <2> QED BY <2>1, <2>2, <2>3, CharsSoFar DEF c
  <1> QED BY <1>1, Invariance, PTL

\* BudgetIsUsed: what is kept fits, by the length of the text that is stored,
\* and what is left out would not have.
THEOREM BudgetIsUsedUp == Spec => []BudgetIsUsed
  BY CountIsLength, BudgetIsKept, ChoiceIsMaximal, PTL DEF BudgetIsUsed

-----------------------------------------------------------------------------
(* The plan.  What is accepted is counted (Refusal); that a query is one of *)
(* a candidate or of the topic, and its text its own, is kept as the queries*)
(* are read.                                                                *)

PlanTyped == Plan!TypeOK /\ (reading = "ask" => attempt < MaxAttempts)

\* What the queries read so far are for.
QueriesFit ==
  /\ IsFiniteSet(candidates) /\ IsFiniteSet(queries)
  /\ \A q \in queries : q.kind \in candidates \cup {Topic} /\ q.text \in texts
  /\ \A q, r \in queries : q.text = r.text => q = r

\* What tidying makes of the candidates.
CandidatesKept ==
  /\ listed \subseteq candidates
  /\ reading = "candidates" => candidates = listed
  /\ candidates # listed => Cardinality(candidates) <= CandidatesMax

Accepted == reading = "accepted" => Plan!Refusal = "none"

PlanIInv == PlanTyped /\ QueriesFit /\ CandidatesKept /\ Accepted

\* The plan's instance of FiniteSets counts as this module's does.
LEMMA PlanCounts == ASSUME NEW S PROVE Plan!Cardinality(S) = Cardinality(S)
  BY DEF Plan!Cardinality, Cardinality

LEMMA PlanInit == Plan!Init => PlanIInv
  BY ToolsAssumption, FS_EmptySet
  DEF Plan!Init, PlanIInv, PlanTyped, QueriesFit, CandidatesKept, Accepted, Plan!TypeOK,
      Plan!Reasons, Plan!PlanAssumption

\* The reply is dropped: another is asked for, or the plan is given up.
LEMMA PlanDropped ==
  ASSUME PlanIInv, Plan!Refuse \/ Plan!MalformedReply
  PROVE  PlanIInv'
  <1>1. /\ entries' = 0 /\ listed' = {} /\ candidates' = {} /\ texts' = {} /\ queries' = {}
        /\ attempt' = attempt /\ reading' = Plan!AfterRefusal /\ reason' \in Plan!Reasons
    BY DEF Plan!Refuse, Plan!MalformedReply, Plan!Blank, Plan!Refusal, Plan!Reasons
  <1>2. reading' \in {"ask", "failed"} /\ (reading' = "ask" => attempt < MaxAttempts)
    BY <1>1 DEF Plan!AfterRefusal
  <1>3. PlanTyped'
    BY <1>1, <1>2, ToolsAssumption DEF PlanIInv, PlanTyped, Plan!TypeOK, Plan!PlanAssumption
  <1> QED
    BY <1>1, <1>2, <1>3, FS_EmptySet DEF PlanIInv, QueriesFit, CandidatesKept, Accepted

\* Steps that read nothing.
LEMMA PlanMoved ==
  ASSUME PlanIInv, Plan!Ask \/ Plan!CallFails \/ Plan!CandidatesRead \/ Plan!Accept
                     \/ UNCHANGED planVars
  PROVE  PlanIInv'
  <1>1. CASE Plan!Ask
    <2>1. /\ entries' = 0 /\ listed' = {} /\ candidates' = {} /\ texts' = {} /\ queries' = {}
          /\ attempt' = attempt + 1 /\ reading' = "candidates" /\ reason' = reason
          /\ reading = "ask"
      BY <1>1 DEF Plan!Ask, Plan!Blank, Plan!Counted
    <2>2. PlanTyped'
      BY <2>1, ToolsAssumption DEF PlanIInv, PlanTyped, Plan!TypeOK, Plan!PlanAssumption
    <2> QED
      BY <2>1, <2>2, FS_EmptySet DEF PlanIInv, QueriesFit, CandidatesKept, Accepted
  <1>2. CASE Plan!CallFails \/ Plan!CandidatesRead
    BY <1>2, ToolsAssumption
    DEF Plan!CallFails, Plan!CandidatesRead, Plan!plan, PlanIInv, PlanTyped, Plan!TypeOK,
        QueriesFit, CandidatesKept, Accepted, Plan!PlanAssumption
  <1>3. CASE Plan!Accept \/ UNCHANGED planVars
    <2>1. UNCHANGED <<attempt, Plan!plan, reason>> /\ (reading' = reading \/ Plan!Accept)
      BY <1>3 DEF Plan!Accept, planVars, Plan!plan
    <2>2. Plan!Refusal' = Plan!Refusal
      BY <2>1 DEF Plan!Refusal, Plan!QueriesOf, Plan!OneEach, Plan!plan
    <2> QED BY <2>1, <2>2 DEF Plan!Accept, Plan!plan, PlanIInv, PlanTyped, Plan!TypeOK,
                              QueriesFit, CandidatesKept, Accepted, Plan!Queries
  <1> QED BY <1>1, <1>2, <1>3

LEMMA PlanCandidate ==
  ASSUME PlanIInv, NEW k \in Kinds, Plan!ReadCandidate(k)
  PROVE  PlanIInv'
  <1>1. IsFiniteSet(candidates')
    BY FS_AddElement DEF PlanIInv, QueriesFit, Plan!ReadCandidate
  <1>2. PlanTyped'
    BY ToolsAssumption DEF PlanIInv, PlanTyped, Plan!TypeOK, Plan!ReadCandidate, Plan!PlanAssumption
  <1> QED
    BY <1>1, <1>2 DEF PlanIInv, QueriesFit, CandidatesKept, Accepted, Plan!ReadCandidate

LEMMA PlanQuery ==
  ASSUME PlanIInv, NEW q \in Plan!Queries,
         Plan!DropRepeated(q) \/ Plan!DropUnknown(q) \/ Plan!AddUnknown(q) \/ Plan!TakeQuery(q)
  PROVE  PlanIInv'
  <1>1. /\ reading = "queries" /\ reading' = "queries" /\ entries' \in 0..MaxEntries
        /\ UNCHANGED <<attempt, listed, reason>>
        /\ q.text \in Texts /\ q.kind \in Kinds \cup {Topic}
    BY ToolsAssumption DEF Plan!DropRepeated, Plan!DropUnknown, Plan!AddUnknown, Plan!TakeQuery,
       Plan!Reading, Plan!PlanAssumption, PlanIInv, PlanTyped, Plan!TypeOK, Plan!Queries
  <1>2. CASE Plan!DropRepeated(q) \/ Plan!DropUnknown(q)
    BY <1>1, <1>2 DEF Plan!DropRepeated, Plan!DropUnknown, PlanIInv, PlanTyped, Plan!TypeOK,
       QueriesFit, CandidatesKept, Accepted
  <1>3. CASE Plan!AddUnknown(q) \/ Plan!TakeQuery(q)
    <2>1. /\ texts' = texts \cup {q.text} /\ queries' = queries \cup {q}
          /\ q.text \notin texts /\ q.kind \in candidates' \cup {Topic}
          /\ candidates \subseteq candidates'
      BY <1>3 DEF Plan!AddUnknown, Plan!TakeQuery, Plan!Repeated, Plan!Unknown, Plan!Added
    <2>2. /\ candidates' \subseteq Kinds /\ IsFiniteSet(candidates')
          /\ candidates' # candidates => Cardinality(candidates') <= CandidatesMax
      <3>1. CASE Plan!AddUnknown(q)
        <4>1. /\ candidates' = candidates \cup {q.kind} /\ q.kind \notin candidates
              /\ q.kind # Topic /\ ~(Cardinality(candidates) >= CandidatesMax)
          BY <3>1, PlanCounts DEF Plan!AddUnknown, Plan!Added, Plan!Unknown, Plan!Full
        <4>2. /\ IsFiniteSet(candidates') /\ Cardinality(candidates') = Cardinality(candidates) + 1
              /\ Cardinality(candidates) \in Nat
          BY <4>1, FS_AddElement, FS_CardinalityType DEF PlanIInv, QueriesFit
        <4>3. CandidatesMax \in Nat
          BY ToolsAssumption DEF Plan!PlanAssumption
        <4> QED BY <1>1, <4>1, <4>2, <4>3 DEF PlanIInv, PlanTyped, Plan!TypeOK
      <3>2. CASE Plan!TakeQuery(q)
        BY <3>2 DEF Plan!TakeQuery, PlanIInv, PlanTyped, Plan!TypeOK, QueriesFit
      <3> QED BY <3>1, <3>2, <1>3
    <2>3. PlanTyped'
      BY <1>1, <2>1, <2>2 DEF PlanIInv, PlanTyped, Plan!TypeOK
    <2>4. QueriesFit'
      <3>1. IsFiniteSet(queries')
        BY <2>1, FS_AddElement DEF PlanIInv, QueriesFit
      <3>2. \A r \in queries : r.text # q.text
        BY <2>1 DEF PlanIInv, QueriesFit
      <3> QED BY <2>1, <2>2, <3>1, <3>2 DEF PlanIInv, QueriesFit
    <2>5. CandidatesKept' /\ Accepted'
      <3>1. candidates' = candidates => UNCHANGED <<candidates, listed>>
        BY <1>1
      <3> QED BY <1>1, <2>1, <2>2, <3>1 DEF PlanIInv, CandidatesKept, Accepted
    <2> QED BY <2>3, <2>4, <2>5 DEF PlanIInv
  <1> QED BY <1>2, <1>3

LEMMA PlanInductive == PlanIInv /\ [Plan!Next]_planVars => PlanIInv'
  <1> SUFFICES ASSUME PlanIInv, [Plan!Next]_planVars PROVE PlanIInv'
    OBVIOUS
  <1>1. CASE Plan!Terminated
    BY <1>1, PlanMoved DEF Plan!Terminated, Plan!vars, Plan!plan, planVars
  <1> QED BY <1>1, PlanDropped, PlanMoved, PlanCandidate, PlanQuery DEF Plan!Next

\* What the counts of Refusal come to, given how the queries were read.
LEMMA CountedPlan ==
  ASSUME PlanIInv, reading = "accepted"
  PROVE  /\ {q.kind : q \in queries} = candidates \cup {Topic}
         /\ Cardinality(queries) = Cardinality(candidates) + 1
         /\ \A q, r \in queries : q.text = r.text \/ q.kind = r.kind => q = r
  <1> DEFINE K == candidates \cup {Topic}
  <1>1. /\ Cardinality(Plan!QueriesOf(Topic)) = 1
        /\ \A k \in candidates : Cardinality(Plan!QueriesOf(k)) = 1
    BY PlanCounts DEF PlanIInv, Accepted, Plan!Refusal, Plan!OneEach
  <1>2. \A k \in K : IsFiniteSet(Plan!QueriesOf(k))
    BY FS_Subset DEF PlanIInv, QueriesFit, Plan!QueriesOf
  <1>3. \A k \in K : \E q : Plan!QueriesOf(k) = {q}
    BY <1>1, <1>2, FS_Singleton
  <1>4. \A k \in K : \E q \in queries : q.kind = k
    BY <1>3 DEF Plan!QueriesOf
  <1>5. \A q, r \in queries : q.kind = r.kind => q = r
    <2> SUFFICES ASSUME NEW q \in queries, NEW r \in queries, q.kind = r.kind PROVE q = r
      OBVIOUS
    <2>1. q.kind \in K
      BY DEF PlanIInv, QueriesFit
    <2>2. PICK p : Plan!QueriesOf(q.kind) = {p}
      BY <1>3, <2>1
    <2> QED BY <2>2 DEF Plan!QueriesOf
  <1>6. \A q \in queries : q.kind \in K
    BY DEF PlanIInv, QueriesFit
  <1>7. Cardinality(queries) = Cardinality(K)
    <2> DEFINE f == [q \in queries |-> q.kind]
    <2>1. f \in [queries -> K]
      BY <1>6
    <2>2. f \in Bijection(queries, K)
      BY <2>1, <1>4, <1>5, Fun_IsBij
    <2>3. ExistsBijection(queries, K)
      BY <2>2 DEF ExistsBijection
    <2> QED BY <2>3, FS_Bijection DEF PlanIInv, QueriesFit
  <1>8. Cardinality(K) = Cardinality(candidates) + 1
    <2>1. Topic \notin candidates
      BY ToolsAssumption DEF Plan!PlanAssumption, PlanIInv, PlanTyped, Plan!TypeOK
    <2> QED BY <2>1, FS_AddElement DEF PlanIInv, QueriesFit
  <1> QED BY <1>4, <1>5, <1>6, <1>7, <1>8 DEF PlanIInv, QueriesFit

\* The plan of ResearchPlan, and what is said of it, at every step.
LEMMA PlanSound == PlanIInv => PlanIsSound
  <1> SUFFICES ASSUME PlanIInv PROVE PlanIsSound
    OBVIOUS
  <1>1. Plan!TypeOK
    BY DEF PlanIInv, PlanTyped
  <1>2. Plan!PlanIsSound
    BY CountedPlan, PlanCounts DEF PlanIInv, CandidatesKept, Plan!PlanIsSound
  <1> QED BY <1>1, <1>2 DEF PlanIsSound

-----------------------------------------------------------------------------
(* The search tool.  What is collected is new because whoever looks holds   *)
(* the lock and takes what it has looked at before it lets go (Looking).    *)

\* The call that looks or takes holds the lock, and only that call.
Holding == \A c \in Calls : searching[c] \in {"look", "take"} <=> lock = c

\* What is about to be taken is new.
Looking ==
  \A c \in Calls : searching[c] = "take" =>
    response[c] # <<>> /\ Head(response[c]) \in Urls \ seen

Room ==
  \A c \in Calls :
    /\ Len(results[c]) <= ResultsPerQuery
    /\ searching[c] \in {"request", "wait", "look", "take"} => Len(results[c]) < ResultsPerQuery
    /\ searching[c] = "returned" /\ Len(results[c]) < ResultsPerQuery => response[c] = <<>>

CollectedOnce ==
  \A c, d \in Calls : \A i \in 1..Len(results[c]), j \in 1..Len(results[d]) :
    results[c][i] = results[d][j] => c = d /\ i = j

SeenIsCollected ==
  \A u : u \in seen <=> \E c \in Calls : \E i \in 1..Len(results[c]) : results[c][i] = u

SearchIInv == /\ Searches!TypeOK /\ Holding /\ Looking /\ Room /\ CollectedOnce /\ SeenIsCollected

LEMMA SearchInit == Searches!Init => SearchIInv
  BY ToolsAssumption
  DEF Searches!Init, Searches!SearchAssumption, SearchIInv, Searches!TypeOK, Holding, Looking,
      Room, CollectedOnce, SeenIsCollected

\* A response of the service is a sequence of items, within the bound.
LEMMA ResponseFacts ==
  ASSUME NEW r \in Searches!BoundedSeq(Searches!Items, MaxItems)
  PROVE  r \in Seq(Searches!Items) /\ Len(r) <= MaxItems
  <1>1. PICK m \in 0..MaxItems : r \in [1..m -> Searches!Items]
    BY DEF Searches!BoundedSeq, Searches!SeqOf
  <1> QED BY <1>1, ToolsAssumption DEF Searches!SearchAssumption

\* A call that waits, moves on or ends, and collects nothing.
LEMMA SearchMoves ==
  ASSUME SearchIInv, NEW c \in Calls,
         \/ \E r \in Searches!BoundedSeq(Searches!Items, MaxItems) : Searches!Respond(c, r)
         \/ Searches!RequestFails(c) \/ Searches!Acquire(c) \/ Searches!Look(c)
         \/ Searches!ItemMalformed(c) \/ Searches!Return(c)
  PROVE  SearchIInv'
  <1>1. UNCHANGED <<results, seen>>
    BY DEF Searches!Respond, Searches!RequestFails, Searches!Acquire, Searches!Look,
       Searches!ItemMalformed, Searches!Return
  <1>2. CollectedOnce' /\ SeenIsCollected'
    BY <1>1 DEF SearchIInv, CollectedOnce, SeenIsCollected
  <1>3. /\ response' \in [Calls -> Seq(Searches!Items)]
        /\ \A d \in Calls : Len(response'[d]) <= MaxItems
        /\ \A d \in Calls : d # c \/ searching[c] # "request" => response'[d] = response[d]
    <2>1. CASE \E r \in Searches!BoundedSeq(Searches!Items, MaxItems) : Searches!Respond(c, r)
      BY <2>1, ResponseFacts DEF Searches!Respond, Searches!Move, SearchIInv, Searches!TypeOK
    <2>2. CASE response' = response
      BY <2>2 DEF SearchIInv, Searches!TypeOK
    <2> QED BY <2>1, <2>2 DEF Searches!RequestFails, Searches!Acquire, Searches!Look,
               Searches!ItemMalformed, Searches!Return
  <1>4. \E to : /\ searching' = [searching EXCEPT ![c] = to]
               /\ \/ searching[c] = "request" /\ to \in {"wait", "failed"} /\ lock' = lock
                  \/ searching[c] = "wait" /\ to = "look" /\ lock = Free /\ lock' = c
                  \/ /\ searching[c] = "look" /\ to = "take" /\ lock' = lock
                     /\ response[c] # <<>> /\ Head(response[c]) \in Urls \ seen
                  \/ searching[c] = "look" /\ to = "failed" /\ lock' = Free
                  \/ searching[c] = "look" /\ to = "returned" /\ lock' = Free /\ response[c] = <<>>
    BY DEF Searches!Respond, Searches!RequestFails, Searches!Acquire, Searches!Look,
       Searches!ItemMalformed, Searches!Return, Searches!Move, Searches!Acquirable,
       Searches!Release, Searches!AfterMalformed, Searches!New, Searches!Item
  <1>5. Searches!TypeOK'
    BY <1>1, <1>3, <1>4 DEF SearchIInv, Searches!TypeOK
  <1>6. searching \in [Calls -> {"request", "wait", "look", "take", "returned", "failed"}]
    BY DEF SearchIInv, Searches!TypeOK
  <1>7. Free \notin Calls
    BY ToolsAssumption DEF Searches!SearchAssumption
  <1>8. Holding'
    BY <1>4, <1>6, <1>7 DEF SearchIInv, Holding
  <1>9. Looking'
    BY <1>1, <1>3, <1>4, <1>6 DEF SearchIInv, Looking
  <1>10. Room'
    BY <1>1, <1>3, <1>4, <1>6 DEF SearchIInv, Room
  <1> QED BY <1>2, <1>5, <1>8, <1>9, <1>10 DEF SearchIInv

LEMMA SearchSkips ==
  ASSUME SearchIInv, NEW c \in Calls, Searches!SkipSeen(c)
  PROVE  SearchIInv'
  <1>1. /\ searching' = searching /\ UNCHANGED <<results, lock, seen>>
        /\ searching[c] = "look" /\ response[c] # <<>>
        /\ response' = [response EXCEPT ![c] = Tail(response[c])]
    BY DEF Searches!SkipSeen, Searches!Move, Searches!Advance, SearchIInv, Searches!TypeOK
  <1>2. /\ response[c] \in Seq(Searches!Items) /\ Len(response[c]) <= MaxItems
        /\ response \in [Calls -> Seq(Searches!Items)] /\ MaxItems \in Nat
    BY ToolsAssumption DEF SearchIInv, Searches!TypeOK, Searches!SearchAssumption
  <1>3. Tail(response[c]) \in Seq(Searches!Items) /\ Len(Tail(response[c])) <= MaxItems
    BY <1>1, <1>2, HeadTailProperties, LenProperties
  <1>4. Searches!TypeOK'
    BY <1>1, <1>2, <1>3 DEF SearchIInv, Searches!TypeOK
  <1>5. Holding' /\ CollectedOnce' /\ SeenIsCollected'
    BY <1>1 DEF SearchIInv, Holding, CollectedOnce, SeenIsCollected
  <1>6. Looking' /\ Room'
    BY <1>1, <1>2 DEF SearchIInv, Looking, Room
  <1> QED BY <1>4, <1>5, <1>6 DEF SearchIInv

\* An item is taken and marked in one step: it is in no results before.
LEMMA SearchTakes ==
  ASSUME SearchIInv, NEW c \in Calls, Searches!Take(c)
  PROVE  SearchIInv'
  <1> DEFINE u == Head(response[c])
             n == Len(results[c])
  <1>1. /\ searching[c] = "take" /\ response[c] # <<>> /\ u \in Urls /\ u \notin seen
        /\ lock = c /\ n < ResultsPerQuery
    BY DEF SearchIInv, Holding, Looking, Room, Searches!Take
  <1>2. /\ results' = [results EXCEPT ![c] = Append(results[c], u)]
        /\ seen' = seen \cup {u}
        /\ response' = [response EXCEPT ![c] = Tail(response[c])]
        /\ \/ n + 1 = ResultsPerQuery /\ searching' = [searching EXCEPT ![c] = "returned"] /\ lock' = Free
           \/ n + 1 # ResultsPerQuery /\ searching' = [searching EXCEPT ![c] = "look"] /\ lock' = lock
    BY DEF SearchIInv, Searches!TypeOK, Searches!Take, Searches!Item, Searches!Marked, Searches!Full,
       Searches!Release, Searches!Advance
  <1>3. /\ response \in [Calls -> Seq(Searches!Items)] /\ Len(response[c]) <= MaxItems
        /\ results \in [Calls -> Seq(Urls)] /\ results[c] \in Seq(Urls) /\ n \in Nat
        /\ searching \in [Calls -> {"request", "wait", "look", "take", "returned", "failed"}]
        /\ MaxItems \in Nat /\ ResultsPerQuery \in Nat /\ Free \notin Calls
    BY ToolsAssumption DEF SearchIInv, Searches!TypeOK, Searches!SearchAssumption
  <1>4. Tail(response[c]) \in Seq(Searches!Items) /\ Len(Tail(response[c])) <= MaxItems
    BY <1>1, <1>3, HeadTailProperties, LenProperties
  <1>5. /\ results'[c] \in Seq(Urls) /\ Len(results'[c]) = n + 1
        /\ \A i \in 1..n : results'[c][i] = results[c][i]
        /\ results'[c][n + 1] = u
        /\ \A d \in Calls : d # c => results'[d] = results[d]
    BY <1>1, <1>2, <1>3, AppendFacts
  <1> HIDE DEF u, n
  <1>6. Searches!TypeOK'
    BY <1>1, <1>2, <1>3, <1>4, <1>5 DEF SearchIInv, Searches!TypeOK
  <1>7. Holding' /\ Looking' /\ Room'
    <2>1. Holding'
      BY <1>1, <1>2, <1>3 DEF SearchIInv, Holding
    <2>2. Looking'
      BY <1>1, <1>2, <1>3 DEF SearchIInv, Holding, Looking
    <2>3. ASSUME NEW d \in Calls, d # c
          PROVE  UNCHANGED <<searching[d], results[d], response[d]>>
      BY <2>3, <1>2, <1>3, <1>5
    <2>4. Room'
      BY <1>1, <1>2, <1>3, <1>5, <2>3 DEF SearchIInv, Room
    <2> QED BY <2>1, <2>2, <2>4
  <1>8. \A d \in Calls : \A i \in 1..Len(results[d]) : results[d][i] # u
    BY <1>1 DEF SearchIInv, SeenIsCollected
  <1>9. ASSUME NEW d \in Calls, NEW i \in 1..Len(results'[d])
         PROVE  \/ d = c /\ i = n + 1 /\ results'[d][i] = u
                \/ i \in 1..Len(results[d]) /\ results'[d][i] = results[d][i]
    <2>1. CASE d # c
      BY <2>1, <1>5
    <2>2. CASE d = c
      BY <2>2, <1>3, <1>5 DEF n
    <2> QED BY <2>1, <2>2
  <1>10. CollectedOnce'
    <2> SUFFICES ASSUME NEW d \in Calls, NEW e \in Calls,
                        NEW i \in 1..Len(results'[d]), NEW j \in 1..Len(results'[e]),
                        results'[d][i] = results'[e][j]
                 PROVE  d = e /\ i = j
      BY DEF CollectedOnce
    <2>1. \/ d = c /\ i = n + 1 /\ results'[d][i] = u
          \/ i \in 1..Len(results[d]) /\ results'[d][i] = results[d][i]
      BY <1>9
    <2>2. \/ e = c /\ j = n + 1 /\ results'[e][j] = u
          \/ j \in 1..Len(results[e]) /\ results'[e][j] = results[e][j]
      BY <1>9
    <2> QED BY <2>1, <2>2, <1>8 DEF SearchIInv, CollectedOnce
  <1>11. SeenIsCollected'
    <2> SUFFICES ASSUME NEW v
                 PROVE  v \in seen' <=>
                          \E d \in Calls : \E i \in 1..Len(results'[d]) : results'[d][i] = v
      BY DEF SeenIsCollected
    <2>1. ASSUME v \in seen'
          PROVE  \E d \in Calls : \E i \in 1..Len(results'[d]) : results'[d][i] = v
      <3>1. CASE v = u
        BY <3>1, <1>3, <1>5
      <3>2. CASE v \in seen
        <4>1. PICK d \in Calls : \E i \in 1..Len(results[d]) : results[d][i] = v
          BY <3>2 DEF SearchIInv, SeenIsCollected
        <4>2. \E i \in 1..Len(results'[d]) : results'[d][i] = v
          BY <4>1, <1>3, <1>5 DEF n
        <4> QED BY <4>2
      <3> QED BY <2>1, <3>1, <3>2, <1>2
    <2>2. ASSUME NEW d \in Calls, NEW i \in 1..Len(results'[d]), results'[d][i] = v
          PROVE  v \in seen'
      <3>1. \/ d = c /\ i = n + 1 /\ results'[d][i] = u
            \/ i \in 1..Len(results[d]) /\ results'[d][i] = results[d][i]
        BY <1>9
      <3> QED BY <3>1, <2>2, <1>2 DEF SearchIInv, SeenIsCollected
    <2> QED BY <2>1, <2>2
  <1> QED BY <1>6, <1>7, <1>10, <1>11 DEF SearchIInv

LEMMA SearchInductive == SearchIInv /\ [Searches!Next]_searchVars => SearchIInv'
  <1> SUFFICES ASSUME SearchIInv, [Searches!Next]_searchVars PROVE SearchIInv'
    OBVIOUS
  <1>1. CASE \E c \in Calls : Searches!Step(c)
    BY <1>1, SearchMoves, SearchSkips, SearchTakes DEF Searches!Step
  <1>2. CASE Searches!Terminated \/ UNCHANGED searchVars
    BY <1>2 DEF Searches!Terminated, Searches!vars, searchVars, SearchIInv, Searches!TypeOK,
       Holding, Looking, Room, CollectedOnce, SeenIsCollected
  <1> QED BY <1>1, <1>2 DEF Searches!Next

LEMMA SearchSound == SearchIInv => OfferedOnce
  <1> SUFFICES ASSUME SearchIInv PROVE OfferedOnce
    OBVIOUS
  <1>1. \A c \in Calls : Searches!Collected(c) = {results[c][i] : i \in 1..Len(results[c])}
    <2> SUFFICES ASSUME NEW c \in Calls
                 PROVE  Searches!Collected(c) = {results[c][i] : i \in 1..Len(results[c])}
      OBVIOUS
    <2>1. DOMAIN results[c] = 1..Len(results[c])
      BY DEF SearchIInv, Searches!TypeOK
    <2> QED BY <2>1 DEF Searches!Collected, Searches!ToSet
  <1>2. Searches!ReturnedOnce
    <2>1. ASSUME NEW c \in Calls PROVE Searches!IsInjective(results[c])
      <3>1. DOMAIN results[c] = 1..Len(results[c])
        BY DEF SearchIInv, Searches!TypeOK
      <3> QED BY <3>1 DEF SearchIInv, CollectedOnce, Searches!IsInjective
    <2>2. ASSUME NEW c \in Calls, NEW d \in Calls, c # d
          PROVE  Searches!Collected(c) \cap Searches!Collected(d) = {}
      BY <1>1, <2>2 DEF SearchIInv, CollectedOnce
    <2> QED BY <2>1, <2>2 DEF Searches!ReturnedOnce
  <1>3. Searches!ReturnsWhatItCan
    BY DEF SearchIInv, Room, Searches!ReturnsWhatItCan
  <1>4. Searches!SeenWereCollected
    <2>1. ASSUME NEW u \in seen PROVE u \in UNION {Searches!Collected(c) : c \in Calls}
      <3>1. PICK c \in Calls : \E i \in 1..Len(results[c]) : results[c][i] = u
        BY DEF SearchIInv, SeenIsCollected
      <3> QED BY <3>1, <1>1
    <2>2. ASSUME NEW u \in UNION {Searches!Collected(c) : c \in Calls} PROVE u \in seen
      BY <1>1 DEF SearchIInv, SeenIsCollected
    <2> QED BY <2>1, <2>2 DEF Searches!SeenWereCollected
  <1> QED BY <1>2, <1>3, <1>4 DEF OfferedOnce, SearchIInv

\* A call is answered with the set of its results: no more URLs than results.
LEMMA ResultFacts ==
  ASSUME NEW s \in Seq(Urls)
  PROVE  /\ Searches!ToSet(s) = {s[i] : i \in 1..Len(s)}
         /\ Searches!ToSet(s) \subseteq Urls
         /\ Cardinality(Searches!ToSet(s)) \in Nat /\ Len(s) \in Nat
         /\ Cardinality(Searches!ToSet(s)) <= Len(s)
  <1> DEFINE S == {s[i] : i \in 1..Len(s)}
  <1>1. Len(s) \in Nat /\ DOMAIN s = 1..Len(s) /\ \A i \in 1..Len(s) : s[i] \in Urls
    BY LenProperties, ElementOfSeq
  <1>2. Searches!ToSet(s) = S
    BY <1>1 DEF Searches!ToSet
  <1>3. s \in Surjection(1..Len(s), S)
    BY <1>1 DEF Surjection
  <1>4. IsFiniteSet(1..Len(s)) /\ Cardinality(1..Len(s)) = Len(s)
    <2>1. IsFiniteSet(1..Len(s)) /\ Cardinality(1..Len(s)) = IF 1 > Len(s) THEN 0 ELSE Len(s) - 1 + 1
      BY <1>1, FS_Interval
    <2> QED BY <1>1, <2>1
  <1>5. IsFiniteSet(S) /\ Cardinality(S) <= Len(s)
    BY <1>3, <1>4, FS_Surjection
  <1>6. S \subseteq Urls
    BY <1>1
  <1> HIDE DEF S
  <1>7. Cardinality(S) \in Nat
    BY <1>5, FS_CardinalityType
  <1> QED BY <1>1, <1>2, <1>5, <1>6, <1>7 DEF S

\* SearchPromise counts with an operator of its own.
LEMMA SameCount == ASSUME NEW S PROVE Searches!Promise!Cardinality(S) = Cardinality(S)
  BY DEF Searches!Promise!Cardinality, Cardinality

\* When a call is answered, all it has collected is new to those answered before.
LEMMA AnsweredAtOnce ==
  ASSUME SearchIInv, SearchIInv', NEW c \in Calls, NEW e \in {"returned", "failed"},
         Searches!Answer(c) = "asked", searching' = [searching EXCEPT ![c] = e],
         \A d \in Calls : d # c => results'[d] = results[d],
         e = "failed" => Len(results'[c]) < ResultsPerQuery
  PROVE  Searches!Promise!Next
  <1> DEFINE answers == [d \in Calls |-> Searches!Answer(d)]
             offers == [d \in Calls |->
                           IF Searches!Answer(d) = "returned" THEN Searches!Collected(d) ELSE {}]
             gone == UNION {Searches!Collected(d) :
                              d \in {d \in Calls : Searches!Answer(d) # "asked"}}
             fresh == Searches!ToSet(results'[c])
  <1>1. /\ searching \in [Calls -> {"request", "wait", "look", "take", "returned", "failed"}]
        /\ results \in [Calls -> Seq(Urls)] /\ results' \in [Calls -> Seq(Urls)]
        /\ ResultsPerQuery \in Nat
    BY ToolsAssumption DEF SearchIInv, Searches!TypeOK, Searches!SearchAssumption
  <1>2. /\ Searches!Answer(c)' = e /\ Searches!Collected(c)' = fresh
        /\ \A d \in Calls : d # c => /\ Searches!Answer(d)' = Searches!Answer(d)
                                     /\ Searches!Collected(d)' = Searches!Collected(d)
    BY <1>1 DEF Searches!Answer, Searches!Collected
  <1>3. /\ fresh \subseteq Urls /\ Cardinality(fresh) \in Nat
        /\ Cardinality(fresh) <= Len(results'[c]) /\ Len(results'[c]) \in Nat
    BY <1>1, ResultFacts
  <1>4. fresh \cap gone = {}
    <2> SUFFICES ASSUME NEW d \in Calls, Searches!Answer(d) # "asked",
                        NEW u \in fresh, u \in Searches!Collected(d)
                 PROVE  FALSE
      OBVIOUS
    <2>1. d # c /\ results'[d] = results[d]
      OBVIOUS
    <2>2. PICK i \in 1..Len(results'[c]) : u = results'[c][i]
      BY <1>1, ResultFacts
    <2>3. PICK j \in 1..Len(results'[d]) : u = results'[d][j]
      <3>1. results'[d] \in Seq(Urls) /\ u \in Searches!ToSet(results'[d])
        BY <1>1, <2>1 DEF Searches!Collected
      <3> QED BY <3>1, ResultFacts
    <2>4. results'[c][i] = results'[d][j] => c = d
      BY DEF SearchIInv, CollectedOnce
    <2> QED BY <2>1, <2>2, <2>3, <2>4
  <1>5. Len(results'[c]) <= ResultsPerQuery
    BY DEF SearchIInv, Room
  <1>6. answers' = [answers EXCEPT ![c] = e]
    BY <1>2
  <1>7. gone' = gone \cup fresh
    BY <1>2
  <1>8. offers' = [offers EXCEPT ![c] = IF e = "returned" THEN fresh ELSE {}]
    BY <1>2
  <1>9. answers[c] = "asked" /\ offers[c] = {}
    OBVIOUS
  <1> HIDE DEF fresh
  <1>10. fresh \in SUBSET (Urls \ gone)
    BY <1>3, <1>4
  <1> HIDE DEF answers, offers, gone
  <1>11. CASE e = "returned"
    <2>1. Cardinality(fresh) <= ResultsPerQuery
      BY <1>1, <1>3, <1>5
    <2>2. answers' = [answers EXCEPT ![c] = "returned"] /\ offers' = [offers EXCEPT ![c] = fresh]
      BY <1>6, <1>8, <1>11
    <2>3. Searches!Promise!Returns(c) <=>
            /\ answers[c] = "asked"
            /\ \E new \in SUBSET (Urls \ gone) :
                 /\ Cardinality(new) <= ResultsPerQuery
                 /\ offers' = [offers EXCEPT ![c] = new]
                 /\ gone' = gone \cup new
            /\ answers' = [answers EXCEPT ![c] = "returned"]
      BY SameCount DEF Searches!Promise!Returns, Searches!Promise!Unused, answers, offers, gone
    <2>4. Searches!Promise!Returns(c)
      BY <1>7, <1>9, <1>10, <2>1, <2>2, <2>3
    <2> QED BY <2>4 DEF Searches!Promise!Next
  <1>12. CASE e = "failed"
    <2>1. Cardinality(fresh) < ResultsPerQuery
      BY <1>1, <1>3, <1>12
    <2>2. answers' = [answers EXCEPT ![c] = "failed"] /\ offers' = offers
      <3>1. offers' = [offers EXCEPT ![c] = {}]
        BY <1>8, <1>12
      <3>2. offers = [offers EXCEPT ![c] = {}]
        BY <1>9 DEF offers
      <3> QED BY <1>6, <1>12, <3>1, <3>2
    <2>3. Searches!Promise!Fails(c) <=>
            /\ answers[c] = "asked"
            /\ \E burnt \in SUBSET (Urls \ gone) :
                 /\ Cardinality(burnt) < ResultsPerQuery
                 /\ gone' = gone \cup burnt
            /\ answers' = [answers EXCEPT ![c] = "failed"]
            /\ UNCHANGED offers
      BY SameCount DEF Searches!Promise!Fails, Searches!Promise!Unused, answers, offers, gone
    <2>4. Searches!Promise!Fails(c)
      BY <1>7, <1>9, <1>10, <2>1, <2>2, <2>3
    <2> QED BY <2>4 DEF Searches!Promise!Next
  <1> QED BY <1>11, <1>12

\* Until then nothing is to be seen of it.
LEMMA UnseenUntilAnswered ==
  ASSUME \A d \in Calls :
           /\ Searches!Answer(d)' = Searches!Answer(d)
           /\ Searches!Answer(d) # "asked" => results'[d] = results[d]
  PROVE  UNCHANGED Searches!Promise!vars
  <1>1. \A d \in Calls : Searches!Answer(d) # "asked" =>
                           Searches!Collected(d)' = Searches!Collected(d)
    BY DEF Searches!Collected
  <1> QED BY <1>1 DEF Searches!Promise!vars

\* Every step of a search is one of SearchPromise, or nothing to its callers.
LEMMA SearchIsPromised ==
  SearchIInv /\ SearchIInv' /\ [Searches!Next]_searchVars
    => [Searches!Promise!Next]_(Searches!Promise!vars)
  <1> SUFFICES ASSUME SearchIInv, SearchIInv', [Searches!Next]_searchVars
               PROVE  [Searches!Promise!Next]_(Searches!Promise!vars)
    OBVIOUS
  <1>1. /\ searching \in [Calls -> {"request", "wait", "look", "take", "returned", "failed"}]
        /\ results \in [Calls -> Seq(Urls)]
    BY DEF SearchIInv, Searches!TypeOK
  <1>2. ASSUME NEW c \in Calls, results' = results,
               \/ \E r \in Searches!BoundedSeq(Searches!Items, MaxItems) : Searches!Respond(c, r)
               \/ Searches!Acquire(c) \/ Searches!SkipSeen(c) \/ Searches!Look(c)
        PROVE  UNCHANGED Searches!Promise!vars
    <2>1. /\ searching[c] \notin {"returned", "failed"}
          /\ \E e \in {"wait", "look", "take"} : searching' = [searching EXCEPT ![c] = e]
      BY <1>2 DEF Searches!Respond, Searches!Acquire, Searches!SkipSeen, Searches!Look, Searches!Move
    <2>2. \A d \in Calls : Searches!Answer(d)' = Searches!Answer(d)
      BY <1>1, <2>1 DEF Searches!Answer
    <2> QED BY <1>2, <2>2, UnseenUntilAnswered
  <1>3. ASSUME NEW c \in Calls, NEW e \in {"returned", "failed"}, results' = results,
               searching[c] \in {"request", "look"}, searching' = [searching EXCEPT ![c] = e]
        PROVE  Searches!Promise!Next
    <2>1. Searches!Answer(c) = "asked"
      BY <1>3 DEF Searches!Answer
    <2>2. Len(results'[c]) < ResultsPerQuery
      BY <1>3 DEF SearchIInv, Room
    <2> QED BY <1>3, <2>1, <2>2, AnsweredAtOnce
  <1>4. ASSUME NEW c \in Calls, Searches!RequestFails(c) \/ Searches!ItemMalformed(c) \/ Searches!Return(c)
        PROVE  Searches!Promise!Next
    <2>1. /\ results' = results /\ searching[c] \in {"request", "look"}
          /\ \E e \in {"returned", "failed"} : searching' = [searching EXCEPT ![c] = e]
      BY <1>4 DEF Searches!RequestFails, Searches!ItemMalformed, Searches!Return, Searches!Move,
                  Searches!AfterMalformed
    <2> QED BY <1>3, <2>1
  <1>5. ASSUME NEW c \in Calls, Searches!Take(c)
        PROVE  [Searches!Promise!Next]_(Searches!Promise!vars)
    <2>1. Searches!Answer(c) = "asked"
      BY <1>5 DEF Searches!Take, Searches!Answer
    <2>2. \A d \in Calls : d # c => results'[d] = results[d]
      BY <1>1, <1>5 DEF Searches!Take
    <2>3. CASE Searches!Full(c)
      <3>1. searching' = [searching EXCEPT ![c] = "returned"]
        BY <1>5, <2>3 DEF Searches!Take
      <3> QED BY <2>1, <2>2, <3>1, AnsweredAtOnce
    <2>4. CASE ~Searches!Full(c)
      <3>1. searching' = [searching EXCEPT ![c] = "look"]
        BY <1>5, <2>4 DEF Searches!Take
      <3>2. \A d \in Calls : Searches!Answer(d)' = Searches!Answer(d)
        BY <1>1, <1>5, <3>1 DEF Searches!Answer, Searches!Take
      <3>3. UNCHANGED Searches!Promise!vars
        BY <2>1, <2>2, <3>2, UnseenUntilAnswered
      <3> QED BY <3>3
    <2> QED BY <2>3, <2>4
  <1>6. ASSUME NEW c \in Calls, Searches!Step(c)
        PROVE  [Searches!Promise!Next]_(Searches!Promise!vars)
    <2>1. CASE Searches!RequestFails(c) \/ Searches!ItemMalformed(c) \/ Searches!Return(c)
      BY <1>4, <2>1
    <2>2. CASE Searches!Take(c)
      BY <1>5, <2>2
    <2>3. CASE \/ \E r \in Searches!BoundedSeq(Searches!Items, MaxItems) : Searches!Respond(c, r)
               \/ Searches!Acquire(c) \/ Searches!SkipSeen(c) \/ Searches!Look(c)
      <3>1. results' = results
        BY <2>3 DEF Searches!Respond, Searches!Acquire, Searches!SkipSeen, Searches!Look
      <3> QED BY <1>2, <2>3, <3>1
    <2> QED BY <1>6, <2>1, <2>2, <2>3 DEF Searches!Step
  <1>7. CASE Searches!Terminated \/ UNCHANGED searchVars
    <2>1. searching' = searching /\ results' = results
      BY <1>7 DEF Searches!Terminated, Searches!vars, searchVars
    <2>2. \A d \in Calls : Searches!Answer(d)' = Searches!Answer(d)
      BY <2>1 DEF Searches!Answer
    <2>3. UNCHANGED Searches!Promise!vars
      BY <2>1, <2>2, UnseenUntilAnswered
    <2> QED BY <2>3
  <1> QED BY <1>6, <1>7 DEF Searches!Next

\* At first no call is answered.
LEMMA PromiseInit == Searches!Init => Searches!Promise!Init
  <1> SUFFICES ASSUME Searches!Init PROVE Searches!Promise!Init
    OBVIOUS
  <1>1. \A c \in Calls : Searches!Answer(c) = "asked"
    BY DEF Searches!Init, Searches!Answer
  <1> QED BY <1>1 DEF Searches!Promise!Init

-----------------------------------------------------------------------------
(* The fetch tool.  It takes no lock: that a URL is made one document of    *)
(* rests on the session never fetching one twice at a time (Exclusive), and *)
(* on a call that stores having found nothing cached (Busy).                *)

\* Calls under way are for URLs that have no result, each for one of its own.
Busy == \A c \in Calls : ~Fetches!Idle(c) => url[c] \in Urls \ DOMAIN cached

Exclusive ==
  \A c, d \in Calls : ~Fetches!Idle(c) /\ ~Fetches!Idle(d) /\ url[c] = url[d] => c = d

\* The document a call stores or answers with is stored as one of its URL.
OfItsUrl ==
  \A c \in Calls : fetching[c] \in {"store", "document"} =>
    page[c] \in DOMAIN stored /\ stored[page[c]] = url[c]

ResultsAreStored ==
  \A u \in DOMAIN cached : cached[u] \in DOMAIN stored /\ stored[cached[u]] = u

StoredAreResults ==
  \A d \in DOMAIN stored :
    \/ stored[d] \in DOMAIN cached /\ cached[stored[d]] = d
    \/ \E c \in Calls : fetching[c] = "store" /\ page[c] = d

FetchIInv == /\ Fetches!TypeOK /\ Busy /\ Exclusive /\ OfItsUrl
             /\ ResultsAreStored /\ StoredAreResults

LEMMA PartialFacts ==
  ASSUME NEW S, NEW T, NEW f
  PROVE  f \in Fetches!Partial(S, T) <=>
           /\ DOMAIN f \subseteq S /\ f = [x \in DOMAIN f |-> f[x]]
           /\ \A x \in DOMAIN f : f[x] \in T
  <1>1. ASSUME f \in Fetches!Partial(S, T)
        PROVE  /\ DOMAIN f \subseteq S /\ f = [x \in DOMAIN f |-> f[x]]
               /\ \A x \in DOMAIN f : f[x] \in T
    <2>1. PICK D \in SUBSET S : f \in [D -> T]
      BY <1>1 DEF Fetches!Partial
    <2> QED BY <2>1
  <1>2. ASSUME DOMAIN f \subseteq S, f = [x \in DOMAIN f |-> f[x]],
               \A x \in DOMAIN f : f[x] \in T
        PROVE  f \in Fetches!Partial(S, T)
    <2>1. f \in [DOMAIN f -> T]
      BY <1>2
    <2> QED BY <1>2, <2>1 DEF Fetches!Partial
  <1> QED BY <1>1, <1>2

LEMMA FetchInit == Fetches!Init => FetchIInv
  <1> SUFFICES ASSUME Fetches!Init PROVE FetchIInv
    OBVIOUS
  <1>1. stored \in Fetches!Partial(Pages, Urls) /\ cached \in Fetches!Partial(Urls, Pages)
    BY PartialFacts DEF Fetches!Init
  <1>2. Fetches!TypeOK
    BY <1>1, ToolsAssumption DEF Fetches!Init, Fetches!TypeOK, Fetches!FetchAssumption
  <1>3. Busy /\ Exclusive /\ OfItsUrl /\ ResultsAreStored /\ StoredAreResults
    BY DEF Fetches!Init, Busy, Exclusive, OfItsUrl, ResultsAreStored, StoredAreResults, Fetches!Idle
  <1> QED BY <1>2, <1>3 DEF FetchIInv

\* A call begins: no other is under way for its URL.
LEMMA FetchBegins ==
  ASSUME FetchIInv, NEW c \in Calls, NEW u \in Urls,
         Fetches!AnswerFromCache(c, u) \/ Fetches!Begin(c, u)
  PROVE  FetchIInv'
  <1>1. /\ Fetches!Idle(c) /\ fetches' \in 0..MaxFetches
        /\ \A d \in Calls : Fetches!Idle(d) \/ url[d] # u
        /\ url' = [url EXCEPT ![c] = u] /\ UNCHANGED <<stored, cached>>
    BY ToolsAssumption DEF Fetches!AnswerFromCache, Fetches!Begin, Fetches!Called,
       FetchIInv, Fetches!TypeOK, Fetches!FetchAssumption
  <1>2. \E to, p : /\ fetching' = [fetching EXCEPT ![c] = to] /\ page' = [page EXCEPT ![c] = p]
                   /\ \/ to = "document" /\ u \in DOMAIN cached /\ p = cached[u]
                      \/ to = "request" /\ u \notin DOMAIN cached /\ p = None
    BY DEF Fetches!AnswerFromCache, Fetches!Begin, Fetches!Known
  <1>3. /\ url \in [Calls -> Urls \cup {None}] /\ page \in [Calls -> Pages \cup {None}]
        /\ fetching \in [Calls -> {"idle", "request", "retry", "page", "store", "document", "failed"}]
        /\ \A v \in DOMAIN cached : cached[v] \in Pages
        /\ None \notin Pages
    BY PartialFacts, ToolsAssumption DEF FetchIInv, Fetches!TypeOK, Fetches!FetchAssumption
  <1>4. Fetches!TypeOK'
    BY <1>1, <1>2, <1>3 DEF FetchIInv, Fetches!TypeOK, Fetches!Partial
  <1>5. Busy'
    BY <1>1, <1>2, <1>3 DEF FetchIInv, Busy, Fetches!Idle
  <1>6. Exclusive'
    BY <1>1, <1>2, <1>3 DEF FetchIInv, Exclusive, Fetches!Idle
  <1>7. OfItsUrl'
    BY <1>1, <1>2, <1>3 DEF FetchIInv, OfItsUrl, ResultsAreStored
  <1>8. ResultsAreStored'
    BY <1>1 DEF FetchIInv, ResultsAreStored
  <1>9. StoredAreResults'
    <2>1. fetching[c] # "store"
      BY <1>1 DEF Fetches!Idle
    <2> QED BY <1>1, <1>2, <1>3, <2>1 DEF FetchIInv, StoredAreResults
  <1> QED BY <1>4, <1>5, <1>6, <1>7, <1>8, <1>9 DEF FetchIInv

\* A request ends, well or badly.
LEMMA FetchMoves ==
  ASSUME FetchIInv, NEW c \in Calls,
         Fetches!Arrives(c) \/ Fetches!FailsForNow(c) \/ Fetches!FailsForGood(c) \/ Fetches!Blank(c)
  PROVE  FetchIInv'
  <1>1. /\ UNCHANGED <<url, page, stored, cached, fetches>>
        /\ fetching[c] \in {"request", "retry", "page"}
        /\ \E to \in {"retry", "page", "failed"} : fetching' = [fetching EXCEPT ![c] = to]
    BY DEF Fetches!Arrives, Fetches!FailsForNow, Fetches!FailsForGood, Fetches!Blank, Fetches!Move,
       Fetches!Requested, Fetches!AfterFailure, Fetches!AfterBlank
  <1>2. fetching \in [Calls -> {"idle", "request", "retry", "page", "store", "document", "failed"}]
    BY DEF FetchIInv, Fetches!TypeOK
  <1>3. Fetches!TypeOK'
    BY <1>1, <1>2 DEF FetchIInv, Fetches!TypeOK, Fetches!Partial
  <1>4. Busy' /\ Exclusive'
    BY <1>1, <1>2 DEF FetchIInv, Busy, Exclusive, Fetches!Idle
  <1>5. OfItsUrl' /\ ResultsAreStored' /\ StoredAreResults'
    BY <1>1, <1>2 DEF FetchIInv, OfItsUrl, ResultsAreStored, StoredAreResults
  <1> QED BY <1>3, <1>4, <1>5 DEF FetchIInv

\* A document is new, and the only one of its URL.
LEMMA FetchStores ==
  ASSUME FetchIInv, NEW c \in Calls, NEW d \in Pages, Fetches!StoreDocument(c, d)
  PROVE  FetchIInv'
  <1>1. /\ fetching[c] = "page" /\ fetching' = [fetching EXCEPT ![c] = "store"]
        /\ page' = [page EXCEPT ![c] = d]
        /\ d \notin DOMAIN stored /\ \A e \in Calls : page[e] # d
        /\ DOMAIN stored' = DOMAIN stored \cup {d}
        /\ stored'[d] = url[c] /\ \A e \in DOMAIN stored : stored'[e] = stored[e]
        /\ stored' = [e \in DOMAIN stored' |-> stored'[e]]
        /\ UNCHANGED <<url, cached, fetches>>
    BY DEF Fetches!StoreDocument, Fetches!Move, Fetches!Fresh
  <1>2. /\ fetching \in [Calls -> {"idle", "request", "retry", "page", "store", "document", "failed"}]
        /\ page \in [Calls -> Pages \cup {None}]
        /\ DOMAIN stored \subseteq Pages /\ \A e \in DOMAIN stored : stored[e] \in Urls
        /\ None \notin Pages
    BY PartialFacts, ToolsAssumption DEF FetchIInv, Fetches!TypeOK, Fetches!FetchAssumption
  <1>3. url[c] \in Urls
    BY <1>1 DEF FetchIInv, Busy, Fetches!Idle
  <1>4. Fetches!TypeOK'
    <2>1. stored' \in Fetches!Partial(Pages, Urls)
      BY <1>1, <1>2, <1>3, PartialFacts
    <2>2. cached' \in Fetches!Partial(Urls, Pages)
      BY <1>1 DEF FetchIInv, Fetches!TypeOK
    <2> QED BY <1>1, <1>2, <2>1, <2>2 DEF FetchIInv, Fetches!TypeOK, Fetches!Partial
  <1>5. Busy' /\ Exclusive'
    BY <1>1, <1>2 DEF FetchIInv, Busy, Exclusive, Fetches!Idle
  <1>6. OfItsUrl' /\ ResultsAreStored'
    BY <1>1, <1>2 DEF FetchIInv, OfItsUrl, ResultsAreStored
  <1>7. StoredAreResults'
    BY <1>1, <1>2 DEF FetchIInv, StoredAreResults
  <1> QED BY <1>4, <1>5, <1>6, <1>7 DEF FetchIInv

LEMMA FetchFiles ==
  ASSUME FetchIInv, NEW c \in Calls, Fetches!StoreResult(c)
  PROVE  FetchIInv'
  <1>1. /\ fetching[c] = "store" /\ fetching' = [fetching EXCEPT ![c] = "document"]
        /\ DOMAIN cached' = DOMAIN cached \cup {url[c]}
        /\ cached'[url[c]] = page[c] /\ \A v \in DOMAIN cached : v # url[c] => cached'[v] = cached[v]
        /\ cached' = [v \in DOMAIN cached' |-> cached'[v]]
        /\ UNCHANGED <<url, page, stored, fetches>>
    BY DEF Fetches!StoreResult, Fetches!Move, Fetches!Filed
  <1>2. /\ fetching \in [Calls -> {"idle", "request", "retry", "page", "store", "document", "failed"}]
        /\ page \in [Calls -> Pages \cup {None}]
        /\ DOMAIN cached \subseteq Urls /\ \A v \in DOMAIN cached : cached[v] \in Pages
    BY PartialFacts DEF FetchIInv, Fetches!TypeOK
  <1>3. /\ url[c] \in Urls \ DOMAIN cached
        /\ page[c] \in DOMAIN stored /\ stored[page[c]] = url[c] /\ page[c] \in Pages
    BY <1>1, <1>2, PartialFacts DEF FetchIInv, Busy, OfItsUrl, Fetches!Idle, Fetches!TypeOK
  <1>4. Fetches!TypeOK'
    <2>1. cached' \in Fetches!Partial(Urls, Pages)
      BY <1>1, <1>2, <1>3, PartialFacts
    <2>2. stored' \in Fetches!Partial(Pages, Urls)
      BY <1>1 DEF FetchIInv, Fetches!TypeOK
    <2> QED BY <1>1, <1>2, <2>1, <2>2 DEF FetchIInv, Fetches!TypeOK, Fetches!Partial
  <1>5. Busy' /\ Exclusive'
    BY <1>1, <1>2 DEF FetchIInv, Busy, Exclusive, Fetches!Idle
  <1>6. OfItsUrl' /\ ResultsAreStored'
    BY <1>1, <1>2, <1>3 DEF FetchIInv, OfItsUrl, ResultsAreStored
  <1>7. StoredAreResults'
    BY <1>1, <1>2, <1>3 DEF FetchIInv, StoredAreResults
  <1> QED BY <1>4, <1>5, <1>6, <1>7 DEF FetchIInv

LEMMA FetchInductive == FetchIInv /\ [Fetches!Next]_fetchVars => FetchIInv'
  <1> SUFFICES ASSUME FetchIInv, [Fetches!Next]_fetchVars PROVE FetchIInv'
    OBVIOUS
  <1>1. CASE \E c \in Calls : Fetches!Step(c)
    BY <1>1, FetchMoves, FetchStores, FetchFiles DEF Fetches!Step
  <1>2. CASE \E c \in Calls : \E u \in Urls : Fetches!AnswerFromCache(c, u) \/ Fetches!Begin(c, u)
    BY <1>2, FetchBegins
  <1>3. CASE Fetches!Terminated \/ UNCHANGED fetchVars
    BY <1>3 DEF Fetches!Terminated, Fetches!vars, fetchVars, FetchIInv, Fetches!TypeOK, Fetches!Partial,
       Busy, Exclusive, OfItsUrl, ResultsAreStored, StoredAreResults, Fetches!Idle
  <1> QED BY <1>1, <1>2, <1>3 DEF Fetches!Next

LEMMA FetchSound == FetchIInv => OneDocumentPerUrl
  <1> SUFFICES ASSUME FetchIInv PROVE OneDocumentPerUrl
    OBVIOUS
  <1>1. ASSUME NEW d \in DOMAIN stored, NEW e \in DOMAIN stored, stored[d] = stored[e]
        PROVE  d = e
    <2>1. ASSUME NEW c \in Calls, fetching[c] = "store"
          PROVE  url[c] \notin DOMAIN cached /\ stored[page[c]] = url[c]
      BY <2>1 DEF FetchIInv, Busy, OfItsUrl, Fetches!Idle
    <2>2. CASE stored[d] \in DOMAIN cached
      BY <1>1, <2>1, <2>2 DEF FetchIInv, StoredAreResults
    <2>3. CASE stored[d] \notin DOMAIN cached
      <3>1. PICK b \in Calls : fetching[b] = "store" /\ page[b] = d
        BY <2>3 DEF FetchIInv, StoredAreResults
      <3>2. PICK c \in Calls : fetching[c] = "store" /\ page[c] = e
        BY <1>1, <2>3 DEF FetchIInv, StoredAreResults
      <3>3. url[b] = url[c]
        BY <1>1, <2>1, <3>1, <3>2
      <3> QED BY <3>1, <3>2, <3>3 DEF FetchIInv, Exclusive, Fetches!Idle
    <2> QED BY <2>2, <2>3
  <1>2. Fetches!OneDocumentPerUrl
    BY <1>1 DEF FetchIInv, StoredAreResults, OfItsUrl, Fetches!OneDocumentPerUrl
  <1> QED BY <1>2 DEF FetchIInv, OneDocumentPerUrl

\* What a call shows of itself: the URL it is fetching, and its last answer.
Pending == [c \in Calls |-> IF Fetches!Idle(c) THEN None ELSE url[c]]
AnsweredBy == [c \in Calls |-> IF fetching[c] = "document" THEN page[c] ELSE None]

\* Every step of a fetch is one of FetchPromise, or nothing to its callers.
LEMMA FetchIsPromised ==
  FetchIInv /\ [Fetches!Next]_fetchVars => [Fetches!Promise!Next]_(Fetches!Promise!vars)
  <1> SUFFICES ASSUME FetchIInv, [Fetches!Next]_fetchVars
               PROVE  [Fetches!Promise!Next]_(Fetches!Promise!vars)
    OBVIOUS
  <1>1. /\ url \in [Calls -> Urls \cup {None}] /\ page \in [Calls -> Pages \cup {None}]
        /\ fetching \in [Calls -> {"idle", "request", "retry", "page", "store", "document", "failed"}]
        /\ None \notin Urls
    BY ToolsAssumption DEF FetchIInv, Fetches!TypeOK, Fetches!FetchAssumption
  <1>2. \A c \in Calls : ~Fetches!Idle(c) => url[c] \in Urls \ DOMAIN cached /\ Pending[c] # None
    BY <1>1 DEF FetchIInv, Busy, Pending
  <1>3. ASSUME NEW c \in Calls, NEW u \in Urls, Fetches!AnswerFromCache(c, u)
        PROVE  Fetches!Promise!AnswersAtOnce(c, u)
    <2>1. /\ Fetches!Idle(c) /\ u \in DOMAIN cached /\ cached' = cached
          /\ url' = [url EXCEPT ![c] = u] /\ page' = [page EXCEPT ![c] = cached[u]]
          /\ fetching' = [fetching EXCEPT ![c] = "document"]
      BY <1>3 DEF Fetches!AnswerFromCache, Fetches!Called, Fetches!Known
    <2>2. Pending[c] = None /\ Pending' = Pending
      BY <1>1, <2>1 DEF Pending, Fetches!Idle
    <2>3. AnsweredBy' = [AnsweredBy EXCEPT ![c] = cached[u]]
      BY <1>1, <2>1 DEF AnsweredBy
    <2> QED BY <2>1, <2>2, <2>3 DEF Fetches!Promise!AnswersAtOnce, Pending, AnsweredBy
  <1>4. ASSUME NEW c \in Calls, NEW u \in Urls, Fetches!Begin(c, u)
        PROVE  Fetches!Promise!Starts(c, u)
    <2>1. /\ Fetches!Idle(c) /\ u \notin DOMAIN cached /\ cached' = cached
          /\ \A d \in Calls : Fetches!Idle(d) \/ url[d] # u
          /\ url' = [url EXCEPT ![c] = u] /\ page' = [page EXCEPT ![c] = None]
          /\ fetching' = [fetching EXCEPT ![c] = "request"]
      BY <1>4 DEF Fetches!Begin, Fetches!Called, Fetches!Known
    <2>2. Pending[c] = None /\ \A d \in Calls : Pending[d] # u
      BY <1>1, <2>1 DEF Pending
    <2>3. Pending' = [Pending EXCEPT ![c] = u]
      BY <1>1, <2>1 DEF Pending, Fetches!Idle
    <2>4. AnsweredBy' = [AnsweredBy EXCEPT ![c] = None]
      BY <1>1, <2>1 DEF AnsweredBy
    <2> QED BY <2>1, <2>2, <2>3, <2>4 DEF Fetches!Promise!Starts, Pending, AnsweredBy
  <1>5. ASSUME NEW c \in Calls,
               \/ Fetches!Arrives(c) \/ Fetches!FailsForNow(c) \/ Fetches!FailsForGood(c)
               \/ Fetches!Blank(c) \/ \E d \in Pages : Fetches!StoreDocument(c, d)
        PROVE  [Fetches!Promise!Next]_(Fetches!Promise!vars)
    <2>1. /\ UNCHANGED <<url, cached>> /\ fetching[c] \in {"request", "retry", "page"}
          /\ \E to \in {"retry", "page", "store", "failed"} : fetching' = [fetching EXCEPT ![c] = to]
          /\ \A d \in Calls : d # c => page'[d] = page[d]
      BY <1>1, <1>5 DEF Fetches!Arrives, Fetches!FailsForNow, Fetches!FailsForGood, Fetches!Blank,
         Fetches!Requested, Fetches!AfterFailure, Fetches!AfterBlank, Fetches!Move, Fetches!StoreDocument
    <2>2. AnsweredBy' = AnsweredBy
      BY <1>1, <2>1 DEF AnsweredBy
    <2>3. CASE fetching'[c] = "failed"
      <3>1. Pending[c] # None /\ Pending' = [Pending EXCEPT ![c] = None]
        BY <1>1, <1>2, <2>1, <2>3 DEF Pending, Fetches!Idle
      <3>2. Fetches!Promise!Fails(c)
        BY <2>1, <2>2, <3>1 DEF Fetches!Promise!Fails, Fetches!Promise!Ends, Pending, AnsweredBy
      <3> QED BY <3>2 DEF Fetches!Promise!Next
    <2>4. CASE fetching'[c] # "failed"
      <3>1. Pending' = Pending
        BY <1>1, <2>1, <2>4 DEF Pending, Fetches!Idle
      <3> QED BY <2>1, <2>2, <3>1 DEF Fetches!Promise!vars, Pending, AnsweredBy
    <2> QED BY <2>3, <2>4
  <1>6. ASSUME NEW c \in Calls, Fetches!StoreResult(c)
        PROVE  \E d \in Pages : Fetches!Promise!Delivers(c, d)
    <2>1. /\ fetching[c] = "store" /\ fetching' = [fetching EXCEPT ![c] = "document"]
          /\ cached' = [u \in DOMAIN cached \cup {url[c]} |-> IF u = url[c] THEN page[c] ELSE cached[u]]
          /\ UNCHANGED <<url, page>>
      BY <1>6 DEF Fetches!StoreResult, Fetches!Move, Fetches!Filed
    <2>2. PICK d \in Pages : d = page[c]
      <3>1. DOMAIN stored \subseteq Pages
        BY PartialFacts DEF FetchIInv, Fetches!TypeOK
      <3> QED BY <2>1, <3>1 DEF FetchIInv, OfItsUrl
    <2>3. Pending[c] = url[c] /\ Pending[c] # None /\ Pending' = [Pending EXCEPT ![c] = None]
      BY <1>1, <1>2, <2>1 DEF Pending, Fetches!Idle
    <2>4. AnsweredBy' = [AnsweredBy EXCEPT ![c] = d]
      BY <1>1, <2>1, <2>2 DEF AnsweredBy
    <2>5. d \notin Fetches!Promise!Taken
      <3>1. url[c] \notin DOMAIN cached /\ stored[d] = url[c]
        BY <2>1, <2>2 DEF FetchIInv, Busy, OfItsUrl, Fetches!Idle
      <3> QED BY <3>1 DEF FetchIInv, ResultsAreStored, Fetches!Promise!Taken
    <2>6. cached' = [u \in DOMAIN cached \cup {Pending[c]} |->
                       IF u = Pending[c] THEN d ELSE cached[u]]
      BY <2>1, <2>2, <2>3
    <2>7. Fetches!Promise!Delivers(c, d) <=>
            /\ Pending[c] # None /\ Pending' = [Pending EXCEPT ![c] = None]
            /\ d \in Pages \ Fetches!Promise!Taken
            /\ cached' = [u \in DOMAIN cached \cup {Pending[c]} |->
                            IF u = Pending[c] THEN d ELSE cached[u]]
            /\ AnsweredBy' = [AnsweredBy EXCEPT ![c] = d]
      BY DEF Fetches!Promise!Delivers, Fetches!Promise!Ends, Pending, AnsweredBy
    <2> QED BY <2>3, <2>4, <2>5, <2>6, <2>7
  <1>7. CASE Fetches!Terminated \/ UNCHANGED fetchVars
    <2>1. UNCHANGED fetchVars
      BY <1>7 DEF Fetches!Terminated, Fetches!vars, fetchVars
    <2> QED BY <2>1 DEF fetchVars, Fetches!Promise!vars, Fetches!Idle
  <1>8. ASSUME NEW c \in Calls,
               \/ Fetches!Step(c)
               \/ \E u \in Urls : Fetches!AnswerFromCache(c, u) \/ Fetches!Begin(c, u)
        PROVE  [Fetches!Promise!Next]_(Fetches!Promise!vars)
    <2>1. CASE \E u \in Urls : Fetches!AnswerFromCache(c, u) \/ Fetches!Begin(c, u)
      <3>1. PICK u \in Urls : Fetches!AnswerFromCache(c, u) \/ Fetches!Begin(c, u)
        BY <2>1
      <3>2. Fetches!Promise!AnswersAtOnce(c, u) \/ Fetches!Promise!Starts(c, u)
        BY <1>3, <1>4, <3>1
      <3> QED BY <3>2 DEF Fetches!Promise!Next
    <2>2. CASE Fetches!StoreResult(c)
      BY <1>6, <2>2 DEF Fetches!Promise!Next
    <2>3. CASE \/ Fetches!Arrives(c) \/ Fetches!FailsForNow(c) \/ Fetches!FailsForGood(c)
               \/ Fetches!Blank(c) \/ \E d \in Pages : Fetches!StoreDocument(c, d)
      BY <1>5, <2>3
    <2> QED BY <1>8, <2>1, <2>2, <2>3 DEF Fetches!Step
  <1> QED BY <1>7, <1>8 DEF Fetches!Next, fetchVars

-----------------------------------------------------------------------------
(* The parts side by side.                                                  *)

\* A step of the tools is one of each part, or leaves it alone.
LEMMA PartsOfStep ==
  [ToolsNext]_toolVars =>
    /\ [Next]_vars /\ [Plan!Next]_planVars
    /\ [Searches!Next]_searchVars /\ [Fetches!Next]_fetchVars
  <1> SUFFICES ASSUME [ToolsNext]_toolVars
               PROVE  /\ [Next]_vars /\ [Plan!Next]_planVars
                      /\ [Searches!Next]_searchVars /\ [Fetches!Next]_fetchVars
    OBVIOUS
  <1>1. CASE PlanStep
    BY <1>1 DEF PlanStep
  <1>2. CASE KeepStep
    BY <1>2 DEF KeepStep
  <1>3. CASE \E c \in Calls : SearchStep(c)
    BY <1>3 DEF SearchStep, IsSearch, Searches!Next
  <1>4. CASE IsSearch /\ Searches!Terminated
    BY <1>4 DEF IsSearch, Searches!Next
  <1>5. CASE IsFetch /\ Fetches!Next
    BY <1>5 DEF IsFetch
  <1>6. CASE UNCHANGED toolVars
    BY <1>6 DEF toolVars
  <1> QED BY <1>1, <1>2, <1>3, <1>4, <1>5, <1>6 DEF ToolsNext

\* Side by side the parts do what each does on its own: what is proved of the
\* specification of one holds of the tools.
THEOREM ToolsAreTheirParts ==
  ToolsSpec => /\ Spec
               /\ Plan!Init /\ [][Plan!Next]_planVars
               /\ Searches!Init /\ [][Searches!Next]_searchVars
               /\ Fetches!Init /\ [][Fetches!Next]_fetchVars
  <1>1. ToolsInit => Init /\ Plan!Init /\ Searches!Init /\ Fetches!Init
    BY DEF ToolsInit
  <1> QED BY <1>1, PartsOfStep, PTL DEF ToolsSpec, Spec

\* PlanIsSound: no reply, however it is tidied, is accepted as a plan that
\* searches twice for one thing or not at all for another.
THEOREM PlansAreSound == ToolsSpec => []PlanIsSound
  BY ToolsAreTheirParts, PlanInit, PlanInductive, PlanSound, PTL

\* OfferedOnce: however calls of the search tool interleave, and whatever the
\* service answers, no URL is returned by two of them.
THEOREM UrlsAreOfferedOnce == ToolsSpec => []OfferedOnce
  BY ToolsAreTheirParts, SearchInit, SearchInductive, SearchSound, PTL

\* OneDocumentPerUrl: calls of the fetch tool for a URL, one after another,
\* make one document of it and are all answered by it.
THEOREM UrlsAreStoredOnce == ToolsSpec => []OneDocumentPerUrl
  BY ToolsAreTheirParts, FetchInit, FetchInductive, FetchSound, PTL

\* CallsAreOneStep: what ResearchSession takes for one step of its tools is one
\* to it, for any number of calls and results and whatever interleaves or fails.
THEOREM CallsAreSteps == ToolsSpec => CallsAreOneStep
  <1>1. Fetches!Init => Fetches!Promise!Init
    BY DEF Fetches!Init, Fetches!Promise!Init, Fetches!Idle
  <1>2. ToolsSpec => Searches!IsOneStep
    BY ToolsAreTheirParts, SearchInit, SearchInductive, PromiseInit, SearchIsPromised, PTL
    DEF Searches!IsOneStep, Searches!Promise!Spec
  <1>3. ToolsSpec => Fetches!IsOneStep
    BY <1>1, ToolsAreTheirParts, FetchInit, FetchInductive, FetchIsPromised, PTL
    DEF Fetches!IsOneStep, Fetches!Promise!Spec
  <1> QED BY <1>2, <1>3, PTL DEF CallsAreOneStep
=============================================================================
