---------------------------- MODULE SequenceFold ----------------------------
(***************************************************************************)
(* Loops over a sequence, as a recursive function of the number of elements *)
(* already visited, and the facts by which such loops are proved about.      *)
(* Step(context, acc, x) is one turn: acc is what was accumulated before the *)
(* element x, and context is what stays the same throughout the loop.        *)
(*                                                                          *)
(* The library's induction theorems take an operator as a parameter, which   *)
(* no installed prover can instantiate.  Here induction is stated for sets   *)
(* of naturals and of sequences instead, and follows from the fact that each *)
(* set with a well-founded order has a minimal element.                      *)
(***************************************************************************)
EXTENDS Naturals, Sequences, WellFoundedInduction, TLAPS

CONSTANT Step(_, _, _)

\* What is accumulated after each number of elements.
Stages(context, base, s) ==
    LET after[n \in 0..Len(s)] == IF n = 0 THEN base ELSE Step(context, after[n - 1], s[n])
    IN  after

Fold(context, base, s) == Stages(context, base, s)[Len(s)]

-----------------------------------------------------------------------------
(* Induction.                                                               *)

\* Each non-empty set of naturals has a least element.
LEMMA LeastNatural ==
    ASSUME NEW T, T \subseteq Nat, T # {}
    PROVE  \E n \in T : \A m \in T : n <= m
<1>1. PICK n \in T : \A m \in T : <<m, n>> \notin OpToRel(<, Nat)
  BY NatLessThanWellFounded, WFMin
<1>2. ASSUME NEW m \in T PROVE ~(m < n)
  BY <1>1 DEF OpToRel
<1> QED
  BY <1>2

\* A set that has 0 and, with each natural, the next one has them all.
LEMMA NaturalInduction ==
    ASSUME NEW T, 0 \in T, \A n \in Nat : n \in T => n + 1 \in T
    PROVE  \A n \in Nat : n \in T
<1> SUFFICES ASSUME Nat \ T # {} PROVE FALSE
  OBVIOUS
<1>1. PICK n \in Nat \ T : \A m \in Nat \ T : n <= m
  BY LeastNatural
<1> QED
  BY <1>1

\* The last element of a sequence, and what comes before it.
LEMMA LastElement ==
    ASSUME NEW S, NEW s \in Seq(S), NEW n \in Nat, Len(s) = n + 1
    PROVE  \E t \in Seq(S), x \in S : s = Append(t, x) /\ Len(t) = n
<1> DEFINE t == [i \in 1..n |-> s[i]]
<1>1. s \in [1..(n + 1) -> S]
  OBVIOUS
<1>2. t \in Seq(S) /\ Len(t) = n /\ s[n + 1] \in S
  BY <1>1
<1>3. s = Append(t, s[n + 1])
  <2>1. /\ Append(t, s[n + 1]) \in Seq(S)
        /\ Len(Append(t, s[n + 1])) = n + 1
        /\ \A i \in 1..(n + 1) : Append(t, s[n + 1])[i] = s[i]
    BY <1>2
  <2> HIDE DEF t
  <2> QED
    BY <2>1
<1> QED
  BY <1>2, <1>3

\* A set that has the empty sequence and, with each sequence, those that are one
\* element longer has all sequences.
THEOREM SequenceInduction ==
    ASSUME NEW S, NEW T, <<>> \in T,
           \A s \in Seq(S), x \in S : s \in T => Append(s, x) \in T
    PROVE  \A s \in Seq(S) : s \in T
<1> DEFINE L == {n \in Nat : \A s \in Seq(S) : Len(s) = n => s \in T}
<1>1. 0 \in L
  <2>1. ASSUME NEW s \in Seq(S), Len(s) = 0 PROVE s = <<>>
    BY <2>1
  <2> QED
    BY <2>1
<1>2. ASSUME NEW n \in Nat, n \in L PROVE n + 1 \in L
  <2>1. ASSUME NEW s \in Seq(S), Len(s) = n + 1 PROVE s \in T
    <3>1. PICK t \in Seq(S), x \in S : s = Append(t, x) /\ Len(t) = n
      BY <2>1, LastElement
    <3>2. t \in T
      BY <1>2, <3>1
    <3> QED
      BY <3>1, <3>2
  <2> QED
    BY <2>1
<1>3. \A n \in Nat : n \in L
  <2> HIDE DEF L
  <2> QED
    BY <1>1, <1>2, NaturalInduction
<1> QED
  BY <1>3

-----------------------------------------------------------------------------
(* Folds.                                                                   *)

AreStages(f, context, base, s, l) ==
    f = [n \in 0..l |-> IF n = 0 THEN base ELSE Step(context, f[n - 1], s[n])]

LEMMA StagesExist ==
    ASSUME NEW context, NEW base, NEW s
    PROVE  \A l \in Nat : \E f : AreStages(f, context, base, s, l)
<1> DEFINE T == {l \in Nat : \E f : AreStages(f, context, base, s, l)}
<1>1. 0 \in T
  <2> DEFINE f == [n \in 0..0 |-> base]
  <2>1. AreStages(f, context, base, s, 0)
    BY DEF AreStages
  <2> QED
    BY <2>1
<1>2. ASSUME NEW l \in Nat, l \in T PROVE l + 1 \in T
  <2>1. PICK f : AreStages(f, context, base, s, l)
    BY <1>2
  <2> DEFINE g == [n \in 0..(l + 1) |-> IF n = l + 1 THEN Step(context, f[l], s[n]) ELSE f[n]]
  <2>2. \A n \in 0..l : g[n] = f[n]
    OBVIOUS
  <2>3. \A n \in 0..l : f[n] = IF n = 0 THEN base ELSE Step(context, f[n - 1], s[n])
    BY <2>1 DEF AreStages
  <2>4. \A n \in 0..(l + 1) : g[n] = IF n = 0 THEN base ELSE Step(context, g[n - 1], s[n])
    BY <2>2, <2>3
  <2>5. AreStages(g, context, base, s, l + 1)
    <3> HIDE DEF g
    <3>1. g = [n \in 0..(l + 1) |-> g[n]]
      BY DEF g
    <3> QED
      BY <2>4, <3>1 DEF AreStages
  <2> QED
    BY <2>5
<1>3. \A n \in Nat : n \in T
  <2> HIDE DEF T
  <2> QED
    BY <1>1, <1>2, NaturalInduction
<1> QED
  BY <1>3

\* What is accumulated depends on the elements visited so far only.
LEMMA StagesAgree ==
    ASSUME NEW context, NEW base, NEW s, NEW t, NEW l \in Nat, NEW k \in Nat, l <= k,
           \A i \in 1..l : s[i] = t[i],
           NEW f, AreStages(f, context, base, s, l), NEW g, AreStages(g, context, base, t, k)
    PROVE  \A n \in 0..l : f[n] = g[n]
<1> DEFINE T == {n \in Nat : n <= l => f[n] = g[n]}
<1>1. 0 \in T
  BY DEF AreStages
<1>2. ASSUME NEW n \in Nat, n \in T PROVE n + 1 \in T
  BY <1>2 DEF AreStages
<1>3. \A n \in Nat : n \in T
  <2> HIDE DEF T
  <2> QED
    BY <1>1, <1>2, NaturalInduction
<1> QED
  BY <1>3

LEMMA StagesDef ==
    ASSUME NEW context, NEW base, NEW s, Len(s) \in Nat
    PROVE  AreStages(Stages(context, base, s), context, base, s, Len(s))
BY StagesExist DEF Stages, AreStages

\* A loop over nothing accumulates nothing.
THEOREM FoldEmpty ==
    ASSUME NEW context, NEW base
    PROVE  Fold(context, base, <<>>) = base
BY StagesDef DEF Fold, AreStages

\* The last turn of a loop starts from what all the others accumulated.
THEOREM FoldAppend ==
    ASSUME NEW S, NEW s \in Seq(S), NEW x \in S, NEW context, NEW base
    PROVE  Fold(context, base, Append(s, x)) = Step(context, Fold(context, base, s), x)
<1>1. PICK t : t = Append(s, x)
  OBVIOUS
<1>2. PICK n : n = Len(s)
  OBVIOUS
<1>3. Len(t) = n + 1 /\ n \in Nat /\ t[n + 1] = x /\ \A i \in 1..n : s[i] = t[i]
  BY <1>1, <1>2
<1>4. /\ AreStages(Stages(context, base, s), context, base, s, n)
      /\ AreStages(Stages(context, base, t), context, base, t, n + 1)
  BY <1>2, <1>3, StagesDef
<1>5. Stages(context, base, s)[n] = Stages(context, base, t)[n]
  <2>1. n \in Nat /\ n + 1 \in Nat /\ n <= n + 1 /\ n \in 0..n /\ \A i \in 1..n : s[i] = t[i]
    BY <1>3
  <2>2. ASSUME NEW f, AreStages(f, context, base, s, n),
               NEW g, AreStages(g, context, base, t, n + 1)
        PROVE  f[n] = g[n]
    BY <2>1, <2>2, StagesAgree
  <2> QED
    BY <1>4, <2>2
<1>6. Stages(context, base, t)[n + 1] = Step(context, Stages(context, base, t)[n], x)
  BY <1>3, <1>4 DEF AreStages
<1> QED
  BY <1>1, <1>2, <1>3, <1>5, <1>6 DEF Fold

\* A loop over one element is one turn.
LEMMA FoldOne ==
    ASSUME NEW context, NEW base, NEW x
    PROVE  Fold(context, base, <<x>>) = Step(context, base, x)
<1>1. <<>> \in Seq({x}) /\ x \in {x} /\ <<x>> = Append(<<>>, x)
  OBVIOUS
<1>2. PICK S : <<>> \in Seq(S) /\ x \in S
  BY <1>1
<1>3. Fold(context, base, Append(<<>>, x)) = Step(context, Fold(context, base, <<>>), x)
  BY <1>2, FoldAppend
<1> QED
  BY <1>1, <1>3, FoldEmpty

LEMMA FoldTwo ==
    ASSUME NEW context, NEW base, NEW x, NEW y
    PROVE  Fold(context, base, <<x, y>>) = Step(context, Step(context, base, x), y)
<1>1. <<x>> \in Seq({x, y}) /\ y \in {x, y} /\ <<x, y>> = Append(<<x>>, y)
  OBVIOUS
<1>2. PICK S : <<x>> \in Seq(S) /\ y \in S
  BY <1>1
<1>3. Fold(context, base, Append(<<x>>, y)) = Step(context, Fold(context, base, <<x>>), y)
  BY <1>2, FoldAppend
<1> QED
  BY <1>1, <1>3, FoldOne

LEMMA FoldThree ==
    ASSUME NEW context, NEW base, NEW x, NEW y, NEW z
    PROVE  Fold(context, base, <<x, y, z>>) =
             Step(context, Step(context, Step(context, base, x), y), z)
<1>1. <<x, y>> \in Seq({x, y, z}) /\ z \in {x, y, z} /\ <<x, y, z>> = Append(<<x, y>>, z)
  OBVIOUS
<1>2. PICK S : <<x, y>> \in Seq(S) /\ z \in S
  BY <1>1
<1>3. Fold(context, base, Append(<<x, y>>, z)) = Step(context, Fold(context, base, <<x, y>>), z)
  BY <1>2, FoldAppend
<1>4. Fold(context, base, <<x, y>>) = Step(context, Step(context, base, x), y)
  BY FoldTwo
<1> QED
  BY ONLY <1>1, <1>3, <1>4

\* A loop over a concatenation goes on over the second part from where it is after the first.
THEOREM FoldConcat ==
    ASSUME NEW S, NEW s \in Seq(S), NEW context, NEW base
    PROVE  \A t \in Seq(S) :
              Fold(context, base, s \o t) = Fold(context, Fold(context, base, s), t)
<1> DEFINE T == {t \in Seq(S) : Fold(context, base, s \o t) = Fold(context, Fold(context, base, s), t)}
<1>1. <<>> \in T
  <2>1. s \o <<>> = s /\ <<>> \in Seq(S)
    OBVIOUS
  <2> QED
    BY <2>1, FoldEmpty
<1>2. ASSUME NEW t \in Seq(S), NEW x \in S, t \in T PROVE Append(t, x) \in T
  <2>1. s \o Append(t, x) = Append(s \o t, x) /\ s \o t \in Seq(S) /\ Append(t, x) \in Seq(S)
    OBVIOUS
  <2>2. Fold(context, base, Append(s \o t, x)) = Step(context, Fold(context, base, s \o t), x)
    BY <2>1, FoldAppend
  <2>3. PICK middle : middle = Fold(context, base, s)
    OBVIOUS
  <2>4. Fold(context, middle, Append(t, x)) = Step(context, Fold(context, middle, t), x)
    BY FoldAppend
  <2> QED
    BY <1>2, <2>1, <2>2, <2>3, <2>4
<1>3. \A t \in Seq(S) : t \in T
  <2> HIDE DEF T
  <2> QED
    BY <1>1, <1>2, SequenceInduction
<1> QED
  BY <1>3
=============================================================================
