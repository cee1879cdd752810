------------------------------ MODULE FoldFacts ------------------------------
(***************************************************************************)
(* What FoldLeft computes, for any operator.  A module that folds with an  *)
(* operator of its own instantiates this one with it: the provers then see *)
(* facts about that operator.                                              *)
(***************************************************************************)
EXTENDS SequencesExt, WellFoundedInduction, TLAPS

CONSTANT Op(_, _)

Fold(base, s) == FoldLeft(Op, base, s)

-----------------------------------------------------------------------------
(* Induction, for a property that is written as a set.                     *)
LEMMA Induction ==
  ASSUME NEW S \in SUBSET Nat, 0 \in S, \A n \in S : n + 1 \in S
  PROVE  S = Nat
<1> DEFINE Less == {ss \in Nat \X Nat : ss[1] < ss[2]}
           T == Nat \ S
<1>1. IsWellFoundedOn(Less, Nat)
  BY NatLessThanWellFounded DEF OpToRel
<1> SUFFICES ASSUME T # {} PROVE FALSE
  OBVIOUS
<1>2. PICK n \in T : \A m \in T : ~ (<<m, n>> \in Less)
  <2> HIDE DEF Less
  <2> QED BY <1>1, WFMin
<1>3. n - 1 \in Nat /\ n - 1 \notin T
  <2>1. n # 0
    OBVIOUS
  <2>2. n - 1 \in Nat /\ <<n - 1, n>> \in Less
    BY <2>1
  <2> QED BY <1>2, <2>2
<1> QED
  BY <1>3

-----------------------------------------------------------------------------
(* The steps of a fold: the value before any element, after the first ...  *)
Steps(base, s, f) ==
  /\ f[0] = base
  /\ \A k \in 1..Len(s) : f[k] = Op(f[k - 1], s[k])

Body(base, s, g, x) == IF x = {} THEN base ELSE Op(g[x \ {Max(x)}], s[Max(x)])

IsIter(base, s, n, g) == g = [x \in SUBSET (1..n) |-> Body(base, s, g, x)]

(* The largest element of a set of indices that holds their bound.         *)
LEMMA MaxOf ==
  ASSUME NEW n \in Nat, NEW x \in SUBSET (1..n), n \in x
  PROVE  Max(x) = n
<1>1. \A y \in x : y \in Int /\ n >= y
  OBVIOUS
<1>2. \A m \in x : (\A y \in x : m >= y) => m = n
  BY <1>1
<1> QED
  BY <1>1, <1>2 DEF Max

(* The largest element of a set of indices is one of them.                 *)
LEMMA MaxIn ==
  ASSUME NEW n \in Nat, NEW x \in SUBSET (1..n), x # {}
  PROVE  Max(x) \in x
<1> DEFINE S == {m \in Nat : \A y \in SUBSET (1..m) : y # {} => Max(y) \in y}
<1>1. 0 \in S
  <2>1. 1..0 = {}
    OBVIOUS
  <2> QED BY <2>1
<1>2. ASSUME NEW m \in S PROVE m + 1 \in S
  <2> SUFFICES ASSUME NEW y \in SUBSET (1..(m + 1)), y # {} PROVE Max(y) \in y
    OBVIOUS
  <2>1. CASE m + 1 \in y
    BY <2>1, MaxOf
  <2>2. CASE m + 1 \notin y
    <3>1. y \in SUBSET (1..m)
      BY <2>2
    <3> QED BY <3>1
  <2> QED BY <2>1, <2>2
<1>3. S = Nat
  <2> HIDE DEF S
  <2>1. S \in SUBSET Nat
    BY DEF S
  <2> QED BY <1>1, <1>2, <2>1, Induction
<1> QED
  BY <1>3

(* The recursive function that MapThenFoldSet picks exists, at every       *)
(* length.                                                                 *)
LEMMA IterExists ==
  ASSUME NEW base, NEW s, NEW n \in Nat
  PROVE  \E g : IsIter(base, s, n, g)
<1> DEFINE S == {m \in Nat : \E g : IsIter(base, s, m, g)}
<1>1. 0 \in S
  <2> DEFINE g == [x \in SUBSET (1..0) |-> base]
  <2>1. IsIter(base, s, 0, g)
    BY DEF IsIter, Body
  <2> QED BY <2>1
<1>2. ASSUME NEW m \in S PROVE m + 1 \in S
  <2>1. PICK h : IsIter(base, s, m, h)
    OBVIOUS
  <2> DEFINE g == [x \in SUBSET (1..(m + 1)) |->
                     IF m + 1 \in x THEN Op(h[x \ {m + 1}], s[m + 1]) ELSE h[x]]
  <2>2. ASSUME NEW x \in SUBSET (1..(m + 1)) PROVE g[x] = Body(base, s, g, x)
    <3>1. CASE m + 1 \in x
      <4>1. Max(x) = m + 1
        BY <3>1, MaxOf
      <4>2. x \ {m + 1} \in SUBSET (1..m) /\ x \ {m + 1} \in SUBSET (1..(m + 1)) /\ m + 1 \notin x \ {m + 1}
        OBVIOUS
      <4>3. g[x \ {m + 1}] = h[x \ {m + 1}]
        BY <4>2
      <4>4. g[x] = Op(h[x \ {m + 1}], s[m + 1]) /\ x # {}
        BY <3>1
      <4> QED BY <4>1, <4>3, <4>4 DEF Body
    <3>2. CASE m + 1 \notin x
      <4>1. x \in SUBSET (1..m) /\ g[x] = h[x]
        BY <3>2
      <4>2. h[x] = Body(base, s, h, x)
        BY <2>1, <4>1 DEF IsIter
      <4>3. CASE x = {}
        BY <4>1, <4>2, <4>3 DEF Body
      <4>4. CASE x # {}
        <5>1. x \ {Max(x)} \in SUBSET (1..m)
          BY <4>1
        <5>2. g[x \ {Max(x)}] = h[x \ {Max(x)}]
          BY <5>1
        <5> HIDE DEF g
        <5> QED BY <4>1, <4>2, <4>4, <5>2 DEF Body
      <4> QED BY <4>3, <4>4
    <3> QED BY <3>1, <3>2
  <2>3. IsIter(base, s, m + 1, g)
    BY <2>2 DEF IsIter
  <2> HIDE DEF g
  <2> QED BY <2>3
<1>3. S = Nat
  <2> HIDE DEF S
  <2>1. S \in SUBSET Nat
    BY DEF S
  <2> QED BY <1>1, <1>2, <2>1, Induction
<1> QED
  BY <1>3

(* A fold is the last of its steps.                                        *)
LEMMA FoldSteps ==
  ASSUME NEW base, NEW T, NEW s \in Seq(T)
  PROVE  \E f : Steps(base, s, f) /\ Fold(base, s) = f[Len(s)]
<1> DEFINE n == Len(s)
           iter == CHOOSE g : g = [x \in SUBSET (1..n) |-> IF x = {} THEN base ELSE Op(g[x \ {Max(x)}], s[Max(x)])]
<1>1. n \in Nat /\ DOMAIN s = 1..n
  OBVIOUS
<1>2. Fold(base, s) = iter[1..n]
  BY <1>1 DEF Fold, FoldLeft, MapThenFoldSet
<1>3. IsIter(base, s, n, iter)
  <2>1. \E g : g = [x \in SUBSET (1..n) |-> IF x = {} THEN base ELSE Op(g[x \ {Max(x)}], s[Max(x)])]
    <3>1. \E g : IsIter(base, s, n, g)
      BY <1>1, IterExists
    <3> QED
      BY <3>1 DEF IsIter, Body
  <2>2. iter = [x \in SUBSET (1..n) |-> IF x = {} THEN base ELSE Op(iter[x \ {Max(x)}], s[Max(x)])]
    BY <2>1, Zenon
  <2> HIDE DEF iter
  <2> QED BY <2>2 DEF IsIter, Body
<1> HIDE DEF iter
<1> DEFINE f == [k \in 0..n |-> iter[1..k]]
<1>4. f[0] = base
  <2>1. 1..0 = {} /\ 0 \in 0..n /\ {} \in SUBSET (1..n)
    BY <1>1
  <2> QED BY <1>3, <2>1 DEF IsIter, Body
<1>5. ASSUME NEW k \in 1..n PROVE f[k] = Op(f[k - 1], s[k])
  <2>1. k \in 0..n /\ k - 1 \in 0..n /\ 1..k \in SUBSET (1..n) /\ 1..k # {} /\ (1..k) \ {k} = 1..(k - 1)
    <3>1. k \in Nat /\ 1 <= k /\ k <= n
      BY <1>1
    <3>2. k \in 1..k
      BY <3>1
    <3>3. (1..k) \ {k} = 1..(k - 1)
      <4>1. ASSUME NEW i PROVE i \in (1..k) \ {k} <=> i \in 1..(k - 1)
        BY <3>1
      <4> QED BY <4>1
    <3>4. 1..k \in SUBSET (1..n) /\ 1..k # {}
      <4>1. \A i \in 1..k : i \in 1..n
        BY <1>1, <3>1
      <4> QED BY <3>2, <4>1
    <3> QED BY <1>1, <3>1, <3>3, <3>4
  <2>2. Max(1..k) = k
    BY <1>1, MaxOf
  <2>3. iter[1..k] = Body(base, s, iter, 1..k)
    BY <1>3, <2>1 DEF IsIter
  <2> QED BY <2>1, <2>2, <2>3 DEF Body
<1>6. f[n] = iter[1..n]
  BY <1>1
<1> HIDE DEF f
<1>7. Steps(base, s, f)
  BY <1>4, <1>5 DEF Steps
<1> QED
  BY <1>2, <1>6, <1>7

Agree(s, t, n) ==
  /\ n \in 0..Len(s) /\ n \in 0..Len(t)
  /\ \A k \in 1..n : s[k] = t[k]

(* Two sequences that agree so far are folded so far to the same value.    *)
LEMMA StepsUnique ==
  ASSUME NEW base, NEW T, NEW s \in Seq(T), NEW t \in Seq(T), NEW f, NEW g, NEW n \in Nat,
         Steps(base, s, f), Steps(base, t, g),
         Agree(s, t, n)
  PROVE  f[n] = g[n]
<1> DEFINE S == {m \in Nat : m <= n => f[m] = g[m]}
<1>1. 0 \in S
  BY DEF Steps
<1>2. ASSUME NEW m \in S PROVE m + 1 \in S
  <2> SUFFICES ASSUME m + 1 <= n PROVE f[m + 1] = g[m + 1]
    OBVIOUS
  <2>1. m \in Nat /\ m + 1 \in 1..n /\ m + 1 \in 1..Len(s) /\ m + 1 \in 1..Len(t) /\ (m + 1) - 1 = m
    BY DEF Agree
  <2>2. f[m] = g[m] /\ s[m + 1] = t[m + 1]
    BY <2>1 DEF Agree
  <2> QED BY <2>1, <2>2 DEF Steps
<1>3. S = Nat
  <2> HIDE DEF S
  <2>1. S \in SUBSET Nat
    BY DEF S
  <2> QED BY <1>1, <1>2, <2>1, Induction
<1> QED
  BY <1>3

(* The values that a fold is made of: none, one more, two parts.           *)
THEOREM FoldEmpty ==
  ASSUME NEW base
  PROVE  Fold(base, <<>>) = base
<1>1. <<>> \in Seq({}) /\ Len(<<>>) = 0
  OBVIOUS
<1> QED
  BY <1>1, FoldSteps, ZenonT(60) DEF Steps

(* Folding a concatenation is folding its first part and going on with its *)
(* second: a parser that reads an answer can be followed part by part.     *)
THEOREM FoldConcat ==
  ASSUME NEW base, NEW T, NEW s \in Seq(T), NEW t \in Seq(T)
  PROVE  Fold(base, s \o t) = Fold(Fold(base, s), t)
<1>1. /\ s \o t \in Seq(T) /\ Len(s) \in Nat /\ Len(t) \in Nat /\ Len(s \o t) = Len(s) + Len(t)
      /\ \A k \in 1..Len(s) : (s \o t)[k] = s[k]
      /\ \A k \in 1..Len(t) : (s \o t)[Len(s) + k] = t[k]
  OBVIOUS
<1>2. PICK f : Steps(base, s, f) /\ Fold(base, s) = f[Len(s)]
  BY FoldSteps
<1>3. PICK g : Steps(base, s \o t, g) /\ Fold(base, s \o t) = g[Len(s) + Len(t)]
  BY <1>1, FoldSteps, ZenonT(60)
<1>4. g[Len(s)] = f[Len(s)]
  <2> DEFINE st == s \o t
  <2>1. Len(s) \in Nat /\ st \in Seq(T) /\ Agree(s, st, Len(s))
    BY <1>1 DEF Agree
  <2>2. Steps(base, s, f) /\ Steps(base, st, g)
    BY <1>2, <1>3
  <2> HIDE DEF st
  <2>3. f[Len(s)] = g[Len(s)]
    BY <2>1, <2>2, StepsUnique
  <2> QED BY <2>3
<1>5. PICK h : Steps(f[Len(s)], t, h) /\ Fold(f[Len(s)], t) = h[Len(t)]
  BY FoldSteps
<1> DEFINE e == [k \in 0..Len(t) |-> g[Len(s) + k]]
<1>6. Steps(f[Len(s)], t, e)
  <2>1. e[0] = f[Len(s)]
    BY <1>1, <1>4
  <2>2. ASSUME NEW k \in 1..Len(t) PROVE e[k] = Op(e[k - 1], t[k])
    <3>1. /\ k \in 0..Len(t) /\ k - 1 \in 0..Len(t) /\ Len(s) + k \in 1..Len(s \o t)
          /\ (Len(s) + k) - 1 = Len(s) + (k - 1)
      BY <1>1
    <3>2. g[Len(s) + k] = Op(g[Len(s) + (k - 1)], (s \o t)[Len(s) + k])
      BY <1>3, <3>1 DEF Steps
    <3> QED BY <1>1, <3>1, <3>2
  <2> QED BY <2>1, <2>2 DEF Steps
<1>7. e[Len(t)] = h[Len(t)]
  <2>1. Len(t) \in Nat /\ Agree(t, t, Len(t))
    BY <1>1 DEF Agree
  <2> HIDE DEF e
  <2> QED BY <1>5, <1>6, <2>1, StepsUnique
<1> QED
  BY <1>1, <1>2, <1>3, <1>5, <1>7

(* Folding one element is one application of the operator.                 *)
THEOREM FoldOne ==
  ASSUME NEW base, NEW e
  PROVE  Fold(base, <<e>>) = Op(base, e)
<1>1. <<e>> \in Seq({e}) /\ Len(<<e>>) = 1 /\ <<e>>[1] = e
  OBVIOUS
<1>2. PICK f : Steps(base, <<e>>, f) /\ Fold(base, <<e>>) = f[1]
  BY <1>1, FoldSteps
<1>3. f[1] = Op(f[1 - 1], <<e>>[1])
  BY <1>1, <1>2 DEF Steps
<1> QED
  BY <1>1, <1>2, <1>3 DEF Steps

(* Folding a sequence with one more element is one more application of the *)
(* operator.                                                               *)
THEOREM FoldAppend ==
  ASSUME NEW base, NEW T, NEW s \in Seq(T), NEW e \in T
  PROVE  Fold(base, Append(s, e)) = Op(Fold(base, s), e)
<1>1. Append(s, e) = s \o <<e>> /\ <<e>> \in Seq(T)
  OBVIOUS
<1>2. ASSUME NEW t \in Seq(T) PROVE Fold(base, s \o t) = Fold(Fold(base, s), t)
  BY FoldConcat
<1> QED
  BY <1>1, <1>2, FoldOne

(* What every element preserves holds of the fold.                         *)
THEOREM FoldInvariant ==
  ASSUME NEW I, NEW base \in I, NEW T, NEW s \in Seq(T), \A x \in I, e \in T : Op(x, e) \in I
  PROVE  Fold(base, s) \in I
<1>1. PICK f : Steps(base, s, f) /\ Fold(base, s) = f[Len(s)]
  BY FoldSteps
<1> DEFINE S == {m \in Nat : m <= Len(s) => f[m] \in I}
<1>2. 0 \in S
  BY <1>1 DEF Steps
<1>3. ASSUME NEW m \in S PROVE m + 1 \in S
  <2> SUFFICES ASSUME m + 1 <= Len(s) PROVE f[m + 1] \in I
    OBVIOUS
  <2>1. m \in Nat /\ m + 1 \in 1..Len(s) /\ (m + 1) - 1 = m /\ f[m] \in I /\ s[m + 1] \in T
    OBVIOUS
  <2>2. f[m + 1] = Op(f[m], s[m + 1])
    BY <1>1, <2>1 DEF Steps
  <2> QED BY <2>1, <2>2
<1>4. S = Nat
  <2> HIDE DEF S
  <2>1. S \in SUBSET Nat
    BY DEF S
  <2> QED BY <1>2, <1>3, <2>1, Induction
<1> QED
  BY <1>1, <1>4

(* An operator that ignores the elements: only their number matters.       *)
THEOREM FoldIgnores ==
  ASSUME NEW base, NEW T, NEW s \in Seq(T), NEW t \in Seq(T), Len(s) = Len(t),
         \A x, d, e : Op(x, d) = Op(x, e)
  PROVE  Fold(base, s) = Fold(base, t)
<1>1. PICK f : Steps(base, s, f) /\ Fold(base, s) = f[Len(s)]
  BY FoldSteps
<1>2. PICK g : Steps(base, t, g) /\ Fold(base, t) = g[Len(t)]
  BY FoldSteps
<1>3. Steps(base, s, g)
  BY <1>2 DEF Steps
<1>4. Len(s) \in Nat /\ Agree(s, s, Len(s))
  BY DEF Agree
<1>5. f[Len(s)] = g[Len(s)]
  BY <1>1, <1>3, <1>4, StepsUnique
<1> QED
  BY <1>1, <1>2, <1>5

-----------------------------------------------------------------------------
(* FlattenSeq puts one sequence after the other.                           *)
FlattenBody(ss, g, i) == IF i = 1 THEN ss[i] ELSE g[i - 1] \o ss[i]

IsFlatten(ss, n, g) == g = [i \in 1..n |-> FlattenBody(ss, g, i)]

(* The recursive function that FlattenSeq picks exists, at every length.   *)
LEMMA FlattenExists ==
  ASSUME NEW ss, NEW n \in Nat
  PROVE  \E g : IsFlatten(ss, n, g)
<1> DEFINE S == {m \in Nat : \E g : IsFlatten(ss, m, g)}
<1>1. 0 \in S
  <2> DEFINE g == [i \in 1..0 |-> ss]
  <2>1. IsFlatten(ss, 0, g)
    BY DEF IsFlatten
  <2> QED BY <2>1
<1>2. ASSUME NEW m \in S PROVE m + 1 \in S
  <2>1. PICK h : IsFlatten(ss, m, h)
    OBVIOUS
  <2> DEFINE g == [i \in 1..(m + 1) |-> IF i = m + 1 THEN FlattenBody(ss, h, i) ELSE h[i]]
  <2>2. ASSUME NEW i \in 1..(m + 1) PROVE g[i] = FlattenBody(ss, g, i)
    <3>1. ASSUME i # 1 PROVE g[i - 1] = h[i - 1]
      <4>1. i - 1 \in 1..(m + 1) /\ i - 1 # m + 1
        BY <3>1
      <4> QED BY <4>1
    <3>2. FlattenBody(ss, g, i) = FlattenBody(ss, h, i)
      <4> HIDE DEF g
      <4> QED BY <3>1 DEF FlattenBody
    <3>3. CASE i = m + 1
      BY <3>2, <3>3
    <3>4. CASE i # m + 1
      <4>1. i \in 1..m /\ g[i] = h[i]
        BY <3>4
      <4> QED BY <2>1, <3>2, <4>1 DEF IsFlatten
    <3> QED BY <3>3, <3>4
  <2>3. IsFlatten(ss, m + 1, g)
    BY <2>2 DEF IsFlatten
  <2> HIDE DEF g
  <2> QED BY <2>3
<1>3. S = Nat
  <2> HIDE DEF S
  <2>1. S \in SUBSET Nat
    BY DEF S
  <2> QED BY <1>1, <1>2, <2>1, Induction
<1> QED
  BY <1>3

Flattens(ss, g) ==
  /\ g[1] = ss[1]
  /\ \A k \in 2..Len(ss) : g[k] = g[k - 1] \o ss[k]
  /\ FlattenSeq(ss) = g[Len(ss)]

(* FlattenSeq appends the sequences one after the other.                   *)
LEMMA FlattenSteps ==
  ASSUME NEW ss, Len(ss) \in Nat \ {0}
  PROVE  \E g : Flattens(ss, g)
<1> DEFINE n == Len(ss)
           flatten == CHOOSE g : g = [i \in 1..n |-> IF i = 1 THEN ss[i] ELSE g[i - 1] \o ss[i]]
<1>1. n \in Nat \ {0}
  OBVIOUS
<1> HIDE DEF n
<1>2. FlattenSeq(ss) = flatten[n]
  BY <1>1 DEF FlattenSeq, n
<1>3. IsFlatten(ss, n, flatten)
  <2>1. \E g : g = [i \in 1..n |-> IF i = 1 THEN ss[i] ELSE g[i - 1] \o ss[i]]
    <3>1. \E g : IsFlatten(ss, n, g)
      BY <1>1, FlattenExists
    <3> QED BY <3>1 DEF IsFlatten, FlattenBody
  <2>2. flatten = [i \in 1..n |-> IF i = 1 THEN ss[i] ELSE flatten[i - 1] \o ss[i]]
    BY <2>1, Zenon
  <2> HIDE DEF flatten
  <2> QED BY <2>2 DEF IsFlatten, FlattenBody
<1> HIDE DEF flatten
<1>4. ASSUME NEW k \in 1..n PROVE flatten[k] = FlattenBody(ss, flatten, k)
  BY <1>3 DEF IsFlatten
<1>5. flatten[1] = ss[1] /\ \A k \in 2..n : flatten[k] = flatten[k - 1] \o ss[k]
  <2>1. 1 \in 1..n
    BY <1>1
  <2>2. ASSUME NEW k \in 2..n PROVE k \in 1..n /\ k # 1
    BY <1>1
  <2> QED BY <1>4, <2>1, <2>2 DEF FlattenBody
<1>6. Flattens(ss, flatten)
  BY <1>2, <1>5 DEF n, Flattens
<1> QED
  BY <1>6

(* Flattening sequences over a set gives a sequence over that set: the     *)
(* tokens of the parts of an answer are the tokens of the answer.          *)
THEOREM FlattenSequence ==
  ASSUME NEW T, NEW ss \in Seq(Seq(T))
  PROVE  FlattenSeq(ss) \in Seq(T)
<1>1. CASE ss = <<>>
  <2>1. Len(ss) = 0 /\ ss \in Seq(T)
    BY <1>1
  <2> QED BY <2>1 DEF FlattenSeq
<1>2. CASE ss # <<>>
  <2>0. PICK g : Flattens(ss, g)
    <3>1. Len(ss) \in Nat \ {0}
      BY <1>2
    <3> QED BY <3>1, FlattenSteps
  <2>1. /\ g[1] = ss[1]
        /\ \A k \in 2..Len(ss) : g[k] = g[k - 1] \o ss[k]
        /\ FlattenSeq(ss) = g[Len(ss)]
    BY <2>0 DEF Flattens
  <2> DEFINE S == {m \in Nat : m + 1 <= Len(ss) => g[m + 1] \in Seq(T)}
  <2>2. 0 \in S
    <3>1. Len(ss) >= 1 => ss[1] \in Seq(T)
      OBVIOUS
    <3> QED BY <2>1, <3>1
  <2>3. ASSUME NEW m \in S PROVE m + 1 \in S
    <3> SUFFICES ASSUME (m + 1) + 1 <= Len(ss) PROVE g[(m + 1) + 1] \in Seq(T)
      OBVIOUS
    <3>1. /\ m \in Nat /\ (m + 1) + 1 \in 2..Len(ss) /\ ((m + 1) + 1) - 1 = m + 1
          /\ g[m + 1] \in Seq(T) /\ ss[(m + 1) + 1] \in Seq(T)
      OBVIOUS
    <3>2. g[(m + 1) + 1] = g[m + 1] \o ss[(m + 1) + 1]
      BY <2>1, <3>1
    <3> QED BY <3>1, <3>2
  <2>4. S = Nat
    <3> HIDE DEF S
    <3>1. S \in SUBSET Nat
      BY DEF S
    <3> QED BY <2>2, <2>3, <3>1, Induction
  <2>5. Len(ss) - 1 \in Nat /\ (Len(ss) - 1) + 1 = Len(ss) /\ Len(ss) <= Len(ss)
    BY <1>2
  <2>6. Len(ss) - 1 \in S
    <3> HIDE DEF S
    <3> QED BY <2>4, <2>5
  <2> QED BY <2>1, <2>5, <2>6
<1> QED
  BY <1>1, <1>2

(* A fold over parts that are put together: what holds after each of them. *)
THEOREM FoldFlatten ==
  ASSUME NEW T, NEW ss \in Seq(Seq(T)), NEW base, NEW I, base \in I[0],
         \A k \in 1..Len(ss) : \A x \in I[k - 1] : Fold(x, ss[k]) \in I[k]
  PROVE  Fold(base, FlattenSeq(ss)) \in I[Len(ss)]
<1>1. CASE ss = <<>>
  BY <1>1, FoldEmpty DEF FlattenSeq
<1>2. CASE ss # <<>>
  <2>0. PICK g : Flattens(ss, g)
    <3>1. Len(ss) \in Nat \ {0}
      BY <1>2
    <3> QED BY <3>1, FlattenSteps
  <2>1. /\ g[1] = ss[1]
        /\ \A k \in 2..Len(ss) : g[k] = g[k - 1] \o ss[k]
        /\ FlattenSeq(ss) = g[Len(ss)]
    BY <2>0 DEF Flattens
  <2> DEFINE S == {m \in Nat : m + 1 <= Len(ss) => /\ g[m + 1] \in Seq(T)
                                                  /\ Fold(base, g[m + 1]) \in I[m + 1]}
  <2>2. 0 \in S
    <3>1. Len(ss) >= 1 => ss[1] \in Seq(T) /\ 1 \in 1..Len(ss) /\ 1 - 1 = 0
      OBVIOUS
    <3>2. Len(ss) >= 1 => Fold(base, ss[1]) \in I[1]
      BY <3>1
    <3> QED BY <2>1, <3>1, <3>2
  <2>3. ASSUME NEW m \in S PROVE m + 1 \in S
    <3> DEFINE k == (m + 1) + 1
    <3> SUFFICES ASSUME k <= Len(ss) PROVE g[k] \in Seq(T) /\ Fold(base, g[k]) \in I[k]
      OBVIOUS
    <3>1. /\ m \in Nat /\ k \in 2..Len(ss) /\ k \in 1..Len(ss) /\ k - 1 = m + 1
          /\ g[m + 1] \in Seq(T) /\ Fold(base, g[m + 1]) \in I[m + 1]
          /\ ss[k] \in Seq(T)
      OBVIOUS
    <3> HIDE DEF k
    <3>2. g[k] = g[m + 1] \o ss[k]
      BY <2>1, <3>1
    <3>3. g[k] \in Seq(T)
      BY <3>1, <3>2
    <3>4. Fold(base, g[k]) = Fold(Fold(base, g[m + 1]), ss[k])
      BY <3>1, <3>2, FoldConcat
    <3>5. Fold(Fold(base, g[m + 1]), ss[k]) \in I[k]
      BY <3>1
    <3> QED BY <3>3, <3>4, <3>5
  <2>4. S = Nat
    <3> HIDE DEF S
    <3>1. S \in SUBSET Nat
      BY DEF S
    <3> QED BY <2>2, <2>3, <3>1, Induction
  <2>5. Len(ss) - 1 \in Nat /\ (Len(ss) - 1) + 1 = Len(ss) /\ Len(ss) <= Len(ss)
    BY <1>2
  <2>6. Len(ss) - 1 \in S
    <3> HIDE DEF S
    <3> QED BY <2>4, <2>5
  <2> QED BY <2>1, <2>5, <2>6
<1> QED
  BY <1>1, <1>2

(* Sequences that are put together: what holds after each of them.         *)
THEOREM FlattenInvariant ==
  ASSUME NEW T, NEW ss \in Seq(Seq(T)), NEW I, <<>> \in I[0],
         \A k \in 1..Len(ss) : \A x \in I[k - 1] \cap Seq(T) : x \o ss[k] \in I[k]
  PROVE  FlattenSeq(ss) \in I[Len(ss)]
<1>1. CASE ss = <<>>
  BY <1>1 DEF FlattenSeq
<1>2. CASE ss # <<>>
  <2>0. PICK g : Flattens(ss, g)
    <3>1. Len(ss) \in Nat \ {0}
      BY <1>2
    <3> QED BY <3>1, FlattenSteps
  <2>1. /\ g[1] = ss[1]
        /\ \A k \in 2..Len(ss) : g[k] = g[k - 1] \o ss[k]
        /\ FlattenSeq(ss) = g[Len(ss)]
    BY <2>0 DEF Flattens
  <2> DEFINE S == {m \in Nat : m + 1 <= Len(ss) => g[m + 1] \in Seq(T) /\ g[m + 1] \in I[m + 1]}
  <2>2. 0 \in S
    <3>1. Len(ss) >= 1 => ss[1] \in Seq(T) /\ 1 \in 1..Len(ss) /\ 1 - 1 = 0 /\ <<>> \o ss[1] = ss[1]
      OBVIOUS
    <3>2. Len(ss) >= 1 => <<>> \o ss[1] \in I[1]
      <4>1. <<>> \in I[0] \cap Seq(T)
        OBVIOUS
      <4> QED BY <3>1, <4>1
    <3> QED BY <2>1, <3>1, <3>2
  <2>3. ASSUME NEW m \in S PROVE m + 1 \in S
    <3> DEFINE k == (m + 1) + 1
    <3> SUFFICES ASSUME k <= Len(ss) PROVE g[k] \in Seq(T) /\ g[k] \in I[k]
      OBVIOUS
    <3>1. /\ m \in Nat /\ k \in 2..Len(ss) /\ k \in 1..Len(ss) /\ k - 1 = m + 1
          /\ g[m + 1] \in Seq(T) /\ g[m + 1] \in I[m + 1]
          /\ ss[k] \in Seq(T)
      OBVIOUS
    <3> HIDE DEF k
    <3>2. g[k] = g[m + 1] \o ss[k]
      BY <2>1, <3>1
    <3>3. g[k] \in Seq(T)
      BY <3>1, <3>2
    <3>4. g[m + 1] \o ss[k] \in I[k]
      BY <3>1
    <3> QED BY <3>2, <3>3, <3>4
  <2>4. S = Nat
    <3> HIDE DEF S
    <3>1. S \in SUBSET Nat
      BY DEF S
    <3> QED BY <2>2, <2>3, <3>1, Induction
  <2>5. Len(ss) - 1 \in Nat /\ (Len(ss) - 1) + 1 = Len(ss) /\ Len(ss) <= Len(ss)
    BY <1>2
  <2>6. Len(ss) - 1 \in S
    <3> HIDE DEF S
    <3> QED BY <2>4, <2>5
  <2> QED BY <2>1, <2>5, <2>6
<1> QED
  BY <1>1, <1>2

=============================================================================
