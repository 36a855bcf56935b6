----------------------------- MODULE FoldLemmas -----------------------------
(***************************************************************************)
(* What FoldLeft computes, for any operator: the base of an empty sequence,*)
(* one application more for one element more.  No prover instantiates a    *)
(* lemma over an operator, so the operator is a constant here, and modules *)
(* instantiate the module.  p is for what the operator of a fold depends   *)
(* on besides the accumulator and the element.                             *)
(***************************************************************************)
EXTENDS Integers, Sequences, SequencesExt, WellFoundedInduction, TLAPS

CONSTANT Op(_, _, _)

Fold(p, base, s) == FoldLeft(LAMBDA acc, e : Op(p, acc, e), base, s)

\* Induction over the numbers, with a set for the predicate.
LEMMA Induction ==
  ASSUME NEW S, 0 \in S, \A n \in Nat : n \in S => n + 1 \in S
  PROVE  \A n \in Nat : n \in S
<1> SUFFICES ASSUME NEW k \in Nat, k \notin S PROVE FALSE
  OBVIOUS
<1> DEFINE T == Nat \ S
           R == OpToRel(<, Nat)
<1>1. IsWellFoundedOn(R, Nat)
  BY NatLessThanWellFounded, Zenon
<1>2. PICK m \in T : \A n \in T : <<n, m>> \notin R
  <2>. HIDE DEF R
  <2>. QED
    BY <1>1, WFMin
<1>3. m # 0 /\ m - 1 \in Nat /\ m - 1 + 1 = m
  OBVIOUS
<1>4. <<m - 1, m>> \in R
  <2>1. m \in Nat /\ m - 1 < m
    BY <1>3
  <2>. QED
    BY <1>3, <2>1, Zenon DEF OpToRel
<1>. HIDE DEF R
<1>. QED
  BY <1>2, <1>3, <1>4

\* A nonempty sequence is one element more than a shorter one.
LEMMA LastElement ==
  ASSUME NEW X, NEW s \in Seq(X), NEW n \in Nat, Len(s) = n + 1
  PROVE  /\ SubSeq(s, 1, n) \in Seq(X) /\ Len(SubSeq(s, 1, n)) = n
         /\ s[n + 1] \in X
         /\ s = Append(SubSeq(s, 1, n), s[n + 1])
<1>1. SubSeq(s, 1, n) \in Seq(X) /\ Len(SubSeq(s, 1, n)) = n /\ s[n + 1] \in X
  OBVIOUS
<1>2. /\ Len(Append(SubSeq(s, 1, n), s[n + 1])) = Len(s)
      /\ \A i \in 1..Len(s) : Append(SubSeq(s, 1, n), s[n + 1])[i] = s[i]
  BY <1>1
<1>3. Append(SubSeq(s, 1, n), s[n + 1]) \in Seq(X)
  BY <1>1
<1>. QED
  BY <1>1, <1>2, <1>3

-----------------------------------------------------------------------------
\* The function FoldLeft chooses, on the sets of the first n positions.
Iterates(p, base, s, n, g) ==
  g = [S \in SUBSET (1..n) |->
         IF S = {} THEN base ELSE Op(p, g[S \ {Max(S)}], s[Max(S)])]

LEMMA MaxOf ==
  ASSUME NEW n \in Nat, NEW S \in SUBSET (1..n), S # {}
  PROVE  Max(S) \in S /\ (n \in S => Max(S) = n)
<1> DEFINE P == {k \in Nat : \A T \in SUBSET (1..k) : T # {} => \E x \in T : \A y \in T : x >= y}
<1>1. 0 \in P
  <2>1. \A T \in SUBSET (1..0) : T = {}
    OBVIOUS
  <2>. QED
    BY <2>1
<1>2. ASSUME NEW k \in Nat, k \in P PROVE k + 1 \in P
  <2> SUFFICES ASSUME NEW T \in SUBSET (1..k + 1), T # {} PROVE \E x \in T : \A y \in T : x >= y
    OBVIOUS
  <2>1. CASE k + 1 \in T
    BY <2>1
  <2>2. CASE k + 1 \notin T
    <3>1. T \in SUBSET (1..k)
      BY <2>2
    <3>. QED
      BY <1>2, <3>1
  <2>. QED
    BY <2>1, <2>2
<1>3. n \in P
  <2>. HIDE DEF P
  <2>. QED
    BY <1>1, <1>2, Induction
<1>4. \E x \in S : \A y \in S : x >= y
  BY <1>3
<1>5. Max(S) \in S /\ \A y \in S : Max(S) >= y
  BY <1>4 DEF Max
<1>. HIDE DEF P
<1>6. Max(S) \in 1..n /\ (n \in S => Max(S) >= n)
  BY <1>5
<1>. QED
  BY <1>5, <1>6

LEMMA IteratesExist ==
  ASSUME NEW p, NEW base, NEW s, NEW n \in Nat
  PROVE  \E g : Iterates(p, base, s, n, g)
<1> DEFINE P == {k \in Nat : \E g : Iterates(p, base, s, k, g)}
<1>1. 0 \in P
  <2>1. SUBSET (1..0) = {{}}
    OBVIOUS
  <2>2. Iterates(p, base, s, 0, [S \in {{}} |-> base])
    BY <2>1 DEF Iterates
  <2>. QED
    BY <2>2
<1>2. ASSUME NEW k \in Nat, k \in P PROVE k + 1 \in P
  <2>1. PICK g : Iterates(p, base, s, k, g)
    BY <1>2
  <2> DEFINE h == [S \in SUBSET (1..k + 1) |->
                     IF k + 1 \in S THEN Op(p, g[S \ {k + 1}], s[k + 1]) ELSE g[S]]
  <2>2. ASSUME NEW S \in SUBSET (1..k + 1)
        PROVE  h[S] = IF S = {} THEN base ELSE Op(p, h[S \ {Max(S)}], s[Max(S)])
    <3>1. CASE k + 1 \in S
      <4>1. Max(S) = k + 1 /\ S \ {k + 1} \in SUBSET (1..k)
        BY <3>1, MaxOf
      <4>2. h[S \ {k + 1}] = g[S \ {k + 1}]
        BY <4>1
      <4>. QED
        BY <3>1, <4>1, <4>2
    <3>2. CASE k + 1 \notin S
      <4>1. S \in SUBSET (1..k) /\ h[S] = g[S]
        BY <3>2
      <4>2. g[S] = IF S = {} THEN base ELSE Op(p, g[S \ {Max(S)}], s[Max(S)])
        BY <2>1, <4>1 DEF Iterates
      <4>3. h[S \ {Max(S)}] = g[S \ {Max(S)}]
        BY <3>2
      <4>. QED
        BY <4>1, <4>2, <4>3
    <3>. QED
      BY <3>1, <3>2
  <2>3. Iterates(p, base, s, k + 1, h)
    <3>1. h = [S \in SUBSET (1..k + 1) |-> h[S]]
      OBVIOUS
    <3>. HIDE DEF h
    <3>. QED
      BY <2>2, <3>1 DEF Iterates
  <2>. QED
    BY <2>3
<1>. HIDE DEF P
<1>3. n \in P
  BY <1>1, <1>2, Induction
<1>. QED
  BY <1>3 DEF P

\* Sequences that begin alike are folded alike.
LEMMA IteratesAgree ==
  ASSUME NEW p, NEW base, NEW s, NEW r, NEW n \in Nat, NEW m \in Nat, n <= m,
         \A i \in 1..n : s[i] = r[i],
         NEW g, NEW h, Iterates(p, base, s, n, g), Iterates(p, base, r, m, h)
  PROVE  g[1..n] = h[1..n]
<1> DEFINE P == {k \in Nat : k <= n => \A S \in SUBSET (1..k) : g[S] = h[S]}
<1>0. /\ \A S \in SUBSET (1..n) :
           g[S] = IF S = {} THEN base ELSE Op(p, g[S \ {Max(S)}], s[Max(S)])
      /\ \A S \in SUBSET (1..m) :
           h[S] = IF S = {} THEN base ELSE Op(p, h[S \ {Max(S)}], r[Max(S)])
  BY DEF Iterates
<1>1. 0 \in P
  <2>1. SUBSET (1..0) = {{}} /\ {} \in SUBSET (1..n) /\ {} \in SUBSET (1..m)
    OBVIOUS
  <2>. QED
    BY <1>0, <2>1
<1>2. ASSUME NEW k \in Nat, k \in P PROVE k + 1 \in P
  <2> SUFFICES ASSUME k + 1 <= n, NEW S \in SUBSET (1..k + 1) PROVE g[S] = h[S]
    OBVIOUS
  <2>1. S \in SUBSET (1..n) /\ S \in SUBSET (1..m)
    OBVIOUS
  <2>2. CASE k + 1 \in S
    <3>1. Max(S) = k + 1 /\ S \ {k + 1} \in SUBSET (1..k) /\ S # {}
      BY <2>2, MaxOf
    <3>2. g[S \ {k + 1}] = h[S \ {k + 1}] /\ s[k + 1] = r[k + 1]
      BY <1>2, <3>1
    <3>3. g[S] = Op(p, g[S \ {k + 1}], s[k + 1])
      BY <1>0, <2>1, <3>1
    <3>4. h[S] = Op(p, h[S \ {k + 1}], r[k + 1])
      BY <1>0, <2>1, <3>1
    <3>. QED
      BY <3>2, <3>3, <3>4
  <2>3. CASE k + 1 \notin S
    <3>1. S \in SUBSET (1..k)
      BY <2>3
    <3>. QED
      BY <1>2, <3>1
  <2>. QED
    BY <2>2, <2>3
<1>. HIDE DEF P
<1>3. n \in P
  BY <1>1, <1>2, Induction
<1>. QED
  BY <1>3 DEF P

LEMMA FoldIterates ==
  ASSUME NEW p, NEW base, NEW X, NEW s \in Seq(X)
  PROVE  \E g : Iterates(p, base, s, Len(s), g) /\ Fold(p, base, s) = g[1..Len(s)]
<1>1. Len(s) \in Nat /\ DOMAIN s = 1..Len(s)
  OBVIOUS
<1>2. \E g : Iterates(p, base, s, Len(s), g)
  BY <1>1, IteratesExist
<1>3. Fold(p, base, s) = (CHOOSE g : Iterates(p, base, s, Len(s), g))[1..Len(s)]
  BY <1>1 DEF Fold, FoldLeft, MapThenFoldSet, Iterates
<1>. QED
  BY <1>2, <1>3

-----------------------------------------------------------------------------
\* FoldLeft of an empty sequence.
THEOREM FoldEmpty ==
  ASSUME NEW p, NEW base
  PROVE  Fold(p, base, <<>>) = base
<1>1. <<>> \in Seq({}) /\ Len(<<>>) = 0 /\ 1..0 = {}
  OBVIOUS
<1>2. PICK g : Iterates(p, base, <<>>, 0, g) /\ Fold(p, base, <<>>) = g[{}]
  BY <1>1, FoldIterates
<1>. QED
  BY <1>2 DEF Iterates

\* FoldLeft of a sequence with one element more.
THEOREM FoldAppend ==
  ASSUME NEW p, NEW base, NEW X, NEW s \in Seq(X), NEW e \in X
  PROVE  Fold(p, base, Append(s, e)) = Op(p, Fold(p, base, s), e)
<1> DEFINE r == Append(s, e)
           n == Len(s)
<1>1. /\ r \in Seq(X) /\ n \in Nat /\ Len(r) = n + 1 /\ r[n + 1] = e
      /\ \A i \in 1..n : s[i] = r[i]
  OBVIOUS
<1>2. PICK g : Iterates(p, base, s, n, g) /\ Fold(p, base, s) = g[1..n]
  BY FoldIterates
<1>. HIDE DEF r, n
<1>3. PICK h : Iterates(p, base, r, n + 1, h) /\ Fold(p, base, r) = h[1..n + 1]
  BY <1>1, FoldIterates
<1>4. g[1..n] = h[1..n]
  BY <1>1, <1>2, <1>3, IteratesAgree
<1>5. /\ 1..n + 1 \in SUBSET (1..n + 1) /\ 1..n + 1 # {}
      /\ Max(1..n + 1) = n + 1 /\ (1..n + 1) \ {n + 1} = 1..n
  <2>1. n + 1 \in Nat /\ n + 1 \in 1..n + 1 /\ (1..n + 1) \ {n + 1} = 1..n
    BY <1>1
  <2>. QED
    BY <2>1, MaxOf
<1>6. h[1..n + 1] = Op(p, h[1..n], r[n + 1])
  BY <1>3, <1>5 DEF Iterates
<1>. QED
  BY <1>1, <1>2, <1>3, <1>4, <1>6 DEF r

\* What every application keeps, the fold has.
THEOREM FoldInvariant ==
  ASSUME NEW p, NEW S, NEW base \in S, NEW X, NEW s \in Seq(X),
         \A acc \in S, e \in X : Op(p, acc, e) \in S
  PROVE  Fold(p, base, s) \in S
<1> DEFINE P == {n \in Nat : \A r \in Seq(X) : Len(r) = n => Fold(p, base, r) \in S}
<1>1. 0 \in P
  <2> SUFFICES ASSUME NEW r \in Seq(X), Len(r) = 0 PROVE Fold(p, base, r) \in S
    OBVIOUS
  <2>1. r = <<>>
    OBVIOUS
  <2>2. Fold(p, base, r) = base
    BY <2>1, FoldEmpty
  <2>. QED
    BY <2>2
<1>2. ASSUME NEW n \in Nat, n \in P PROVE n + 1 \in P
  <2> SUFFICES ASSUME NEW r \in Seq(X), Len(r) = n + 1 PROVE Fold(p, base, r) \in S
    OBVIOUS
  <2> DEFINE q == SubSeq(r, 1, n)
             e == r[n + 1]
  <2>1. q \in Seq(X) /\ Len(q) = n /\ e \in X /\ r = Append(q, e)
    BY LastElement
  <2>2. Fold(p, base, q) \in S
    BY <1>2, <2>1
  <2>. HIDE DEF q, e
  <2>3. Fold(p, base, Append(q, e)) = Op(p, Fold(p, base, q), e)
    BY <2>1, FoldAppend
  <2>. QED
    BY <2>1, <2>2, <2>3
<1>3. Len(s) \in P
  <2>. HIDE DEF P
  <2>. QED
    BY <1>1, <1>2, Induction
<1>. QED
  BY <1>3
=============================================================================
