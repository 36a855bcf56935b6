--------------------------- MODULE TableSyncProofs ---------------------------
(***************************************************************************)
(* What the replay does to the database and to the checkpoint, for any     *)
(* chain, any tables and any number of tasks.                              *)
(*                                                                         *)
(* The checkpoint never goes back; when the ledger survives and blocks are *)
(* handed over one at a time and only after start(), no block at or below  *)
(* it was left out.  Under the same conditions the tables that exist are   *)
(* those of the chain once a replay is over, whatever crashes there were.  *)
(* A node that is not disturbed implements SerialReplay, rows included.    *)
(*                                                                         *)
(* The last part is about Submission, where the blocks come from requests: *)
(* whatever crashes and fails, what is accepted is known as long as the    *)
(* process lives; pending or on the chain once, and final once committed,  *)
(* when nothing else that was accepted has its hash; and the pipeline does *)
(* to the node nothing that TableSync does not say.                        *)
(***************************************************************************)
EXTENDS TableSyncRefinement, Submission, FiniteSetTheorems, TLAPS

-----------------------------------------------------------------------------
(* Folds and sequences, for any transactions.                              *)

ReplayOp(p, db, tx) == Executed(db, tx)

ReplayFold == INSTANCE FoldLemmas WITH Op <- ReplayOp

\* The database of no transactions, and of one transaction more.
LEMMA ReplayedFold ==
  ASSUME NEW s
  PROVE  Replayed(s) = ReplayFold!Fold(0, EmptyDatabase, s)
BY DEF Replayed, ReplayOp, ReplayFold!Fold, FoldLeft, ReplayFold!FoldLeft,
       MapThenFoldSet, ReplayFold!MapThenFoldSet, Max, ReplayFold!Max

LEMMA ReplayedEmpty == Replayed(<<>>) = EmptyDatabase
BY ReplayedFold, ReplayFold!FoldEmpty

LEMMA ReplayedAppend ==
  ASSUME NEW X, NEW s \in Seq(X), NEW tx \in X
  PROVE  Replayed(Append(s, tx)) = Executed(Replayed(s), tx)
<1>1. ReplayFold!Fold(0, EmptyDatabase, Append(s, tx))
        = ReplayOp(0, ReplayFold!Fold(0, EmptyDatabase, s), tx)
  BY ReplayFold!FoldAppend
<1>. QED
  BY <1>1, ReplayedFold DEF ReplayOp

SelectOp(S, kept, e) == IF e \in S THEN Append(kept, e) ELSE kept

SelectFold == INSTANCE FoldLemmas WITH Op <- SelectOp

LEMMA SelectionFold ==
  ASSUME NEW s, NEW S
  PROVE  Selection(s, S) = SelectFold!Fold(S, <<>>, s)
BY DEF Selection, SelectOp, SelectFold!Fold, FoldLeft, SelectFold!FoldLeft,
       MapThenFoldSet, SelectFold!MapThenFoldSet, Max, SelectFold!Max

LEMMA SelectionEmpty == \A S : Selection(<<>>, S) = <<>>
BY SelectionFold, SelectFold!FoldEmpty

LEMMA SelectionAppend ==
  ASSUME NEW S, NEW X, NEW s \in Seq(X), NEW e \in X
  PROVE  Selection(Append(s, e), S)
           = IF e \in S THEN Append(Selection(s, S), e) ELSE Selection(s, S)
<1>1. SelectFold!Fold(S, <<>>, Append(s, e)) = SelectOp(S, SelectFold!Fold(S, <<>>, s), e)
  BY SelectFold!FoldAppend
<1>. QED
  BY <1>1, SelectionFold DEF SelectOp

\* No element occurs twice.
Distinct(s) == \A i, j \in 1..Len(s) : s[i] = s[j] => i = j

LEMMA ToSetAppend ==
  ASSUME NEW X, NEW s \in Seq(X), NEW e \in X
  PROVE  ToSet(Append(s, e)) = ToSet(s) \cup {e}
<1> DEFINE r == Append(s, e)
<1>1. /\ DOMAIN r = 1..Len(s) + 1 /\ DOMAIN s = 1..Len(s)
      /\ \A i \in 1..Len(s) : r[i] = s[i]
      /\ r[Len(s) + 1] = e /\ Len(s) \in Nat
  OBVIOUS
<1>. HIDE DEF r
<1>2. \A x : (\E i \in DOMAIN r : r[i] = x) <=> (\E i \in DOMAIN s : s[i] = x) \/ x = e
  BY <1>1
<1>3. \A x : x \in ToSet(r) <=> x \in ToSet(s) \cup {e}
  BY <1>2 DEF ToSet
<1>. QED
  BY <1>3 DEF r

\* A selection has the elements it should have, none of them more often.
LEMMA SelectionOf ==
  ASSUME NEW X, NEW s \in Seq(X), NEW S
  PROVE  /\ Selection(s, S) \in Seq(X)
         /\ Len(Selection(s, S)) <= Len(s)
         /\ ToSet(Selection(s, S)) = ToSet(s) \cap S
         /\ Distinct(s) => Distinct(Selection(s, S))
<1> DEFINE Right(r) ==
             /\ Selection(r, S) \in Seq(X)
             /\ Len(Selection(r, S)) <= Len(r)
             /\ ToSet(Selection(r, S)) = ToSet(r) \cap S
             /\ Distinct(r) => Distinct(Selection(r, S))
           P == {n \in Nat : \A r \in Seq(X) : Len(r) = n => Right(r)}
<1>1. 0 \in P
  <2> SUFFICES ASSUME NEW r \in Seq(X), Len(r) = 0 PROVE Right(r)
    OBVIOUS
  <2>1. r = <<>>
    OBVIOUS
  <2>2. Selection(r, S) = r
    BY <2>1, SelectionEmpty
  <2>3. ToSet(r) = {}
    BY <2>1 DEF ToSet
  <2>. QED
    BY <2>2, <2>3
<1>2. ASSUME NEW n \in Nat, n \in P PROVE n + 1 \in P
  <2> SUFFICES ASSUME NEW r \in Seq(X), Len(r) = n + 1 PROVE Right(r)
    OBVIOUS
  <2> DEFINE q == SubSeq(r, 1, n)
             e == r[n + 1]
             k == Selection(q, S)
  <2>1. q \in Seq(X) /\ Len(q) = n /\ e \in X /\ r = Append(q, e)
    BY SelectFold!LastElement
  <2>2. k \in Seq(X) /\ Len(k) <= n /\ ToSet(k) = ToSet(q) \cap S /\ (Distinct(q) => Distinct(k))
    BY <1>2, <2>1
  <2>. HIDE DEF q, e
  <2>3. Selection(r, S) = IF e \in S THEN Append(k, e) ELSE k
    <3>1. Selection(Append(q, e), S) = IF e \in S THEN Append(Selection(q, S), e) ELSE Selection(q, S)
      BY <2>1, SelectionAppend
    <3>. QED
      BY <2>1, <3>1
  <2>. HIDE DEF k
  <2>4. ToSet(r) = ToSet(q) \cup {e} /\ ToSet(Append(k, e)) = ToSet(k) \cup {e}
    BY <2>1, <2>2, ToSetAppend
  <2>5. ASSUME Distinct(r) PROVE Distinct(q) /\ e \notin ToSet(q)
    BY <2>1, <2>5 DEF Distinct, ToSet
  <2>6. ASSUME Distinct(k), e \notin ToSet(k) PROVE Distinct(Append(k, e))
    BY <2>2, <2>6 DEF Distinct, ToSet
  <2>7. CASE e \in S
    <3>1. Selection(r, S) = Append(k, e)
      BY <2>3, <2>7
    <3>2. /\ Append(k, e) \in Seq(X) /\ Len(Append(k, e)) <= Len(r)
          /\ ToSet(Append(k, e)) = ToSet(r) \cap S
      BY <2>1, <2>2, <2>4, <2>7
    <3>3. Distinct(r) => Distinct(Append(k, e))
      BY <2>2, <2>5, <2>6
    <3>. QED
      BY <3>1, <3>2, <3>3
  <2>8. CASE e \notin S
    <3>1. Selection(r, S) = k
      BY <2>3, <2>8
    <3>. QED
      BY <2>1, <2>2, <2>4, <2>5, <2>8, <3>1
  <2>. QED
    BY <2>7, <2>8
<1>3. Len(s) \in P
  <2>. HIDE DEF P
  <2>. QED
    BY <1>1, <1>2, SelectFold!Induction
<1>. QED
  BY <1>3

\* FlattenSeq of one sequence more.
Joined(i, s, t) == IF i = 1 THEN t ELSE s \o t

Flattens(ss, n, f) == f = [i \in 1..n |-> Joined(i, f[i - 1], ss[i])]

LEMMA FlattensExists ==
  ASSUME NEW ss, NEW n \in Nat
  PROVE  \E f : Flattens(ss, n, f)
<1> DEFINE P == {k \in Nat : \E f : Flattens(ss, k, f)}
<1>1. 0 \in P
  <2>1. Flattens(ss, 0, [i \in {} |-> 0])
    BY DEF Flattens
  <2>. QED
    BY <2>1
<1>2. ASSUME NEW k \in Nat, k \in P PROVE k + 1 \in P
  <2>1. PICK f : Flattens(ss, k, f)
    BY <1>2
  <2> DEFINE g == [i \in 1..k + 1 |-> IF i <= k THEN f[i] ELSE Joined(i, f[i - 1], ss[i])]
  <2>2. ASSUME NEW i \in 1..k + 1
        PROVE  g[i] = Joined(i, g[i - 1], ss[i])
    <3>1. CASE i = 1
      BY <2>1, <3>1 DEF Flattens, Joined
    <3>2. CASE i # 1
      <4>1. i - 1 \in 1..k /\ g[i - 1] = f[i - 1]
        BY <3>2
      <4>2. i \in 1..k => f[i] = Joined(i, f[i - 1], ss[i])
        BY <2>1 DEF Flattens
      <4>. QED
        BY <4>1, <4>2
    <3>. QED
      BY <3>1, <3>2
  <2>3. g = [i \in 1..k + 1 |-> g[i]]
    OBVIOUS
  <2>. HIDE DEF g
  <2>4. Flattens(ss, k + 1, g)
    BY <2>2, <2>3 DEF Flattens
  <2>. QED
    BY <2>4
<1>. HIDE DEF P
<1>3. n \in P
  BY <1>1, <1>2, ReplayFold!Induction
<1>. QED
  BY <1>3 DEF P

LEMMA FlattensAgree ==
  ASSUME NEW ss, NEW rr, NEW n \in Nat, NEW m \in Nat, n <= m,
         \A i \in 1..n : ss[i] = rr[i],
         NEW f, NEW g, Flattens(ss, n, f), Flattens(rr, m, g)
  PROVE  n # 0 => f[n] = g[n]
<1> DEFINE P == {k \in Nat : k \in 1..n => f[k] = g[k]}
<1>0. /\ \A i \in 1..n : f[i] = Joined(i, f[i - 1], ss[i])
      /\ \A i \in 1..n : g[i] = Joined(i, g[i - 1], rr[i])
  <2>1. \A i \in 1..n : f[i] = Joined(i, f[i - 1], ss[i])
    BY DEF Flattens
  <2>2. \A i \in 1..m : g[i] = Joined(i, g[i - 1], rr[i])
    BY DEF Flattens
  <2>3. \A i \in 1..n : i \in 1..m
    OBVIOUS
  <2>. QED
    BY <2>1, <2>2, <2>3
<1>1. 0 \in P
  OBVIOUS
<1>2. ASSUME NEW k \in Nat, k \in P PROVE k + 1 \in P
  <2> SUFFICES ASSUME k + 1 \in 1..n PROVE f[k + 1] = g[k + 1]
    OBVIOUS
  <2>1. CASE k = 0
    BY <1>0, <2>1 DEF Joined
  <2>2. CASE k # 0
    <3>1. k \in 1..n /\ f[k] = g[k] /\ k + 1 # 1 /\ (k + 1) - 1 = k
      BY <1>2, <2>2
    <3>. QED
      BY <1>0, <3>1
  <2>. QED
    BY <2>1, <2>2
<1>. HIDE DEF P
<1>3. \A k \in Nat : k \in P
  BY <1>1, <1>2, ReplayFold!Induction
<1>. QED
  BY <1>3 DEF P

LEMMA FlattenChosen ==
  ASSUME NEW X, NEW ss \in Seq(X), Len(ss) # 0
  PROVE  \E f : Flattens(ss, Len(ss), f) /\ FlattenSeq(ss) = f[Len(ss)]
<1>1. FlattenSeq(ss) = (CHOOSE f : Flattens(ss, Len(ss), f))[Len(ss)]
  BY DEF FlattenSeq, Flattens, Joined
<1>2. Len(ss) \in Nat
  OBVIOUS
<1>3. \E f : Flattens(ss, Len(ss), f)
  BY <1>2, FlattensExists
<1>. QED
  BY <1>1, <1>3

LEMMA FlattenEmpty == FlattenSeq(<<>>) = <<>>
BY DEF FlattenSeq

LEMMA FlattenLonger ==
  ASSUME NEW X, NEW ss \in Seq(X), NEW rr \in Seq(X), NEW n \in Nat, n # 0,
         Len(ss) = n, Len(rr) = n + 1, \A i \in 1..n : ss[i] = rr[i]
  PROVE  FlattenSeq(rr) = FlattenSeq(ss) \o rr[n + 1]
<1>1. PICK m \in Nat : m = n + 1
  OBVIOUS
<1>2. PICK g : Flattens(rr, m, g) /\ FlattenSeq(rr) = g[m]
  BY <1>1, FlattenChosen
<1>3. PICK f : Flattens(ss, n, f) /\ FlattenSeq(ss) = f[n]
  BY FlattenChosen
<1>4. f[n] = g[n]
  BY <1>1, <1>2, <1>3, FlattensAgree
<1>5. m \in 1..m /\ m # 1 /\ m - 1 = n
  BY <1>1
<1>6. g[m] = Joined(m, g[m - 1], rr[m])
  BY <1>2, <1>5 DEF Flattens
<1>. QED
  BY <1>1, <1>2, <1>3, <1>4, <1>5, <1>6 DEF Joined

LEMMA FlattenAppend ==
  ASSUME NEW X, NEW ss \in Seq(Seq(X)), NEW s \in Seq(X)
  PROVE  FlattenSeq(Append(ss, s)) = FlattenSeq(ss) \o s
<1> DEFINE rr == Append(ss, s)
<1>1. /\ rr \in Seq(Seq(X)) /\ Len(ss) \in Nat /\ Len(rr) = Len(ss) + 1 /\ rr[Len(ss) + 1] = s
      /\ \A i \in 1..Len(ss) : ss[i] = rr[i]
  OBVIOUS
<1>. HIDE DEF rr
<1>2. CASE Len(ss) = 0
  <2>1. ss = <<>> /\ Len(rr) = 1
    BY <1>1, <1>2
  <2>2. PICK g : Flattens(rr, 1, g) /\ FlattenSeq(rr) = g[1]
    BY <1>1, <2>1, FlattenChosen
  <2>3. g[1] = rr[1]
    BY <2>2 DEF Flattens, Joined
  <2>. QED
    BY <1>1, <1>2, <2>1, <2>2, <2>3, FlattenEmpty DEF rr
<1>3. CASE Len(ss) # 0
  BY <1>1, <1>3, FlattenLonger DEF rr
<1>. QED
  BY <1>2, <1>3

LEMMA FlattenType ==
  ASSUME NEW X, NEW ss \in Seq(Seq(X))
  PROVE  FlattenSeq(ss) \in Seq(X)
<1> DEFINE P == {n \in Nat : \A rr \in Seq(Seq(X)) : Len(rr) = n => FlattenSeq(rr) \in Seq(X)}
<1>1. 0 \in P
  <2> SUFFICES ASSUME NEW rr \in Seq(Seq(X)), Len(rr) = 0 PROVE FlattenSeq(rr) \in Seq(X)
    OBVIOUS
  <2>1. rr = <<>>
    OBVIOUS
  <2>2. FlattenSeq(rr) = rr
    BY <2>1, FlattenEmpty
  <2>3. \A i \in 1..Len(rr) : rr[i] \in X
    OBVIOUS
  <2>. QED
    BY <2>2, <2>3
<1>2. ASSUME NEW n \in Nat, n \in P PROVE n + 1 \in P
  <2> SUFFICES ASSUME NEW rr \in Seq(Seq(X)), Len(rr) = n + 1 PROVE FlattenSeq(rr) \in Seq(X)
    OBVIOUS
  <2> DEFINE q == SubSeq(rr, 1, n)
             e == rr[n + 1]
  <2>1. q \in Seq(Seq(X)) /\ Len(q) = n /\ e \in Seq(X) /\ rr = Append(q, e)
    BY ReplayFold!LastElement
  <2>2. FlattenSeq(q) \in Seq(X)
    BY <1>2, <2>1
  <2>. HIDE DEF q, e
  <2>3. FlattenSeq(rr) = FlattenSeq(q) \o e
    BY <2>1, FlattenAppend
  <2>. QED
    BY <2>1, <2>2, <2>3
<1>3. Len(ss) \in P
  <2>. HIDE DEF P
  <2>. QED
    BY <1>1, <1>2, ReplayFold!Induction
<1>. QED
  BY <1>3

\* How many elements the first b sequences have.
Before(ss, b) == Len(FlattenSeq(SubSeq(ss, 1, b)))

LEMMA FlattenPrefix ==
  ASSUME NEW X, NEW ss \in Seq(Seq(X)), NEW b \in 0..Len(ss)
  PROVE  /\ Before(ss, b) \in Nat /\ Before(ss, b) <= Len(FlattenSeq(ss))
         /\ \A i \in 1..Before(ss, b) : FlattenSeq(SubSeq(ss, 1, b))[i] = FlattenSeq(ss)[i]
         /\ Before(ss, 0) = 0 /\ Before(ss, Len(ss)) = Len(FlattenSeq(ss))
<1> DEFINE Sub(n) == FlattenSeq(SubSeq(ss, 1, n))
           Same(n) == /\ Len(Sub(b)) <= Len(Sub(n))
                      /\ \A i \in 1..Len(Sub(b)) : Sub(b)[i] = Sub(n)[i]
           P == {n \in Nat : n \in b..Len(ss) => Same(n)}
<1>0. \A n \in 0..Len(ss) : SubSeq(ss, 1, n) \in Seq(Seq(X)) /\ Sub(n) \in Seq(X) /\ Len(Sub(n)) \in Nat
  <2> TAKE n \in 0..Len(ss)
  <2>1. SubSeq(ss, 1, n) \in Seq(Seq(X))
    OBVIOUS
  <2>2. Sub(n) \in Seq(X)
    BY <2>1, FlattenType
  <2>. HIDE DEF Sub
  <2>. QED
    BY <2>1, <2>2
<1>1. ASSUME NEW n \in Nat, n \in 0..Len(ss) - 1
      PROVE  Sub(n + 1) = Sub(n) \o ss[n + 1]
  <2>1. SubSeq(ss, 1, n + 1) = Append(SubSeq(ss, 1, n), ss[n + 1])
    BY <1>1
  <2>2. ss[n + 1] \in Seq(X) /\ SubSeq(ss, 1, n) \in Seq(Seq(X))
    BY <1>0, <1>1
  <2>. QED
    BY <2>1, <2>2, FlattenAppend
<1>2. 0 \in P
  OBVIOUS
<1>3. ASSUME NEW n \in Nat, n \in P PROVE n + 1 \in P
  <2> SUFFICES ASSUME n + 1 \in b..Len(ss) PROVE Same(n + 1)
    OBVIOUS
  <2>1. CASE n + 1 = b
    BY <1>0, <2>1
  <2>2. CASE n + 1 # b
    <3>1. n \in b..Len(ss) /\ n \in 0..Len(ss) - 1 /\ Same(n)
      BY <1>3, <2>2
    <3>2. Sub(n + 1) = Sub(n) \o ss[n + 1]
      BY <1>1, <3>1
    <3>3. ss[n + 1] \in Seq(X) /\ Sub(n) \in Seq(X) /\ Sub(b) \in Seq(X) /\ n \in 0..Len(ss)
      BY <1>0, <3>1
    <3>. HIDE DEF Sub
    <3>. QED
      BY <3>1, <3>2, <3>3
  <2>. QED
    BY <2>1, <2>2
<1>4. Len(ss) \in P
  <2>1. Len(ss) \in Nat
    OBVIOUS
  <2>. HIDE DEF P
  <2>. QED
    BY <1>2, <1>3, <2>1, ReplayFold!Induction
<1>5. SubSeq(ss, 1, Len(ss)) = ss /\ SubSeq(ss, 1, 0) = <<>>
  OBVIOUS
<1>6. Len(ss) \in 0..Len(ss) /\ Len(ss) \in b..Len(ss)
  OBVIOUS
<1>7. Same(Len(ss)) /\ Sub(Len(ss)) = FlattenSeq(ss) /\ Sub(0) = <<>> /\ Len(<<>>) = 0
  BY <1>4, <1>5, <1>6, FlattenEmpty
<1>. QED
  BY <1>0, <1>7 DEF Before

\* Where an element of one of the sequences is.
LEMMA FlattenAt ==
  ASSUME NEW X, NEW ss \in Seq(Seq(X)), NEW b \in 1..Len(ss)
  PROVE  /\ Before(ss, b - 1) \in Nat /\ Len(ss[b]) \in Nat
         /\ Before(ss, b) = Before(ss, b - 1) + Len(ss[b])
         /\ \A i \in 1..Len(ss[b]) : FlattenSeq(ss)[Before(ss, b - 1) + i] = ss[b][i]
<1>1. /\ SubSeq(ss, 1, b - 1) \in Seq(Seq(X)) /\ ss[b] \in Seq(X)
      /\ SubSeq(ss, 1, b) = Append(SubSeq(ss, 1, b - 1), ss[b])
  OBVIOUS
<1>2. FlattenSeq(SubSeq(ss, 1, b)) = FlattenSeq(SubSeq(ss, 1, b - 1)) \o ss[b]
  BY <1>1, FlattenAppend
<1>3. FlattenSeq(SubSeq(ss, 1, b - 1)) \in Seq(X)
  BY <1>1, FlattenType
<1>4. /\ Before(ss, b - 1) \in Nat /\ Len(ss[b]) \in Nat
      /\ Before(ss, b) = Before(ss, b - 1) + Len(ss[b])
      /\ \A i \in 1..Len(ss[b]) :
           FlattenSeq(SubSeq(ss, 1, b))[Before(ss, b - 1) + i] = ss[b][i]
  <2> DEFINE s == FlattenSeq(SubSeq(ss, 1, b - 1))
             e == ss[b]
  <2>1. /\ Len(s) \in Nat /\ Len(e) \in Nat /\ Len(s \o e) = Len(s) + Len(e)
        /\ \A i \in 1..Len(e) : (s \o e)[Len(s) + i] = e[i]
    <3>. HIDE DEF s, e
    <3>1. s \in Seq(X) /\ e \in Seq(X)
      BY <1>1, <1>3 DEF s, e
    <3>. QED
      BY <3>1
  <2>. QED
    BY <1>2, <2>1 DEF Before
<1>5. \A i \in 1..Before(ss, b) : FlattenSeq(SubSeq(ss, 1, b))[i] = FlattenSeq(ss)[i]
  BY FlattenPrefix
<1>6. ASSUME NEW i \in 1..Len(ss[b])
      PROVE  FlattenSeq(ss)[Before(ss, b - 1) + i] = ss[b][i]
  <2>1. PICK j : j = Before(ss, b - 1) + i
    OBVIOUS
  <2>2. j \in 1..Before(ss, b)
    BY <1>4, <2>1
  <2>3. FlattenSeq(SubSeq(ss, 1, b))[j] = FlattenSeq(ss)[j]
    BY <1>5, <2>2
  <2>4. FlattenSeq(SubSeq(ss, 1, b))[j] = ss[b][i]
    BY <1>4, <2>1
  <2>. QED
    BY <2>1, <2>3, <2>4
<1>. QED
  BY <1>4, <1>6

LEMMA BeforeGrows ==
  ASSUME NEW X, NEW ss \in Seq(Seq(X)), NEW b \in 0..Len(ss), NEW a \in 0..b
  PROVE  Before(ss, a) <= Before(ss, b)
<1>1. SubSeq(ss, 1, b) \in Seq(Seq(X)) /\ Len(SubSeq(ss, 1, b)) = b
  OBVIOUS
<1>2. SubSeq(SubSeq(ss, 1, b), 1, a) = SubSeq(ss, 1, a)
  OBVIOUS
<1>3. Before(SubSeq(ss, 1, b), a) <= Len(FlattenSeq(SubSeq(ss, 1, b)))
  BY <1>1, FlattenPrefix
<1>. QED
  BY <1>2, <1>3 DEF Before

-----------------------------------------------------------------------------
(* The checkpoint.                                                         *)

Running(w) == worker[w].at \in {"run", "execute"}

Done(b) == \A i \in 1..Len(ledger[b]) : <<b, i>> \in tried

\* The types the argument needs; tables and rows play no part in it.
ProgressTask == [block : Nat, tx : Nat, last : Nat,
                 at : {"idle", "waiting", "run", "execute"}]

ProgressType ==
  /\ ledger \in Seq(Block)
  /\ synced_height \in Nat
  /\ state_file \in Nat \cup {Garbled}
  /\ worker \in [Workers -> ProgressTask]

\* The file holds the height in memory, unless a crash truncated it.
FileMatches == state_file # Garbled => state_file = synced_height

ProgressInv == ProgressType /\ FileMatches

-----------------------------------------------------------------------------
(* Types.                                                                  *)

LEMMA ReplayFromType ==
  ASSUME NEW height \in Nat, NEW length \in Nat
  PROVE  ReplayFrom(height, length) \in ProgressTask
BY DEF ReplayFrom, Idle, ProgressTask

LEMMA BlockType ==
  ASSUME NEW block \in Block
  PROVE  Len(block) \in Nat
BY DEF Block

LEMMA ProgressInit == Init => ProgressInv
BY DEF Init, ProgressInv, ProgressType, FileMatches, Booted, Waiting, Idle, ProgressTask

\* A step of a task up to the end of a block changes no more than its own place.
LEMMA TransactionStep ==
  ASSUME ProgressInv, NEW w \in Workers,
         SkipDatabase(w) \/ BeginTransaction(w) \/ ExecuteTransaction(w)
  PROVE  /\ ProgressInv'
         /\ UNCHANGED <<ledger, synced_height, state_file>>
         /\ Running(w) /\ Running(w)'
         /\ \A v \in Workers \ {w} : worker'[v] = worker[v]
         /\ worker'[w].block = worker[w].block /\ worker'[w].last = worker[w].last
         /\ \/ UNCHANGED tried /\ worker'[w].tx = worker[w].tx
            \/ /\ tried' = tried \cup {<<worker[w].block, worker[w].tx>>}
               /\ worker'[w].tx = worker[w].tx + 1
<1>1. UNCHANGED <<ledger, synced_height, state_file>> /\ Running(w)
  BY DEF SkipDatabase, BeginTransaction, ExecuteTransaction, AtTransaction, Running
<1>2. worker[w] \in ProgressTask
  BY DEF ProgressInv, ProgressType
<1>3. CASE NextTransaction(w)
  <2>1. worker' = [worker EXCEPT ![w].tx = @ + 1, ![w].at = "run"]
    BY <1>3 DEF NextTransaction
  <2>2. /\ worker' = [worker EXCEPT ![w] = worker'[w]]
        /\ worker'[w] = [worker[w] EXCEPT !.tx = worker[w].tx + 1, !.at = "run"]
    BY <2>1 DEF ProgressInv, ProgressType
  <2>3. /\ worker'[w] \in ProgressTask /\ worker'[w].tx = worker[w].tx + 1
        /\ worker'[w].block = worker[w].block /\ worker'[w].last = worker[w].last
        /\ worker'[w].at = "run"
    <3>1. worker[w].tx + 1 \in Nat
      BY <1>2 DEF ProgressTask
    <3>2. worker'[w] = [block |-> worker[w].block, tx |-> worker[w].tx + 1,
                        last |-> worker[w].last, at |-> "run"]
      BY <1>2, <2>2 DEF ProgressTask
    <3>. QED
      BY <1>2, <3>1, <3>2 DEF ProgressTask
  <2>4. worker' \in [Workers -> ProgressTask] /\ \A v \in Workers \ {w} : worker'[v] = worker[v]
    BY <2>2, <2>3 DEF ProgressInv, ProgressType
  <2>. QED
    BY <1>1, <1>3, <2>3, <2>4
    DEF NextTransaction, Running, ProgressInv, ProgressType, FileMatches
<1>4. CASE BeginTransaction(w)
  <2>1. worker' = [worker EXCEPT ![w].at = "execute"] /\ UNCHANGED tried
    BY <1>4 DEF BeginTransaction
  <2>2. worker'[w] \in ProgressTask /\ worker'[w].tx = worker[w].tx
        /\ worker'[w].block = worker[w].block /\ worker'[w].last = worker[w].last
        /\ worker'[w].at = "execute"
    BY <1>2, <2>1 DEF ProgressInv, ProgressType, ProgressTask
  <2>3. worker' \in [Workers -> ProgressTask] /\ \A v \in Workers \ {w} : worker'[v] = worker[v]
    BY <2>1, <2>2 DEF ProgressInv, ProgressType
  <2>. QED
    BY <1>1, <2>1, <2>2, <2>3 DEF Running, ProgressInv, ProgressType, FileMatches
<1>. QED
  BY <1>3, <1>4 DEF SkipDatabase, ExecuteTransaction

LEMMA FinishBlockType ==
  ASSUME ProgressInv, NEW w \in Workers, FinishBlock(w)
  PROVE  /\ ProgressInv'
         /\ synced_height' \in Nat /\ synced_height' >= synced_height
<1>1. worker[w] \in ProgressTask
  BY DEF ProgressInv, ProgressType
<1>2. ReplayFrom(worker[w].block + 1, worker[w].last) \in ProgressTask
  <2>1. worker[w].block + 1 \in Nat /\ worker[w].last \in Nat
    BY <1>1 DEF ProgressTask
  <2>. QED
    BY <2>1, ReplayFromType
<1>3. Updated(worker[w].block) \in Nat /\ Updated(worker[w].block) >= synced_height
  BY <1>1 DEF Updated, ProgressInv, ProgressType, ProgressTask
<1>. QED
  BY <1>2, <1>3 DEF FinishBlock, ProgressInv, ProgressType, FileMatches

LEMMA CrashType ==
  ASSUME ProgressInv, Crash
  PROVE  ProgressInv' /\ state_file' \in {state_file, Garbled}
<1>1. state_file' \in {state_file, Garbled} /\ synced_height' = Loaded(state_file')
  BY DEF Crash
<1>2. ledger' \in Seq(Block)
  BY DEF Crash, ProgressInv, ProgressType
<1>3. worker' \in [Workers -> ProgressTask]
  BY DEF Crash, Booted, Waiting, Idle, ProgressTask
<1>. QED
  BY <1>1, <1>2, <1>3, TableSyncAssumption DEF ProgressInv, ProgressType, FileMatches, Loaded

LEMMA ProgressStep == ProgressInv /\ [Next]_vars => ProgressInv'
<1> SUFFICES ASSUME ProgressInv, [Next]_vars PROVE ProgressInv'
  OBVIOUS
<1>0. Len(ledger) \in Nat
  BY DEF ProgressInv, ProgressType
<1>1. ASSUME NEW c \in Callbacks, NEW block \in Block, CommitBlock(c, block)
      PROVE  ProgressInv'
  <2>1. ReplayFrom(Len(ledger) + 1, Len(ledger) + 1) \in ProgressTask
    BY <1>0, ReplayFromType
  <2>2. Append(ledger, block) \in Seq(Block)
    BY DEF ProgressInv, ProgressType
  <2>. QED
    BY <1>1, <2>1, <2>2 DEF CommitBlock, RecordBlock, ProgressInv, ProgressType, FileMatches, Workers
<1>2. CASE StartReplay
  <2>1. ReplayFrom(synced_height + 1, Len(ledger)) \in ProgressTask
    BY <1>0, ReplayFromType DEF ProgressInv, ProgressType
  <2>. QED
    BY <1>2, <2>1 DEF StartReplay, ProgressInv, ProgressType, FileMatches, Workers
<1>3. ASSUME NEW c \in Callers, NEW from_block \in 0..Len(ledger), SyncTable(c, from_block)
      PROVE  ProgressInv'
  <2>1. ReplayFrom(from_block, Len(ledger)) \in ProgressTask
    BY <1>0, ReplayFromType
  <2>. QED
    BY <1>3, <2>1 DEF SyncTable, ProgressInv, ProgressType, FileMatches, Workers
<1>4. ASSUME NEW w \in Workers, Run(w) PROVE ProgressInv'
  BY <1>4, TransactionStep, FinishBlockType DEF Run
<1>5. CASE Crash
  BY <1>5, CrashType
<1>6. CASE UNCHANGED vars
  BY <1>6 DEF vars, ProgressInv, ProgressType, FileMatches
<1>. QED
  BY <1>1, <1>2, <1>3, <1>4, <1>5, <1>6 DEF Next

-----------------------------------------------------------------------------
LEMMA ProgressGrows ==
  ASSUME ProgressInv, [Next]_vars, state_file # Garbled, state_file' # Garbled
  PROVE  state_file' >= state_file
<1>0. state_file \in Nat /\ state_file = synced_height
  BY DEF ProgressInv, ProgressType, FileMatches
<1>1. ASSUME NEW w \in Workers, FinishBlock(w) PROVE state_file' >= state_file
  <2>1. ProgressInv' /\ synced_height' >= synced_height
    BY <1>1, FinishBlockType
  <2>. QED
    BY <1>0, <2>1 DEF ProgressInv, FileMatches
<1>2. CASE Crash
  BY <1>0, <1>2, CrashType
<1>3. ASSUME NEW w \in Workers,
             SkipDatabase(w) \/ BeginTransaction(w) \/ ExecuteTransaction(w)
      PROVE  state_file' >= state_file
  <2>1. UNCHANGED state_file
    BY <1>3, TransactionStep
  <2>. QED  BY <1>0, <2>1
<1>4. CASE \/ \E c \in Callbacks, block \in Block : CommitBlock(c, block)
           \/ StartReplay
           \/ \E c \in Callers, from_block \in 0..Len(ledger) : SyncTable(c, from_block)
           \/ UNCHANGED vars
  <2>1. UNCHANGED state_file
    BY <1>4 DEF CommitBlock, RecordBlock, StartReplay, SyncTable, vars
  <2>. QED  BY <1>0, <2>1
<1>. QED
  BY <1>1, <1>2, <1>3, <1>4 DEF Next, Run

\* Whatever tasks end their blocks in whatever order, and across crashes, the saved
\* height never decreases while the file can be read (state_manager.py:48-49).
THEOREM ProgressIsMonotonic == Spec => ProgressNeverGoesBack
<1>1. ProgressInv /\ [Next]_vars =>
        [state_file # Garbled /\ state_file' # Garbled => state_file' >= state_file]_vars
  BY ProgressGrows
<1>. QED
  BY <1>1, ProgressInit, ProgressStep, PTL DEF Spec, ProgressNeverGoesBack

-----------------------------------------------------------------------------
(* The checkpoint is honest.  FinishBlock(w) moves it to the block w ended, so every *)
(* block below that one must be done too: on a block of start() because it replays   *)
(* in order from the checkpoint, on one of syncTable or the callback because these   *)
(* run after start(), when only the newest block can be in the making.               *)

\* Blocks 1..height have been replayed.
DoneTo(height) == \A b \in 1..height : Done(b)

SyncedIsDone == synced_height <= Len(ledger) /\ DoneTo(synced_height)

\* A task is inside the chain, and what is before it in its block has been replayed.
OwnPlace(w) ==
  Running(w) =>
    /\ worker[w].block <= worker[w].last /\ worker[w].last <= Len(ledger)
    /\ worker[w].tx >= 1
    /\ worker[w].block > 0 =>
         \A i \in 1..worker[w].tx - 1 : <<worker[w].block, i>> \in tried

\* start() has the chain to itself and replays it in order.
StartupPlace ==
  Running(Startup) => worker[Startup].last = Len(ledger) /\ DoneTo(worker[Startup].block - 1)

OthersWait == \A w \in Workers \ {Startup} : ~Started => worker[w].at = "idle"

\* The callback is on the newest block, and no other block is missing by then.
CallbackPlace ==
  \A c \in Callbacks :
    Running(c) => worker[c].block = Len(ledger) /\ worker[c].last = Len(ledger)

OnlyNewestMissing ==
  Started => \A b \in 1..Len(ledger) :
    Done(b) \/ \E c \in Callbacks : Running(c) /\ worker[c].block = b

TaskPlaces ==
  /\ \A w \in Workers : OwnPlace(w)
  /\ StartupPlace
  /\ OthersWait
  /\ CallbackPlace

CheckpointInv ==
  /\ ProgressInv
  /\ SyncedIsDone
  /\ TaskPlaces
  /\ OnlyNewestMissing

\* What the argument needs: the chain outlives a crash, no block is handed over before
\* start() has replayed, and one task hands blocks over, as on a leader.
OneAtATime == LedgerSurvives /\ ~EarlyBlocks /\ \A c, d \in Callbacks : c = d

LEMMA CheckpointInit == Init => CheckpointInv
<1> SUFFICES ASSUME Init PROVE CheckpointInv
  OBVIOUS
<1>1. ledger = <<>> /\ Len(ledger) = 0 /\ synced_height = 0 /\ worker = Booted
  BY DEF Init
<1>2. \A w \in Workers : ~Running(w) /\ (w # Startup => worker[w].at = "idle")
  BY <1>1 DEF Booted, Waiting, Idle, Running
<1>3. Startup \in Workers /\ Callbacks \subseteq Workers
  BY DEF Workers
<1>4. SyncedIsDone /\ OnlyNewestMissing
  BY <1>1 DEF SyncedIsDone, DoneTo, OnlyNewestMissing
<1>5. TaskPlaces
  BY <1>2, <1>3 DEF TaskPlaces, OwnPlace, StartupPlace, OthersWait, CallbackPlace
<1>. QED
  BY <1>4, <1>5, ProgressInit DEF CheckpointInv

\* What was replayed stays replayed when the chain grows or stays.
LEMMA DoneStays ==
  ASSUME ProgressInv, tried \subseteq tried',
         \/ ledger' = ledger
         \/ \E block \in Block : ledger' = Append(ledger, block)
  PROVE  /\ \A b \in 1..Len(ledger) : Done(b) => Done(b)'
         /\ \A h \in Int : h <= Len(ledger) /\ DoneTo(h) => DoneTo(h)'
<1>1. \A b \in 1..Len(ledger) : ledger'[b] = ledger[b]
  BY DEF ProgressInv, ProgressType
<1>2. Len(ledger) \in Nat
  BY DEF ProgressInv, ProgressType
<1>3. \A b \in 1..Len(ledger) : Done(b) => Done(b)'
  BY <1>1 DEF Done
<1>. QED
  BY <1>2, <1>3 DEF DoneTo

LEMMA TransactionKeepsPlaces ==
  ASSUME CheckpointInv, NEW w \in Workers,
         SkipDatabase(w) \/ BeginTransaction(w) \/ ExecuteTransaction(w)
  PROVE  CheckpointInv'
<1>0. ProgressInv /\ worker \in [Workers -> ProgressTask] /\ Len(ledger) \in Nat
  BY DEF CheckpointInv, ProgressInv, ProgressType
<1>1. /\ ProgressInv'
      /\ UNCHANGED <<ledger, synced_height, state_file>>
      /\ Running(w) /\ Running(w)'
      /\ \A v \in Workers \ {w} : worker'[v] = worker[v]
      /\ worker'[w].block = worker[w].block /\ worker'[w].last = worker[w].last
      /\ \/ UNCHANGED tried /\ worker'[w].tx = worker[w].tx
         \/ /\ tried' = tried \cup {<<worker[w].block, worker[w].tx>>}
            /\ worker'[w].tx = worker[w].tx + 1
  BY <1>0, TransactionStep
<1>2. /\ \A b \in 1..Len(ledger) : Done(b) => Done(b)'
      /\ \A h \in Int : h <= Len(ledger) /\ DoneTo(h) => DoneTo(h)'
  BY <1>0, <1>1, DoneStays
<1>3. \A v \in Workers : /\ Running(v) <=> Running(v)'
                         /\ worker'[v].block = worker[v].block
                         /\ worker'[v].last = worker[v].last
  BY <1>1 DEF Running
<1>4. Startup \in Workers /\ Callbacks \subseteq Workers
  BY DEF Workers
<1>5. Started <=> Started'
  BY <1>1, <1>4 DEF Started, Running
<1>6. SyncedIsDone'
  BY <1>0, <1>1, <1>2 DEF CheckpointInv, SyncedIsDone, ProgressInv, ProgressType
<1>7. ASSUME NEW v \in Workers PROVE OwnPlace(v)'
  <2>1. OwnPlace(v)
    BY DEF CheckpointInv, TaskPlaces
  <2>2. CASE v # w
    BY <1>1, <2>1, <2>2 DEF OwnPlace, Running
  <2>3. CASE v = w
    <3>1. worker[w].tx \in Nat /\ worker[w].block \in Nat /\ worker[w].last \in Nat
      BY <1>0 DEF ProgressTask
    <3>2. worker'[w].tx >= 1
      BY <1>1, <2>1, <2>3, <3>1 DEF OwnPlace
    <3>3. ASSUME worker'[w].block > 0, NEW i \in 1..worker'[w].tx - 1
          PROVE  <<worker'[w].block, i>> \in tried'
      <4>1. i \in 1..worker[w].tx - 1 => <<worker[w].block, i>> \in tried
        BY <1>1, <2>1, <2>3, <3>3 DEF OwnPlace
      <4>2. \/ i \in 1..worker[w].tx - 1
            \/ i = worker[w].tx /\ worker'[w].tx = worker[w].tx + 1
        BY <1>1, <3>1, <3>3
      <4>. QED
        BY <1>1, <4>1, <4>2
    <3>. QED
      BY <1>1, <2>1, <2>3, <3>2, <3>3 DEF OwnPlace
  <2>. QED
    BY <2>2, <2>3
<1>8. StartupPlace'
  <2>1. Running(Startup) => worker[Startup].block - 1 \in Int /\ worker[Startup].block - 1 <= Len(ledger)
    BY <1>0, <1>4 DEF CheckpointInv, TaskPlaces, OwnPlace, ProgressTask
  <2>. QED
    BY <1>1, <1>2, <1>3, <1>4, <2>1 DEF CheckpointInv, TaskPlaces, StartupPlace
<1>9. OthersWait'
  BY <1>1, <1>5 DEF CheckpointInv, TaskPlaces, OthersWait, Running
<1>10. CallbackPlace'
  BY <1>1, <1>3, <1>4 DEF CheckpointInv, TaskPlaces, CallbackPlace
<1>11. OnlyNewestMissing'
  BY <1>1, <1>2, <1>3, <1>4, <1>5 DEF CheckpointInv, OnlyNewestMissing
<1>. QED
  BY <1>1, <1>6, <1>7, <1>8, <1>9, <1>10, <1>11 DEF CheckpointInv, TaskPlaces

LEMMA FinishKeepsPlaces ==
  ASSUME CheckpointInv, NEW w \in Workers, FinishBlock(w)
  PROVE  CheckpointInv'
<1> DEFINE b == worker[w].block
           n == Len(ledger)
<1>0. /\ ProgressInv /\ worker \in [Workers -> ProgressTask] /\ n \in Nat
      /\ synced_height \in Nat
      /\ worker[w] \in ProgressTask /\ b \in Nat
      /\ worker[w].last \in Nat /\ worker[w].tx \in Nat
  BY DEF CheckpointInv, ProgressInv, ProgressType, ProgressTask
<1>1. /\ UNCHANGED <<ledger, tried>>
      /\ synced_height' = Updated(b)
      /\ worker' = [worker EXCEPT ![w] = ReplayFrom(b + 1, worker[w].last)]
      /\ Running(w) /\ worker[w].tx > Len(Transactions(w))
  BY DEF FinishBlock, AtEndOfBlock, Running
<1>2. Startup \in Workers /\ Callbacks \subseteq Workers
  BY DEF Workers
<1>3. b <= worker[w].last /\ worker[w].last <= n /\ OwnPlace(w)
  BY <1>1 DEF CheckpointInv, TaskPlaces, OwnPlace
<1>4. b > 0 => Done(b)
  <2>1. SUFFICES ASSUME b > 0 PROVE \A i \in 1..Len(ledger[b]) : <<b, i>> \in tried
    BY DEF Done
  <2>2. Transactions(w) = ledger[b]
    BY <1>0, <2>1 DEF Transactions
  <2>3. ledger[b] \in Block
    BY <1>0, <1>3, <2>1 DEF ProgressInv, ProgressType
  <2>4. Len(ledger[b]) \in Nat
    BY <2>3, BlockType
  <2>. QED
    BY <1>0, <1>1, <1>3, <2>1, <2>2, <2>4 DEF OwnPlace
<1>5. DoneTo(b)
  <2>1. CASE w = Startup
    <3>1. DoneTo(b - 1)
      BY <1>1, <2>1 DEF CheckpointInv, TaskPlaces, StartupPlace
    <3>. QED
      BY <1>0, <1>4, <3>1 DEF DoneTo
  <2>2. CASE w # Startup
    <3>1. Started
      BY <1>1, <2>2 DEF CheckpointInv, TaskPlaces, OthersWait, Running
    <3>2. ASSUME NEW a \in 1..b PROVE Done(a)
      <4>1. a \in 1..n
        BY <1>0, <1>3
      <4>2. Done(a) \/ \E c \in Callbacks : Running(c) /\ worker[c].block = a
        BY <3>1, <4>1 DEF CheckpointInv, OnlyNewestMissing
      <4>3. Done(a) \/ a = n
        BY <4>2 DEF CheckpointInv, TaskPlaces, CallbackPlace
      <4>4. a = n => a = b
        BY <1>0, <1>3
      <4>. QED
        BY <1>0, <1>4, <4>3, <4>4
    <3>. QED
      BY <3>2 DEF DoneTo
  <2>. QED
    BY <2>1, <2>2
<1>6. /\ \A v \in Workers \ {w} : worker'[v] = worker[v]
      /\ worker'[w] = ReplayFrom(b + 1, worker[w].last)
  BY <1>0, <1>1
<1>7. /\ b + 1 > worker[w].last => worker'[w].at = "idle" /\ ~Running(w)'
      /\ b + 1 <= worker[w].last =>
           /\ worker'[w].block = b + 1 /\ worker'[w].tx = 1
           /\ worker'[w].last = worker[w].last /\ Running(w)' /\ worker'[w].at = "run"
  <2>1. CASE b + 1 > worker[w].last
    BY <1>0, <1>6, <2>1 DEF ReplayFrom, Idle, Running
  <2>2. CASE ~(b + 1 > worker[w].last)
    BY <1>0, <1>6, <2>2 DEF ReplayFrom, Running
  <2>. QED
    BY <1>0, <2>1, <2>2
<1>8. SyncedIsDone'
  <2>1. DoneTo(synced_height)' /\ synced_height' <= n
    BY <1>0, <1>1, <1>3, <1>5 DEF CheckpointInv, SyncedIsDone, Updated, DoneTo, Done
  <2>. QED
    BY <1>1, <2>1 DEF SyncedIsDone
<1>9. ASSUME NEW v \in Workers PROVE OwnPlace(v)'
  <2>1. CASE v # w
    <3>1. OwnPlace(v)
      BY DEF CheckpointInv, TaskPlaces
    <3>. QED
      BY <1>1, <1>6, <2>1, <3>1 DEF OwnPlace, Running
  <2>2. CASE v = w
    BY <1>0, <1>1, <1>3, <1>7, <2>2 DEF OwnPlace
  <2>. QED
    BY <2>1, <2>2
<1>10. StartupPlace'
  <2>1. CASE w = Startup
    BY <1>0, <1>1, <1>5, <1>7, <2>1
    DEF CheckpointInv, TaskPlaces, StartupPlace, DoneTo, Done
  <2>2. CASE w # Startup
    BY <1>1, <1>2, <1>6, <2>2
    DEF CheckpointInv, TaskPlaces, StartupPlace, DoneTo, Done, Running
  <2>. QED
    BY <2>1, <2>2
<1>11. OthersWait'
  <2>1. CASE w = Startup
    <3>1. ~Started
      BY <1>1, <2>1 DEF Started, Running
    <3>. QED
      BY <1>6, <2>1, <3>1 DEF CheckpointInv, TaskPlaces, OthersWait
  <2>2. CASE w # Startup
    <3>1. Started /\ Started'
      BY <1>1, <1>2, <1>6, <2>2 DEF CheckpointInv, TaskPlaces, OthersWait, Running, Started
    <3>. QED
      BY <3>1 DEF OthersWait
  <2>. QED
    BY <2>1, <2>2
<1>12. CallbackPlace'
  <2>1. w \in Callbacks => ~Running(w)'
    BY <1>0, <1>1, <1>7 DEF CheckpointInv, TaskPlaces, CallbackPlace
  <2>. QED
    BY <1>1, <1>2, <1>6, <2>1 DEF CheckpointInv, TaskPlaces, CallbackPlace, Running
<1>13. OnlyNewestMissing'
  <2>1. CASE w = Startup
    <3>1. SUFFICES ASSUME Started' PROVE \A a \in 1..n : Done(a)
      BY <1>1 DEF OnlyNewestMissing, Done
    <3>2. b + 1 > n
      BY <1>0, <1>1, <1>7, <2>1, <3>1 DEF CheckpointInv, TaskPlaces, StartupPlace, Started
    <3>. QED
      BY <1>0, <1>5, <3>2 DEF DoneTo
  <2>2. CASE w # Startup
    <3>1. Started
      BY <1>1, <2>2 DEF CheckpointInv, TaskPlaces, OthersWait, Running
    <3>2. ASSUME NEW a \in 1..n
          PROVE  Done(a)' \/ \E c \in Callbacks : Running(c)' /\ worker'[c].block = a
      <4>1. CASE Done(a)
        BY <1>1, <4>1 DEF Done
      <4>2. CASE \E c \in Callbacks : Running(c) /\ worker[c].block = a
        <5>1. PICK c \in Callbacks : Running(c) /\ worker[c].block = a
          BY <4>2
        <5>2. CASE c = w
          BY <1>0, <1>1, <1>4, <5>1, <5>2 DEF Done
        <5>3. CASE c # w
          BY <1>2, <1>6, <5>1, <5>3 DEF Running
        <5>. QED
          BY <5>2, <5>3
      <4>. QED
        BY <3>1, <4>1, <4>2 DEF CheckpointInv, OnlyNewestMissing
    <3>. QED
      BY <1>1, <3>2 DEF OnlyNewestMissing
  <2>. QED
    BY <2>1, <2>2
<1>14. ProgressInv'
  BY <1>0, FinishBlockType
<1>. QED
  BY <1>8, <1>9, <1>10, <1>11, <1>12, <1>13, <1>14 DEF CheckpointInv, TaskPlaces

\* A task that starts where ReplayFrom puts it is inside the chain.
LEMMA ReplayFromPlace ==
  ASSUME NEW height \in Nat, NEW length \in Nat
  PROVE  LET r == ReplayFrom(height, length)
         IN  \/ height > length /\ r.at = "idle"
             \/ /\ height <= length
                /\ r.block = height /\ r.last = length /\ r.tx = 1 /\ r.at = "run"
<1>1. CASE height > length
  BY <1>1 DEF ReplayFrom, Idle
<1>2. CASE ~(height > length)
  BY <1>2 DEF ReplayFrom
<1>. QED
  BY <1>1, <1>2

LEMMA CommitKeepsPlaces ==
  ASSUME CheckpointInv, OneAtATime, NEW c \in Callbacks, NEW block \in Block,
         CommitBlock(c, block)
  PROVE  CheckpointInv'
<1> DEFINE n == Len(ledger)
<1>0. /\ ProgressInv /\ ProgressInv' /\ worker \in [Workers -> ProgressTask]
      /\ n \in Nat /\ synced_height \in Nat
  <2>1. ProgressInv
    BY DEF CheckpointInv
  <2>2. ProgressInv'
    BY <2>1, ProgressStep DEF Next
  <2>. QED
    BY <2>1, <2>2 DEF ProgressInv, ProgressType
<1>1. /\ ledger' = Append(ledger, block) /\ Len(ledger') = n + 1
      /\ UNCHANGED <<synced_height, tried>>
      /\ worker' = [worker EXCEPT ![c] = ReplayFrom(n + 1, n + 1)]
      /\ worker[c].at = "idle" /\ Started
  BY <1>0 DEF CommitBlock, RecordBlock, OneAtATime, ProgressInv, ProgressType
<1>2. c \in Workers /\ Startup \in Workers /\ Callbacks \subseteq Workers /\ c # Startup
  BY TableSyncAssumption DEF Workers
<1>3. /\ \A v \in Workers \ {c} : worker'[v] = worker[v]
      /\ worker'[c].block = n + 1 /\ worker'[c].last = n + 1
      /\ worker'[c].tx = 1 /\ worker'[c].at = "run"
  <2>1. n + 1 \in Nat /\ ~(n + 1 > n + 1)
    BY <1>0
  <2>. QED
    BY <1>0, <1>1, <1>2, <2>1, ReplayFromPlace
<1>4. /\ \A b \in 1..n : Done(b) => Done(b)'
      /\ \A h \in Int : h <= n /\ DoneTo(h) => DoneTo(h)'
  BY <1>0, <1>1, DoneStays
<1>5. SyncedIsDone'
  BY <1>0, <1>1, <1>4 DEF CheckpointInv, SyncedIsDone
<1>6. ASSUME NEW v \in Workers PROVE OwnPlace(v)'
  <2>1. CASE v # c
    <3>1. OwnPlace(v) /\ worker[v].last \in Nat
      BY <1>0 DEF CheckpointInv, TaskPlaces, ProgressTask
    <3>. QED
      BY <1>0, <1>1, <1>3, <2>1, <3>1 DEF OwnPlace, Running
  <2>2. CASE v = c
    BY <1>0, <1>1, <1>3, <2>2 DEF OwnPlace
  <2>. QED
    BY <2>1, <2>2
<1>7. Started' /\ ~Running(Startup)'
  BY <1>1, <1>2, <1>3 DEF Started, Running
<1>8. StartupPlace' /\ OthersWait'
  BY <1>7 DEF StartupPlace, OthersWait
<1>9. CallbackPlace'
  BY <1>1, <1>3 DEF OneAtATime, CallbackPlace
<1>10. OnlyNewestMissing'
  <2>1. \A b \in 1..n : Done(b)
    BY <1>1 DEF CheckpointInv, OnlyNewestMissing, OneAtATime, Running
  <2>2. Running(c)' /\ worker'[c].block = n + 1
    BY <1>3 DEF Running
  <2>3. \A b \in 1..Len(ledger') : b \in 1..n \/ b = n + 1
    BY <1>0, <1>1
  <2>. QED
    BY <1>4, <2>1, <2>2, <2>3 DEF OnlyNewestMissing
<1>. QED
  BY <1>0, <1>5, <1>6, <1>8, <1>9, <1>10 DEF CheckpointInv, TaskPlaces

LEMMA StartKeepsPlaces ==
  ASSUME CheckpointInv, StartReplay
  PROVE  CheckpointInv'
<1> DEFINE n == Len(ledger)
<1>0. /\ ProgressInv /\ ProgressInv' /\ worker \in [Workers -> ProgressTask]
      /\ n \in Nat /\ synced_height \in Nat
  <2>1. ProgressInv
    BY DEF CheckpointInv
  <2>2. ProgressInv'
    BY <2>1, ProgressStep DEF Next
  <2>. QED
    BY <2>1, <2>2 DEF ProgressInv, ProgressType
<1>1. /\ UNCHANGED <<ledger, synced_height, tried>>
      /\ worker' = [worker EXCEPT ![Startup] = ReplayFrom(synced_height + 1, n)]
      /\ worker[Startup].at = "waiting"
  BY DEF StartReplay
<1>2. Startup \in Workers /\ Callbacks \subseteq Workers /\ Startup \notin Callbacks
  BY TableSyncAssumption DEF Workers
<1>3. /\ \A v \in Workers \ {Startup} : worker'[v] = worker[v]
      /\ \/ synced_height + 1 > n /\ worker'[Startup].at = "idle"
         \/ /\ synced_height + 1 <= n
            /\ worker'[Startup].block = synced_height + 1 /\ worker'[Startup].last = n
            /\ worker'[Startup].tx = 1 /\ worker'[Startup].at = "run"
  <2>1. synced_height + 1 \in Nat
    BY <1>0
  <2>. QED
    BY <1>0, <1>1, <1>2, <2>1, ReplayFromPlace
<1>4. \A v \in Workers \ {Startup} : worker[v].at = "idle"
  BY <1>1 DEF CheckpointInv, TaskPlaces, OthersWait, Started
<1>5. SyncedIsDone'
  BY <1>1 DEF CheckpointInv, SyncedIsDone, DoneTo, Done
<1>6. \A v \in Workers \ {Startup} : ~Running(v)' /\ worker'[v].at = "idle"
  BY <1>3, <1>4 DEF Running
<1>7. OwnPlace(Startup)'
  BY <1>0, <1>1, <1>3 DEF OwnPlace, Running
<1>8. StartupPlace'
  BY <1>0, <1>1, <1>3 DEF CheckpointInv, SyncedIsDone, StartupPlace, DoneTo, Done, Running
<1>9. OthersWait' /\ CallbackPlace' /\ (\A v \in Workers : OwnPlace(v)')
  BY <1>2, <1>6, <1>7 DEF OthersWait, CallbackPlace, OwnPlace
<1>10. OnlyNewestMissing'
  <2>1. Started' => synced_height = n
    BY <1>0, <1>3 DEF CheckpointInv, SyncedIsDone, Started
  <2>. QED
    BY <1>1, <2>1 DEF CheckpointInv, SyncedIsDone, DoneTo, Done, OnlyNewestMissing
<1>. QED
  BY <1>0, <1>5, <1>8, <1>9, <1>10 DEF CheckpointInv, TaskPlaces

LEMMA RequestKeepsPlaces ==
  ASSUME CheckpointInv, NEW c \in Callers, NEW from_block \in 0..Len(ledger),
         SyncTable(c, from_block)
  PROVE  CheckpointInv'
<1> DEFINE n == Len(ledger)
<1>0. /\ ProgressInv /\ ProgressInv' /\ worker \in [Workers -> ProgressTask]
      /\ n \in Nat /\ from_block \in Nat /\ from_block <= n
  <2>1. ProgressInv
    BY DEF CheckpointInv
  <2>2. ProgressInv'
    BY <2>1, ProgressStep DEF Next
  <2>. QED
    BY <2>1, <2>2 DEF ProgressInv, ProgressType
<1>1. /\ UNCHANGED <<ledger, synced_height, tried>>
      /\ worker' = [worker EXCEPT ![c] = ReplayFrom(from_block, n)]
      /\ worker[c].at = "idle" /\ Started
  BY DEF SyncTable
<1>2. /\ Startup \in Workers /\ Callbacks \subseteq Workers /\ c \in Workers
      /\ c # Startup /\ c \notin Callbacks
  BY TableSyncAssumption DEF Workers
<1>3. /\ \A v \in Workers \ {c} : worker'[v] = worker[v]
      /\ worker'[c].block = from_block /\ worker'[c].last = n
      /\ worker'[c].tx = 1 /\ worker'[c].at = "run"
  BY <1>0, <1>1, <1>2, ReplayFromPlace
<1>4. SyncedIsDone'
  BY <1>1 DEF CheckpointInv, SyncedIsDone, DoneTo, Done
<1>5. ASSUME NEW v \in Workers PROVE OwnPlace(v)'
  <2>1. CASE v # c
    <3>1. OwnPlace(v)
      BY DEF CheckpointInv, TaskPlaces
    <3>. QED
      BY <1>1, <1>3, <2>1, <3>1 DEF OwnPlace, Running
  <2>2. CASE v = c
    BY <1>0, <1>1, <1>3, <2>2 DEF OwnPlace
  <2>. QED
    BY <2>1, <2>2
<1>6. Started' /\ ~Running(Startup)'
  BY <1>1, <1>2, <1>3 DEF Started, Running
<1>7. StartupPlace' /\ OthersWait'
  BY <1>6 DEF StartupPlace, OthersWait
<1>8. CallbackPlace'
  BY <1>1, <1>2, <1>3 DEF CheckpointInv, TaskPlaces, CallbackPlace, Running
<1>9. OnlyNewestMissing'
  BY <1>1, <1>2, <1>3 DEF CheckpointInv, OnlyNewestMissing, Done, Running
<1>. QED
  BY <1>0, <1>4, <1>5, <1>7, <1>8, <1>9 DEF CheckpointInv, TaskPlaces

LEMMA CrashKeepsPlaces ==
  ASSUME CheckpointInv, OneAtATime, Crash
  PROVE  CheckpointInv'
<1>0. /\ ProgressInv /\ ProgressInv' /\ Len(ledger) \in Nat
      /\ synced_height \in Nat /\ (state_file # Garbled => state_file = synced_height)
  BY CrashType DEF CheckpointInv, ProgressInv, ProgressType, FileMatches
<1>1. /\ UNCHANGED <<ledger, tried>> /\ worker' = Booted
      /\ state_file' \in {state_file, Garbled} /\ synced_height' = Loaded(state_file')
  BY DEF Crash, OneAtATime
<1>2. /\ \A v \in Workers : ~Running(v)'
      /\ \A v \in Workers \ {Startup} : worker'[v].at = "idle"
      /\ Startup \in Workers /\ Callbacks \subseteq Workers /\ ~Started'
  BY <1>1 DEF Booted, Waiting, Idle, Running, Workers, Started
<1>3. synced_height' \in {0, synced_height}
  BY <1>0, <1>1 DEF Loaded
<1>4. SyncedIsDone'
  BY <1>0, <1>1, <1>3 DEF CheckpointInv, SyncedIsDone, DoneTo, Done
<1>5. TaskPlaces'
  BY <1>2 DEF TaskPlaces, OwnPlace, StartupPlace, OthersWait, CallbackPlace
<1>6. OnlyNewestMissing'
  BY <1>2 DEF OnlyNewestMissing
<1>. QED
  BY <1>0, <1>4, <1>5, <1>6 DEF CheckpointInv

LEMMA CheckpointStep ==
  ASSUME OneAtATime, CheckpointInv, [Next]_vars
  PROVE  CheckpointInv'
<1>1. CASE UNCHANGED vars
  BY <1>1
  DEF vars, CheckpointInv, ProgressInv, ProgressType, FileMatches, SyncedIsDone, TaskPlaces,
      OwnPlace, StartupPlace, OthersWait, CallbackPlace, OnlyNewestMissing, DoneTo, Done,
      Running, Started
<1>2. CASE Next
  BY <1>2, CommitKeepsPlaces, StartKeepsPlaces, RequestKeepsPlaces, CrashKeepsPlaces,
     TransactionKeepsPlaces, FinishKeepsPlaces
  DEF Next, Run
<1>. QED
  BY <1>1, <1>2

LEMMA CheckpointSafe == CheckpointInv => NothingSkipped
<1> SUFFICES ASSUME CheckpointInv, state_file # Garbled,
                    NEW b \in 1..Len(ledger), b <= state_file
             PROVE  Done(b)
  BY DEF NothingSkipped, Done
<1>1. state_file = synced_height /\ synced_height \in Nat
  BY DEF CheckpointInv, ProgressInv, ProgressType, FileMatches
<1>. QED
  BY <1>1 DEF CheckpointInv, SyncedIsDone, DoneTo

\* No block at or below the saved height was left out, for any number of blocks,
\* transactions, crashes and concurrent syncTable requests (table_sync.py:131,
\* state_manager.py:48).  Without OneAtATime it is false: see TS_EarlyBlock.
THEOREM CheckpointIsHonest ==
  ASSUME OneAtATime
  PROVE  Spec => []NothingSkipped
<1>1. CheckpointInv /\ [Next]_vars => CheckpointInv'
  BY CheckpointStep
<1>. QED
  BY <1>1, CheckpointInit, CheckpointSafe, PTL DEF Spec

-----------------------------------------------------------------------------
(* Types of the database and of the registry.                              *)

Databases == [Tables -> Contents \cup {NoTable}]

Statement == Dml \cup Ddl

LEMMA StatementType ==
  ASSUME NEW s \in Statement
  PROVE  /\ s.table \in Tables
         /\ s.kind \in {"INSERT", "UPDATE", "DELETE", "CREATE", "ADD", "MODIFY",
                        "DROP_COLUMN", "DROP_TABLE"}
         /\ s.kind = "CREATE" => s.columns \in Seq(Column)
         /\ s.kind \in {"ADD", "MODIFY"} => s.column \in Column
         /\ s.kind \in {"INSERT", "UPDATE", "DELETE"} => s.column \in Names /\ s.value \in Values
BY DEF Statement, Dml, Ddl

LEMMA TransactionType ==
  ASSUME NEW tx \in Transaction
  PROVE  IF tx.kind = "BATCH" THEN tx.statements \in Seq(Statement) ELSE tx \in Statement
<1>1. CASE tx \in Statement
  BY <1>1, StatementType
<1>2. CASE tx \notin Statement
  BY <1>2 DEF Transaction, Statement
<1>. QED
  BY <1>1, <1>2

LEMMA WithoutType ==
  ASSUME NEW columns \in Seq(Column), NEW name
  PROVE  Without(columns, name) \in Seq(Column)
BY SelectionOf DEF Without

\* What a statement does to its table, and that it does nothing to the others.
LEMMA EffectType ==
  ASSUME NEW db \in Databases, NEW s \in Statement, ~Fails(db, s)
  PROVE  /\ Effect(db, s) \in Databases
         /\ \A t \in Tables \ {s.table} : Effect(db, s)[t] = db[t]
         /\ s.kind = "DROP_TABLE" <=> Effect(db, s)[s.table] = NoTable
<1> DEFINE t == s.table
           c == db[t]
<1>0. t \in Tables /\ NoTable \notin Contents
  BY StatementType, DatabaseAssumption
<1>1. s.kind # "CREATE" => c \in Contents
  BY <1>0 DEF Fails, Databases
<1> DEFINE Right(new) ==
             /\ Effect(db, s) = [db EXCEPT ![t] = new]
             /\ IF s.kind = "DROP_TABLE" THEN new = NoTable ELSE new \in Contents
<1>2. SUFFICES \E new : Right(new)
  BY <1>0, <1>2 DEF Databases
<1>. HIDE DEF t
<1>3. CASE s.kind = "CREATE"
  <2>1. [columns |-> s.columns, rows |-> <<>>] \in Contents
    <3>1. s.columns \in Seq(Column) /\ <<>> \in Seq(Values)
      BY <1>3, StatementType
    <3>. QED
      BY <3>1 DEF Contents
  <2>2. Right([columns |-> s.columns, rows |-> <<>>])
    BY <1>3, <2>1 DEF Effect, t
  <2>. QED
    BY <2>2
<1>4. CASE s.kind = "DROP_TABLE"
  <2>1. Effect(db, s) = [db EXCEPT ![t] = NoTable]
    BY <1>4 DEF Effect, t
  <2>2. Right(NoTable)
    BY <1>4, <2>1
  <2>. QED
    BY <2>2
<1>5. CASE s.kind \in {"ADD", "DROP_COLUMN"}
  <2> DEFINE columns == IF s.kind = "ADD" THEN Append(c.columns, s.column)
                                          ELSE Without(c.columns, s.name)
  <2>1. c \in Contents /\ c.columns \in Seq(Column)
    BY <1>1, <1>5 DEF Contents
  <2>2. columns \in Seq(Column)
    BY <1>5, <2>1, StatementType, WithoutType
  <2>3. [c EXCEPT !.columns = columns] \in Contents
    BY <2>1, <2>2 DEF Contents
  <2>4. Effect(db, s) = [db EXCEPT ![t] = [c EXCEPT !.columns = columns]]
    BY <1>5 DEF Effect, t
  <2>. QED
    BY <1>5, <2>3, <2>4
<1>6. CASE s.kind \in {"INSERT", "UPDATE", "DELETE"}
  <2> DEFINE rows == IF s.kind = "INSERT" THEN Append(c.rows, s.value)
                     ELSE IF s.kind = "UPDATE" THEN [i \in 1..Len(c.rows) |-> s.value]
                     ELSE <<>>
  <2>1. c \in Contents /\ c.rows \in Seq(Values) /\ s.value \in Values
    BY <1>1, <1>6, StatementType DEF Contents
  <2>2. rows \in Seq(Values)
    BY <2>1
  <2>3. [c EXCEPT !.rows = rows] \in Contents
    BY <2>1, <2>2 DEF Contents
  <2>4. Effect(db, s) = [db EXCEPT ![t] = [c EXCEPT !.rows = rows]]
    BY <1>6 DEF Effect, t
  <2>. QED
    BY <1>6, <2>3, <2>4
<1>7. s.kind # "MODIFY"
  BY DEF Fails
<1>. QED
  BY <1>3, <1>4, <1>5, <1>6, <1>7, StatementType

BatchOp(p, run, s) == Continued(run, s)

BatchFold == INSTANCE FoldLemmas WITH Op <- BatchOp

LEMMA AttemptFold ==
  ASSUME NEW db, NEW statements
  PROVE  Attempt(db, statements) = BatchFold!Fold(0, Begun(db), statements)
BY DEF Attempt, BatchOp, BatchFold!Fold, FoldLeft, BatchFold!FoldLeft,
       MapThenFoldSet, BatchFold!MapThenFoldSet, Max, BatchFold!Max

\* What holds of the database and is kept by the statements SQLite accepts holds after
\* a batch: of the database as it is and of the one a rollback restores.
LEMMA BatchKeeps ==
  ASSUME NEW D, NEW db \in D, NEW X, NEW statements \in Seq(X),
         \A d \in D, s \in X : ~Fails(d, s) => Effect(d, s) \in D
  PROVE  Batch(db, statements) \in D
<1> DEFINE S == [failed : BOOLEAN, begun : BOOLEAN, db : D, kept : D]
<1>1. Begun(db) \in S
  BY DEF Begun
<1>2. ASSUME NEW run \in S, NEW s \in X PROVE BatchOp(0, run, s) \in S
  <2>0. /\ run.failed \in BOOLEAN /\ run.begun \in BOOLEAN /\ run.db \in D /\ run.kept \in D
        /\ IsDml(s) \in BOOLEAN
    BY DEF IsDml
  <2>1. CASE run.failed
    BY <2>1 DEF BatchOp, Continued
  <2>2. CASE ~run.failed /\ Fails(run.db, s)
    <3>1. \E d \in D : BatchOp(0, run, s) = [run EXCEPT !.failed = TRUE, !.db = d]
      BY <2>0, <2>2 DEF BatchOp, Continued
    <3>. QED
      BY <3>1
  <2>3. CASE ~run.failed /\ ~Fails(run.db, s)
    <3>1. PICK d \in D : d = Effect(run.db, s)
      BY <2>0, <2>3
    <3>2. CASE run.begun \/ IsDml(s)
      <4>1. BatchOp(0, run, s) =
              [failed |-> FALSE, begun |-> TRUE, db |-> d, kept |-> run.kept]
        BY <2>0, <3>1, <2>3, <3>2 DEF BatchOp, Continued
      <4>2. [failed |-> FALSE, begun |-> TRUE, db |-> d, kept |-> run.kept] \in S
        BY <2>0
      <4>. QED
        BY <4>1, <4>2
    <3>3. CASE ~(run.begun \/ IsDml(s))
      <4>1. BatchOp(0, run, s) =
              [failed |-> FALSE, begun |-> FALSE, db |-> d, kept |-> d]
        BY <2>0, <3>1, <2>3, <3>3 DEF BatchOp, Continued
      <4>2. [failed |-> FALSE, begun |-> FALSE, db |-> d, kept |-> d] \in S
        OBVIOUS
      <4>. QED
        BY <4>1, <4>2
    <3>. QED
      BY <3>2, <3>3
  <2>. QED
    BY <2>1, <2>2, <2>3
<1>3. BatchFold!Fold(0, Begun(db), statements) \in S
  <2>. HIDE DEF S
  <2>. QED
    BY <1>1, <1>2, BatchFold!FoldInvariant
<1>. QED
  BY <1>3, AttemptFold DEF Batch

LEMMA ExecutedType ==
  ASSUME NEW db \in Databases, NEW tx \in Transaction
  PROVE  Executed(db, tx) \in Databases
<1>1. CASE tx.kind = "BATCH"
  <2>1. \A d \in Databases, s \in Statement : ~Fails(d, s) => Effect(d, s) \in Databases
    BY EffectType
  <2>2. tx.statements \in Seq(Statement)
    BY <1>1, TransactionType
  <2>3. Batch(db, tx.statements) \in Databases
    BY <2>1, <2>2, BatchKeeps
  <2>. QED
    BY <1>1, <2>3 DEF Executed
<1>2. CASE tx.kind # "BATCH"
  <2>1. tx \in Statement
    BY <1>2, TransactionType
  <2>. QED
    BY <1>2, <2>1, EffectType DEF Executed
<1>. QED
  BY <1>1, <1>2

Registries == [Tables -> Seq(Column) \cup {NoTable}]

LEMMA ModifiedType ==
  ASSUME NEW columns \in Seq(Column), NEW column \in Column
  PROVE  Modified(columns, column) \in Seq(Column)
<1>1. \A i \in 1..Len(columns) : Modified(columns, column)[i] \in Column
  BY DEF Modified
<1>2. DOMAIN Modified(columns, column) = 1..Len(columns) /\ Len(columns) \in Nat
  BY DEF Modified
<1>3. Modified(columns, column) = [i \in 1..Len(columns) |-> Modified(columns, column)[i]]
  BY DEF Modified
<1>. QED
  BY <1>1, <1>2, <1>3

\* What a transaction does to its table in the registry, and that it does nothing to
\* the others.
LEMMA RegisterType ==
  ASSUME registry \in Registries, NEW tx \in Transaction, ~Refused(tx)
  PROVE  /\ Register(tx) \in Registries
         /\ tx.kind = "BATCH" => Register(tx) = registry
         /\ tx.kind # "BATCH" =>
              \A t \in Tables \ {tx.table} : Register(tx)[t] = registry[t]
         /\ tx.kind = "CREATE" => Register(tx)[tx.table] # NoTable
         /\ tx.kind = "DROP_TABLE" => Register(tx)[tx.table] = NoTable
         /\ tx.kind \in {"ADD", "MODIFY", "DROP_COLUMN"} =>
              registry[tx.table] # NoTable /\ Register(tx)[tx.table] # NoTable
         /\ tx.kind \in {"INSERT", "UPDATE", "DELETE"} => Register(tx) = registry
<1>0. NoTable \notin Seq(Column)
  BY DatabaseAssumption
<1>1. CASE tx.kind \in {"BATCH", "INSERT", "UPDATE", "DELETE"}
  BY <1>1 DEF Register
<1>2. CASE tx.kind \notin {"BATCH", "INSERT", "UPDATE", "DELETE"}
  <2> DEFINE t == tx.table
             c == registry[t]
  <2>0. tx \in Statement /\ t \in Tables
    BY <1>2, TransactionType, StatementType
  <2>1. tx.kind \in {"ADD", "MODIFY", "DROP_COLUMN"} => c \in Seq(Column)
    BY <2>0 DEF Refused, Registries
  <2> DEFINE Right(new) ==
               /\ Register(tx) = [registry EXCEPT ![t] = new]
               /\ IF tx.kind = "DROP_TABLE" THEN new = NoTable ELSE new \in Seq(Column)
  <2>2. SUFFICES \E new : Right(new)
    BY <1>0, <1>2, <2>0, <2>1, <2>2 DEF Registries
  <2>. HIDE DEF t
  <2>3. CASE tx.kind = "CREATE"
    <3>1. Right(tx.columns)
      BY <2>0, <2>3, StatementType DEF Register, t
    <3>. QED
      BY <3>1
  <2>4. CASE tx.kind = "DROP_TABLE"
    <3>1. Right(NoTable)
      BY <2>4 DEF Register, Unregistered, t
    <3>. QED
      BY <3>1
  <2>5. CASE tx.kind = "ADD"
    <3>1. Register(tx) = [registry EXCEPT ![t] = Append(c, tx.column)]
      BY <2>5 DEF Register, t
    <3>2. Append(c, tx.column) \in Seq(Column)
      BY <2>0, <2>1, <2>5, StatementType
    <3>3. Right(Append(c, tx.column))
      BY <2>5, <3>1, <3>2
    <3>. QED
      BY <3>3
  <2>6. CASE tx.kind = "MODIFY"
    <3>1. Register(tx) = [registry EXCEPT ![t] = Modified(c, tx.column)]
      BY <2>6 DEF Register, t
    <3>2. Modified(c, tx.column) \in Seq(Column)
      BY <2>0, <2>1, <2>6, StatementType, ModifiedType
    <3>3. Right(Modified(c, tx.column))
      BY <2>6, <3>1, <3>2
    <3>. QED
      BY <3>3
  <2>7. CASE tx.kind = "DROP_COLUMN"
    <3>1. Register(tx) = [registry EXCEPT ![t] = Without(c, tx.name)]
      BY <2>7 DEF Register, t
    <3>2. Without(c, tx.name) \in Seq(Column)
      BY <2>1, <2>7, WithoutType
    <3>3. Right(Without(c, tx.name))
      BY <2>7, <3>1, <3>2
    <3>. QED
      BY <3>3
  <2>. QED
    BY <1>2, <2>0, <2>3, <2>4, <2>5, <2>6, <2>7, StatementType
<1>. QED
  BY <1>1, <1>2

-----------------------------------------------------------------------------
(* Types of the tasks.  A task that runs is inside the chain and inside its block: *)
(* without that its next transaction, and the height it saves, would have no type. *)

InBlock(task, txs) ==
  /\ task.tx >= 1 /\ task.tx <= Len(txs) + 1
  /\ task.at = "execute" => task.tx <= Len(txs)

InChain(task) ==
  task.at \in {"run", "execute"} =>
    /\ task.block <= task.last /\ task.last <= Len(ledger)
    /\ InBlock(task, IF task.block = 0 THEN <<>> ELSE ledger[task.block])

TypedInv == TypeOK /\ \A w \in Workers : InChain(worker[w])

LEMMA BlockSize ==
  ASSUME NEW block \in Block
  PROVE  block \in Seq(Pool) /\ block \in Seq(Transaction) /\ Len(block) \in 1..MaxTxs
BY TableSyncAssumption DEF Block

LEMMA ReplayFromTyped ==
  ASSUME NEW height \in Nat, NEW length \in 0..MaxBlocks
  PROVE  LET r == ReplayFrom(height, length)
         IN  /\ r \in Task
             /\ r.at \in {"idle", "run"}
             /\ r.at = "run" =>
                  r.block = height /\ height <= length /\ r.last = length /\ r.tx = 1
<1>0. MaxBlocks \in Nat /\ MaxTxs \in Nat
  BY TableSyncAssumption
<1>1. CASE height > length
  BY <1>0, <1>1 DEF ReplayFrom, Idle, Task
<1>2. CASE ~(height > length)
  BY <1>0, <1>2 DEF ReplayFrom, Task
<1>. QED
  BY <1>1, <1>2

LEMMA TypedInit == Init => TypedInv
<1> SUFFICES ASSUME Init PROVE TypedInv
  OBVIOUS
<1>0. MaxBlocks \in Nat /\ MaxTxs \in Nat /\ MaxCalls \in Nat /\ MaxCrashes \in Nat
  BY TableSyncAssumption
<1>1. ledger = <<>> /\ worker = Booted
  BY DEF Init
<1>2. Idle \in Task /\ Waiting \in Task /\ Idle.at = "idle" /\ Waiting.at = "waiting"
  BY <1>0 DEF Idle, Waiting, Task
<1>3. worker \in [Workers -> Task] /\ \A w \in Workers : worker[w].at \in {"idle", "waiting"}
  BY <1>1, <1>2 DEF Booted
<1>4. ledger \in Seq(Block) /\ Len(ledger) <= MaxBlocks
  BY <1>0, <1>1
<1>5. TypeOK
  BY <1>0, <1>3, <1>4 DEF TypeOK, Init, EmptyDatabase
<1>. QED
  BY <1>3, <1>5 DEF TypedInv, InChain

\* What a task that has a transaction in front of it knows.
LEMMA InFront ==
  ASSUME TypedInv, NEW w \in Workers,
         AtTransaction(w) \/ worker[w].at = "execute"
  PROVE  /\ worker[w] \in Task /\ worker[w].block \in 1..Len(ledger) /\ Len(ledger) <= MaxBlocks
         /\ worker[w].tx \in 1..MaxTxs
         /\ Transactions(w) = ledger[worker[w].block] /\ Transactions(w) \in Block
         /\ worker[w].tx \in 1..Len(Transactions(w))
         /\ Current(w) \in Pool /\ Current(w) \in Transaction
<1> DEFINE task == worker[w]
<1>0. /\ task \in Task /\ Len(ledger) \in Nat /\ Len(ledger) <= MaxBlocks
      /\ ledger \in Seq(Block)
  BY DEF TypedInv, TypeOK
<1>1. /\ task.block \in Nat /\ task.tx \in Nat /\ task.last \in Nat
  BY <1>0, TableSyncAssumption DEF Task
<1>2. /\ task.block <= task.last /\ task.last <= Len(ledger)
      /\ task.tx >= 1 /\ task.tx <= Len(Transactions(w))
  BY DEF TypedInv, InChain, InBlock, AtTransaction, Transactions
<1>3. task.block # 0
  <2>1. SUFFICES ASSUME task.block = 0 PROVE FALSE
    OBVIOUS
  <2>2. Len(Transactions(w)) = 0
    BY <2>1 DEF Transactions
  <2>. QED
    BY <1>1, <1>2, <2>2
<1>4. task.block \in 1..Len(ledger)
  BY <1>0, <1>1, <1>2, <1>3
<1>5. Transactions(w) = ledger[task.block]
  BY <1>3 DEF Transactions
<1>6. Transactions(w) \in Block
  BY <1>0, <1>4, <1>5
<1>7. Transactions(w) \in Seq(Pool) /\ Len(Transactions(w)) \in 1..MaxTxs
  BY <1>6, BlockSize
<1>8. task.tx \in 1..Len(Transactions(w))
  BY <1>1, <1>2, <1>7
<1>9. Current(w) \in Pool
  BY <1>7, <1>8 DEF Current
<1>. QED
  BY <1>0, <1>4, <1>5, <1>6, <1>7, <1>8, <1>9, TableSyncAssumption

LEMMA NextTransactionTyped ==
  ASSUME TypedInv, NEW w \in Workers, AtTransaction(w) \/ worker[w].at = "execute",
         NextTransaction(w), UNCHANGED <<ledger, synced_height, state_file, bounds>>,
         registry' \in Registries, database' \in Databases
  PROVE  TypedInv'
<1>1. /\ worker[w] \in Task /\ worker[w].block \in 1..Len(ledger) /\ Len(ledger) <= MaxBlocks
      /\ worker[w].tx \in 1..MaxTxs
      /\ Transactions(w) = ledger[worker[w].block]
      /\ worker[w].tx \in 1..Len(Transactions(w))
  BY InFront
<1>2. worker \in [Workers -> Task] /\ MaxTxs \in Nat /\ MaxBlocks \in Nat /\ Len(ledger) \in Nat
  BY TableSyncAssumption DEF TypedInv, TypeOK
<1>3. /\ worker' = [worker EXCEPT ![w] = worker'[w]]
      /\ worker'[w] = [worker[w] EXCEPT !.tx = worker[w].tx + 1, !.at = "run"]
  BY <1>2 DEF NextTransaction
<1>4. worker'[w] = [block |-> worker[w].block, tx |-> worker[w].tx + 1,
                    last |-> worker[w].last, at |-> "run"]
  BY <1>1, <1>3 DEF Task
<1>5. worker[w].tx + 1 \in 0..MaxTxs + 1
  BY <1>1, <1>2
<1>6. worker'[w] \in Task
  BY <1>1, <1>4, <1>5 DEF Task
<1>7. worker' \in [Workers -> Task] /\ \A v \in Workers \ {w} : worker'[v] = worker[v]
  BY <1>2, <1>3, <1>6
<1>8. tried' \subseteq (1..MaxBlocks) \X (1..MaxTxs)
  <2>1. <<worker[w].block, worker[w].tx>> \in (1..MaxBlocks) \X (1..MaxTxs)
    BY <1>1, <1>2
  <2>. QED
    BY <2>1 DEF NextTransaction, TypedInv, TypeOK
<1>9. TypeOK'
  BY <1>7, <1>8 DEF TypedInv, TypeOK, bounds, Registries, Databases
<1>10. InChain(worker[w])'
  <2>1. worker[w].block <= worker[w].last /\ worker[w].last <= Len(ledger)
    BY DEF TypedInv, InChain, AtTransaction
  <2>2. worker[w].block # 0
    BY <1>1
  <2>3. InBlock(worker'[w], ledger[worker[w].block])
    <3>1. worker'[w].tx = worker[w].tx + 1 /\ worker'[w].at = "run"
      BY <1>4
    <3>2. worker[w].tx \in Nat /\ worker[w].tx <= Len(ledger[worker[w].block]) /\ Len(ledger[worker[w].block]) \in Nat
      <4>1. ledger[worker[w].block] \in Block
        BY <1>1 DEF TypedInv, TypeOK
      <4>. QED
        BY <1>1, <4>1, BlockType
    <3>. QED
      BY <3>1, <3>2 DEF InBlock
  <2>. QED
    BY <1>4, <2>1, <2>2, <2>3 DEF InChain
<1>11. \A v \in Workers \ {w} : InChain(worker[v])'
  BY <1>7 DEF TypedInv, InChain
<1>. QED
  BY <1>9, <1>10, <1>11 DEF TypedInv

LEMMA TransactionTyped ==
  ASSUME TypedInv, NEW w \in Workers,
         SkipDatabase(w) \/ BeginTransaction(w) \/ ExecuteTransaction(w)
  PROVE  TypedInv'
<1>0. /\ registry \in Registries /\ database \in Databases /\ worker \in [Workers -> Task]
  BY DEF TypedInv, TypeOK, Registries, Databases
<1>1. CASE SkipDatabase(w)
  <2>1. AtTransaction(w)
    BY <1>1 DEF SkipDatabase
  <2>2. Current(w) \in Transaction
    BY <2>1, InFront
  <2>3. registry' \in Registries
    BY <1>0, <1>1, <2>2, RegisterType DEF SkipDatabase
  <2>. QED
    BY <1>0, <1>1, <2>1, <2>3, NextTransactionTyped DEF SkipDatabase
<1>2. CASE ExecuteTransaction(w)
  <2>1. worker[w].at = "execute"
    BY <1>2 DEF ExecuteTransaction
  <2>2. Current(w) \in Transaction
    BY <2>1, InFront
  <2>3. database' \in Databases
    BY <1>0, <1>2, <2>2, ExecutedType DEF ExecuteTransaction
  <2>. QED
    BY <1>0, <1>2, <2>1, <2>3, NextTransactionTyped DEF ExecuteTransaction
<1>3. CASE BeginTransaction(w)
  <2>1. AtTransaction(w) /\ ~Refused(Current(w))
    BY <1>3 DEF BeginTransaction
  <2>2. /\ Current(w) \in Transaction /\ worker[w] \in Task
        /\ Transactions(w) = ledger[worker[w].block] /\ worker[w].block \in 1..Len(ledger)
        /\ worker[w].tx \in 1..Len(Transactions(w))
    BY <2>1, InFront
  <2>3. registry' \in Registries
    BY <1>0, <1>3, <2>1, <2>2, RegisterType DEF BeginTransaction
  <2>4. /\ worker'[w] = [worker[w] EXCEPT !.at = "execute"] /\ worker'[w] \in Task
        /\ \A v \in Workers \ {w} : worker'[v] = worker[v]
    BY <1>0, <1>3, <2>2 DEF BeginTransaction, Task
  <2>5. worker' \in [Workers -> Task]
    BY <1>0, <1>3, <2>4 DEF BeginTransaction
  <2>6. TypeOK'
    BY <1>3, <2>3, <2>5 DEF BeginTransaction, TypedInv, TypeOK, bounds, Registries
  <2>7. InChain(worker[w])'
    <3>1. /\ worker'[w].block = worker[w].block /\ worker'[w].tx = worker[w].tx
          /\ worker'[w].last = worker[w].last
      BY <2>2, <2>4 DEF Task
    <3>2. InChain(worker[w]) /\ worker[w].at = "run" /\ UNCHANGED ledger
      BY <1>3, <2>1 DEF TypedInv, BeginTransaction, AtTransaction
    <3>3. worker[w].tx <= Len(ledger[worker[w].block]) /\ worker[w].block # 0
      BY <2>2
    <3>. QED
      BY <3>1, <3>2, <3>3 DEF InChain, InBlock
  <2>8. \A v \in Workers \ {w} : InChain(worker[v])'
    BY <1>3, <2>4 DEF TypedInv, InChain, BeginTransaction
  <2>. QED
    BY <2>6, <2>7, <2>8 DEF TypedInv
<1>. QED
  BY <1>1, <1>2, <1>3

\* A task that begins a block, or none.
LEMMA ReplayTyped ==
  ASSUME TypedInv, NEW w \in Workers, NEW height \in Nat, NEW length \in 0..Len(ledger),
         worker' = [worker EXCEPT ![w] = ReplayFrom(height, length)],
         UNCHANGED <<ledger, registry, database, tried, crashes>>,
         synced_height' \in 0..MaxBlocks, state_file' \in 0..MaxBlocks \cup {Garbled},
         calls' \in 0..MaxCalls
  PROVE  TypedInv'
<1>0. /\ worker \in [Workers -> Task] /\ ledger \in Seq(Block) /\ Len(ledger) \in Nat
      /\ Len(ledger) <= MaxBlocks /\ MaxBlocks \in Nat
  BY TableSyncAssumption DEF TypedInv, TypeOK
<1>1. length \in 0..MaxBlocks
  BY <1>0
<1>2. /\ worker'[w] \in Task /\ worker'[w].at \in {"idle", "run"}
      /\ worker'[w].at = "run" =>
           /\ worker'[w].block = height /\ height <= length
           /\ worker'[w].last = length /\ worker'[w].tx = 1
      /\ \A v \in Workers \ {w} : worker'[v] = worker[v]
  BY <1>0, <1>1, ReplayFromTyped
<1>3. TypeOK'
  <2>1. worker' \in [Workers -> Task]
    BY <1>0, <1>2
  <2>. QED
    BY <2>1 DEF TypedInv, TypeOK
<1>4. InChain(worker[w])'
  <2>1. SUFFICES ASSUME worker'[w].at = "run" PROVE InChain(worker[w])'
    BY <1>2 DEF InChain
  <2>2. \A b \in 1..Len(ledger) : Len(ledger[b]) \in Nat
    BY <1>0, BlockType
  <2>3. Len(IF height = 0 THEN <<>> ELSE ledger[height]) \in Nat
    BY <1>0, <1>2, <2>1, <2>2
  <2>4. worker'[w].tx = 1 /\ worker'[w].at # "execute"
    BY <1>2, <2>1
  <2>5. InBlock(worker'[w], IF height = 0 THEN <<>> ELSE ledger[height])
    BY <2>3, <2>4 DEF InBlock
  <2>6. worker'[w].block = height /\ height <= length /\ worker'[w].last = length
    BY <1>2, <2>1
  <2>. QED
    BY <1>0, <2>5, <2>6 DEF InChain
<1>5. \A v \in Workers \ {w} : InChain(worker[v])'
  BY <1>2 DEF TypedInv, InChain
<1>. QED
  BY <1>3, <1>4, <1>5 DEF TypedInv

LEMMA CommitTyped ==
  ASSUME TypedInv, NEW c \in Callbacks, NEW block \in Block, CommitBlock(c, block)
  PROVE  TypedInv'
<1>0. /\ worker \in [Workers -> Task] /\ ledger \in Seq(Block) /\ Len(ledger) \in Nat
      /\ Len(ledger) < MaxBlocks /\ MaxBlocks \in Nat /\ c \in Workers
  BY TableSyncAssumption DEF TypedInv, TypeOK, CommitBlock, RecordBlock, Workers
<1>1. /\ ledger' = Append(ledger, block)
      /\ worker' = [worker EXCEPT ![c] = ReplayFrom(Len(ledger) + 1, Len(ledger) + 1)]
      /\ UNCHANGED <<registry, database, synced_height, state_file, tried, bounds>>
  BY DEF CommitBlock, RecordBlock
<1>2. /\ ledger' \in Seq(Block) /\ Len(ledger') = Len(ledger) + 1 /\ Len(ledger') <= MaxBlocks
      /\ \A b \in 1..Len(ledger) : ledger'[b] = ledger[b]
      /\ ledger'[Len(ledger) + 1] = block
  BY <1>0, <1>1
<1>3. Len(ledger) + 1 \in 0..MaxBlocks /\ Len(ledger) + 1 \in Nat
  BY <1>0
<1>4. /\ worker'[c] \in Task /\ worker'[c].at \in {"idle", "run"}
      /\ worker'[c].at = "run" =>
           /\ worker'[c].block = Len(ledger) + 1
           /\ worker'[c].last = Len(ledger) + 1 /\ worker'[c].tx = 1
      /\ \A v \in Workers \ {c} : worker'[v] = worker[v]
  BY <1>0, <1>1, <1>3, ReplayFromTyped
<1>5. TypeOK'
  <2>1. worker' \in [Workers -> Task]
    BY <1>0, <1>1, <1>4
  <2>. QED
    BY <1>1, <1>2, <2>1 DEF TypedInv, TypeOK, bounds
<1>6. InChain(worker[c])'
  <2>1. SUFFICES ASSUME worker'[c].at = "run" PROVE InChain(worker[c])'
    BY <1>4 DEF InChain
  <2>2. InBlock(worker'[c], block)
    BY <1>4, <2>1, BlockType DEF InBlock
  <2>. QED
    BY <1>0, <1>2, <1>4, <2>1, <2>2 DEF InChain
<1>7. ASSUME NEW v \in Workers \ {c} PROVE InChain(worker[v])'
  <2>1. InChain(worker[v]) /\ worker'[v] = worker[v]
    BY <1>4 DEF TypedInv
  <2>2. worker[v].block \in Nat /\ worker[v].last \in Nat
    BY <1>0 DEF Task
  <2>. QED
    BY <1>0, <1>2, <2>1, <2>2 DEF InChain
<1>. QED
  BY <1>5, <1>6, <1>7 DEF TypedInv

LEMMA CrashTyped ==
  ASSUME TypedInv, Crash
  PROVE  TypedInv'
<1>0. MaxBlocks \in Nat /\ MaxTxs \in Nat /\ MaxCrashes \in Nat /\ crashes \in Nat
  BY TableSyncAssumption DEF TypedInv, TypeOK
<1>1. /\ state_file' \in {state_file, Garbled} /\ synced_height' = Loaded(state_file')
      /\ crashes < MaxCrashes /\ crashes' = crashes + 1 /\ worker' = Booted
      /\ registry' = EmptyDatabase /\ UNCHANGED <<database, calls>>
      /\ ledger' \in {ledger, <<>>} /\ tried' \in {tried, {}}
  BY DEF Crash
<1>2. Idle \in Task /\ Waiting \in Task /\ Idle.at = "idle" /\ Waiting.at = "waiting"
  BY <1>0 DEF Idle, Waiting, Task
<1>3. worker' \in [Workers -> Task] /\ \A w \in Workers : worker'[w].at \in {"idle", "waiting"}
  BY <1>1, <1>2 DEF Booted
<1>4. ledger' \in Seq(Block) /\ Len(ledger') <= MaxBlocks
  <2>1. CASE ledger' = ledger
    BY <2>1 DEF TypedInv, TypeOK
  <2>2. CASE ledger' = <<>>
    BY <1>0, <2>2
  <2>. QED
    BY <1>1, <2>1, <2>2
<1>5. state_file' \in 0..MaxBlocks \cup {Garbled} /\ synced_height' \in 0..MaxBlocks
  BY <1>0, <1>1 DEF TypedInv, TypeOK, Loaded
<1>6. crashes' \in 0..MaxCrashes
  BY <1>0, <1>1
<1>7. registry' \in Registries /\ tried' \subseteq (1..MaxBlocks) \X (1..MaxTxs)
  BY <1>1 DEF EmptyDatabase, Registries, TypedInv, TypeOK
<1>8. TypeOK'
  BY <1>1, <1>3, <1>4, <1>5, <1>6, <1>7 DEF TypedInv, TypeOK, Registries
<1>. QED
  BY <1>3, <1>8 DEF TypedInv, InChain

LEMMA TypedStep == TypedInv /\ [Next]_vars => TypedInv'
<1> SUFFICES ASSUME TypedInv, [Next]_vars PROVE TypedInv'
  OBVIOUS
<1>0. /\ worker \in [Workers -> Task] /\ Len(ledger) \in Nat /\ Len(ledger) <= MaxBlocks
      /\ synced_height \in 0..MaxBlocks /\ state_file \in 0..MaxBlocks \cup {Garbled}
      /\ MaxBlocks \in Nat /\ MaxCalls \in Nat /\ calls \in 0..MaxCalls
      /\ Startup \in Workers /\ Callers \subseteq Workers
  BY TableSyncAssumption DEF TypedInv, TypeOK, Workers
<1>1. ASSUME NEW c \in Callbacks, NEW block \in Block, CommitBlock(c, block)
      PROVE  TypedInv'
  BY <1>1, CommitTyped
<1>2. CASE StartReplay
  <2>1. synced_height + 1 \in Nat /\ Len(ledger) \in 0..Len(ledger)
    BY <1>0
  <2>2. /\ worker' = [worker EXCEPT ![Startup] = ReplayFrom(synced_height + 1, Len(ledger))]
        /\ UNCHANGED <<ledger, registry, database, synced_height, state_file, tried, calls, crashes>>
    BY <1>2 DEF StartReplay, bounds
  <2>. QED
    BY <1>0, <2>1, <2>2, ReplayTyped
<1>3. ASSUME NEW c \in Callers, NEW from_block \in 0..Len(ledger), SyncTable(c, from_block)
      PROVE  TypedInv'
  <2>1. from_block \in Nat /\ Len(ledger) \in 0..Len(ledger)
    BY <1>0
  <2>2. /\ worker' = [worker EXCEPT ![c] = ReplayFrom(from_block, Len(ledger))]
        /\ calls < MaxCalls /\ calls' = calls + 1
        /\ UNCHANGED <<ledger, registry, database, synced_height, state_file, tried, crashes>>
    BY <1>3 DEF SyncTable
  <2>3. calls' \in 0..MaxCalls
    BY <1>0, <2>2
  <2>. QED
    BY <1>0, <2>1, <2>2, <2>3, ReplayTyped
<1>4. ASSUME NEW w \in Workers, FinishBlock(w) PROVE TypedInv'
  <2>1. /\ worker' = [worker EXCEPT ![w] = ReplayFrom(worker[w].block + 1, worker[w].last)]
        /\ synced_height' = Updated(worker[w].block) /\ state_file' = Updated(worker[w].block)
        /\ UNCHANGED <<ledger, registry, database, tried, calls, crashes>>
        /\ worker[w].at = "run"
    BY <1>4 DEF FinishBlock, AtEndOfBlock, bounds
  <2>2. worker[w].block \in 0..MaxBlocks /\ worker[w].last \in 0..MaxBlocks
    BY <1>0 DEF Task
  <2>3. worker[w].last <= Len(ledger)
    BY <2>1 DEF TypedInv, InChain
  <2>4. worker[w].block + 1 \in Nat /\ worker[w].last \in 0..Len(ledger)
    BY <1>0, <2>2, <2>3
  <2>5. Updated(worker[w].block) \in 0..MaxBlocks
    BY <1>0, <2>2 DEF Updated
  <2>. QED
    BY <1>0, <2>1, <2>4, <2>5, ReplayTyped
<1>5. ASSUME NEW w \in Workers, Run(w) PROVE TypedInv'
  BY <1>4, <1>5, TransactionTyped DEF Run
<1>6. CASE Crash
  BY <1>6, CrashTyped
<1>7. CASE UNCHANGED vars
  BY <1>7 DEF vars, bounds, TypedInv, TypeOK, InChain
<1>. QED
  BY <1>1, <1>2, <1>3, <1>5, <1>6, <1>7 DEF Next

\* The registry holds columns, the database contents, the saved height is a block of the
\* chain or was one, and every task is at a transaction its block has: whatever the blocks
\* hold, whatever crashes, and however many tasks replay (table_sync.py:109-151).
THEOREM TableSyncTyped == Spec => []TypeOK
<1>1. TypedInv => TypeOK
  BY DEF TypedInv
<1>. QED
  BY <1>1, TypedInit, TypedStep, PTL DEF Spec

-----------------------------------------------------------------------------
(* Which tables exist: in the database, and for the registry.              *)

\* Every CREATE names its columns once, and a batch leaves tables in existence.  The
\* registry hears of a CREATE that SQLite refuses, and not of one in a batch: without
\* this assumption it parts from the database (TS_BatchDrops with its other pools).
PlainPool ==
  \A tx \in Pool :
    /\ tx.kind = "CREATE" => Cardinality(NamesOf(tx.columns)) = Len(tx.columns)
    /\ tx.kind = "BATCH" =>
         \A i \in 1..Len(tx.statements) : tx.statements[i].kind \notin {"CREATE", "DROP_TABLE"}

Existing(tables) == {t \in Tables : tables[t] # NoTable}

\* The tables after a transaction.
TablesAfter(T, tx) ==
  IF tx.kind = "CREATE" THEN T \cup {tx.table}
  ELSE IF tx.kind = "DROP_TABLE" THEN T \ {tx.table}
  ELSE T

LEMMA EffectTables ==
  ASSUME NEW db \in Databases, NEW s \in Statement, ~Fails(db, s)
  PROVE  Existing(Effect(db, s)) = TablesAfter(Existing(db), s)
<1>1. s.table \in Tables
  BY StatementType
<1>2. /\ \A t \in Tables \ {s.table} : Effect(db, s)[t] = db[t]
      /\ s.kind = "DROP_TABLE" <=> Effect(db, s)[s.table] = NoTable
      /\ s.kind # "CREATE" => db[s.table] # NoTable
  BY EffectType DEF Fails
<1>3. ASSUME NEW t \in Tables
      PROVE  t \in Existing(Effect(db, s)) <=> t \in TablesAfter(Existing(db), s)
  BY <1>1, <1>2 DEF Existing, TablesAfter
<1>. QED
  BY <1>1, <1>3 DEF Existing, TablesAfter

LEMMA ExecutedTables ==
  ASSUME PlainPool, NEW db \in Databases, NEW tx \in Pool
  PROVE  Existing(Executed(db, tx)) = TablesAfter(Existing(db), tx)
<1>0. tx \in Transaction
  BY TableSyncAssumption
<1>1. CASE tx.kind = "BATCH"
  <2> DEFINE D == {d \in Databases : Existing(d) = Existing(db)}
             X == {s \in Statement : s.kind \notin {"CREATE", "DROP_TABLE"}}
  <2>1. ASSUME NEW d \in D, NEW s \in X, ~Fails(d, s) PROVE Effect(d, s) \in D
    <3>1. Effect(d, s) \in Databases /\ Existing(Effect(d, s)) = TablesAfter(Existing(d), s)
      BY <2>1, EffectType, EffectTables
    <3>. QED
      BY <3>1 DEF TablesAfter
  <2>2. tx.statements \in Seq(X)
    <3>1. tx.statements \in Seq(Statement)
      BY <1>0, <1>1, TransactionType
    <3>2. \A i \in 1..Len(tx.statements) : tx.statements[i] \in X
      BY <1>1, <3>1 DEF PlainPool
    <3>. HIDE DEF X
    <3>. QED
      BY <3>1, <3>2
  <2>3. db \in D
    OBVIOUS
  <2>4. Batch(db, tx.statements) \in D
    <3>. HIDE DEF D, X
    <3>. QED
      BY <2>1, <2>2, <2>3, BatchKeeps
  <2>. QED
    BY <1>1, <2>4 DEF Executed, TablesAfter
<1>2. CASE tx.kind # "BATCH"
  <2>1. tx \in Statement
    BY <1>0, <1>2, TransactionType
  <2>2. CASE ~Fails(db, tx)
    BY <1>2, <2>1, <2>2, EffectTables DEF Executed
  <2>3. CASE Fails(db, tx)
    <3>1. tx.table \in Tables
      BY <2>1, StatementType
    <3>2. tx.kind = "CREATE" => tx.table \in Existing(db)
      BY <2>3, <3>1 DEF Fails, PlainPool, IsDml, Existing
    <3>3. tx.kind = "DROP_TABLE" => tx.table \notin Existing(db)
      BY <2>3, <3>1 DEF Fails, Existing
    <3>. QED
      BY <1>2, <2>3, <3>2, <3>3 DEF Executed, TablesAfter
  <2>. QED
    BY <2>2, <2>3
<1>. QED
  BY <1>1, <1>2

LEMMA RegisterTables ==
  ASSUME registry \in Registries, NEW tx \in Transaction, ~Refused(tx)
  PROVE  Existing(Register(tx)) = TablesAfter(Existing(registry), tx)
<1>1. CASE tx.kind \in {"BATCH", "INSERT", "UPDATE", "DELETE"}
  BY <1>1, RegisterType DEF TablesAfter
<1>2. CASE tx.kind \notin {"BATCH", "INSERT", "UPDATE", "DELETE"}
  <2>1. tx.table \in Tables /\ tx.kind \in {"CREATE", "ADD", "MODIFY", "DROP_COLUMN", "DROP_TABLE"}
    BY <1>2, TransactionType, StatementType
  <2>2. /\ \A t \in Tables \ {tx.table} : Register(tx)[t] = registry[t]
        /\ tx.kind = "CREATE" => Register(tx)[tx.table] # NoTable
        /\ tx.kind = "DROP_TABLE" => Register(tx)[tx.table] = NoTable
        /\ tx.kind \in {"ADD", "MODIFY", "DROP_COLUMN"} =>
              registry[tx.table] # NoTable /\ Register(tx)[tx.table] # NoTable
    BY <1>2, RegisterType
  <2>3. ASSUME NEW t \in Tables
        PROVE  t \in Existing(Register(tx)) <=> t \in TablesAfter(Existing(registry), tx)
    BY <2>1, <2>2 DEF Existing, TablesAfter
  <2>. QED
    BY <2>1, <2>3 DEF Existing, TablesAfter
<1>. QED
  BY <1>1, <1>2

\* What the registry holds back, SQLite would have refused.
LEMMA RefusedFails ==
  ASSUME NEW tx \in Transaction, Refused(tx) \/ tx.kind = "MODIFY",
         Existing(registry) = Existing(database)
  PROVE  Executed(database, tx) = database
<1>1. tx.kind # "BATCH"
  BY DEF Refused
<1>2. tx.table \in Tables
  BY <1>1, TransactionType, StatementType
<1>3. registry[tx.table] = NoTable <=> database[tx.table] = NoTable
  BY <1>2 DEF Existing
<1>4. Fails(database, tx)
  BY <1>3 DEF Refused, Fails
<1>. QED
  BY <1>1, <1>4 DEF Executed

-----------------------------------------------------------------------------
(* Where a task is on the chain.                                           *)

\* The transactions of the chain before the one the task is at.
Position(w) == Before(ledger, worker[w].block - 1) + worker[w].tx - 1

LEMMA LogType ==
  ASSUME TypedInv
  PROVE  /\ ledger \in Seq(Seq(Pool)) /\ Len(ledger) \in Nat
         /\ Log \in Seq(Pool) /\ Log \in Seq(Transaction) /\ Len(Log) \in Nat
<1>1. ledger \in Seq(Block) /\ Len(ledger) \in Nat
  BY DEF TypedInv, TypeOK
<1>2. \A i \in 1..Len(ledger) : ledger[i] \in Seq(Pool)
  BY <1>1, BlockSize
<1>3. ledger \in Seq(Seq(Pool))
  BY <1>1, <1>2
<1>4. Log \in Seq(Pool)
  BY <1>3, FlattenType DEF Log
<1>. QED
  BY <1>1, <1>3, <1>4, TableSyncAssumption

\* A new block changes nothing before it.
LEMMA LogGrows ==
  ASSUME TypedInv, NEW block \in Block, ledger' = Append(ledger, block)
  PROVE  /\ Log' = Log \o block /\ Log' \in Seq(Pool) /\ Log' \in Seq(Transaction)
         /\ Len(Log') \in Nat /\ Len(Log) <= Len(Log')
         /\ \A k \in 0..Len(Log) : SubSeq(Log', 1, k) = SubSeq(Log, 1, k)
         /\ \A k \in 1..Len(Log) : Log'[k] = Log[k]
         /\ \A b \in 0..Len(ledger) : Before(ledger', b) = Before(ledger, b)
<1>0. /\ ledger \in Seq(Seq(Pool)) /\ Len(ledger) \in Nat /\ Log \in Seq(Pool) /\ Len(Log) \in Nat
      /\ block \in Seq(Pool)
  BY LogType, BlockSize
<1>1. Log' = Log \o block
  BY <1>0, FlattenAppend DEF Log
<1>. DEFINE s == Log
<1>2. s \in Seq(Pool) /\ Log' = s \o block
  BY <1>0, <1>1
<1>. HIDE DEF s
<1>3. /\ Log' \in Seq(Pool) /\ Len(Log') = Len(s) + Len(block) /\ Len(block) \in Nat
      /\ \A k \in 1..Len(s) : Log'[k] = s[k]
  BY <1>0, <1>2
<1>4. \A k \in 0..Len(s) : SubSeq(Log', 1, k) = SubSeq(s, 1, k)
  BY <1>0, <1>2
<1>5. \A b \in 0..Len(ledger) : SubSeq(ledger', 1, b) = SubSeq(ledger, 1, b)
  BY <1>0
<1>6. \A b \in 0..Len(ledger) : Before(ledger', b) = Before(ledger, b)
  BY <1>5 DEF Before
<1>. QED
  BY <1>0, <1>1, <1>3, <1>4, <1>6, TableSyncAssumption DEF s

LEMMA PositionInFront ==
  ASSUME TypedInv, NEW w \in Workers, AtTransaction(w) \/ worker[w].at = "execute"
  PROVE  /\ Position(w) \in Nat /\ Position(w) + 1 <= Len(Log)
         /\ Log[Position(w) + 1] = Current(w)
<1> DEFINE b == worker[w].block
           i == worker[w].tx
<1>1. b \in 1..Len(ledger) /\ Transactions(w) = ledger[b] /\ i \in 1..Len(ledger[b])
  BY InFront
<1>2. ledger \in Seq(Seq(Pool)) /\ Len(Log) \in Nat
  BY LogType
<1>. HIDE DEF b, i
<1>3. /\ Before(ledger, b - 1) \in Nat /\ Len(ledger[b]) \in Nat
      /\ Before(ledger, b) = Before(ledger, b - 1) + Len(ledger[b])
      /\ Log[Before(ledger, b - 1) + i] = ledger[b][i]
  BY <1>1, <1>2, FlattenAt DEF Log
<1>4. Before(ledger, b) <= Len(Log)
  BY <1>1, <1>2, FlattenPrefix DEF Log
<1>5. Position(w) = Before(ledger, b - 1) + i - 1 /\ Current(w) = ledger[b][i]
  BY <1>1 DEF Position, Current, b, i
<1>6. i \in Nat /\ i >= 1 /\ i <= Len(ledger[b]) /\ Position(w) + 1 = Before(ledger, b - 1) + i
  BY <1>1, <1>3, <1>5
<1>. QED
  BY <1>2, <1>3, <1>4, <1>5, <1>6

\* At the end of a block, or before the first transaction of one.
LEMMA PositionAtEnd ==
  ASSUME TypedInv, NEW w \in Workers, AtEndOfBlock(w), worker[w].block # 0
  PROVE  Position(w) = Before(ledger, worker[w].block) /\ worker[w].block \in 1..Len(ledger)
<1> DEFINE b == worker[w].block
<1>0. /\ ledger \in Seq(Seq(Pool)) /\ Len(ledger) \in Nat /\ worker[w] \in Task
      /\ ledger \in Seq(Block)
  BY LogType DEF TypedInv, TypeOK
<1>1. b \in Nat /\ worker[w].tx \in Nat /\ worker[w].last \in Nat
  BY <1>0, TableSyncAssumption DEF Task
<1>2. /\ b <= worker[w].last /\ worker[w].last <= Len(ledger)
      /\ worker[w].tx <= Len(ledger[b]) + 1 /\ worker[w].tx > Len(ledger[b])
  BY DEF TypedInv, InChain, InBlock, AtEndOfBlock, Transactions
<1>3. b \in 1..Len(ledger)
  BY <1>0, <1>1, <1>2
<1>4. /\ Before(ledger, b - 1) \in Nat /\ Len(ledger[b]) \in Nat
      /\ Before(ledger, b) = Before(ledger, b - 1) + Len(ledger[b])
  <2>. HIDE DEF b
  <2>. QED
    BY <1>0, <1>3, FlattenAt
<1>5. worker[w].tx = Len(ledger[b]) + 1
  BY <1>1, <1>2, <1>4
<1>. QED
  BY <1>3, <1>4, <1>5 DEF Position

\* The end of a transaction is one position further.
LEMMA PositionNext ==
  ASSUME TypedInv, NEW w \in Workers, NextTransaction(w), UNCHANGED ledger,
         AtTransaction(w) \/ worker[w].at = "execute"
  PROVE  /\ Position(w)' = Position(w) + 1 /\ worker'[w].at = "run"
         /\ worker'[w].block = worker[w].block /\ worker'[w].last = worker[w].last
         /\ \A v \in Workers \ {w} : worker'[v] = worker[v]
<1>1. worker \in [Workers -> Task] /\ worker[w] \in Task /\ worker[w].tx \in Nat
  BY InFront DEF TypedInv, TypeOK
<1>2. worker'[w] = [worker[w] EXCEPT !.tx = worker[w].tx + 1, !.at = "run"]
  BY <1>1 DEF NextTransaction
<1>3. worker'[w] = [block |-> worker[w].block, tx |-> worker[w].tx + 1,
                    last |-> worker[w].last, at |-> "run"]
  BY <1>1, <1>2 DEF Task
<1>4. Before(ledger, worker[w].block - 1) \in Nat
  <2>1. worker[w].block \in 1..Len(ledger) /\ ledger \in Seq(Seq(Pool))
    BY InFront, LogType
  <2>. QED
    BY <2>1, FlattenAt
<1>5. Position(w)' = Before(ledger, worker[w].block - 1) + (worker[w].tx + 1) - 1
  BY <1>3 DEF Position
<1>6. \A v \in Workers \ {w} : worker'[v] = worker[v]
  BY <1>1 DEF NextTransaction
<1>. QED
  BY <1>1, <1>3, <1>4, <1>5, <1>6 DEF Position

\* The database of one transaction more of the chain.
LEMMA ReplayedNext ==
  ASSUME NEW X, NEW s \in Seq(X), NEW k \in Nat, k + 1 <= Len(s)
  PROVE  /\ Replayed(SubSeq(s, 1, k + 1)) = Executed(Replayed(SubSeq(s, 1, k)), s[k + 1])
         /\ s[k + 1] \in X
<1>1. /\ SubSeq(s, 1, k + 1) = Append(SubSeq(s, 1, k), s[k + 1])
      /\ SubSeq(s, 1, k) \in Seq(X) /\ s[k + 1] \in X
  OBVIOUS
<1>. QED
  BY <1>1, ReplayedAppend

-----------------------------------------------------------------------------
(* A node that replays blocks only as they are committed.                  *)

\* One task hands blocks over, and only after start(); no crash, no syncTable.
Undisturbed ==
  /\ \E c : Callbacks = {c}
  /\ ~EarlyBlocks /\ MaxCalls = 0 /\ MaxCrashes = 0

\* The tables the database will have once the statement it is asked for is done.
DatabaseNext ==
  IF worker[TheCallback].at = "execute" THEN Executed(database, Current(TheCallback)) ELSE database

\* The callback is on the newest block, and nothing else runs.
OnlyCallback ==
  /\ ~Started => ledger = <<>>
  /\ \A w \in Workers \ {TheCallback} : worker[w].at \in {"idle", "waiting"}
  /\ worker[TheCallback].at \in {"idle", "run", "execute"}
  /\ worker[TheCallback].at # "idle" =>
       worker[TheCallback].block = Len(ledger) /\ worker[TheCallback].last = Len(ledger)

SerialInv ==
  /\ TypedInv
  /\ OnlyCallback
  /\ Existing(registry) = Existing(DatabaseNext)
  /\ Applied \in 0..Len(Log)
  /\ database = Replayed(SubSeq(Log, 1, Applied))


LEMMA TheCallbackIs ==
  ASSUME Undisturbed
  PROVE  /\ TheCallback \in Callbacks /\ TheCallback \in Workers /\ TheCallback # Startup
         /\ \A c \in Callbacks : c = TheCallback
         /\ Startup \in Workers
BY TableSyncAssumption DEF Undisturbed, TheCallback, Workers

LEMMA PromiseExecuted ==
  ASSUME NEW d, NEW tx
  PROVE  Promise!Executed(d, tx) = Executed(d, tx)
<1>0. \A columns, name : Promise!Without(columns, name) = Without(columns, name)
  BY DEF Promise!Without, Without, Promise!Selection, Selection, FoldLeft, Promise!FoldLeft,
         MapThenFoldSet, Promise!MapThenFoldSet, Max, Promise!Max, ToSet, Promise!ToSet
<1>1. \A e, s : Promise!Fails(e, s) = Fails(e, s) /\ Promise!Effect(e, s) = Effect(e, s)
  <2> TAKE e, s
  <2>1. Promise!Fails(e, s) = Fails(e, s)
    BY DEF Promise!Fails, Fails, Promise!NamesOf, NamesOf, Cardinality, Promise!Cardinality
  <2>2. Promise!Effect(e, s) = Effect(e, s)
    BY <1>0 DEF Promise!Effect, Effect
  <2>. QED
    BY <2>1, <2>2
<1>2. \A run, s : Promise!Continued(run, s) = Continued(run, s)
  BY <1>1 DEF Promise!Continued, Continued, Promise!IsDml, IsDml
<1>3. \A e, l : Promise!Attempt(e, l) = Attempt(e, l)
  BY <1>2 DEF Promise!Attempt, Attempt, Promise!Begun, Begun, FoldLeft, Promise!FoldLeft,
         MapThenFoldSet, Promise!MapThenFoldSet, Max, Promise!Max
<1>. QED
  BY <1>1, <1>3 DEF Promise!Executed, Executed, Promise!Batch, Batch

LEMMA SerialStart ==
  ASSUME Undisturbed, Init
  PROVE  SerialInv /\ Promise!Init
<1>0. TypedInv
  BY TypedInit
<1>1. /\ ledger = <<>> /\ database = EmptyDatabase /\ registry = EmptyDatabase
      /\ worker = Booted
  BY DEF Init
<1>2. /\ worker[TheCallback].at = "idle"
      /\ \A w \in Workers : worker[w].at \in {"idle", "waiting"}
  BY <1>1, TheCallbackIs DEF Booted, Waiting, Idle
<1>3. OnlyCallback
  BY <1>1, <1>2 DEF OnlyCallback
<1>4. Log = <<>> /\ Len(<<>>) = 0
  BY <1>1, FlattenEmpty DEF Log
<1>5. Applied = 0
  BY <1>2, <1>4 DEF Applied
<1>6. SubSeq(Log, 1, Applied) = Log
  BY <1>4, <1>5
<1>7. database = Replayed(SubSeq(Log, 1, Applied))
  BY <1>1, <1>4, <1>6, ReplayedEmpty
<1>8. Existing(registry) = Existing(DatabaseNext)
  BY <1>1, <1>2 DEF DatabaseNext
<1>9. Promise!Init
  BY <1>1, <1>4, <1>5 DEF Promise!Init, EmptyDatabase, Promise!EmptyDatabase
<1>. QED
  BY <1>0, <1>3, <1>4, <1>5, <1>7, <1>8, <1>9 DEF SerialInv

LEMMA ReplayedType ==
  ASSUME NEW s \in Seq(Transaction)
  PROVE  Replayed(s) \in Databases
<1>1. EmptyDatabase \in Databases
  BY DEF EmptyDatabase, Databases
<1>2. \A db \in Databases, tx \in Transaction : ReplayOp(0, db, tx) \in Databases
  BY ExecutedType DEF ReplayOp
<1>. QED
  BY <1>1, <1>2, ReplayFold!FoldInvariant, ReplayedFold

Stutters == UNCHANGED <<Log, Applied, database>>

Applies ==
  /\ Applied < Len(Log) /\ Applied' = Applied + 1
  /\ database' = Executed(database, Log[Applied + 1])
  /\ UNCHANGED Log

\* A step that stutters or applies the next transaction is one the promise allows.
LEMMA SerialPromise ==
  ASSUME SerialInv, Stutters \/ Applies
  PROVE  /\ [Promise!Next]_(Promise!replayVars)
         /\ Applied' \in 0..Len(Log') /\ database' = Replayed(SubSeq(Log', 1, Applied'))
<1>0. /\ Log \in Seq(Pool) /\ Len(Log) \in Nat /\ Applied \in 0..Len(Log)
      /\ database = Replayed(SubSeq(Log, 1, Applied))
  BY LogType DEF SerialInv
<1>1. CASE Stutters
  BY <1>0, <1>1 DEF Stutters, Promise!replayVars
<1>2. CASE Applies
  <2>1. Promise!ApplyNext
    BY <1>2, PromiseExecuted DEF Applies, Promise!ApplyNext
  <2>2. Applied \in Nat /\ Applied + 1 <= Len(Log)
    BY <1>0, <1>2 DEF Applies
  <2> DEFINE k == Applied
             s == Log
  <2>3. Replayed(SubSeq(s, 1, k + 1)) = Executed(Replayed(SubSeq(s, 1, k)), s[k + 1])
    <3>1. s \in Seq(Pool) /\ k \in Nat /\ k + 1 <= Len(s)
      BY <1>0, <2>2
    <3>. HIDE DEF s, k
    <3>. QED
      BY <3>1, ReplayedNext
  <2>. QED
    BY <1>0, <1>2, <2>1, <2>2, <2>3 DEF Applies, Promise!Next
<1>. QED
  BY <1>1, <1>2

\* A step of a task: the registry lets through what the database accepts.
LEMMA SerialTransaction ==
  ASSUME Undisturbed, PlainPool, SerialInv, NEW w \in Workers,
         SkipDatabase(w) \/ BeginTransaction(w) \/ ExecuteTransaction(w)
  PROVE  SerialInv' /\ (Stutters \/ Applies)
<1> DEFINE cb == TheCallback
<1>0. /\ TypedInv /\ TypedInv' /\ registry \in Registries /\ database \in Databases
      /\ cb \in Workers /\ cb # Startup /\ Startup \in Workers /\ worker \in [Workers -> Task]
  BY TransactionTyped, TheCallbackIs DEF SerialInv, TypedInv, TypeOK, Registries, Databases
<1>1. w = cb /\ worker[cb].at \in {"run", "execute"}
  BY DEF SerialInv, OnlyCallback, SkipDatabase, BeginTransaction, ExecuteTransaction, AtTransaction
<1>. HIDE DEF cb
<1>2. UNCHANGED ledger /\ UNCHANGED Log
  BY DEF SkipDatabase, BeginTransaction, ExecuteTransaction, Log
<1>3. AtTransaction(cb) \/ worker[cb].at = "execute"
  BY <1>1 DEF SkipDatabase, BeginTransaction, ExecuteTransaction
<1>4. /\ Position(cb) \in Nat /\ Position(cb) + 1 <= Len(Log)
      /\ Log[Position(cb) + 1] = Current(cb) /\ Len(Log) \in Nat
      /\ Current(cb) \in Pool /\ Current(cb) \in Transaction
  BY <1>0, <1>3, PositionInFront, InFront, LogType
<1>5. Applied = Position(cb)
  BY <1>1 DEF Applied, Position, Before, cb
<1>6. Existing(Executed(database, Current(cb))) = TablesAfter(Existing(database), Current(cb))
  BY <1>0, <1>4, ExecutedTables
<1>7. CASE NextTransaction(cb) /\ database' = Executed(database, Current(cb))
           /\ Existing(registry') = Existing(database')
  <2>1. /\ Position(cb)' = Position(cb) + 1 /\ worker'[cb].at = "run"
        /\ worker'[cb].block = worker[cb].block /\ worker'[cb].last = worker[cb].last
        /\ \A v \in Workers \ {cb} : worker'[v] = worker[v]
    BY <1>0, <1>2, <1>3, <1>7, PositionNext
  <2>2. Applied' = Position(cb)'
    BY <2>1 DEF Applied, Position, Before, cb
  <2>3. Applies
    BY <1>2, <1>4, <1>5, <1>7, <2>1, <2>2 DEF Applies
  <2>4. OnlyCallback'
    BY <1>0, <1>1, <1>2, <2>1 DEF SerialInv, OnlyCallback, Started, cb
  <2>5. (Existing(registry) = Existing(DatabaseNext))'
    BY <1>7, <2>1 DEF DatabaseNext, cb
  <2>. QED
    BY <1>0, <2>3, <2>4, <2>5, SerialPromise DEF SerialInv
<1>8. CASE SkipDatabase(w)
  <2>1. /\ NextTransaction(cb) /\ UNCHANGED database /\ AtTransaction(cb)
        /\ Refused(Current(cb)) \/ Current(cb).kind = "MODIFY"
        /\ registry' = IF Refused(Current(cb)) THEN registry ELSE Register(Current(cb))
    BY <1>1, <1>8 DEF SkipDatabase
  <2>2. Existing(registry) = Existing(database)
    BY <2>1 DEF SerialInv, DatabaseNext, AtTransaction, cb
  <2>3. Executed(database, Current(cb)) = database
    BY <1>4, <2>1, <2>2, RefusedFails
  <2>4. Existing(registry') = Existing(registry)
    <3>1. CASE Refused(Current(cb))
      BY <2>1, <3>1
    <3>2. CASE ~Refused(Current(cb))
      BY <1>0, <1>4, <2>1, <3>2, RegisterTables DEF TablesAfter
    <3>. QED
      BY <3>1, <3>2
  <2>. QED
    BY <1>7, <2>1, <2>2, <2>3, <2>4
<1>9. CASE ExecuteTransaction(w)
  <2>1. /\ NextTransaction(cb) /\ UNCHANGED registry /\ worker[cb].at = "execute"
        /\ database' = Executed(database, Current(cb))
    BY <1>1, <1>9 DEF ExecuteTransaction
  <2>2. Existing(registry) = Existing(Executed(database, Current(cb)))
    BY <2>1 DEF SerialInv, DatabaseNext, cb
  <2>. QED
    BY <1>7, <2>1, <2>2
<1>10. CASE BeginTransaction(w)
  <2>1. /\ AtTransaction(cb) /\ ~Refused(Current(cb)) /\ registry' = Register(Current(cb))
        /\ worker' = [worker EXCEPT ![cb].at = "execute"] /\ UNCHANGED database
    BY <1>1, <1>10 DEF BeginTransaction
  <2>2. /\ worker'[cb].at = "execute" /\ worker'[cb].block = worker[cb].block
        /\ worker'[cb].tx = worker[cb].tx /\ worker'[cb].last = worker[cb].last
        /\ \A v \in Workers \ {cb} : worker'[v] = worker[v]
    BY <1>0, <2>1 DEF Task
  <2>3. Current(cb)' = Current(cb)
    BY <1>2, <2>2 DEF Current, Transactions
  <2>4. Existing(registry) = Existing(database)
    BY <2>1 DEF SerialInv, DatabaseNext, AtTransaction, cb
  <2>5. Existing(registry') = TablesAfter(Existing(registry), Current(cb))
    BY <1>0, <1>4, <2>1, RegisterTables
  <2>6. (Existing(registry) = Existing(DatabaseNext))'
    BY <1>6, <2>1, <2>2, <2>3, <2>4, <2>5 DEF DatabaseNext, cb
  <2>7. Applied' = Applied
    BY <1>1, <1>2, <2>2 DEF Applied, cb
  <2>8. OnlyCallback'
    BY <1>0, <1>1, <1>2, <2>2 DEF SerialInv, OnlyCallback, Started, cb
  <2>9. Stutters
    BY <1>2, <2>1, <2>7 DEF Stutters
  <2>. QED
    BY <1>0, <2>6, <2>8, <2>9, SerialPromise DEF SerialInv
<1>. QED
  BY <1>8, <1>9, <1>10

LEMMA SerialFinish ==
  ASSUME Undisturbed, SerialInv, NEW w \in Workers, FinishBlock(w)
  PROVE  SerialInv' /\ Stutters
<1> DEFINE cb == TheCallback
<1>0. /\ TypedInv /\ TypedInv' /\ cb \in Workers /\ cb # Startup /\ Startup \in Workers
      /\ worker \in [Workers -> Task] /\ Len(ledger) \in Nat /\ ledger \in Seq(Seq(Pool))
  <2>1. TypedInv'
    BY TypedStep DEF SerialInv, Next, Run
  <2>. QED
    BY <2>1, TheCallbackIs, LogType DEF SerialInv, TypedInv, TypeOK
<1>1. w = cb /\ AtEndOfBlock(cb)
  BY DEF SerialInv, OnlyCallback, FinishBlock, AtEndOfBlock
<1>. HIDE DEF cb
<1>2. worker[cb].at = "run" /\ worker[cb].block = Len(ledger) /\ worker[cb].last = Len(ledger)
  BY <1>1 DEF SerialInv, OnlyCallback, AtEndOfBlock, cb
<1>3. /\ UNCHANGED <<ledger, registry, database>>
      /\ worker' = [worker EXCEPT ![cb] = ReplayFrom(Len(ledger) + 1, Len(ledger))]
  BY <1>1, <1>2 DEF FinishBlock
<1>4. worker'[cb].at = "idle" /\ \A v \in Workers \ {cb} : worker'[v] = worker[v]
  <2>1. Len(ledger) + 1 > Len(ledger)
    BY <1>0
  <2>. QED
    BY <1>0, <1>3, <2>1 DEF ReplayFrom, Idle
<1>5. Position(cb) = Len(Log)
  <2>1. CASE Len(ledger) # 0
    <3>1. Position(cb) = Before(ledger, Len(ledger))
      BY <1>0, <1>1, <1>2, <2>1, PositionAtEnd
    <3>. QED
      BY <1>0, <3>1, FlattenPrefix DEF Log
  <2>2. CASE Len(ledger) = 0
    <3>1. worker[cb].tx = 1
      <4>1. InBlock(worker[cb], <<>>) /\ Transactions(cb) = <<>>
        BY <1>0, <1>2, <2>2 DEF TypedInv, InChain, Transactions
      <4>2. worker[cb].tx \in Nat /\ Len(<<>>) = 0
        BY <1>0 DEF Task
      <4>. QED
        BY <1>1, <4>1, <4>2 DEF InBlock, AtEndOfBlock
    <3>2. SubSeq(ledger, 1, 0 - 1) = ledger /\ ledger = <<>> /\ Len(<<>>) = 0
      BY <1>0, <2>2
    <3>3. Len(Log) = 0 /\ Before(ledger, 0 - 1) = 0
      BY <3>2, FlattenEmpty DEF Before, Log
    <3>. QED
      BY <1>2, <2>2, <3>1, <3>3 DEF Position
  <2>. QED
    BY <2>1, <2>2
<1>6. Applied = Len(Log)
  BY <1>2, <1>5 DEF Applied, Position, Before, cb
<1>7. Applied' = Len(Log') /\ Log' = Log
  BY <1>3, <1>4 DEF Applied, Log, cb
<1>8. Stutters
  BY <1>3, <1>6, <1>7 DEF Stutters
<1>9. OnlyCallback'
  BY <1>0, <1>3, <1>4 DEF SerialInv, OnlyCallback, Started, cb
<1>10. (Existing(registry) = Existing(DatabaseNext))'
  BY <1>2, <1>3, <1>4 DEF SerialInv, DatabaseNext, cb
<1>. QED
  BY <1>0, <1>8, <1>9, <1>10, SerialPromise DEF SerialInv

LEMMA SerialCommit ==
  ASSUME Undisturbed, SerialInv, NEW c \in Callbacks, NEW block \in Block, CommitBlock(c, block)
  PROVE  SerialInv' /\ Promise!Extend
<1> DEFINE cb == TheCallback
           n == Len(ledger)
<1>0. /\ TypedInv /\ TypedInv' /\ c = cb /\ cb \in Workers /\ cb # Startup /\ Startup \in Workers
      /\ worker \in [Workers -> Task] /\ n \in Nat /\ ledger \in Seq(Seq(Pool))
      /\ Log \in Seq(Pool) /\ Len(Log) \in Nat
  BY CommitTyped, TheCallbackIs, LogType DEF SerialInv, TypedInv, TypeOK
<1>. HIDE DEF cb
<1>1. /\ worker[cb].at = "idle" /\ Started
      /\ ledger' = Append(ledger, block)
      /\ worker' = [worker EXCEPT ![cb] = ReplayFrom(n + 1, n + 1)]
      /\ UNCHANGED <<registry, database>>
  BY <1>0 DEF CommitBlock, RecordBlock, Undisturbed
<1>2. /\ worker'[cb].at = "run" /\ worker'[cb].block = n + 1 /\ worker'[cb].last = n + 1
      /\ worker'[cb].tx = 1 /\ \A v \in Workers \ {cb} : worker'[v] = worker[v]
  <2>1. n + 1 \in Nat /\ ~(n + 1 > n + 1)
    BY <1>0
  <2>. QED
    BY <1>0, <1>1, <2>1, ReplayFromPlace
<1>3. /\ Log' \in Seq(Transaction) /\ Len(Log') \in Nat /\ Len(Log) <= Len(Log')
      /\ \A k \in 0..Len(Log) : SubSeq(Log', 1, k) = SubSeq(Log, 1, k)
      /\ Before(ledger', n) = Before(ledger, n) /\ Len(ledger') = n + 1
  <2>1. Len(ledger') = n + 1 /\ n \in 0..n
    BY <1>0, <1>1
  <2>2. Before(ledger', n) = Before(ledger, n)
    BY <1>0, <1>1, <2>1, LogGrows
  <2>3. /\ Log' \in Seq(Transaction) /\ Len(Log') \in Nat /\ Len(Log) <= Len(Log')
        /\ \A k \in 0..Len(Log) : SubSeq(Log', 1, k) = SubSeq(Log, 1, k)
    BY <1>0, <1>1, LogGrows
  <2>. QED
    BY <2>1, <2>2, <2>3
<1>4. Applied = Len(Log)
  BY <1>1 DEF Applied, cb
<1>5. Applied' = Len(Log)
  <2>1. Before(ledger, n) = Len(Log)
    BY <1>0, FlattenPrefix DEF Log
  <2>2. Applied' = Before(ledger', n + 1 - 1) + 1 - 1
    BY <1>2 DEF Applied, Before, cb
  <2>3. n + 1 - 1 = n
    BY <1>0
  <2>. QED
    BY <1>0, <1>3, <2>1, <2>2, <2>3
<1>6. IsPrefix(Log, Log')
  BY <1>0, <1>3 DEF IsPrefix
<1>7. Promise!Extend
  BY <1>1, <1>3, <1>4, <1>5, <1>6
  DEF Promise!Extend, Promise!IsPrefix, IsPrefix, Promise!Transaction, Transaction,
      Promise!Dml, Dml, Promise!Ddl, Ddl, Promise!Column, Column
<1>8. OnlyCallback'
  BY <1>0, <1>1, <1>2, <1>3 DEF SerialInv, OnlyCallback, Started, cb
<1>9. (Existing(registry) = Existing(DatabaseNext))'
  BY <1>1, <1>2 DEF SerialInv, DatabaseNext, cb
<1>10. database' = Replayed(SubSeq(Log', 1, Applied'))
  BY <1>0, <1>1, <1>3, <1>4, <1>5 DEF SerialInv
<1>. QED
  BY <1>0, <1>3, <1>5, <1>7, <1>8, <1>9, <1>10 DEF SerialInv

LEMMA SerialBegins ==
  ASSUME Undisturbed, SerialInv, StartReplay
  PROVE  SerialInv' /\ Stutters
<1>0. /\ TypedInv /\ TypedInv' /\ TheCallback \in Workers /\ TheCallback # Startup
      /\ Startup \in Workers /\ worker \in [Workers -> Task] /\ synced_height \in Nat
  <2>1. TypedInv'
    BY TypedStep DEF SerialInv, Next
  <2>. QED
    BY <2>1, TheCallbackIs, TableSyncAssumption DEF SerialInv, TypedInv, TypeOK
<1>1. ledger = <<>> /\ Len(<<>>) = 0
  BY DEF SerialInv, OnlyCallback, Started, StartReplay
<1>2. /\ worker'[Startup].at = "idle" /\ \A v \in Workers \ {Startup} : worker'[v] = worker[v]
  <2>1. synced_height + 1 > 0
    BY <1>0
  <2>2. worker' = [worker EXCEPT ![Startup] = ReplayFrom(synced_height + 1, 0)]
    BY <1>1 DEF StartReplay
  <2>. QED
    BY <1>0, <2>1, <2>2 DEF ReplayFrom, Idle
<1>3. UNCHANGED <<ledger, registry, database>> /\ worker'[TheCallback] = worker[TheCallback]
  BY <1>0, <1>2 DEF StartReplay
<1>4. Stutters
  BY <1>3 DEF Stutters, Log, Applied
<1>5. OnlyCallback'
  BY <1>0, <1>2, <1>3 DEF SerialInv, OnlyCallback, Started
<1>6. (Existing(registry) = Existing(DatabaseNext))'
  BY <1>3 DEF SerialInv, DatabaseNext, Current, Transactions
<1>. QED
  BY <1>0, <1>4, <1>5, <1>6, SerialPromise DEF SerialInv

LEMMA SerialStep ==
  ASSUME Undisturbed, PlainPool, SerialInv, [Next]_vars
  PROVE  SerialInv' /\ [Promise!Next]_(Promise!replayVars)
<1>1. ASSUME NEW c \in Callbacks, NEW block \in Block, CommitBlock(c, block)
      PROVE  SerialInv' /\ Promise!Next
  BY <1>1, SerialCommit DEF Promise!Next
<1>2. CASE StartReplay
  BY <1>2, SerialBegins, SerialPromise
<1>3. ASSUME NEW c \in Callers, NEW from_block \in 0..Len(ledger), SyncTable(c, from_block)
      PROVE  FALSE
  BY <1>3 DEF SyncTable, Undisturbed, SerialInv, TypedInv, TypeOK
<1>4. ASSUME NEW w \in Workers, Run(w)
      PROVE  SerialInv' /\ [Promise!Next]_(Promise!replayVars)
  <2>1. SerialInv' /\ (Stutters \/ Applies)
    BY <1>4, SerialTransaction, SerialFinish DEF Run
  <2>. QED
    BY <2>1, SerialPromise
<1>5. Crash => FALSE
  BY DEF Crash, Undisturbed, SerialInv, TypedInv, TypeOK
<1>6. CASE UNCHANGED vars
  <2>1. Stutters
    BY <1>6 DEF vars, Stutters, Log, Applied
  <2>2. TypedInv'
    BY <1>6, TypedStep DEF SerialInv
  <2>3. OnlyCallback' /\ (Existing(registry) = Existing(DatabaseNext))'
    BY <1>6 DEF vars, SerialInv, OnlyCallback, Started, DatabaseNext, Current, Transactions
  <2>. QED
    BY <2>1, <2>2, <2>3, SerialPromise DEF SerialInv
<1>. QED
  BY <1>1, <1>2, <1>3, <1>4, <1>5, <1>6 DEF Next

LEMMA SerialFollows ==
  ASSUME Undisturbed, SerialInv
  PROVE  DatabaseFollowsLedger
<1> SUFFICES ASSUME AllIdle PROVE database = Replayed(Log)
  BY DEF DatabaseFollowsLedger
<1>1. Applied = Len(Log)
  BY TheCallbackIs DEF AllIdle, Applied
<1>2. SubSeq(Log, 1, Len(Log)) = Log
  <2>1. TypedInv
    BY DEF SerialInv
  <2>2. Log \in Seq(Pool)
    BY <2>1, LogType
  <2>. DEFINE s == Log
  <2>3. s \in Seq(Pool)
    BY <2>2
  <2>. HIDE DEF s
  <2>4. SubSeq(s, 1, Len(s)) = s
    BY <2>3
  <2>. QED
    BY <2>4 DEF s
<1>. QED
  BY <1>1, <1>2 DEF SerialInv

\* Undisturbed, the node executes the chain: each transaction once, in chain order, and
\* the registry, asked before the database, never holds back one the database would
\* have executed (table_sync.py:117-128, 219, 236-238, 299-302).
THEOREM SyncImplementsSerialReplay ==
  ASSUME Undisturbed, PlainPool
  PROVE  Spec => ImplementsSerialReplay
<1>1. Init => SerialInv /\ Promise!Init
  BY SerialStart
<1>2. SerialInv /\ [Next]_vars => SerialInv' /\ [Promise!Next]_(Promise!replayVars)
  BY SerialStep
<1>. QED
  BY <1>1, <1>2, PTL DEF Spec, ImplementsSerialReplay, Promise!Spec

\* Whenever nothing is left to replay, the database is what the transactions of the
\* chain make of an empty one, for any chain, any tables and any plain pool
\* (system_design.md:48 and 289; table_sync.py:109-151).
THEOREM DatabaseIsReplayed ==
  ASSUME Undisturbed, PlainPool
  PROVE  Spec => []DatabaseFollowsLedger
<1>1. Init => SerialInv
  BY SerialStart
<1>2. SerialInv /\ [Next]_vars => SerialInv'
  BY SerialStep
<1>3. SerialInv => DatabaseFollowsLedger
  BY SerialFollows
<1>. QED
  BY <1>1, <1>2, <1>3, PTL DEF Spec

-----------------------------------------------------------------------------
(* Tables, across crashes.  A replay from the saved height meets a database that is *)
(* ahead of it: a table may be there that a DROP behind the saved height, not yet   *)
(* repeated, will drop again.  What holds on the way is that every table is right,  *)
(* or that the rest of the chain will put it right.                                 *)

Touches(tx, t) == tx.kind \in {"CREATE", "DROP_TABLE"} /\ tx.table = t

TablesAt(k) == Existing(Replayed(SubSeq(Log, 1, k)))

\* Table t is what the first k transactions of the chain make of it, or a later one
\* will make it what it should be.
Behind(t, k) ==
  \/ t \in Existing(database) <=> t \in TablesAt(k)
  \/ \E j \in k + 1..Len(Log) : Touches(Log[j], t)

\* What is registered is in the database, or will be once the statement is executed.
Backed ==
  /\ \A w \in Workers : worker[w].at = "execute" =>
       Existing(registry) \subseteq Existing(Executed(database, Current(w)))
  /\ (\A w \in Workers : worker[w].at # "execute") =>
       Existing(registry) \subseteq Existing(database)

\* Where the replay goes on when nothing runs.
Resumes == IF Started THEN Len(Log) ELSE Before(ledger, synced_height)

TablesBehind ==
  calls = 0 =>
    /\ \A c \in Callers : ~Running(c)
    /\ Backed
    /\ \A w \in Workers : Running(w) =>
         synced_height < worker[w].block /\ \A t \in Tables : Behind(t, Position(w))
    /\ (\A w \in Workers : ~Running(w)) => \A t \in Tables : Behind(t, Resumes)

TablesInv == CheckpointInv /\ TypedInv /\ TablesBehind

\* Without a call of syncTable one task runs at a time.
LEMMA OneRuns ==
  ASSUME OneAtATime, TablesInv, calls = 0,
         NEW v \in Workers, NEW w \in Workers, Running(v), Running(w)
  PROVE  v = w
<1>1. v \in Callbacks \cup {Startup} /\ w \in Callbacks \cup {Startup}
  BY DEF TablesInv, TablesBehind, Workers
<1>2. Running(Startup) => \A u \in Workers \ {Startup} : ~Running(u)
  BY DEF TablesInv, CheckpointInv, TaskPlaces, OthersWait, Started, Running
<1>. QED
  BY <1>1, <1>2 DEF OneAtATime

LEMMA TablesNext ==
  ASSUME PlainPool, TypedInv, NEW k \in Nat, k + 1 <= Len(Log)
  PROVE  /\ TablesAt(k + 1) = TablesAfter(TablesAt(k), Log[k + 1])
         /\ Log[k + 1] \in Pool
<1>1. Log \in Seq(Pool) /\ Log \in Seq(Transaction)
  BY LogType
<1> DEFINE s == Log
<1>2. s \in Seq(Pool) /\ k + 1 <= Len(s)
  BY <1>1
<1>3. SubSeq(s, 1, k) \in Seq(Pool) /\ Pool \subseteq Transaction
  <2>. HIDE DEF s
  <2>. QED
    BY <1>2, TableSyncAssumption
<1>. HIDE DEF s
<1>4. Replayed(SubSeq(s, 1, k)) \in Databases
  <2>1. SubSeq(s, 1, k) \in Seq(Transaction)
    BY <1>3
  <2>. QED
    BY <2>1, ReplayedType
<1>5. Replayed(SubSeq(s, 1, k + 1)) = Executed(Replayed(SubSeq(s, 1, k)), s[k + 1]) /\ s[k + 1] \in Pool
  BY <1>2, ReplayedNext
<1>. QED
  BY <1>4, <1>5, ExecutedTables DEF TablesAt, s

\* A database that is not ahead of a place is not ahead of an earlier one.
LEMMA BehindEarlier ==
  ASSUME PlainPool, TypedInv, NEW t \in Tables, NEW k \in 0..Len(Log), Behind(t, k),
         NEW j \in 0..k
  PROVE  Behind(t, j)
<1> DEFINE P == {d \in Nat : d <= k => Behind(t, k - d)}
<1>0. Len(Log) \in Nat /\ k \in Nat
  BY LogType
<1>1. 0 \in P
  BY <1>0
<1>2. ASSUME NEW d \in Nat, d \in P PROVE d + 1 \in P
  <2> SUFFICES ASSUME d + 1 <= k PROVE Behind(t, k - (d + 1))
    OBVIOUS
  <2>1. PICK m \in Nat : m = k - (d + 1)
    BY <1>0
  <2>2. m + 1 = k - d /\ m + 1 <= Len(Log)
    BY <1>0, <2>1
  <2>3. Behind(t, m + 1)
    BY <1>0, <1>2, <2>2
  <2>4. TablesAt(m + 1) = TablesAfter(TablesAt(m), Log[m + 1])
    BY <2>2, TablesNext
  <2>5. CASE Touches(Log[m + 1], t)
    BY <1>0, <2>1, <2>2, <2>5 DEF Behind
  <2>6. CASE ~Touches(Log[m + 1], t)
    <3>1. t \in TablesAt(m + 1) <=> t \in TablesAt(m)
      BY <2>4, <2>6 DEF TablesAfter, Touches
    <3>2. \A i \in (m + 1) + 1..Len(Log) : i \in m + 1..Len(Log)
      BY <1>0
    <3>3. Behind(t, m)
      BY <2>3, <3>1, <3>2 DEF Behind
    <3>. QED
      BY <2>1, <3>3
  <2>. QED
    BY <2>5, <2>6
<1>3. k - j \in Nat /\ k - (k - j) = j /\ k - j <= k
  BY <1>0
<1>4. k - j \in P
  <2>. HIDE DEF P
  <2>. QED
    BY <1>1, <1>2, <1>3, ReplayFold!Induction
<1>. QED
  BY <1>3, <1>4

\* Executing the next transaction of the chain keeps a table behind.
LEMMA BehindNext ==
  ASSUME PlainPool, TypedInv, NEW t \in Tables, NEW k \in Nat, k + 1 <= Len(Log), Behind(t, k),
         UNCHANGED Log, Existing(database') = TablesAfter(Existing(database), Log[k + 1])
  PROVE  Behind(t, k + 1)'
<1>0. Len(Log) \in Nat
  BY LogType
<1>1. TablesAt(k + 1) = TablesAfter(TablesAt(k), Log[k + 1])
  BY TablesNext
<1>2. (TablesAt(k + 1))' = TablesAt(k + 1)
  BY DEF TablesAt
<1>3. CASE Touches(Log[k + 1], t)
  <2>1. t \in Existing(database') <=> t \in TablesAt(k + 1)
    BY <1>1, <1>3 DEF TablesAfter, Touches
  <2>. QED
    BY <1>2, <2>1 DEF Behind
<1>4. CASE ~Touches(Log[k + 1], t)
  <2>1. t \in Existing(database') <=> t \in Existing(database)
    BY <1>4 DEF TablesAfter, Touches
  <2>2. t \in TablesAt(k + 1) <=> t \in TablesAt(k)
    BY <1>1, <1>4 DEF TablesAfter, Touches
  <2>3. ASSUME NEW j \in k + 1..Len(Log), Touches(Log[j], t)
        PROVE  j \in (k + 1) + 1..Len(Log)
    <3>1. j # k + 1
      BY <1>4, <2>3
    <3>. QED
      BY <1>0, <3>1
  <2>. QED
    BY <1>2, <2>1, <2>2, <2>3 DEF Behind
<1>. QED
  BY <1>3, <1>4

\* What does not change the database nor what is before a place keeps a table behind.
LEMMA BehindStays ==
  ASSUME TypedInv, NEW t \in Tables, NEW k \in 0..Len(Log), Behind(t, k), UNCHANGED database,
         \/ UNCHANGED ledger
         \/ \E block \in Block : ledger' = Append(ledger, block)
  PROVE  Behind(t, k)'
<1>0. Len(Log) \in Nat
  BY LogType
<1>1. CASE UNCHANGED ledger
  <2>1. UNCHANGED Log
    BY <1>1 DEF Log
  <2>. QED
    BY <2>1 DEF Behind, TablesAt
<1>2. CASE \E block \in Block : ledger' = Append(ledger, block)
  <2>1. /\ SubSeq(Log', 1, k) = SubSeq(Log, 1, k)
        /\ Len(Log') \in Nat /\ Len(Log) <= Len(Log')
        /\ \A j \in 1..Len(Log) : Log'[j] = Log[j]
    BY <1>2, LogGrows
  <2>2. \A j \in k + 1..Len(Log) : j \in 1..Len(Log) /\ j \in k + 1..Len(Log')
    BY <1>0, <2>1
  <2>3. (TablesAt(k))' = TablesAt(k)
    BY <2>1 DEF TablesAt
  <2>. QED
    BY <2>1, <2>2, <2>3 DEF Behind
<1>. QED
  BY <1>1, <1>2

\* A task is between the beginning of its block and the end of the chain.
LEMMA PositionInLog ==
  ASSUME TypedInv, NEW w \in Workers, Running(w), worker[w].block # 0
  PROVE  /\ Position(w) \in 0..Len(Log) /\ worker[w].block \in 1..Len(ledger)
         /\ Before(ledger, worker[w].block - 1) <= Position(w)
<1>0. /\ ledger \in Seq(Seq(Pool)) /\ Len(ledger) \in Nat /\ Len(Log) \in Nat
      /\ worker[w] \in Task
  BY LogType DEF TypedInv, TypeOK
<1>1. CASE AtTransaction(w) \/ worker[w].at = "execute"
  <2>1. /\ Position(w) \in Nat /\ Position(w) + 1 <= Len(Log)
        /\ worker[w].block \in 1..Len(ledger) /\ worker[w].tx \in Nat /\ worker[w].tx >= 1
    <3>1. worker[w].tx \in 1..MaxTxs /\ MaxTxs \in Nat
      BY <1>1, InFront, TableSyncAssumption
    <3>. QED
      BY <1>1, <3>1, PositionInFront, InFront
  <2>2. Before(ledger, worker[w].block - 1) \in Nat
    BY <1>0, <2>1, FlattenAt
  <2>. QED
    BY <1>0, <2>1, <2>2 DEF Position
<1>2. CASE AtEndOfBlock(w)
  <2>1. Position(w) = Before(ledger, worker[w].block) /\ worker[w].block \in 1..Len(ledger)
    BY <1>2, PositionAtEnd
  <2>2. /\ Before(ledger, worker[w].block) \in Nat /\ Before(ledger, worker[w].block) <= Len(Log)
        /\ Before(ledger, worker[w].block - 1) <= Before(ledger, worker[w].block)
    <3>1. worker[w].block \in 0..Len(ledger) /\ worker[w].block - 1 \in 0..worker[w].block
      BY <1>0, <2>1
    <3>. QED
      BY <1>0, <3>1, FlattenPrefix, BeforeGrows DEF Log
  <2>. QED
    BY <1>0, <2>1, <2>2
<1>3. AtTransaction(w) \/ worker[w].at = "execute" \/ AtEndOfBlock(w)
  <2>1. Len(Transactions(w)) \in Nat /\ worker[w].tx \in Nat
    <3>1. worker[w].block \in 1..Len(ledger) /\ worker[w].tx \in Nat
      BY <1>0, TableSyncAssumption DEF TypedInv, InChain, Running, Task
    <3>. QED
      BY <1>0, <3>1 DEF Transactions
  <2>. QED
    BY <2>1 DEF AtTransaction, AtEndOfBlock, Running
<1>. QED
  BY <1>1, <1>2, <1>3

LEMMA PositionAtStart ==
  ASSUME TypedInv, NEW w \in Workers, NEW b \in 0..Len(ledger), UNCHANGED ledger,
         worker'[w].block = b + 1, worker'[w].tx = 1
  PROVE  Position(w)' = Before(ledger, b)
<1>1. Before(ledger, b) \in Nat
  BY LogType, FlattenPrefix
<1>2. worker'[w].block - 1 = b
  OBVIOUS
<1>3. Position(w)' = Before(ledger, worker'[w].block - 1) + worker'[w].tx - 1
  BY DEF Position
<1>. QED
  BY <1>1, <1>2, <1>3

-----------------------------------------------------------------------------
LEMMA TablesInit == Init => TablesInv
<1> SUFFICES ASSUME Init PROVE TablesInv
  OBVIOUS
<1>1. /\ ledger = <<>> /\ database = EmptyDatabase /\ registry = EmptyDatabase
      /\ worker = Booted /\ synced_height = 0
  BY DEF Init
<1>2. /\ \A w \in Workers : ~Running(w) /\ worker[w].at # "execute"
      /\ Callers \subseteq Workers /\ ~Started
  BY <1>1 DEF Booted, Waiting, Idle, Running, Workers, Started
<1>3. Resumes = 0 /\ SubSeq(Log, 1, 0) = <<>>
  <2>1. Before(ledger, 0) = 0
    <3>1. ledger \in Seq(Seq(Pool)) /\ 0 \in 0..Len(ledger)
      BY TypedInit, LogType
    <3>. QED
      BY <3>1, FlattenPrefix
  <2>2. Log = <<>>
    BY <1>1, FlattenEmpty DEF Log
  <2>. QED
    BY <1>1, <1>2, <2>1, <2>2 DEF Resumes
<1>4. \A t \in Tables : Behind(t, Resumes)
  BY <1>1, <1>3, ReplayedEmpty DEF Behind, TablesAt
<1>5. Backed
  BY <1>1, <1>2 DEF Backed
<1>. QED
  BY <1>2, <1>4, <1>5, CheckpointInit, TypedInit DEF TablesInv, TablesBehind

LEMMA TablesTransaction ==
  ASSUME OneAtATime, PlainPool, TablesInv, NEW w \in Workers, calls = 0,
         SkipDatabase(w) \/ BeginTransaction(w) \/ ExecuteTransaction(w)
  PROVE  TablesBehind'
<1>0. /\ TypedInv /\ ProgressInv /\ registry \in Registries /\ database \in Databases
      /\ worker \in [Workers -> Task] /\ Callers \subseteq Workers
  BY DEF TablesInv, TypedInv, TypeOK, Registries, Databases, CheckpointInv, Workers
<1>1. /\ UNCHANGED <<ledger, synced_height>> /\ Running(w) /\ Running(w)'
      /\ \A v \in Workers \ {w} : worker'[v] = worker[v]
      /\ worker'[w].block = worker[w].block
  BY <1>0, TransactionStep
<1>2. UNCHANGED <<Log, calls>>
  BY <1>1 DEF Log, SkipDatabase, BeginTransaction, ExecuteTransaction, bounds
<1>3. \A v \in Workers \ {w} : ~Running(v) /\ ~Running(v)' /\ worker'[v].at # "execute"
  BY <1>1, OneRuns DEF Running
<1>4. AtTransaction(w) \/ worker[w].at = "execute"
  BY DEF SkipDatabase, BeginTransaction, ExecuteTransaction
<1>5. /\ Position(w) \in Nat /\ Position(w) + 1 <= Len(Log)
      /\ Log[Position(w) + 1] = Current(w)
      /\ Current(w) \in Pool /\ Current(w) \in Transaction
  BY <1>0, <1>4, PositionInFront, InFront
<1>6. Existing(Executed(database, Current(w))) = TablesAfter(Existing(database), Current(w))
  BY <1>0, <1>5, ExecutedTables
<1>7. /\ synced_height < worker[w].block
      /\ \A t \in Tables : Behind(t, Position(w))
      /\ \A c \in Callers : ~Running(c)
      /\ Backed
  BY <1>1 DEF TablesInv, TablesBehind
<1>8. \A c \in Callers : ~Running(c)'
  BY <1>0, <1>1, <1>3, <1>7
<1>9. SUFFICES Backed' /\ \A t \in Tables : Behind(t, Position(w))'
  BY <1>1, <1>3, <1>7, <1>8 DEF TablesBehind
<1>10. CASE /\ NextTransaction(w)
            /\ Existing(database') = TablesAfter(Existing(database), Current(w))
            /\ Existing(registry') \subseteq Existing(database')
  <2>1. Position(w)' = Position(w) + 1 /\ worker'[w].at = "run"
    BY <1>0, <1>1, <1>4, <1>10, PositionNext
  <2>2. PICK k \in Nat : k = Position(w)
    BY <1>5
  <2>3. \A t \in Tables : Behind(t, Position(w))'
    <3> TAKE t \in Tables
    <3>1. Behind(t, k) /\ k + 1 <= Len(Log) /\ Log[k + 1] = Current(w)
      BY <1>5, <1>7, <2>2
    <3>2. Behind(t, k + 1)'
      BY <1>0, <1>2, <1>10, <3>1, BehindNext
    <3>3. Position(w)' = k + 1
      BY <2>1, <2>2
    <3>. QED
      BY <3>2, <3>3
  <2>4. \A v \in Workers : worker'[v].at # "execute"
    BY <1>3, <2>1
  <2>. QED
    BY <1>10, <2>3, <2>4 DEF Backed
<1>11. AtTransaction(w) => Existing(registry) \subseteq Existing(database)
  BY <1>3, <1>7 DEF Backed, AtTransaction, Running
<1>12. CASE SkipDatabase(w)
  <2>1. /\ NextTransaction(w) /\ UNCHANGED database /\ AtTransaction(w)
        /\ Refused(Current(w)) \/ Current(w).kind = "MODIFY"
        /\ registry' = IF Refused(Current(w)) THEN registry ELSE Register(Current(w))
    BY <1>12 DEF SkipDatabase
  <2>2. Existing(registry') = Existing(registry)
    <3>1. CASE Refused(Current(w))
      BY <2>1, <3>1
    <3>2. CASE ~Refused(Current(w))
      BY <1>0, <1>5, <2>1, <3>2, RegisterTables DEF TablesAfter
    <3>. QED
      BY <3>1, <3>2
  <2>3. Existing(database) = TablesAfter(Existing(database), Current(w))
    <3>1. CASE Current(w).kind = "CREATE"
      <4>1. registry[Current(w).table] # NoTable /\ Current(w).table \in Tables
        BY <1>5, <2>1, <3>1, TransactionType, StatementType DEF Refused
      <4>2. Current(w).table \in Existing(database)
        BY <1>11, <2>1, <4>1 DEF Existing
      <4>. QED
        BY <3>1, <4>2 DEF TablesAfter
    <3>2. CASE Current(w).kind # "CREATE"
      BY <2>1, <3>2 DEF Refused, TablesAfter
    <3>. QED
      BY <3>1, <3>2
  <2>. QED
    BY <1>10, <1>11, <2>1, <2>2, <2>3
<1>13. CASE ExecuteTransaction(w)
  <2>1. /\ NextTransaction(w) /\ UNCHANGED registry /\ worker[w].at = "execute"
        /\ database' = Executed(database, Current(w))
    BY <1>13 DEF ExecuteTransaction
  <2>2. Existing(registry) \subseteq Existing(Executed(database, Current(w)))
    BY <1>7, <2>1 DEF Backed
  <2>. QED
    BY <1>6, <1>10, <2>1, <2>2
<1>14. CASE BeginTransaction(w)
  <2>1. /\ AtTransaction(w) /\ ~Refused(Current(w)) /\ registry' = Register(Current(w))
        /\ worker' = [worker EXCEPT ![w].at = "execute"] /\ UNCHANGED database
    BY <1>14 DEF BeginTransaction
  <2>2. /\ worker'[w].at = "execute" /\ worker'[w].block = worker[w].block
        /\ worker'[w].tx = worker[w].tx
    BY <1>0, <2>1 DEF Task
  <2>3. Current(w)' = Current(w) /\ Position(w)' = Position(w)
    BY <1>1, <2>2 DEF Current, Transactions, Position
  <2>4. Existing(registry') = TablesAfter(Existing(registry), Current(w))
    BY <1>0, <1>5, <2>1, RegisterTables
  <2>5. Existing(registry') \subseteq Existing(Executed(database, Current(w)))
    BY <1>6, <1>11, <2>1, <2>4 DEF TablesAfter
  <2>6. Backed'
    BY <1>3, <2>1, <2>2, <2>3, <2>5 DEF Backed
  <2>7. \A t \in Tables : Behind(t, Position(w))'
    <3> TAKE t \in Tables
    <3>1. Behind(t, Position(w))
      BY <1>7
    <3>. QED
      BY <1>2, <2>1, <2>3, <3>1 DEF Behind, TablesAt
  <2>. QED
    BY <2>6, <2>7
<1>. QED
  BY <1>12, <1>13, <1>14

LEMMA TablesFinish ==
  ASSUME OneAtATime, TablesInv, NEW w \in Workers, calls = 0, FinishBlock(w)
  PROVE  TablesBehind'
<1> DEFINE b == worker[w].block
<1>0. /\ TypedInv /\ worker \in [Workers -> Task] /\ Callers \subseteq Workers
      /\ Callbacks \subseteq Workers /\ Startup \in Workers
      /\ ledger \in Seq(Seq(Pool)) /\ Len(ledger) \in Nat /\ Len(Log) \in Nat
      /\ synced_height \in Nat
  BY LogType, TableSyncAssumption DEF TablesInv, TypedInv, TypeOK, Workers
<1>1. /\ UNCHANGED <<ledger, registry, database, calls>>
      /\ synced_height' = Updated(b) /\ AtEndOfBlock(w) /\ Running(w) /\ worker[w].at = "run"
      /\ worker' = [worker EXCEPT ![w] = ReplayFrom(b + 1, worker[w].last)]
  BY DEF FinishBlock, AtEndOfBlock, Running, bounds
<1>2. /\ b \in Nat /\ worker[w].last \in Nat /\ b <= worker[w].last
      /\ synced_height < b
      /\ \A t \in Tables : Behind(t, Position(w))
      /\ \A c \in Callers : ~Running(c)
      /\ Backed
  BY <1>0, <1>1, TableSyncAssumption DEF TablesInv, TablesBehind, TypedInv, InChain, Running, Task
<1>3. b # 0 /\ synced_height' = b
  BY <1>0, <1>1, <1>2 DEF Updated
<1>4. Position(w) = Before(ledger, b) /\ b \in 1..Len(ledger)
  BY <1>0, <1>1, <1>3, PositionAtEnd
<1>5. Position(w) \in 0..Len(Log)
  BY <1>0, <1>1, <1>3, PositionInLog
<1>6. PICK k \in 0..Len(Log) : k = Before(ledger, b) /\ \A t \in Tables : Behind(t, k)'
  <2>1. PICK m \in 0..Len(Log) : m = Position(w)
    BY <1>5
  <2>2. \A t \in Tables : Behind(t, m)
    BY <1>2, <2>1
  <2>3. \A t \in Tables : Behind(t, m)'
    BY <1>0, <1>1, <2>2, BehindStays
  <2>. QED
    BY <1>4, <2>1, <2>3
<1>7. /\ worker'[w] = ReplayFrom(b + 1, worker[w].last)
      /\ \A v \in Workers \ {w} : worker'[v] = worker[v] /\ ~Running(v) /\ ~Running(v)'
  BY <1>0, <1>1, OneRuns DEF Running
<1>8. Backed'
  <2>1. worker'[w].at # "execute"
    BY <1>7 DEF ReplayFrom, Idle
  <2>2. \A v \in Workers : worker[v].at # "execute" /\ worker'[v].at # "execute"
    BY <1>1, <1>7, <2>1 DEF Running
  <2>. QED
    BY <1>1, <1>2, <2>2 DEF Backed
<1>9. CASE b + 1 > worker[w].last
  <2>1. worker'[w].at = "idle" /\ ~Running(w)'
    BY <1>2, <1>7, <1>9 DEF ReplayFrom, Idle, Running
  <2>2. b = Len(ledger) /\ Started'
    <3>1. CASE w = Startup
      <4>1. worker[w].last = Len(ledger)
        BY <1>1, <3>1 DEF TablesInv, CheckpointInv, TaskPlaces, StartupPlace
      <4>. QED
        BY <1>2, <1>9, <2>1, <3>1, <4>1 DEF Started
    <3>2. CASE w # Startup
      <4>1. w \in Callbacks
        BY <1>1, <1>2, <3>2 DEF Workers
      <4>2. b = Len(ledger)
        BY <1>1, <4>1 DEF TablesInv, CheckpointInv, TaskPlaces, CallbackPlace
      <4>3. Started
        BY <1>1, <3>2 DEF TablesInv, CheckpointInv, TaskPlaces, OthersWait, Running
      <4>. QED
        BY <1>0, <1>7, <3>2, <4>2, <4>3 DEF Started
    <3>. QED
      BY <3>1, <3>2
  <2>3. Before(ledger, b) = Len(Log)
    BY <1>0, <2>2, FlattenPrefix DEF Log
  <2>4. Resumes' = k
    BY <1>1, <1>6, <2>2, <2>3 DEF Resumes, Log
  <2>5. \A t \in Tables : Behind(t, Resumes)'
    BY <1>6, <2>4
  <2>6. \A v \in Workers : ~Running(v)'
    BY <1>7, <2>1
  <2>. QED
    BY <1>0, <1>8, <2>5, <2>6 DEF TablesBehind
<1>10. CASE ~(b + 1 > worker[w].last)
  <2>1. worker'[w].block = b + 1 /\ worker'[w].tx = 1 /\ Running(w)'
    BY <1>7, <1>10 DEF ReplayFrom, Running
  <2>2. Position(w)' = k
    BY <1>0, <1>1, <1>4, <1>6, <2>1, PositionAtStart
  <2>3. \A t \in Tables : Behind(t, Position(w))'
    BY <1>6, <2>2
  <2>4. synced_height' < worker'[w].block
    BY <1>2, <1>3, <2>1
  <2>5. w \notin Callers
    BY <1>1, <1>2
  <2>. QED
    BY <1>0, <1>7, <1>8, <2>1, <2>3, <2>4, <2>5 DEF TablesBehind
<1>. QED
  BY <1>9, <1>10

LEMMA TablesCommit ==
  ASSUME OneAtATime, TablesInv, calls = 0,
         NEW c \in Callbacks, NEW block \in Block, CommitBlock(c, block)
  PROVE  TablesBehind'
<1> DEFINE n == Len(ledger)
<1>0. /\ TypedInv /\ worker \in [Workers -> Task] /\ Callers \subseteq Workers
      /\ Startup \in Workers /\ c \in Workers /\ c \notin Callers
      /\ ledger \in Seq(Seq(Pool)) /\ n \in Nat /\ Len(Log) \in Nat
      /\ synced_height \in Nat /\ synced_height <= n
  BY LogType, TableSyncAssumption
  DEF TablesInv, TypedInv, TypeOK, Workers, CheckpointInv, SyncedIsDone
<1>1. /\ worker[c].at = "idle" /\ Started
      /\ ledger' = Append(ledger, block)
      /\ worker' = [worker EXCEPT ![c] = ReplayFrom(n + 1, n + 1)]
      /\ UNCHANGED <<registry, database, synced_height, calls>>
  BY DEF CommitBlock, RecordBlock, OneAtATime, bounds
<1>2. /\ worker'[c].at = "run" /\ worker'[c].block = n + 1 /\ worker'[c].tx = 1
      /\ \A v \in Workers \ {c} : worker'[v] = worker[v]
  <2>1. n + 1 \in Nat /\ ~(n + 1 > n + 1)
    BY <1>0
  <2>. QED
    BY <1>0, <1>1, <2>1, ReplayFromPlace
<1>3. (\A d \in Callers : ~Running(d)) /\ Backed
  BY DEF TablesInv, TablesBehind
<1>4. \A v \in Workers : ~Running(v)
  BY <1>1, <1>3 DEF OneAtATime, Workers, Started, Running
<1>5. \A t \in Tables : Behind(t, Len(Log))
  BY <1>1, <1>4 DEF TablesInv, TablesBehind, Resumes
<1>6. PICK k \in 0..Len(Log) : k = Before(ledger', n) /\ \A t \in Tables : Behind(t, k)'
  <2>1. PICK m \in 0..Len(Log) : m = Len(Log)
    BY <1>0
  <2>2. Before(ledger, n) = m
    BY <1>0, <2>1, FlattenPrefix DEF Log
  <2>3. Before(ledger', n) = Before(ledger, n)
    <3>1. n \in 0..n
      BY <1>0
    <3>. QED
      BY <1>0, <1>1, <3>1, LogGrows
  <2>4. \A t \in Tables : Behind(t, m)'
    <3> TAKE t \in Tables
    <3>1. Behind(t, m)
      BY <1>5, <2>1
    <3>. QED
      BY <1>0, <1>1, <3>1, BehindStays
  <2>. QED
    BY <2>2, <2>3, <2>4
<1>7. Position(c)' = Before(ledger', n)
  <2>1. Before(ledger', n) \in Nat
    <3>1. n \in 0..n
      BY <1>0
    <3>2. Before(ledger', n) = Before(ledger, n)
      BY <1>0, <1>1, <3>1, LogGrows
    <3>. QED
      BY <1>0, <3>1, <3>2, FlattenPrefix
  <2>2. Position(c)' = Before(ledger', n + 1 - 1) + 1 - 1
    BY <1>2 DEF Position
  <2>3. n + 1 - 1 = n
    BY <1>0
  <2>. QED
    BY <2>1, <2>2, <2>3
<1>8. \A t \in Tables : Behind(t, Position(c))'
  BY <1>6, <1>7
<1>9. Backed'
  BY <1>1, <1>2, <1>3, <1>4 DEF Backed, Running
<1>10. synced_height' < worker'[c].block
  BY <1>0, <1>1, <1>2
<1>11. \A v \in Workers \ {c} : ~Running(v)'
  BY <1>2, <1>4 DEF Running
<1>12. Running(c)'
  BY <1>2 DEF Running
<1>. QED
  BY <1>0, <1>8, <1>9, <1>10, <1>11, <1>12 DEF TablesBehind

LEMMA TablesStart ==
  ASSUME OneAtATime, TablesInv, calls = 0, StartReplay
  PROVE  TablesBehind'
<1> DEFINE n == Len(ledger)
           h == synced_height
<1>0. /\ TypedInv /\ worker \in [Workers -> Task] /\ Callers \subseteq Workers
      /\ Startup \in Workers /\ Startup \notin Callers
      /\ ledger \in Seq(Seq(Pool)) /\ n \in Nat /\ Len(Log) \in Nat
      /\ h \in Nat /\ h <= n
  BY LogType, TableSyncAssumption
  DEF TablesInv, TypedInv, TypeOK, Workers, CheckpointInv, SyncedIsDone
<1>1. /\ worker[Startup].at = "waiting" /\ ~Started
      /\ worker' = [worker EXCEPT ![Startup] = ReplayFrom(h + 1, n)]
      /\ UNCHANGED <<ledger, registry, database, synced_height, calls>>
  BY DEF StartReplay, Started, bounds
<1>2. /\ \A v \in Workers \ {Startup} : worker'[v] = worker[v]
      /\ \/ h + 1 > n /\ worker'[Startup].at = "idle"
         \/ /\ h + 1 <= n /\ worker'[Startup].at = "run"
            /\ worker'[Startup].block = h + 1 /\ worker'[Startup].tx = 1
  <2>1. h + 1 \in Nat
    BY <1>0
  <2>. QED
    BY <1>0, <1>1, <2>1, ReplayFromPlace
<1>3. (\A d \in Callers : ~Running(d)) /\ Backed
  BY DEF TablesInv, TablesBehind
<1>4. \A v \in Workers : ~Running(v) /\ worker[v].at # "execute"
  BY <1>1 DEF TablesInv, CheckpointInv, TaskPlaces, OthersWait, Running
<1>5. PICK k \in 0..Len(Log) : k = Before(ledger, h) /\ \A t \in Tables : Behind(t, k)'
  <2>1. PICK m \in 0..Len(Log) : m = Before(ledger, h)
    BY <1>0, FlattenPrefix DEF Log
  <2>2. \A t \in Tables : Behind(t, m)
    BY <1>1, <1>4, <2>1 DEF TablesInv, TablesBehind, Resumes
  <2>3. \A t \in Tables : Behind(t, m)'
    BY <1>0, <1>1, <2>2, BehindStays
  <2>. QED
    BY <2>1, <2>3
<1>6. UNCHANGED Log /\ \A v \in Workers \ {Startup} : ~Running(v)'
  BY <1>1, <1>2, <1>4 DEF Log, Running
<1>7. Backed'
  BY <1>1, <1>2, <1>3, <1>4 DEF Backed
<1>8. CASE h + 1 > n /\ worker'[Startup].at = "idle"
  <2>1. h = n
    BY <1>0, <1>8
  <2>2. Before(ledger, n) = Len(Log)
    BY <1>0, FlattenPrefix DEF Log
  <2>3. Started' /\ ~Running(Startup)'
    BY <1>8 DEF Started, Running
  <2>4. Resumes' = k
    BY <1>5, <1>6, <2>1, <2>2, <2>3 DEF Resumes
  <2>5. \A t \in Tables : Behind(t, Resumes)'
    BY <1>5, <2>4
  <2>. QED
    BY <1>0, <1>6, <1>7, <2>3, <2>5 DEF TablesBehind
<1>9. CASE /\ h + 1 <= n /\ worker'[Startup].at = "run"
           /\ worker'[Startup].block = h + 1 /\ worker'[Startup].tx = 1
  <2>1. Running(Startup)'
    BY <1>9 DEF Running
  <2>2. Position(Startup)' = k
    <3>1. h \in 0..Len(ledger)
      BY <1>0
    <3>. QED
      BY <1>0, <1>1, <1>5, <1>9, <3>1, PositionAtStart
  <2>3. \A t \in Tables : Behind(t, Position(Startup))'
    BY <1>5, <2>2
  <2>4. synced_height' < worker'[Startup].block
    BY <1>0, <1>1, <1>9
  <2>. QED
    BY <1>0, <1>6, <1>7, <2>1, <2>3, <2>4 DEF TablesBehind
<1>. QED
  BY <1>2, <1>8, <1>9

LEMMA TablesCrash ==
  ASSUME OneAtATime, PlainPool, TablesInv, calls = 0, Crash
  PROVE  TablesBehind'
<1>0. /\ TypedInv /\ ProgressInv /\ Callers \subseteq Workers
      /\ ledger \in Seq(Seq(Pool)) /\ Len(ledger) \in Nat /\ Len(Log) \in Nat
      /\ synced_height \in Nat /\ synced_height <= Len(ledger)
  BY LogType, TableSyncAssumption
  DEF TablesInv, TypedInv, TypeOK, Workers, CheckpointInv, SyncedIsDone
<1>1. /\ UNCHANGED <<ledger, database>> /\ worker' = Booted /\ registry' = EmptyDatabase
      /\ synced_height' \in {0, synced_height}
  BY <1>0 DEF Crash, OneAtATime, Loaded, ProgressInv, FileMatches
<1>2. /\ \A v \in Workers : ~Running(v)' /\ worker'[v].at # "execute"
      /\ ~Started'
  BY <1>1 DEF Booted, Waiting, Idle, Running, Workers, Started
<1>3. Backed'
  BY <1>1, <1>2 DEF Backed, Existing, EmptyDatabase
<1>4. PICK h \in 0..Len(ledger) : h = synced_height' /\ h <= synced_height
  BY <1>0, <1>1
<1>5. Resumes' = Before(ledger, h)
  BY <1>1, <1>2, <1>4 DEF Resumes
<1>6. ASSUME NEW t \in Tables PROVE Behind(t, Before(ledger, h))
  <2> SUFFICES \E k \in 0..Len(Log) : Behind(t, k) /\ Before(ledger, h) \in 0..k
    BY <1>0, BehindEarlier
  <2>1. /\ Before(ledger, h) \in Nat /\ Before(ledger, h) <= Len(Log)
        /\ Before(ledger, synced_height) \in Nat /\ Before(ledger, synced_height) <= Len(Log)
        /\ Before(ledger, h) <= Before(ledger, synced_height)
    <3>1. h \in 0..synced_height /\ synced_height \in 0..Len(ledger)
      BY <1>0, <1>4
    <3>. QED
      BY <1>0, <3>1, FlattenPrefix, BeforeGrows DEF Log
  <2>2. CASE \E w \in Workers : Running(w)
    <3>1. PICK w \in Workers : Running(w)
      BY <2>2
    <3>2. synced_height < worker[w].block /\ Behind(t, Position(w))
      BY <3>1 DEF TablesInv, TablesBehind
    <3>3. worker[w].block # 0
      BY <1>0, <3>2
    <3>4. /\ Position(w) \in 0..Len(Log) /\ worker[w].block \in 1..Len(ledger)
          /\ Before(ledger, worker[w].block - 1) <= Position(w)
      BY <1>0, <3>1, <3>3, PositionInLog
    <3>5. Before(ledger, h) <= Before(ledger, worker[w].block - 1)
          /\ Before(ledger, worker[w].block - 1) \in Nat
      <4>1. h \in 0..worker[w].block - 1 /\ worker[w].block - 1 \in 0..Len(ledger)
        BY <1>0, <1>4, <3>2, <3>4
      <4>. QED
        BY <1>0, <4>1, BeforeGrows, FlattenPrefix
    <3>6. Before(ledger, h) \in 0..Position(w)
      BY <2>1, <3>4, <3>5
    <3>. QED
      BY <3>2, <3>4, <3>6
  <2>3. CASE \A w \in Workers : ~Running(w)
    <3>1. Behind(t, Resumes) /\ Resumes \in 0..Len(Log) /\ Before(ledger, h) \in 0..Resumes
      BY <1>0, <2>1, <2>3 DEF TablesInv, TablesBehind, Resumes
    <3>. QED
      BY <3>1
  <2>. QED
    BY <2>2, <2>3
<1>7. \A t \in Tables : Behind(t, Resumes)'
  <2>1. UNCHANGED Log
    BY <1>1 DEF Log
  <2>. QED
    BY <1>1, <1>5, <1>6, <2>1 DEF Behind, TablesAt
<1>. QED
  BY <1>0, <1>2, <1>3, <1>7 DEF TablesBehind

LEMMA TablesStep ==
  ASSUME OneAtATime, PlainPool, TablesInv, [Next]_vars
  PROVE  TablesInv'
<1>1. CheckpointInv' /\ TypedInv'
  BY CheckpointStep, TypedStep DEF TablesInv
<1>2. calls \in Nat
  BY TableSyncAssumption DEF TablesInv, TypedInv, TypeOK
<1>3. CASE UNCHANGED vars
  <2>1. TablesBehind'
    BY <1>3
    DEF vars, bounds, TablesInv, TablesBehind, Backed, Running, Behind, TablesAt, Log, Position,
        Resumes, Started, Current, Transactions
  <2>. QED
    BY <1>1, <2>1 DEF TablesInv
<1>4. CASE Next
  <2> SUFFICES ASSUME calls' = 0 PROVE TablesBehind'
    BY <1>1 DEF TablesInv, TablesBehind
  <2>1. ASSUME NEW c \in Callers, NEW from_block \in 0..Len(ledger), SyncTable(c, from_block)
        PROVE  FALSE
    BY <1>2, <2>1 DEF SyncTable
  <2>2. ASSUME NEW c \in Callbacks, NEW block \in Block, CommitBlock(c, block)
        PROVE  TablesBehind'
    BY <2>2, TablesCommit DEF CommitBlock, RecordBlock, bounds
  <2>3. CASE StartReplay
    BY <2>3, TablesStart DEF StartReplay, bounds
  <2>4. ASSUME NEW w \in Workers, Run(w) PROVE TablesBehind'
    <3>1. calls = 0
      BY <2>4 DEF Run, SkipDatabase, BeginTransaction, ExecuteTransaction, FinishBlock, bounds
    <3>. QED
      BY <2>4, <3>1, TablesTransaction, TablesFinish DEF Run
  <2>5. CASE Crash
    BY <2>5, TablesCrash DEF Crash
  <2>. QED
    BY <1>4, <2>1, <2>2, <2>3, <2>4, <2>5 DEF Next
<1>. QED
  BY <1>3, <1>4

LEMMA TablesSafe == TablesInv => TablesFollowLedger
<1> SUFFICES ASSUME TablesInv, AllIdle, calls = 0, NEW t \in Tables
             PROVE  database[t] = NoTable <=> Replayed(Log)[t] = NoTable
  BY DEF TablesFollowLedger
<1>1. (\A w \in Workers : ~Running(w)) /\ Started
  BY DEF AllIdle, Running, Started, Workers
<1>2. Behind(t, Len(Log))
  BY <1>1 DEF TablesInv, TablesBehind, Resumes
<1> DEFINE s == Log
<1>3. s \in Seq(Pool)
  BY LogType DEF TablesInv
<1>4. SubSeq(s, 1, Len(s)) = s /\ Len(s) + 1..Len(s) = {}
  <2>. HIDE DEF s
  <2>. QED
    BY <1>3
<1>. QED
  BY <1>2, <1>4 DEF Behind, TablesAt, Existing

\* When nothing is left to replay, a table exists exactly when the chain says so, after
\* any crashes and truncated state files, as long as nobody called syncTable
\* (table_sync.py:188-224, 291-303): for any chain, tables and plain pool.
THEOREM TablesMatchChain ==
  ASSUME OneAtATime, PlainPool
  PROVE  Spec => []TablesFollowLedger
<1>1. TablesInv /\ [Next]_vars => TablesInv'
  BY TablesStep
<1>. QED
  BY <1>1, TablesInit, TablesSafe, PTL DEF Spec

-----------------------------------------------------------------------------
(* Submission: what the registry has is on the chain.                      *)

CreatesTable(tx, t) == tx.kind = "CREATE" /\ tx.table = t

NamesColumn(tx, t, name) ==
  \/ tx.kind = "CREATE" /\ tx.table = t /\ name \in NamesOf(tx.columns)
  \/ tx.kind = "ADD" /\ tx.table = t /\ name = tx.column.name

\* Every table of the registry was created on the chain, every column named there.
Explained(t) ==
  registry[t] # NoTable =>
    /\ \E tx \in ToSet(Log) : CreatesTable(tx, t)
    /\ \A name \in NamesOf(registry[t]) : \E tx \in ToSet(Log) : NamesColumn(tx, t, name)

RegistryExplained == \A t \in Tables : Explained(t)

LEMMA ModifiedNames ==
  ASSUME NEW columns \in Seq(Column), NEW column \in Column
  PROVE  NamesOf(Modified(columns, column)) = NamesOf(columns)
<1> DEFINE m == Modified(columns, column)
<1>1. Len(columns) \in Nat
  OBVIOUS
<1>2. Len(m) = Len(columns)
  BY <1>1 DEF Modified
<1>3. \A i \in 1..Len(columns) : m[i].name = columns[i].name
  BY DEF Modified
<1>. HIDE DEF m
<1>4. NamesOf(m) = NamesOf(columns)
  BY <1>2, <1>3 DEF NamesOf
<1>. QED
  BY <1>4 DEF m

LEMMA WithoutNames ==
  ASSUME NEW columns \in Seq(Column), NEW name
  PROVE  NamesOf(Without(columns, name)) \subseteq NamesOf(columns)
<1>1. PICK w \in Seq(Column) : w = Without(columns, name) /\ ToSet(w) \subseteq ToSet(columns)
  BY SelectionOf DEF Without
<1>2. ASSUME NEW i \in 1..Len(w) PROVE \E j \in 1..Len(columns) : w[i] = columns[j]
  <2>1. DOMAIN w = 1..Len(w) /\ DOMAIN columns = 1..Len(columns)
    BY <1>1
  <2>2. w[i] \in ToSet(w)
    BY <2>1 DEF ToSet
  <2>3. w[i] \in ToSet(columns)
    BY <1>1, <2>2
  <2>. QED
    BY <2>1, <2>3 DEF ToSet
<1>3. ASSUME NEW x \in NamesOf(w) PROVE x \in NamesOf(columns)
  <2>1. PICK i \in 1..Len(w) : x = w[i].name
    BY DEF NamesOf
  <2>2. PICK j \in 1..Len(columns) : w[i] = columns[j]
    BY <1>2
  <2>. QED
    BY <2>1, <2>2 DEF NamesOf
<1>. QED
  BY <1>1, <1>3

LEMMA AppendNames ==
  ASSUME NEW columns \in Seq(Column), NEW column \in Column
  PROVE  NamesOf(Append(columns, column)) = NamesOf(columns) \cup {column.name}
<1> DEFINE r == Append(columns, column)
<1>1. /\ Len(r) = Len(columns) + 1 /\ Len(columns) \in Nat
      /\ \A i \in 1..Len(columns) : r[i] = columns[i]
      /\ r[Len(columns) + 1] = column
  OBVIOUS
<1>. HIDE DEF r
<1>2. \A i \in 1..Len(r) : i \in 1..Len(columns) \/ i = Len(columns) + 1
  BY <1>1
<1>3. 1..Len(columns) \subseteq 1..Len(r) /\ Len(columns) + 1 \in 1..Len(r)
  BY <1>1
<1>. QED
  BY <1>1, <1>2, <1>3 DEF NamesOf, r

\* A transaction that is on the chain explains what its handler registers.
LEMMA RegisterExplained ==
  ASSUME registry \in Registries, RegistryExplained,
         NEW tx \in Transaction, tx \in ToSet(Log), ~Refused(tx), registry' = Register(tx),
         UNCHANGED Log
  PROVE  RegistryExplained'
<1> SUFFICES ASSUME NEW t \in Tables PROVE Explained(t)'
  BY DEF RegistryExplained
<1>0. Explained(t)
  BY DEF RegistryExplained
<1>1. CASE registry'[t] = registry[t]
  BY <1>0, <1>1 DEF Explained
<1>2. CASE registry'[t] # registry[t]
  <2>1. tx.kind \notin {"BATCH", "INSERT", "UPDATE", "DELETE"} /\ t = tx.table
    BY <1>2, RegisterType
  <2>2. tx \in Statement /\ tx.kind \in {"CREATE", "ADD", "MODIFY", "DROP_COLUMN", "DROP_TABLE"}
    BY <2>1, TransactionType, StatementType
  <2>3. CASE tx.kind = "DROP_TABLE"
    BY <2>1, <2>3, RegisterType DEF Explained
  <2>4. CASE tx.kind = "CREATE"
    <3>1. registry'[t] = tx.columns
      BY <2>1, <2>4 DEF Register, Registries
    <3>. QED
      BY <2>1, <2>4, <3>1 DEF Explained, CreatesTable, NamesColumn
  <2>5. CASE tx.kind \in {"ADD", "MODIFY", "DROP_COLUMN"}
    <3>1. registry[t] \in Seq(Column) /\ registry[t] # NoTable
      BY <2>1, <2>5, RegisterType DEF Registries
    <3>2. ASSUME NEW name \in NamesOf(registry'[t])
          PROVE  name \in NamesOf(registry[t]) \/ NamesColumn(tx, t, name)
      <4>1. CASE tx.kind = "ADD"
        <5>1. registry'[t] = Append(registry[t], tx.column)
          BY <2>1, <4>1 DEF Register, Registries
        <5>2. tx.column \in Column
          BY <2>2, <4>1, StatementType
        <5>3. NamesOf(registry'[t]) = NamesOf(registry[t]) \cup {tx.column.name}
          BY <3>1, <5>1, <5>2, AppendNames
        <5>. QED
          BY <2>1, <3>2, <4>1, <5>3 DEF NamesColumn
      <4>2. CASE tx.kind = "MODIFY"
        <5>1. registry'[t] = Modified(registry[t], tx.column)
          BY <2>1, <4>2 DEF Register, Registries
        <5>2. tx.column \in Column
          BY <2>2, <4>2, StatementType
        <5>. QED
          BY <3>1, <3>2, <5>1, <5>2, ModifiedNames
      <4>3. CASE tx.kind = "DROP_COLUMN"
        <5>1. registry'[t] = Without(registry[t], tx.name)
          BY <2>1, <4>3 DEF Register, Registries
        <5>. QED
          BY <3>1, <3>2, <5>1, WithoutNames
      <4>. QED
        BY <2>5, <4>1, <4>2, <4>3
    <3>3. \E c \in ToSet(Log) : CreatesTable(c, t)
      BY <1>0, <3>1 DEF Explained
    <3>4. \A name \in NamesOf(registry[t]) : \E c \in ToSet(Log) : NamesColumn(c, t, name)
      BY <1>0, <3>1 DEF Explained
    <3>5. ASSUME NEW name \in NamesOf(registry'[t])
          PROVE  \E c \in ToSet(Log) : NamesColumn(c, t, name)
      BY <3>2, <3>4
    <3>. QED
      BY <3>3, <3>5 DEF Explained
  <2>. QED
    BY <2>2, <2>3, <2>4, <2>5
<1>. QED
  BY <1>1, <1>2

\* The chain grows, or a crash takes it together with the registry.
LEMMA LogKept ==
  ASSUME TypedInv, NEW block \in Block, ledger' = Append(ledger, block)
  PROVE  ToSet(Log) \subseteq ToSet(Log')
<1>1. /\ Log' \in Seq(Pool) /\ Log \in Seq(Pool)
      /\ Len(Log) \in Nat /\ Len(Log') \in Nat /\ Len(Log) <= Len(Log')
      /\ \A k \in 1..Len(Log) : Log'[k] = Log[k]
  BY LogGrows, LogType
<1>2. ASSUME NEW r \in Seq(Pool) PROVE DOMAIN r = 1..Len(r)
  OBVIOUS
<1>3. DOMAIN Log = 1..Len(Log) /\ DOMAIN Log' = 1..Len(Log')
  BY <1>1, <1>2
<1>4. 1..Len(Log) \subseteq 1..Len(Log')
  BY <1>1
<1>. QED
  BY <1>1, <1>3, <1>4 DEF ToSet

LEMMA CurrentOnChain ==
  ASSUME TypedInv, NEW w \in Workers, AtTransaction(w) \/ worker[w].at = "execute"
  PROVE  Current(w) \in ToSet(Log) /\ Current(w) \in Transaction
<1>1. /\ Position(w) \in Nat /\ Position(w) + 1 <= Len(Log)
      /\ Log[Position(w) + 1] = Current(w)
      /\ Log \in Seq(Pool) /\ Len(Log) \in Nat /\ Current(w) \in Transaction
  BY PositionInFront, LogType, InFront
<1>2. ASSUME NEW r \in Seq(Pool) PROVE DOMAIN r = 1..Len(r)
  OBVIOUS
<1>3. Position(w) + 1 \in DOMAIN Log
  BY <1>1, <1>2
<1>. QED
  BY <1>1, <1>3 DEF ToSet

LEMMA ExplainedStep ==
  ASSUME TypedInv, RegistryExplained, [Next]_vars
  PROVE  RegistryExplained'
<1>0. registry \in Registries
  BY DEF TypedInv, TypeOK, Registries
<1>1. ASSUME UNCHANGED registry, ToSet(Log) \subseteq ToSet(Log')
      PROVE  RegistryExplained'
  BY <1>1 DEF RegistryExplained, Explained
<1>2. ASSUME NEW c \in Callbacks, NEW block \in Block, CommitBlock(c, block)
      PROVE  RegistryExplained'
  BY <1>1, <1>2, LogKept DEF CommitBlock, RecordBlock
<1>3. ASSUME UNCHANGED <<registry, ledger>> PROVE RegistryExplained'
  <2>1. UNCHANGED Log
    BY <1>3 DEF Log
  <2>. QED
    BY <1>1, <1>3, <2>1
<1>4. ASSUME NEW w \in Workers, SkipDatabase(w) \/ BeginTransaction(w)
      PROVE  RegistryExplained'
  <2>1. Current(w) \in ToSet(Log) /\ Current(w) \in Transaction /\ UNCHANGED Log
    BY <1>4, CurrentOnChain DEF SkipDatabase, BeginTransaction, Log
  <2>2. CASE registry' = registry
    BY <1>1, <2>1, <2>2
  <2>3. CASE ~Refused(Current(w)) /\ registry' = Register(Current(w))
    BY <1>0, <2>1, <2>3, RegisterExplained
  <2>. QED
    BY <1>4, <2>2, <2>3 DEF SkipDatabase, BeginTransaction
<1>5. CASE Crash
  BY <1>5 DEF Crash, EmptyDatabase, RegistryExplained, Explained
<1>6. ASSUME NEW w \in Workers, ExecuteTransaction(w) \/ FinishBlock(w)
      PROVE  RegistryExplained'
  BY <1>3, <1>6 DEF ExecuteTransaction, FinishBlock
<1>7. CASE \/ StartReplay
           \/ \E c \in Callers, from_block \in 0..Len(ledger) : SyncTable(c, from_block)
           \/ UNCHANGED vars
  BY <1>3, <1>7 DEF StartReplay, SyncTable, vars
<1>. QED
  BY <1>2, <1>4, <1>5, <1>6, <1>7 DEF Next, Run

-----------------------------------------------------------------------------
(* What is pending was submitted.                                          *)

Entries(s) == s \in Seq(Hashed) /\ Len(s) <= MaxTxs /\ \A i \in 1..Len(s) : Submitted(s[i].tx)

SourceInv ==
  /\ TypedInv
  /\ RegistryExplained
  /\ sequence \in [Accounts -> Nat] /\ \A a \in Accounts : sequence[a] <= MaxSequence[a]
  /\ Entries(mempool)
  /\ round = NoRound \/ (Entries(round) /\ round # <<>>)

LEMMA ValidIsRegistrable ==
  ASSUME TypedInv, RegistryExplained, NEW s \in Statement, Valid(s), s.kind # "CREATE"
  PROVE  Registrable(s)
<1>1. s.table \in Tables /\ registry[s.table] # NoTable
  BY StatementType DEF Valid
<1>2. Explained(s.table)
  BY <1>1 DEF RegistryExplained
<1>3. \E tx \in ToSet(Log) : tx.kind = "CREATE" /\ tx.table = s.table
  BY <1>1, <1>2 DEF Explained, CreatesTable
<1>4. ASSUME s.kind \in {"INSERT", "UPDATE"}
      PROVE  \E tx \in ToSet(Log) :
               \/ tx.kind = "CREATE" /\ tx.table = s.table /\ s.column \in NamesOf(tx.columns)
               \/ tx.kind = "ADD" /\ tx.table = s.table /\ s.column = tx.column.name
  <2>1. s.column \in NamesOf(registry[s.table])
    BY <1>4 DEF Valid
  <2>2. \E tx \in ToSet(Log) : NamesColumn(tx, s.table, s.column)
    BY <1>1, <1>2, <2>1 DEF Explained
  <2>. QED
    BY <2>2 DEF NamesColumn
<1>. QED
  BY <1>3, <1>4 DEF Registrable

LEMMA SubmittedStays ==
  ASSUME ToSet(Log) \subseteq ToSet(Log'), NEW tx, Submitted(tx)
  PROVE  Submitted(tx)'
<1>1. ASSUME NEW s, Registrable(s) PROVE Registrable(s)'
  BY <1>1 DEF Registrable
<1>. QED
  BY <1>1 DEF Submitted

\* What the leader accepts is a transaction that may be in a block.
LEMMA AcceptedIsSubmitted ==
  ASSUME SourceInv, NEW a \in Accounts, NEW tx \in Pool,
         SqlSubmit(a, tx) \/ CreateTable(a, tx) \/ SqlSubmitBatch(a, tx)
  PROVE  Submitted(tx) /\ Queue(a, tx)
<1>1. CASE tx.kind # "BATCH"
  BY <1>1 DEF SqlSubmit, CreateTable, SqlSubmitBatch, Submitted
<1>2. CASE tx.kind = "BATCH"
  <2>1. SqlSubmitBatch(a, tx)
    BY <1>2 DEF SqlSubmit, CreateTable
  <2>2. tx.statements \in Seq(Statement)
    BY <1>2, TransactionType, TableSyncAssumption
  <2>3. ASSUME NEW i \in 1..Len(tx.statements), tx.statements[i].kind # "CREATE"
        PROVE  Registrable(tx.statements[i])
    <3>1. tx.statements[i] \in Statement /\ Valid(tx.statements[i])
      BY <2>1, <2>2 DEF SqlSubmitBatch
    <3>. QED
      BY <2>3, <3>1, ValidIsRegistrable DEF SourceInv
  <2>. QED
    BY <2>1, <2>3 DEF Submitted, SqlSubmitBatch
<1>. QED
  BY <1>1, <1>2

\* An added entry is the last one or stands where one with its hash stood.
LEMMA AddedIs ==
  ASSUME mempool \in Seq(Hashed), NEW e \in Hashed
  PROVE  /\ Added(e) \in Seq(Hashed) /\ Len(Added(e)) <= Len(mempool) + 1
         /\ ToSet(Added(e)) \subseteq ToSet(mempool) \cup {e}
         /\ Hashes(Added(e)) = Hashes(mempool) \cup {HashOf(e)}
<1>1. CASE HashOf(e) \notin Hashes(mempool)
  <2>1. Added(e) = Append(mempool, e) /\ Len(Append(mempool, e)) = Len(mempool) + 1
    BY <1>1 DEF Added
  <2>2. ToSet(Append(mempool, e)) = ToSet(mempool) \cup {e}
    BY ToSetAppend
  <2>. QED
    BY <2>1, <2>2 DEF Hashes
<1>2. CASE HashOf(e) \in Hashes(mempool)
  <2> DEFINE q == [i \in 1..Len(mempool) |-> IF HashOf(mempool[i]) = HashOf(e) THEN e ELSE mempool[i]]
  <2>1. DOMAIN mempool = 1..Len(mempool) /\ Len(mempool) \in Nat
    OBVIOUS
  <2>2. Added(e) = q
    BY <1>2, <2>1 DEF Added
  <2>3. /\ q \in Seq(Hashed) /\ Len(q) = Len(mempool) /\ DOMAIN q = 1..Len(mempool)
        /\ \A i \in 1..Len(mempool) :
             q[i] = IF HashOf(mempool[i]) = HashOf(e) THEN e ELSE mempool[i]
    BY <2>1
  <2>. HIDE DEF q
  <2>4. ToSet(q) \subseteq ToSet(mempool) \cup {e}
    BY <2>1, <2>3 DEF ToSet
  <2>5. \A i \in 1..Len(mempool) : HashOf(q[i]) = HashOf(mempool[i])
    BY <2>3
  <2>6. Hashes(q) = Hashes(mempool)
    BY <2>1, <2>3, <2>5 DEF Hashes, ToSet
  <2>. QED
    BY <1>2, <2>1, <2>2, <2>3, <2>4, <2>6
<1>. QED
  BY <1>1, <1>2

\* The entry a handler makes.
Entry(a, tx) == [tx |-> tx, account |-> a, sequence |-> sequence[a] + 1]

LEMMA QueueKeeps ==
  ASSUME SourceInv, NEW a \in Accounts, NEW tx \in Pool, Submitted(tx), Queue(a, tx)
  PROVE  /\ SourceInv' /\ UNCHANGED vars
         /\ Entry(a, tx) \in Hashed
         /\ sequence' = [sequence EXCEPT ![a] = @ + 1]
         /\ accepted' = accepted \cup {Entry(a, tx)}
         /\ mempool' = Added(Entry(a, tx))
<1>0. /\ mempool \in Seq(Hashed) /\ Len(mempool) \in Nat /\ MaxTxs \in Nat
      /\ MaxSequence \in [Accounts -> Nat]
      /\ sequence \in [Accounts -> Nat] /\ \A c \in Accounts : sequence[c] <= MaxSequence[c]
  BY TableSyncAssumption, SubmissionAssumption DEF SourceInv, Entries
<1>1. /\ UNCHANGED vars /\ UNCHANGED <<round, recorded, boot>>
      /\ sequence[a] < MaxSequence[a] /\ Len(mempool) < MaxTxs
      /\ sequence' = [sequence EXCEPT ![a] = @ + 1]
      /\ accepted' = accepted \cup {Entry(a, tx)}
      /\ mempool' = Added(Entry(a, tx))
  BY DEF Queue, Counted, Entry
<1>2. sequence[a] + 1 \in Nat \ {0} /\ sequence[a] + 1 <= MaxSequence[a]
  BY <1>0, <1>1
<1>3. Entry(a, tx) \in Hashed /\ Entry(a, tx).tx = tx
  BY <1>2 DEF Entry, Hashed
<1>4. sequence' \in [Accounts -> Nat] /\ \A c \in Accounts : sequence'[c] <= MaxSequence[c]
  BY <1>0, <1>1, <1>2
<1>5. UNCHANGED <<ledger, Log>>
  BY <1>1 DEF vars, Log
<1>6. \A t : Submitted(t) => Submitted(t)'
  BY <1>5, SubmittedStays
<1>7. TypedInv' /\ RegistryExplained'
  BY <1>1, TypedStep, ExplainedStep DEF SourceInv
<1>8. Entries(mempool)'
  <2> DEFINE e == Entry(a, tx)
  <2>1. e \in Hashed /\ e.tx = tx /\ mempool' = Added(e)
    BY <1>1, <1>3
  <2>. HIDE DEF e
  <2>2. /\ mempool' \in Seq(Hashed) /\ Len(mempool') <= Len(mempool) + 1
        /\ ToSet(mempool') \subseteq ToSet(mempool) \cup {e}
    BY <1>0, <2>1, AddedIs
  <2>3. Len(mempool') <= MaxTxs /\ Len(mempool') \in Nat
    BY <1>0, <1>1, <2>2
  <2>4. ASSUME NEW i \in 1..Len(mempool') PROVE Submitted(mempool'[i].tx)
    <3>1. mempool'[i] \in ToSet(mempool')
      BY <2>2 DEF ToSet
    <3>2. CASE mempool'[i] = e
      BY <2>1, <3>2
    <3>3. CASE mempool'[i] \in ToSet(mempool)
      <4>1. PICK j \in 1..Len(mempool) : mempool'[i] = mempool[j]
        BY <1>0, <3>3 DEF ToSet
      <4>. QED
        BY <4>1 DEF SourceInv, Entries
    <3>. QED
      BY <2>2, <3>1, <3>2, <3>3
  <2>. QED
    BY <1>6, <2>2, <2>3, <2>4 DEF Entries
<1>9. (round = NoRound \/ (Entries(round) /\ round # <<>>))'
  BY <1>1, <1>6 DEF SourceInv, Entries
<1>. QED
  BY <1>1, <1>3, <1>4, <1>7, <1>8, <1>9 DEF SourceInv

\* What a round commits is a block of TableSync.
LEMMA RoundIsBlock ==
  ASSUME SourceInv, Commit
  PROVE  \E block \in Block :
           /\ CommitBlock(Leader, block)
           /\ block = [i \in 1..Len(round) |-> round[i].tx]
<1>1. round \in Seq(Hashed) /\ Len(round) <= MaxTxs /\ (\A i \in 1..Len(round) : Submitted(round[i].tx))
      /\ round # <<>>
  BY DEF SourceInv, Entries, Commit
<1>2. Len(round) \in 1..MaxTxs /\ DOMAIN round = 1..Len(round)
  BY <1>1, TableSyncAssumption
<1> DEFINE block == [i \in 1..Len(round) |-> round[i].tx]
<1>3. ASSUME NEW i \in 1..Len(round) PROVE round[i].tx \in Pool
  <2>1. round[i] \in Hashed
    BY <1>1
  <2>. QED
    BY <2>1 DEF Hashed
<1>4. block \in [1..Len(round) -> Pool]
  BY <1>3
<1>5. block \in Block
  BY <1>2, <1>4 DEF Block
<1>6. Len(block) = Len(round)
  BY <1>2
<1>7. \A i \in 1..Len(block) : Submitted(block[i])
  BY <1>1, <1>6
<1>8. RecordBlock(Leader, block)
  BY <1>2 DEF Commit
<1>. QED
  BY <1>5, <1>7, <1>8 DEF CommitBlock

LEMMA SourceCommit ==
  ASSUME SourceInv, Commit
  PROVE  SourceInv' /\ Next
<1>1. PICK block \in Block : CommitBlock(Leader, block)
  BY RoundIsBlock
<1>2. Leader \in Callbacks
  BY SubmissionAssumption
<1>3. Next
  BY <1>1, <1>2 DEF Next
<1>4. TypedInv' /\ RegistryExplained'
  BY <1>3, TypedStep, ExplainedStep DEF SourceInv
<1>5. \A t : Submitted(t) => Submitted(t)'
  <2>1. ledger' = Append(ledger, block)
    BY <1>1 DEF CommitBlock, RecordBlock
  <2>2. ToSet(Log) \subseteq ToSet(Log')
    BY <2>1, LogKept DEF SourceInv
  <2>. QED
    BY <2>2, SubmittedStays
<1>6. /\ mempool' = Selection(mempool, {e \in ToSet(mempool) : HashOf(e) \notin Hashes(round)})
      /\ round' = NoRound /\ UNCHANGED sequence
  BY DEF Commit, Remaining
<1>7. mempool \in Seq(Hashed) /\ Len(mempool) <= MaxTxs /\ Len(mempool) \in Nat
  BY DEF SourceInv, Entries
<1>8. mempool' \in Seq(Hashed) /\ Len(mempool') <= Len(mempool) /\ ToSet(mempool') \subseteq ToSet(mempool)
  BY <1>6, <1>7, SelectionOf
<1>9. Entries(mempool)'
  <2>1. Len(mempool') <= MaxTxs
    BY <1>7, <1>8, TableSyncAssumption
  <2>2. ASSUME NEW i \in 1..Len(mempool') PROVE \E j \in 1..Len(mempool) : mempool'[i] = mempool[j]
    <3>1. DOMAIN mempool' = 1..Len(mempool') /\ DOMAIN mempool = 1..Len(mempool)
      BY <1>7, <1>8
    <3>. QED
      BY <1>8, <3>1 DEF ToSet
  <2>. QED
    BY <1>5, <1>8, <2>1, <2>2 DEF SourceInv, Entries
<1>. QED
  BY <1>3, <1>4, <1>6, <1>9 DEF SourceInv

LEMMA SourceStep ==
  ASSUME SourceInv, [NodeNext]_nodeVars
  PROVE  SourceInv' /\ [Next]_vars
<1>1. ASSUME NEW a \in Accounts, NEW tx \in Pool,
             SqlSubmit(a, tx) \/ CreateTable(a, tx) \/ SqlSubmitBatch(a, tx)
      PROVE  SourceInv' /\ [Next]_vars
  BY <1>1, AcceptedIsSubmitted, QueueKeeps
<1>2. ASSUME [Next]_vars, UNCHANGED <<sequence, mempool>>, ToSet(Log) \subseteq ToSet(Log'),
             round' \in {round, NoRound} \/ (mempool # <<>> /\ round' = mempool)
      PROVE  SourceInv'
  <2>1. TypedInv' /\ RegistryExplained'
    BY <1>2, TypedStep, ExplainedStep DEF SourceInv
  <2>2. \A t : Submitted(t) => Submitted(t)'
    BY <1>2, SubmittedStays
  <2>3. Entries(mempool)'
    BY <1>2, <2>2 DEF SourceInv, Entries
  <2>4. (round = NoRound \/ (Entries(round) /\ round # <<>>))'
    <3>1. CASE round' = round
      BY <2>2, <3>1 DEF SourceInv, Entries
    <3>2. CASE round' = NoRound
      BY <3>2
    <3>3. CASE mempool # <<>> /\ round' = mempool
      BY <2>2, <3>3 DEF SourceInv, Entries
    <3>. QED
      BY <1>2, <3>1, <3>2, <3>3
  <2>. QED
    BY <1>2, <2>1, <2>3, <2>4 DEF SourceInv
<1>3. CASE Propose \/ RoundFails
  <2>1. UNCHANGED vars /\ UNCHANGED <<ledger, Log>>
    BY <1>3 DEF Propose, RoundFails, vars, Log
  <2>. QED
    BY <1>2, <1>3, <2>1 DEF Propose, RoundFails
<1>4. CASE Commit
  BY <1>4, SourceCommit
<1>5. CASE Replay
  <2>1. Next /\ UNCHANGED <<sequence, mempool, round>>
    BY <1>5 DEF Replay, Next, pipeline
  <2>2. UNCHANGED <<ledger, Log>>
    BY <1>5 DEF Replay, StartReplay, SyncTable, Run, SkipDatabase, BeginTransaction,
                ExecuteTransaction, FinishBlock, Log
  <2>. QED
    BY <1>2, <2>1, <2>2
<1>6. CASE NodeCrash
  <2>1. Next
    BY <1>6 DEF NodeCrash, Next
  <2>2. TypedInv' /\ RegistryExplained'
    BY <2>1, TypedStep, ExplainedStep DEF SourceInv
  <2>3. /\ sequence' = [a \in Accounts |-> 0] /\ mempool' = <<>> /\ round' = NoRound
    BY <1>6 DEF NodeCrash
  <2>4. sequence' \in [Accounts -> Nat] /\ \A a \in Accounts : sequence'[a] <= MaxSequence[a]
    BY <2>3, SubmissionAssumption
  <2>5. Entries(mempool)'
    <3>1. <<>> \in Seq(Hashed) /\ Len(<<>>) = 0 /\ MaxTxs \in Nat
      BY TableSyncAssumption
    <3>2. Len(mempool') = 0 /\ mempool' \in Seq(Hashed)
      BY <2>3, <3>1
    <3>. QED
      BY <3>1, <3>2 DEF Entries
  <2>. QED
    BY <2>1, <2>2, <2>3, <2>4, <2>5 DEF SourceInv
<1>7. CASE UNCHANGED nodeVars
  <2>1. UNCHANGED vars /\ UNCHANGED <<ledger, Log, sequence, mempool, round>>
    BY <1>7 DEF nodeVars, vars, pipeline, Log
  <2>. QED
    BY <1>2, <2>1
<1>. QED
  BY <1>1, <1>3, <1>4, <1>5, <1>6, <1>7 DEF NodeNext

LEMMA SourceInit == NodeInit => SourceInv
<1> SUFFICES ASSUME NodeInit PROVE SourceInv
  OBVIOUS
<1>1. TypedInv
  BY TypedInit DEF NodeInit
<1>2. RegistryExplained
  BY DEF NodeInit, Init, EmptyDatabase, RegistryExplained, Explained
<1>3. /\ sequence \in [Accounts -> Nat] /\ \A a \in Accounts : sequence[a] <= MaxSequence[a]
      /\ round = NoRound
  BY SubmissionAssumption DEF NodeInit
<1>4. Entries(mempool)
  <2>1. <<>> \in Seq(Hashed) /\ Len(<<>>) = 0 /\ MaxTxs \in Nat
    BY TableSyncAssumption
  <2>2. mempool \in Seq(Hashed) /\ Len(mempool) = 0
    BY <2>1 DEF NodeInit
  <2>. QED
    BY <2>1, <2>2 DEF Entries
<1>. QED
  BY <1>1, <1>2, <1>3, <1>4 DEF SourceInv

\* The pipeline from the request to the chain does to the node nothing that TableSync
\* does not say: in particular a batch in a block was accounted for by the chain when it
\* was submitted, however many crashes, failed rounds and other blocks lie in between
\* (validator.py:44-223, table_sync.py:109-131).
THEOREM SubmissionImplementsTableSync == NodeSpec => ImplementsTableSync
<1>1. NodeInit => Init
  BY DEF NodeInit
<1>. QED
  BY <1>1, SourceInit, SourceStep, PTL DEF NodeSpec, ImplementsTableSync, Spec

-----------------------------------------------------------------------------
(* Once: an accepted transaction is pending or in one place of the chain,  *)
(* as long as its hash is not another's.                                   *)

\* No hash occurs twice, as in the values of a dict by hash.
OneEach(s) ==
  /\ Distinct(s)
  /\ \A e, f \in ToSet(s) : HashOf(e) = HashOf(f) => e = f

Pending(e) == HashOf(e) \in Hashes(mempool)

OnceIn(e) ==
  \/ Pending(e) /\ Places(e, boot) = {}
  \/ ~Pending(e) /\ \E p : Places(e, boot) = {p}

Known(e) == Pending(e) \/ Places(e, boot) # {}

\* The mirror of the chain that knows accounts and numbers.
Recorded ==
  /\ recorded \in Seq(Seq(Hashed)) /\ Len(recorded) = Len(ledger)
  /\ \A b \in 1..Len(recorded) : Len(recorded[b]) <= MaxTxs
  /\ boot \in Nat /\ boot <= Len(recorded)

\* No number was given twice by this process, and what is pending, proposed or was
\* recorded since it started has one.  What a round proposed may have been replaced in
\* the mempool since, by an entry with its hash.
Numbered ==
  /\ \A e \in accepted : e \in Hashed /\ e.sequence <= sequence[e.account]
  /\ OneEach(mempool) /\ ToSet(mempool) \subseteq accepted
  /\ round # NoRound =>
       OneEach(round) /\ ToSet(round) \subseteq accepted /\ Hashes(round) \subseteq Hashes(mempool)
  /\ \A b \in 1..Len(recorded) : boot < b => ToSet(recorded[b]) \subseteq accepted

OnceInv ==
  /\ SourceInv
  /\ Recorded
  /\ Numbered
  /\ \A e \in accepted : Known(e) /\ (Unshared(e) => OnceIn(e))

\* The places of a hash in a block.
At(n, r, e) == {<<n, i>> : i \in {k \in 1..Len(r) : HashOf(r[k]) = HashOf(e)}}

LEMMA PlacesType ==
  ASSUME Recorded, NEW e, NEW from \in Nat
  PROVE  Places(e, from) = {p \in Nat \X Nat : /\ from < p[1] /\ p[1] <= Len(recorded)
                                               /\ 1 <= p[2] /\ p[2] <= Len(recorded[p[1]])
                                               /\ HashOf(recorded[p[1]][p[2]]) = HashOf(e)}
<1>1. Len(recorded) \in Nat /\ MaxTxs \in Nat
  BY TableSyncAssumption DEF Recorded
<1>2. ASSUME NEW b \in 1..Len(recorded) PROVE Len(recorded[b]) \in Nat /\ Len(recorded[b]) <= MaxTxs
  BY <1>2 DEF Recorded
<1>. QED
  BY <1>1, <1>2 DEF Places

\* A block adds the places it has, and takes none away.
LEMMA PlacesAppend ==
  ASSUME Recorded, NEW r \in Seq(Hashed), Len(r) <= MaxTxs,
         recorded' = Append(recorded, r), Recorded',
         NEW e, NEW from \in Nat, from <= Len(recorded)
  PROVE  Places(e, from)' = Places(e, from) \cup At(Len(recorded) + 1, r, e)
<1>0. PICK n \in Nat : n = Len(recorded)
  BY DEF Recorded
<1>1. /\ Len(recorded') = n + 1 /\ recorded'[n + 1] = r /\ Len(r) \in Nat /\ from <= n
      /\ \A b \in 1..n : recorded'[b] = recorded[b]
  <2>1. ASSUME NEW X, NEW ss \in Seq(X), NEW s \in X
        PROVE  /\ Len(Append(ss, s)) = Len(ss) + 1 /\ Append(ss, s)[Len(ss) + 1] = s
               /\ \A b \in 1..Len(ss) : Append(ss, s)[b] = ss[b]
    OBVIOUS
  <2>2. recorded \in Seq(Seq(Hashed)) /\ Len(r) \in Nat
    BY DEF Recorded
  <2>. QED
    BY <1>0, <2>1, <2>2
<1>2. Places(e, from)' = {p \in Nat \X Nat : /\ from < p[1] /\ p[1] <= Len(recorded')
                                             /\ 1 <= p[2] /\ p[2] <= Len(recorded'[p[1]])
                                             /\ HashOf(recorded'[p[1]][p[2]]) = HashOf(e)}
  <2>1. Len(recorded') \in Nat /\ MaxTxs \in Nat
    BY <1>1, TableSyncAssumption
  <2>2. ASSUME NEW b \in 1..Len(recorded')
        PROVE  Len(recorded'[b]) \in Nat /\ Len(recorded'[b]) <= MaxTxs
    BY <2>2 DEF Recorded
  <2>. QED
    BY <2>1, <2>2 DEF Places
<1>3. ASSUME NEW p \in Nat \X Nat PROVE p \in Places(e, from)' <=> p \in Places(e, from) \/ p \in At(n + 1, r, e)
  <2>0. PICK b \in Nat, i \in Nat : p = <<b, i>>
    OBVIOUS
  <2>1. p \in Places(e, from) <=> /\ from < b /\ b <= n /\ 1 <= i /\ i <= Len(recorded[b])
                                  /\ HashOf(recorded[b][i]) = HashOf(e)
    BY <1>0, <2>0, PlacesType
  <2>2. p \in Places(e, from)' <=> /\ from < b /\ b <= n + 1 /\ 1 <= i /\ i <= Len(recorded'[b])
                                   /\ HashOf(recorded'[b][i]) = HashOf(e)
    BY <1>1, <1>2, <2>0
  <2>3. p \in At(n + 1, r, e) <=> b = n + 1 /\ i \in 1..Len(r) /\ HashOf(r[i]) = HashOf(e)
    BY <2>0 DEF At
  <2>4. CASE b = n + 1
    BY <1>1, <2>1, <2>2, <2>3, <2>4
  <2>5. CASE b # n + 1 /\ from < b /\ b <= n + 1
    <3>1. b \in 1..n
      BY <2>5
    <3>. QED
      BY <1>1, <2>1, <2>2, <2>3, <2>5, <3>1
  <2>. QED
    BY <2>1, <2>2, <2>3, <2>4, <2>5, <1>1
<1>4. Places(e, from) \subseteq Nat \X Nat /\ Places(e, from)' \subseteq Nat \X Nat
  BY <1>2, PlacesType
<1>5. At(n + 1, r, e) \subseteq Nat \X Nat
  BY <1>1 DEF At
<1>. QED
  BY <1>0, <1>3, <1>4, <1>5

LEMMA OneElement ==
  ASSUME NEW r \in Seq(Hashed), NEW e, NEW n
  PROVE  /\ HashOf(e) \notin Hashes(r) => At(n, r, e) = {}
         /\ HashOf(e) \in Hashes(r) => At(n, r, e) # {}
         /\ OneEach(r) /\ HashOf(e) \in Hashes(r) => \E p : At(n, r, e) = {p}
<1>1. DOMAIN r = 1..Len(r)
  OBVIOUS
<1>2. ASSUME HashOf(e) \notin Hashes(r) PROVE At(n, r, e) = {}
  BY <1>1, <1>2 DEF At, Hashes, ToSet
<1>3. ASSUME HashOf(e) \in Hashes(r)
      PROVE  \E i \in 1..Len(r) : HashOf(r[i]) = HashOf(e)
  BY <1>1, <1>3 DEF Hashes, ToSet
<1>4. ASSUME OneEach(r), HashOf(e) \in Hashes(r) PROVE \E p : At(n, r, e) = {p}
  <2>1. PICK i \in 1..Len(r) : HashOf(r[i]) = HashOf(e)
    BY <1>3, <1>4
  <2>2. ASSUME NEW k \in 1..Len(r), HashOf(r[k]) = HashOf(e) PROVE k = i
    <3>1. r[k] \in ToSet(r) /\ r[i] \in ToSet(r)
      BY <1>1 DEF ToSet
    <3>2. r[k] = r[i]
      BY <1>4, <2>1, <2>2, <3>1 DEF OneEach
    <3>. QED
      BY <1>4, <3>2 DEF OneEach, Distinct
  <2>3. {k \in 1..Len(r) : HashOf(r[k]) = HashOf(e)} = {i}
    BY <2>1, <2>2
  <2>4. At(n, r, e) = {<<n, i>>}
    BY <2>3 DEF At
  <2>. QED
    BY <2>4
<1>5. HashOf(e) \in Hashes(r) => At(n, r, e) # {}
  BY <1>3 DEF At
<1>. QED
  BY <1>2, <1>4, <1>5

\* An added entry leaves the mempool a dict.
LEMMA AddedOneEach ==
  ASSUME mempool \in Seq(Hashed), OneEach(mempool), NEW e \in Hashed, e \notin ToSet(mempool)
  PROVE  OneEach(Added(e))
<1>0. DOMAIN mempool = 1..Len(mempool) /\ Len(mempool) \in Nat
  OBVIOUS
<1>1. \A i \in 1..Len(mempool) : mempool[i] \in ToSet(mempool) /\ mempool[i] # e
  BY <1>0 DEF ToSet
<1>2. CASE HashOf(e) \notin Hashes(mempool)
  <2>1. Added(e) = Append(mempool, e)
    BY <1>2 DEF Added
  <2>2. ToSet(Append(mempool, e)) = ToSet(mempool) \cup {e}
    BY ToSetAppend
  <2>3. Distinct(Append(mempool, e))
    <3> DEFINE q == Append(mempool, e)
    <3>1. /\ Len(q) = Len(mempool) + 1 /\ q[Len(mempool) + 1] = e
          /\ \A i \in 1..Len(mempool) : q[i] = mempool[i]
      OBVIOUS
    <3>. HIDE DEF q
    <3>2. \A i \in 1..Len(q) : i \in 1..Len(mempool) \/ i = Len(mempool) + 1
      BY <1>0, <3>1
    <3>3. Distinct(q)
      BY <1>1, <3>1, <3>2 DEF OneEach, Distinct
    <3>. QED
      BY <3>3 DEF q
  <2>4. ASSUME NEW f \in ToSet(mempool) PROVE HashOf(f) # HashOf(e)
    BY <1>2, <2>4 DEF Hashes
  <2>. QED
    BY <2>1, <2>2, <2>3, <2>4 DEF OneEach
<1>3. CASE HashOf(e) \in Hashes(mempool)
  <2>1. PICK k \in 1..Len(mempool) : HashOf(mempool[k]) = HashOf(e)
    BY <1>0, <1>3 DEF Hashes, ToSet
  <2>2. \A i \in 1..Len(mempool) : HashOf(mempool[i]) = HashOf(e) => i = k
    <3>1. \A i \in 1..Len(mempool) : HashOf(mempool[i]) = HashOf(e) => mempool[i] = mempool[k]
      BY <1>1, <2>1 DEF OneEach
    <3>. QED
      BY <3>1 DEF OneEach, Distinct
  <2> DEFINE q == [i \in 1..Len(mempool) |-> IF HashOf(mempool[i]) = HashOf(e) THEN e ELSE mempool[i]]
  <2>3. Added(e) = q
    BY <1>0, <1>3 DEF Added
  <2>4. /\ DOMAIN q = 1..Len(mempool) /\ Len(q) = Len(mempool)
        /\ q[k] = e
        /\ \A i \in 1..Len(mempool) : i # k => q[i] = mempool[i]
    BY <1>0, <2>1, <2>2
  <2>. HIDE DEF q
  <2>5. Distinct(q)
    BY <1>1, <2>4 DEF OneEach, Distinct
  <2>6. ASSUME NEW f \in ToSet(q), NEW g \in ToSet(q), HashOf(f) = HashOf(g) PROVE f = g
    <3>1. PICK i \in 1..Len(mempool) : q[i] = f
      BY <2>4 DEF ToSet
    <3>2. PICK j \in 1..Len(mempool) : q[j] = g
      BY <2>4 DEF ToSet
    <3>3. CASE i = k
      <4>1. f = e
        BY <2>4, <3>1, <3>3
      <4>2. j # k => g = mempool[j]
        BY <2>4, <3>2
      <4>3. HashOf(g) = HashOf(e)
        BY <2>6, <4>1
      <4>4. j = k
        BY <2>2, <4>2, <4>3
      <4>. QED
        BY <3>1, <3>2, <3>3, <4>4
    <3>4. CASE j = k
      <4>1. g = e
        BY <2>4, <3>2, <3>4
      <4>2. i # k => f = mempool[i]
        BY <2>4, <3>1
      <4>3. HashOf(f) = HashOf(e)
        BY <2>6, <4>1
      <4>4. i = k
        BY <2>2, <4>2, <4>3
      <4>. QED
        BY <3>1, <3>2, <3>4, <4>4
    <3>5. CASE i # k /\ j # k
      <4>1. f = mempool[i] /\ g = mempool[j]
        BY <2>4, <3>1, <3>2, <3>5
      <4>. QED
        BY <1>1, <2>6, <4>1 DEF OneEach
    <3>. QED
      BY <3>3, <3>4, <3>5
  <2>. QED
    BY <2>3, <2>5, <2>6 DEF OneEach
<1>. QED
  BY <1>2, <1>3

\* A new entry: its number was not given before.
LEMMA OnceQueue ==
  ASSUME OnceInv, NEW a \in Accounts, NEW tx \in Pool, Submitted(tx), Queue(a, tx)
  PROVE  OnceInv'
<1>0. PICK e : e = Entry(a, tx)
  OBVIOUS
<1>1. /\ SourceInv' /\ UNCHANGED vars /\ e \in Hashed
      /\ sequence' = [sequence EXCEPT ![a] = @ + 1]
      /\ accepted' = accepted \cup {e}
      /\ mempool' = Added(e)
  BY <1>0, QueueKeeps DEF OnceInv
<1>2. UNCHANGED <<round, recorded, boot, ledger>>
  BY <1>1 DEF Queue, vars
<1>3. sequence \in [Accounts -> Nat] /\ sequence[a] \in Nat /\ mempool \in Seq(Hashed)
  BY DEF OnceInv, SourceInv, Entries
<1>4. e.account = a /\ e.sequence = sequence[a] + 1
  BY <1>0 DEF Entry
<1>5. \A f \in accepted : f \in Hashed /\ f.sequence <= sequence[f.account]
  BY DEF OnceInv, Numbered
<1>6. e \notin accepted
  BY <1>3, <1>4, <1>5
<1>7. /\ ToSet(mempool) \subseteq accepted /\ OneEach(mempool)
      /\ \A b \in 1..Len(recorded) : boot < b => ToSet(recorded[b]) \subseteq accepted
      /\ round # NoRound =>
           OneEach(round) /\ ToSet(round) \subseteq accepted /\ Hashes(round) \subseteq Hashes(mempool)
  BY DEF OnceInv, Numbered
<1>8. Recorded /\ Recorded'
  BY <1>2 DEF OnceInv, Recorded
<1>9. /\ ToSet(mempool') \subseteq accepted' /\ OneEach(mempool')
      /\ Hashes(mempool') = Hashes(mempool) \cup {HashOf(e)}
  <2>1. ToSet(mempool') \subseteq ToSet(mempool) \cup {e} /\ Hashes(mempool') = Hashes(mempool) \cup {HashOf(e)}
    BY <1>1, <1>3, AddedIs
  <2>2. OneEach(mempool')
    BY <1>1, <1>3, <1>6, <1>7, AddedOneEach
  <2>. QED
    BY <1>1, <1>7, <2>1, <2>2
<1>10. \A f \in accepted' : f \in Hashed /\ f.sequence <= sequence'[f.account]
  <2> TAKE f \in accepted'
  <2>1. CASE f = e
    BY <1>1, <1>3, <1>4, <2>1
  <2>2. CASE f \in accepted
    <3>1. f \in Hashed /\ f.sequence <= sequence[f.account]
      BY <1>5, <2>2
    <3>2. f.account \in Accounts /\ f.sequence \in Nat
      BY <3>1 DEF Hashed
    <3>3. sequence[f.account] \in Nat
      BY <1>3, <3>2
    <3>4. sequence'[f.account] >= sequence[f.account]
      BY <1>1, <1>3, <3>2, <3>3
    <3>. QED
      BY <1>1, <1>3, <3>1, <3>2, <3>3, <3>4
  <2>. QED
    BY <1>1, <2>1, <2>2
<1>11. Numbered'
  BY <1>1, <1>2, <1>7, <1>9, <1>10 DEF Numbered
<1>12. \A f : Places(f, boot)' = Places(f, boot)
  BY <1>2 DEF Places
<1>13. ASSUME NEW f PROVE Pending(f)' <=> Pending(f) \/ HashOf(f) = HashOf(e)
  BY <1>9 DEF Pending
<1>14. ASSUME NEW f \in accepted' PROVE Known(f)' /\ (Unshared(f)' => OnceIn(f)')
  <2>1. CASE f = e
    <3>1. ASSUME Unshared(e)' PROVE Places(e, boot) = {}
      <4> SUFFICES ASSUME NEW p \in Places(e, boot) PROVE FALSE
        OBVIOUS
      <4>1. PICK k \in Nat : k = boot
        BY <1>8 DEF Recorded
      <4>2. /\ p[1] \in 1..Len(recorded) /\ k < p[1] /\ p[2] \in 1..Len(recorded[p[1]])
            /\ HashOf(recorded[p[1]][p[2]]) = HashOf(e)
        BY <1>8, <4>1, PlacesType
      <4>3. recorded[p[1]] \in Seq(Hashed)
        BY <1>8, <4>2 DEF Recorded
      <4>4. recorded[p[1]][p[2]] \in ToSet(recorded[p[1]])
        BY <4>2, <4>3 DEF ToSet
      <4>5. recorded[p[1]][p[2]] \in accepted
        BY <1>7, <4>1, <4>2, <4>4
      <4>6. recorded[p[1]][p[2]] = e
        BY <1>1, <3>1, <4>2, <4>5 DEF Unshared
      <4>. QED
        BY <1>6, <4>5, <4>6
    <3>. QED
      BY <1>12, <1>13, <2>1, <3>1 DEF OnceIn, Known
  <2>2. CASE f \in accepted /\ f # e
    <3>1. Known(f) /\ (Unshared(f) => OnceIn(f))
      BY <2>2 DEF OnceInv
    <3>2. Known(f)'
      BY <1>12, <1>13, <3>1 DEF Known
    <3>3. ASSUME Unshared(f)' PROVE OnceIn(f)'
      <4>1. Unshared(f) /\ HashOf(f) # HashOf(e)
        BY <1>1, <2>2, <3>3 DEF Unshared
      <4>2. Pending(f)' <=> Pending(f)
        BY <1>13, <4>1
      <4>. QED
        BY <1>12, <3>1, <4>1, <4>2 DEF OnceIn
    <3>. QED
      BY <3>2, <3>3
  <2>. QED
    BY <1>1, <2>1, <2>2
<1>. QED
  BY <1>1, <1>8, <1>11, <1>14 DEF OnceInv

\* A block moves its entries from the mempool to the chain.
LEMMA OnceCommit ==
  ASSUME OnceInv, Commit
  PROVE  OnceInv'
<1>1. SourceInv'
  BY SourceCommit DEF OnceInv
<1>2. /\ round # NoRound /\ recorded' = Append(recorded, round)
      /\ mempool' = Selection(mempool, {e \in ToSet(mempool) : HashOf(e) \notin Hashes(round)})
      /\ round' = NoRound /\ UNCHANGED <<sequence, accepted, boot>>
  BY DEF Commit, Remaining
<1>3. /\ round \in Seq(Hashed) /\ Len(round) <= MaxTxs /\ Len(round) \in Nat
      /\ OneEach(round) /\ ToSet(round) \subseteq accepted /\ Hashes(round) \subseteq Hashes(mempool)
  BY <1>2 DEF OnceInv, SourceInv, Entries, Numbered
<1>4. mempool \in Seq(Hashed) /\ OneEach(mempool) /\ ToSet(mempool) \subseteq accepted
  BY DEF OnceInv, SourceInv, Entries, Numbered
<1>5. /\ ToSet(mempool') \subseteq accepted /\ OneEach(mempool')
      /\ Hashes(mempool') = Hashes(mempool) \ Hashes(round)
  <2>1. /\ ToSet(mempool') = {e \in ToSet(mempool) : HashOf(e) \notin Hashes(round)}
        /\ Distinct(mempool')
    BY <1>2, <1>4, SelectionOf DEF OneEach
  <2>2. OneEach(mempool') /\ ToSet(mempool') \subseteq accepted
    BY <1>4, <2>1 DEF OneEach
  <2>3. Hashes(mempool') = Hashes(mempool) \ Hashes(round)
    BY <2>1 DEF Hashes
  <2>. QED
    BY <2>2, <2>3
<1>6. PICK n \in Nat, k \in Nat : n = Len(recorded) /\ k = boot /\ k <= n
  BY DEF OnceInv, Recorded
<1>7. /\ Len(recorded') = n + 1 /\ recorded'[n + 1] = round /\ recorded' \in Seq(Seq(Hashed))
      /\ \A b \in 1..n : recorded'[b] = recorded[b]
  <2>1. ASSUME NEW X, NEW ss \in Seq(X), NEW s \in X
        PROVE  /\ Len(Append(ss, s)) = Len(ss) + 1 /\ Append(ss, s)[Len(ss) + 1] = s
               /\ Append(ss, s) \in Seq(X)
               /\ \A b \in 1..Len(ss) : Append(ss, s)[b] = ss[b]
    OBVIOUS
  <2>2. recorded \in Seq(Seq(Hashed))
    BY DEF OnceInv, Recorded
  <2>. QED
    BY <1>2, <1>3, <1>6, <2>1, <2>2
<1>8. \A b \in 1..n + 1 : b \in 1..n \/ b = n + 1
  BY <1>6
<1>9. Recorded'
  <2>1. Len(ledger') = n + 1
    <3>1. PICK block \in Block : CommitBlock(Leader, block)
      BY RoundIsBlock DEF OnceInv
    <3>2. ledger' = Append(ledger, block) /\ ledger \in Seq(Block) /\ Len(ledger) = n
      BY <1>6, <3>1 DEF CommitBlock, RecordBlock, OnceInv, SourceInv, TypedInv, TypeOK, Recorded
    <3>. QED
      BY <3>2
  <2>2. \A b \in 1..Len(recorded') : Len(recorded'[b]) <= MaxTxs
    BY <1>3, <1>6, <1>7, <1>8 DEF OnceInv, Recorded
  <2>. QED
    BY <1>2, <1>6, <1>7, <2>1, <2>2 DEF Recorded
<1>10. Numbered'
  <2>1. \A b \in 1..Len(recorded') : boot < b => ToSet(recorded'[b]) \subseteq accepted
    BY <1>3, <1>4, <1>6, <1>7, <1>8 DEF OnceInv, Numbered
  <2>2. \A e \in accepted : e \in Hashed /\ e.sequence <= sequence[e.account]
    BY DEF OnceInv, Numbered
  <2>. QED
    BY <1>2, <1>4, <1>5, <2>1, <2>2 DEF Numbered
<1>11. ASSUME NEW e \in accepted PROVE Known(e)' /\ (Unshared(e)' => OnceIn(e)')
  <2>1. Places(e, k)' = Places(e, k) \cup At(n + 1, round, e)
    BY <1>2, <1>3, <1>6, <1>9, PlacesAppend DEF OnceInv
  <2>2. Places(e, boot)' = Places(e, boot) \cup At(n + 1, round, e)
    <3>1. Places(e, boot) = Places(e, k) /\ Places(e, boot)' = Places(e, k)'
      BY <1>2, <1>6 DEF Places
    <3>. QED
      BY <2>1, <3>1
  <2>3. Known(e) /\ (Unshared(e) => OnceIn(e)) /\ (Unshared(e)' <=> Unshared(e))
    BY <1>2 DEF OnceInv, Unshared
  <2>4. Pending(e)' <=> Pending(e) /\ HashOf(e) \notin Hashes(round)
    BY <1>5 DEF Pending
  <2>5. CASE HashOf(e) \in Hashes(round)
    <3>1. \E p : At(n + 1, round, e) = {p}
      BY <1>3, <2>5, OneElement
    <3>2. Pending(e)
      BY <1>3, <2>5 DEF Pending
    <3>3. Unshared(e) => Places(e, boot) = {}
      BY <2>3, <3>2 DEF OnceIn
    <3>. QED
      BY <2>2, <2>3, <2>4, <2>5, <3>1, <3>3 DEF OnceIn, Known
  <2>6. CASE HashOf(e) \notin Hashes(round)
    <3>1. At(n + 1, round, e) = {}
      BY <1>3, <2>6, OneElement
    <3>2. Places(e, boot)' = Places(e, boot)
      BY <2>2, <3>1
    <3>. QED
      BY <2>3, <2>4, <2>6, <3>2 DEF OnceIn, Known
  <2>. QED
    BY <2>5, <2>6
<1>. QED
  BY <1>1, <1>2, <1>9, <1>10, <1>11 DEF OnceInv

LEMMA OnceStep ==
  ASSUME OnceInv, [NodeNext]_nodeVars
  PROVE  OnceInv'
<1>0. SourceInv' /\ [Next]_vars
  BY SourceStep DEF OnceInv
<1>1. ASSUME NEW a \in Accounts, NEW tx \in Pool,
             SqlSubmit(a, tx) \/ CreateTable(a, tx) \/ SqlSubmitBatch(a, tx)
      PROVE  OnceInv'
  <2>1. Submitted(tx) /\ Queue(a, tx)
    BY <1>1, AcceptedIsSubmitted DEF OnceInv
  <2>. QED
    BY <2>1, OnceQueue
<1>2. ASSUME UNCHANGED <<sequence, mempool, recorded, accepted, boot>>, Len(ledger') = Len(ledger),
             round' \in {round, NoRound, mempool}
      PROVE  OnceInv'
  <2>1. Recorded'
    BY <1>2 DEF OnceInv, Recorded
  <2>2. Numbered'
    BY <1>2 DEF OnceInv, Numbered
  <2>3. ASSUME NEW e \in accepted PROVE Known(e)' /\ (Unshared(e)' => OnceIn(e)')
    <3>1. Known(e) /\ (Unshared(e) => OnceIn(e))
      BY DEF OnceInv
    <3>2. Places(e, boot)' = Places(e, boot) /\ mempool' = mempool /\ accepted' = accepted
      BY <1>2 DEF Places
    <3>. QED
      BY <3>1, <3>2 DEF OnceIn, Known, Pending, Unshared
  <2>. QED
    BY <1>0, <1>2, <2>1, <2>2, <2>3 DEF OnceInv
<1>3. CASE Propose \/ RoundFails
  BY <1>2, <1>3 DEF Propose, RoundFails, vars
<1>4. CASE Commit
  BY <1>4, OnceCommit
<1>5. CASE Replay
  <2>1. UNCHANGED ledger
    BY <1>5 DEF Replay, StartReplay, SyncTable, Run, SkipDatabase, BeginTransaction,
                ExecuteTransaction, FinishBlock
  <2>. QED
    BY <1>2, <1>5, <2>1 DEF Replay, pipeline
<1>6. CASE NodeCrash
  <2>1. /\ accepted' = {} /\ boot' = Len(ledger') /\ mempool' = <<>> /\ round' = NoRound
        /\ recorded' = IF LedgerSurvives THEN recorded ELSE <<>>
        /\ ledger' = IF LedgerSurvives THEN ledger ELSE <<>>
    BY <1>6 DEF NodeCrash, Crash
  <2>2. Recorded'
    <3>1. CASE LedgerSurvives
      <4>1. recorded' = recorded /\ ledger' = ledger /\ Recorded
        BY <2>1, <3>1 DEF OnceInv
      <4>2. boot' = Len(recorded') /\ boot' \in Nat
        BY <2>1, <4>1 DEF Recorded
      <4>. QED
        BY <4>1, <4>2 DEF Recorded
    <3>2. CASE ~LedgerSurvives
      <4>1. recorded' = <<>> /\ ledger' = <<>>
        BY <2>1, <3>2
      <4>2. Len(<<>>) = 0 /\ <<>> \in Seq(Seq(Hashed))
        OBVIOUS
      <4>3. Len(recorded') = 0 /\ Len(ledger') = 0 /\ recorded' \in Seq(Seq(Hashed)) /\ boot' = 0
        BY <2>1, <4>1, <4>2
      <4>. QED
        BY <4>3 DEF Recorded
    <3>. QED
      BY <3>1, <3>2
  <2>3. Numbered'
    <3>1. OneEach(mempool') /\ ToSet(mempool') = {}
      BY <2>1 DEF OneEach, Distinct, ToSet
    <3>2. ~ \E b \in 1..Len(recorded') : boot' < b
      BY <2>1, <2>2 DEF Recorded
    <3>. QED
      BY <2>1, <3>1, <3>2 DEF Numbered
  <2>. QED
    BY <1>0, <2>1, <2>2, <2>3 DEF OnceInv
<1>7. CASE UNCHANGED nodeVars
  BY <1>2, <1>7 DEF nodeVars, vars, pipeline
<1>. QED
  BY <1>1, <1>3, <1>4, <1>5, <1>6, <1>7 DEF NodeNext

LEMMA OnceInit == NodeInit => OnceInv
<1> SUFFICES ASSUME NodeInit PROVE OnceInv
  OBVIOUS
<1>1. /\ recorded = <<>> /\ ledger = <<>> /\ boot = 0 /\ mempool = <<>> /\ round = NoRound
      /\ accepted = {}
  BY DEF NodeInit, Init
<1>2. Len(<<>>) = 0 /\ <<>> \in Seq(Seq(Hashed))
  OBVIOUS
<1>3. Recorded
  BY <1>1, <1>2 DEF Recorded
<1>4. OneEach(mempool) /\ ToSet(mempool) = {}
  BY <1>1 DEF OneEach, Distinct, ToSet
<1>5. Numbered
  BY <1>1, <1>2, <1>4 DEF Numbered
<1>. QED
  BY <1>1, <1>3, <1>5, SourceInit DEF OnceInv

LEMMA OnceIsOnce ==
  ASSUME NEW e, OnceIn(e)
  PROVE  Once(e)
<1>1. CASE Pending(e) /\ Places(e, boot) = {}
  <2>1. Cardinality(Places(e, boot)) = 0
    BY <1>1, FS_EmptySet
  <2>. QED
    BY <1>1, <2>1 DEF Once, Pending
<1>2. CASE ~Pending(e) /\ \E p : Places(e, boot) = {p}
  <2>1. PICK p : Places(e, boot) = {p}
    BY <1>2
  <2>2. Cardinality({p}) = 1
    BY FS_Singleton
  <2>3. Cardinality(Places(e, boot)) = 1
    BY <2>1, <2>2
  <2>. QED
    BY <1>2, <2>3 DEF Once, Pending
<1>. QED
  BY <1>1, <1>2 DEF OnceIn

\* What a process accepted, and shares its hash with nothing else it accepted, is pending
\* or on the chain, once, as long as the process lives: a block takes out of the mempool
\* what it holds and nothing else, and a failed round records nothing (pop.py:180,
\* 337-338; converter.py:166-177; transaction.py:130-138).
THEOREM AcceptedIsOnce == NodeSpec => []AcceptedOnce
<1>1. OnceInv => AcceptedOnce
  BY OnceIsOnce DEF OnceInv, AcceptedOnce
<1>. QED
  BY <1>1, OnceInit, OnceStep, PTL DEF NodeSpec

\* The texts of an account are its own: no other account's name and number read the same.
OwnTexts(a) ==
  \A c \in Accounts \ {a} : \A m \in 1..MaxSequence[a], n \in 1..MaxSequence[c] :
    Text[a][m] # Text[c][n]

LEMMA OwnIsUnshared ==
  ASSUME OnceInv, NEW e \in accepted, OwnTexts(e.account)
  PROVE  Unshared(e)
<1> SUFFICES ASSUME NEW f \in accepted, HashOf(f) = HashOf(e) PROVE f = e
  BY DEF Unshared
<1>1. ASSUME NEW g \in accepted
      PROVE  /\ g \in [tx : Pool, account : Accounts, sequence : Nat \ {0}]
             /\ g.account \in Accounts /\ g.sequence \in 1..MaxSequence[g.account]
  <2>1. g \in Hashed
    BY DEF OnceInv, Numbered
  <2>2. /\ g \in [tx : Pool, account : Accounts, sequence : Nat \ {0}]
        /\ g.sequence <= MaxSequence[g.account] /\ g.account \in Accounts
    BY <2>1 DEF Hashed
  <2>. QED
    BY <2>2, SubmissionAssumption
<1>2. f.tx = e.tx /\ Text[f.account][f.sequence] = Text[e.account][e.sequence]
  BY DEF HashOf
<1>3. f.account = e.account
  BY <1>1, <1>2 DEF OwnTexts
<1>4. f.sequence = e.sequence
  BY <1>1, <1>2, <1>3, SubmissionAssumption DEF IsInjective
<1>. QED
  BY <1>1, <1>2, <1>3, <1>4

\* An account whose texts are its own loses nothing and repeats nothing: one counter per
\* account gives each of its submissions a number, and a hash, of its own
\* (converter.py:166-177).  Where a delimiter kept the texts of any two accounts apart,
\* this would be every account.
THEOREM OwnAccountIsOnce ==
  ASSUME NEW a \in Accounts, OwnTexts(a)
  PROVE  NodeSpec => [](\A e \in accepted : e.account = a => Once(e))
<1>1. OnceInv => \A e \in accepted : e.account = a => Once(e)
  BY OwnIsUnshared, OnceIsOnce DEF OnceInv
<1>. QED
  BY <1>1, OnceInit, OnceStep, PTL DEF NodeSpec

-----------------------------------------------------------------------------
(* The answers of getTransaction.                                          *)

\* A hash the process gave out is pending or recorded, whoever else has it
\* (transaction.py:130-138, handlers.py:274-299).
THEOREM AcceptedStaysKnown == NodeSpec => []AcceptedIsKnown
<1>1. ASSUME OnceInv, NEW e \in accepted PROVE Status(e) # "not found"
  <2>1. Known(e)
    BY <1>1 DEF OnceInv
  <2>2. Places(e, boot) \subseteq Places(e, 0)
    <3>1. Recorded /\ boot \in Nat
      BY <1>1 DEF OnceInv, Recorded
    <3>. QED
      BY <3>1, PlacesType
  <2>. QED
    BY <2>1, <2>2 DEF Known, Pending, Status
<1>2. OnceInv => AcceptedIsKnown
  BY <1>1 DEF AcceptedIsKnown
<1>. QED
  BY <1>2, OnceInit, OnceStep, PTL DEF NodeSpec

LEMMA PlacesKept ==
  ASSUME Recorded, NEW r \in Seq(Hashed), recorded' = Append(recorded, r), NEW e
  PROVE  Places(e, 0) \subseteq Places(e, 0)'
<1>1. ASSUME NEW X, NEW ss \in Seq(X), NEW s \in X
      PROVE  /\ Len(Append(ss, s)) = Len(ss) + 1 /\ Len(ss) \in Nat
             /\ \A b \in 1..Len(ss) : Append(ss, s)[b] = ss[b]
  OBVIOUS
<1>2. /\ Len(recorded') = Len(recorded) + 1 /\ Len(recorded) \in Nat
      /\ \A b \in 1..Len(recorded) : recorded'[b] = recorded[b]
  BY <1>1 DEF Recorded
<1>. QED
  BY <1>2 DEF Places

LEMMA AnswerKept ==
  ASSUME OnceInv, [NodeNext]_nodeVars, crashes' = crashes,
         NEW e \in accepted, Status(e) = "committed", Unshared(e)'
  PROVE  Status(e)' = "committed"
<1>1. HashOf(e) \notin Hashes(mempool) /\ Places(e, 0) # {}
  BY DEF Status
<1>2. ASSUME UNCHANGED <<mempool, recorded>> PROVE Status(e)' = "committed"
  BY <1>1, <1>2 DEF Status, Places
<1>3. ASSUME NEW a \in Accounts, NEW tx \in Pool,
             SqlSubmit(a, tx) \/ CreateTable(a, tx) \/ SqlSubmitBatch(a, tx)
      PROVE  Status(e)' = "committed"
  <2>1. Submitted(tx) /\ Queue(a, tx)
    BY <1>3, AcceptedIsSubmitted DEF OnceInv
  <2> DEFINE f == Entry(a, tx)
  <2>2. /\ f \in Hashed /\ mempool' = Added(f) /\ f.account = a /\ f.sequence = sequence[a] + 1
        /\ accepted' = accepted \cup {f}
    BY <2>1, QueueKeeps DEF OnceInv, Entry
  <2>. HIDE DEF f
  <2>3. e.sequence <= sequence[e.account] /\ sequence[a] \in Nat /\ mempool \in Seq(Hashed)
    BY DEF OnceInv, Numbered, SourceInv, Entries
  <2>4. HashOf(e) # HashOf(f)
    <3>1. e # f
      BY <2>2, <2>3
    <3>. QED
      BY <2>2, <3>1 DEF Unshared
  <2>5. Hashes(mempool') = Hashes(mempool) \cup {HashOf(f)}
    BY <2>2, <2>3, AddedIs
  <2>6. UNCHANGED recorded
    BY <2>1 DEF Queue
  <2>. QED
    BY <1>1, <2>4, <2>5, <2>6 DEF Status, Places
<1>4. CASE Commit
  <2>1. /\ recorded' = Append(recorded, round) /\ round \in Seq(Hashed)
        /\ mempool' = Selection(mempool, {g \in ToSet(mempool) : HashOf(g) \notin Hashes(round)})
        /\ mempool \in Seq(Hashed)
    BY <1>4 DEF Commit, Remaining, OnceInv, SourceInv, Entries
  <2>2. ToSet(mempool') \subseteq ToSet(mempool)
    BY <2>1, SelectionOf
  <2>3. Hashes(mempool') \subseteq Hashes(mempool)
    BY <2>2 DEF Hashes
  <2>4. Places(e, 0) \subseteq Places(e, 0)'
    BY <2>1, PlacesKept DEF OnceInv
  <2>. QED
    BY <1>1, <2>3, <2>4 DEF Status
<1>5. CASE Propose \/ RoundFails \/ Replay \/ UNCHANGED nodeVars
  BY <1>2, <1>5 DEF Propose, RoundFails, Replay, pipeline, nodeVars
<1>6. CASE NodeCrash
  <2>1. crashes' = crashes + 1 /\ crashes \in Nat
    BY <1>6, TableSyncAssumption DEF NodeCrash, Crash, OnceInv, SourceInv, TypedInv, TypeOK
  <2>. QED
    BY <2>1
<1>. QED
  BY <1>3, <1>4, <1>5, <1>6 DEF NodeNext

\* A client that was told "committed" about what it submitted is told so by this process
\* from then on, unless another acceptance has the same hash (handlers.py:260-299).
THEOREM AnswersAreFinal == NodeSpec => CommittedStaysCommitted
<1>1. OnceInv /\ [NodeNext]_nodeVars =>
        [crashes' = crashes =>
           \A e \in accepted :
             Status(e) = "committed" /\ Unshared(e)' => Status(e)' = "committed"]_nodeVars
  BY AnswerKept
<1>2. NodeSpec => []OnceInv
  BY OnceInit, OnceStep, PTL DEF NodeSpec
<1>. QED
  BY <1>1, <1>2, PTL DEF NodeSpec, CommittedStaysCommitted

-----------------------------------------------------------------------------
(* What holds of TableSync holds of the node.                              *)

\* The checkpoint that the pipeline's blocks lead to is honest and does not go back.
THEOREM NodeCheckpointIsHonest ==
  ASSUME OneAtATime
  PROVE  NodeSpec => []NothingSkipped
<1>. QED
  BY SubmissionImplementsTableSync, CheckpointIsHonest DEF ImplementsTableSync

THEOREM NodeProgressIsMonotonic == NodeSpec => ProgressNeverGoesBack
<1>. QED
  BY SubmissionImplementsTableSync, ProgressIsMonotonic DEF ImplementsTableSync
==============================================================================
