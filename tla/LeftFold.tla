------------------------------ MODULE LeftFold ------------------------------
(***************************************************************************)
(* FoldLeft, one element at a time.  Every loop of protocol.go over the    *)
(* lines or the bytes of a response, and every loop of auth.go and         *)
(* config.go that gathers entries, is a FoldLeft in the models; this       *)
(* module proves, for any operator Op, how such a fold goes on, and is     *)
(* instantiated with the body of each loop.  p is a parameter of the body. *)
(*                                                                         *)
(* Induction comes from the finite sets: a set of naturals has a least     *)
(* member because strict inclusion is well-founded on the subsets of 0..n. *)
(***************************************************************************)
EXTENDS SequencesExt, FiniteSetTheorems, TLAPS

CONSTANT Op(_, _, _)

Fold(p, base, s) == FoldLeft(LAMBDA v, e : Op(p, v, e), base, s)

-----------------------------------------------------------------------------
\* Every set of naturals that is not empty has a least element.
LEMMA Least ==
  ASSUME NEW T \in SUBSET Nat, T # {}
  PROVE  \E x \in T : \A y \in T : x <= y
<1>1. PICK n \in T : TRUE OBVIOUS
<1> DEFINE R == StrictSubsetOrdering(0..n)
           U == {0..m : m \in {k \in T : k <= n}}
<1>2. IsFiniteSet(0..n) BY FS_Interval
<1>3. IsWellFoundedOn(R, SUBSET (0..n))
  BY <1>2, FS_StrictSubsetOrderingWellFounded, FS_FiniteSubsetsOfFinite
<1>4. U \subseteq SUBSET (0..n) /\ U # {} OBVIOUS
<1> HIDE DEF R
<1>5. PICK u \in U : \A v \in U : << v, u >> \notin R
  BY <1>3, <1>4, WFMin
<1>6. PICK m \in T : m <= n /\ u = 0..m OBVIOUS
<1>7. ASSUME NEW y \in T, y < m PROVE FALSE
  <2>1. 0..y \in U BY <1>6, <1>7
  <2>2. << 0..y, 0..m >> \in R
    <3>1. 0..y \in SUBSET (0..n) /\ 0..m \in SUBSET (0..n) BY <1>6, <1>7
    <3>2. 0..y \subseteq 0..m /\ m \in 0..m /\ m \notin 0..y BY <1>7
    <3>3. 0..y # 0..m BY <3>2
    <3> QED BY <3>1, <3>2, <3>3 DEF R, StrictSubsetOrdering
  <2> QED BY <1>5, <1>6, <2>1, <2>2
<1> QED BY <1>6, <1>7

\* Induction over the naturals, for the members of a set.
LEMMA SetInduction ==
  ASSUME NEW S, 0 \in S, \A n \in Nat : n \in S => n + 1 \in S
  PROVE  \A n \in Nat : n \in S
<1> SUFFICES ASSUME {n \in Nat : n \notin S} # {} PROVE FALSE OBVIOUS
<1> DEFINE T == {n \in Nat : n \notin S}
<1>1. PICK x \in T : \A y \in T : x <= y BY Least
<1>2. x \in Nat /\ x # 0 BY <1>1
<1>3. x - 1 \in Nat /\ x - 1 \notin T BY <1>1, <1>2
<1>4. (x - 1) + 1 \in S BY <1>3
<1> QED BY <1>1, <1>2, <1>4

LEMMA MaxIsMember ==
  ASSUME NEW n \in Nat, NEW T \in SUBSET (1..n), T # {}
  PROVE  Max(T) \in T
<1> DEFINE D == {n - x : x \in T}
<1>0. \A x \in T : x \in Int /\ n - x \in Nat OBVIOUS
<1>1. D \in SUBSET Nat /\ D # {} BY <1>0
<1>2. PICK d \in D : \A y \in D : d <= y BY <1>1, Least
<1>3. PICK x \in T : d = n - x OBVIOUS
<1>4. ASSUME NEW y \in T PROVE x >= y
  <2>1. d <= n - y BY <1>2
  <2> QED BY <1>3, <2>1
<1>5. \E z \in T : \A y \in T : z >= y BY <1>4
<1> QED BY <1>5 DEF Max

LEMMA MaxOfInterval ==
  ASSUME NEW n \in Nat \ {0}
  PROVE  Max(1..n) = n
<1>1. n \in 1..n /\ \A y \in 1..n : n >= y OBVIOUS
<1>2. Max(1..n) \in 1..n /\ \A y \in 1..n : Max(1..n) >= y BY <1>1 DEF Max
<1> QED BY <1>1, <1>2

-----------------------------------------------------------------------------
\* What FoldLeft recurs on: a function over the sets of positions.
Unfolds(g, D, p, base, s) ==
  \A U \in D : g[U] = IF U = {} THEN base ELSE Op(p, g[U \ {Max(U)}], s[Max(U)])

IsIter(g, n, p, base, s) ==
  g = [U \in SUBSET (1..n) |-> IF U = {} THEN base ELSE Op(p, g[U \ {Max(U)}], s[Max(U)])]

Iter(n, p, base, s) == CHOOSE g : IsIter(g, n, p, base, s)

LEMMA FoldIsIter ==
  ASSUME NEW p, NEW base, NEW s, NEW n \in Nat, DOMAIN s = 1..n
  PROVE  Fold(p, base, s) = Iter(n, p, base, s)[1..n]
BY DEF Fold, FoldLeft, MapThenFoldSet, Iter, IsIter

LEMMA IterExists ==
  ASSUME NEW p, NEW base, NEW s, NEW n \in Nat
  PROVE  \E g : IsIter(g, n, p, base, s)
<1> DEFINE Small(k) == {U \in SUBSET (1..n) : Cardinality(U) <= k}
           Eq(g, k) == g = [U \in Small(k) |->
                              IF U = {} THEN base ELSE Op(p, g[U \ {Max(U)}], s[Max(U)])]
           K == {k \in Nat : \E g : Eq(g, k)}
<1>0. IsFiniteSet(1..n) /\ Cardinality(1..n) = n BY FS_Interval
<1>1. \A U \in SUBSET (1..n) : IsFiniteSet(U) /\ Cardinality(U) \in Nat /\ Cardinality(U) <= n
  BY <1>0, FS_Subset, FS_CardinalityType
<1>2. 0 \in K
  <2>1. \A U \in Small(0) : U = {} BY <1>1, FS_EmptySet
  <2>2. Eq([U \in Small(0) |-> base], 0) BY <2>1
  <2> QED BY <2>2
<1>3. ASSUME NEW k \in Nat, k \in K PROVE k + 1 \in K
  <2>1. PICK g : Eq(g, k) BY <1>3
  <2> DEFINE h == [U \in Small(k + 1) |->
                     IF U = {} THEN base ELSE Op(p, g[U \ {Max(U)}], s[Max(U)])]
  <2>2. ASSUME NEW U \in Small(k + 1), U # {}
        PROVE  U \ {Max(U)} \in Small(k) /\ U \ {Max(U)} \in Small(k + 1)
    <3>1. Max(U) \in U BY <2>2, MaxIsMember
    <3>2. Cardinality(U \ {Max(U)}) = Cardinality(U) - 1 BY <1>1, <3>1, FS_RemoveElement
    <3>3. U \in SUBSET (1..n) /\ Cardinality(U) \in Nat /\ Cardinality(U) <= k + 1
      BY <1>1, <2>2
    <3>4. Cardinality(U) - 1 <= k /\ Cardinality(U) - 1 <= k + 1 BY <3>3
    <3>5. U \ {Max(U)} \in SUBSET (1..n) BY <3>3
    <3> HIDE DEF Max
    <3> QED BY <3>2, <3>4, <3>5
  <2>3. ASSUME NEW U \in Small(k) PROVE U \in Small(k + 1) /\ h[U] = g[U]
    <3>1. U \in Small(k + 1) BY <1>1, <2>3
    <3>2. h[U] = IF U = {} THEN base ELSE Op(p, g[U \ {Max(U)}], s[Max(U)]) BY <3>1
    <3>3. g[U] = IF U = {} THEN base ELSE Op(p, g[U \ {Max(U)}], s[Max(U)]) BY <2>1, <2>3
    <3> QED BY <3>1, <3>2, <3>3
  <2>4. ASSUME NEW U \in Small(k + 1), U # {} PROVE h[U \ {Max(U)}] = g[U \ {Max(U)}]
    BY <2>2, <2>3, <2>4
  <2> HIDE DEF Small
  <2>5. h = [U \in Small(k + 1) |->
               IF U = {} THEN base ELSE Op(p, h[U \ {Max(U)}], s[Max(U)])]
    BY <2>4
  <2> HIDE DEF h
  <2>6. Eq(h, k + 1) BY <2>5
  <2> QED BY <2>6
<1> HIDE DEF K
<1>4. n \in K BY <1>2, <1>3, SetInduction
<1>5. PICK g : Eq(g, n) BY <1>4 DEF K
<1>6. Small(n) = SUBSET (1..n) BY <1>1
<1> QED BY <1>5, <1>6 DEF IsIter

LEMMA IterUnfolds ==
  ASSUME NEW p, NEW base, NEW s, NEW n \in Nat
  PROVE  Unfolds(Iter(n, p, base, s), SUBSET (1..n), p, base, s)
<1> DEFINE g == Iter(n, p, base, s)
<1>1. IsIter(g, n, p, base, s) BY IterExists DEF Iter
<1> HIDE DEF g
<1>2. g = [U \in SUBSET (1..n) |->
             IF U = {} THEN base ELSE Op(p, g[U \ {Max(U)}], s[Max(U)])]
  BY <1>1 DEF IsIter
<1>3. Unfolds(g, SUBSET (1..n), p, base, s) BY <1>2 DEF Unfolds
<1> QED BY <1>3 DEF g

\* The prefix of a sequence, folded.
LEMMA IterOfPrefix ==
  ASSUME NEW p, NEW base, NEW s, NEW n \in Nat
  PROVE  /\ Iter(n, p, base, s)[1..0] = base
         /\ \A k \in 1..n : Iter(n, p, base, s)[1..k] = Op(p, Iter(n, p, base, s)[1..(k-1)], s[k])
<1> DEFINE I == Iter(n, p, base, s)
<1>1. Unfolds(I, SUBSET (1..n), p, base, s) BY IterUnfolds
<1> HIDE DEF I
<1>2. 1..0 = {} /\ {} \in SUBSET (1..n) OBVIOUS
<1>3. ASSUME NEW k \in 1..n PROVE I[1..k] = Op(p, I[1..(k-1)], s[k])
  <2>1. 1..k \in SUBSET (1..n) /\ 1..k # {} OBVIOUS
  <2>2. Max(1..k) = k BY MaxOfInterval
  <2>3. (1..k) \ {k} = 1..(k-1) OBVIOUS
  <2>4. I[1..k] = Op(p, I[(1..k) \ {Max(1..k)}], s[Max(1..k)]) BY <1>1, <2>1 DEF Unfolds
  <2> QED BY <2>2, <2>3, <2>4
<1>4. I[1..0] = base BY <1>1, <1>2 DEF Unfolds
<1> QED BY <1>3, <1>4 DEF I

-----------------------------------------------------------------------------
\* The intermediate results r of folding the n elements of s.
IsTrace(r, p, base, s, n) ==
  /\ r[0] = base
  /\ \A k \in 1..n : r[k] = Op(p, r[k-1], s[k])

\* A fold has intermediate results, of which it is the last.
LEMMA FoldTrace ==
  ASSUME NEW p, NEW base, NEW s, NEW n \in Nat, DOMAIN s = 1..n
  PROVE  \E r : IsTrace(r, p, base, s, n) /\ Fold(p, base, s) = r[n]
<1> DEFINE r == [k \in 0..n |-> Iter(n, p, base, s)[1..k]]
<1>1. /\ Iter(n, p, base, s)[1..0] = base
      /\ \A k \in 1..n : Iter(n, p, base, s)[1..k] = Op(p, Iter(n, p, base, s)[1..(k-1)], s[k])
  BY IterOfPrefix
<1>2. r[0] = base BY <1>1
<1>3. ASSUME NEW k \in 1..n PROVE r[k] = Op(p, r[k-1], s[k])
  <2>1. k \in 0..n /\ k - 1 \in 0..n OBVIOUS
  <2> QED BY <1>1, <2>1
<1>4. r[n] = Fold(p, base, s) BY FoldIsIter
<1> HIDE DEF r
<1> QED BY <1>2, <1>3, <1>4 DEF IsTrace

\* There is only one way to fold.
LEMMA TraceUnique ==
  ASSUME NEW p, NEW base, NEW s, NEW t, NEW n \in Nat, \A k \in 1..n : s[k] = t[k],
         NEW q, IsTrace(q, p, base, s, n), NEW r, IsTrace(r, p, base, t, n)
  PROVE  \A k \in 0..n : q[k] = r[k]
<1> DEFINE S == {k \in Nat : k <= n => q[k] = r[k]}
<1>1. 0 \in S BY DEF IsTrace
<1>2. ASSUME NEW k \in Nat, k \in S PROVE k + 1 \in S
  <2>1. CASE k + 1 <= n
    <3>1. k + 1 \in 1..n /\ (k + 1) - 1 = k BY <2>1
    <3>2. q[k+1] = Op(p, q[k], s[k+1]) /\ r[k+1] = Op(p, r[k], t[k+1]) BY <3>1 DEF IsTrace
    <3>3. q[k] = r[k] BY <1>2, <2>1
    <3>4. q[k+1] = r[k+1] BY <3>1, <3>2, <3>3
    <3> QED BY <3>4
  <2> QED BY <2>1
<1>3. \A k \in Nat : k \in S BY <1>1, <1>2, SetInduction
<1> QED BY <1>3

\* A loop over the n elements of s ends with the last of its intermediate results,
\* whichever way these are given.
THEOREM FoldIs ==
  ASSUME NEW p, NEW base, NEW s, NEW n \in Nat, DOMAIN s = 1..n,
         NEW r, IsTrace(r, p, base, s, n)
  PROVE  Fold(p, base, s) = r[n]
<1>1. PICK q : IsTrace(q, p, base, s, n) /\ Fold(p, base, s) = q[n] BY FoldTrace
<1> QED BY <1>1, TraceUnique

\* A loop over no elements leaves the state it starts from: a chunk without a
\* newline gives the readers of protocol.go no line to process.
THEOREM FoldEmpty ==
  ASSUME NEW p, NEW base, NEW s, DOMAIN s = {}
  PROVE  Fold(p, base, s) = base
<1>1. DOMAIN s = 1..0 OBVIOUS
<1>2. PICK r : IsTrace(r, p, base, s, 0) /\ Fold(p, base, s) = r[0] BY <1>1, FoldTrace
<1> QED BY <1>2 DEF IsTrace

\* A loop over two sequences, one after the other, is a loop over the first and then
\* one over the second from where that ended: what a reader of protocol.go makes of
\* two batches of lines is what it makes of them in one.
LEMMA FoldConcat ==
  ASSUME NEW p, NEW base, NEW S, NEW s \in Seq(S), NEW t \in Seq(S)
  PROVE  Fold(p, base, s \o t) = Fold(p, Fold(p, base, s), t)
<1> DEFINE m == Len(s)
           n == Len(t)
           u == s \o t
<1>1. m \in Nat /\ n \in Nat /\ DOMAIN s = 1..m /\ DOMAIN t = 1..n /\ DOMAIN u = 1..(m+n)
  OBVIOUS
<1>2. \A k \in 1..m : u[k] = s[k] OBVIOUS
<1>3. \A k \in 1..n : u[m+k] = t[k] OBVIOUS
<1> HIDE DEF m, n, u
<1>4. PICK r : IsTrace(r, p, base, u, m + n) /\ Fold(p, base, u) = r[m+n] BY <1>1, FoldTrace
<1>5. IsTrace(r, p, base, s, m)
  <2>1. \A k \in 1..m : k \in 1..(m+n) BY <1>1
  <2> QED BY <1>2, <1>4, <2>1 DEF IsTrace
<1>6. Fold(p, base, s) = r[m] BY <1>1, <1>5, FoldIs
<1> DEFINE q == [k \in 0..n |-> r[m+k]]
<1>7. q[0] = r[m] /\ q[n] = r[m+n] BY <1>1
<1>8. ASSUME NEW k \in 1..n PROVE q[k] = Op(p, q[k-1], t[k])
  <2>1. k - 1 \in 0..n /\ k \in 0..n /\ m + k \in 1..(m+n) /\ (m + k) - 1 = m + (k - 1)
    BY <1>1
  <2>2. r[m+k] = Op(p, r[m+(k-1)], u[m+k]) BY <1>4, <2>1 DEF IsTrace
  <2>3. q[k] = r[m+k] /\ q[k-1] = r[m+(k-1)] BY <2>1
  <2> QED BY <1>3, <2>2, <2>3
<1> HIDE DEF q
<1>9. IsTrace(q, p, r[m], t, n) BY <1>7, <1>8 DEF IsTrace
<1>10. Fold(p, r[m], t) = q[n] BY <1>1, <1>9, FoldIs
<1>11. Fold(p, base, u) = Fold(p, Fold(p, base, s), t) BY <1>4, <1>6, <1>7, <1>10
<1> QED BY <1>11 DEF u

\* One element more is one more round of the loop: parseLine or feed for the next line.
THEOREM FoldAppend ==
  ASSUME NEW p, NEW base, NEW S, NEW s \in Seq(S), NEW e \in S
  PROVE  Fold(p, base, Append(s, e)) = Op(p, Fold(p, base, s), e)
<1> DEFINE m == Len(s)
           u == Append(s, e)
<1>1. m \in Nat /\ DOMAIN s = 1..m /\ DOMAIN u = 1..(m+1) OBVIOUS
<1>2. (\A k \in 1..m : u[k] = s[k]) /\ u[m+1] = e OBVIOUS
<1> HIDE DEF m, u
<1>4. PICK r : IsTrace(r, p, base, u, m + 1) /\ Fold(p, base, u) = r[m+1] BY <1>1, FoldTrace
<1>5. IsTrace(r, p, base, s, m)
  <2>1. \A k \in 1..m : k \in 1..(m+1) BY <1>1
  <2> QED BY <1>2, <1>4, <2>1 DEF IsTrace
<1>6. Fold(p, base, s) = r[m] BY <1>1, <1>5, FoldIs
<1>7. m + 1 \in 1..(m+1) /\ (m + 1) - 1 = m BY <1>1
<1>8. r[m+1] = Op(p, r[m], u[m+1]) BY <1>4, <1>7 DEF IsTrace
<1> QED BY <1>2, <1>4, <1>6, <1>8 DEF u

\* A loop keeps what every round of it keeps: its invariant, as the set G of the states
\* in which it holds (the loops of auth.go and config.go that gather entries).
LEMMA FoldKeeps ==
  ASSUME NEW p, NEW base, NEW s, NEW n \in Nat, DOMAIN s = 1..n,
         NEW G, base \in G, \A v \in G : \A i \in 1..n : Op(p, v, s[i]) \in G
  PROVE  Fold(p, base, s) \in G
<1>1. PICK r : IsTrace(r, p, base, s, n) /\ Fold(p, base, s) = r[n] BY FoldTrace
<1> DEFINE S == {k \in Nat : k <= n => r[k] \in G}
<1>2. 0 \in S BY <1>1 DEF IsTrace
<1>3. ASSUME NEW k \in Nat, k \in S PROVE k + 1 \in S
  <2>1. CASE k + 1 <= n
    <3>1. k + 1 \in 1..n /\ (k + 1) - 1 = k BY <2>1
    <3>2. r[k+1] = Op(p, r[k], s[k+1]) BY <1>1, <3>1 DEF IsTrace
    <3>3. r[k] \in G BY <1>3, <2>1
    <3>4. r[k+1] \in G BY <3>1, <3>2, <3>3
    <3> QED BY <3>4
  <2> QED BY <2>1
<1>4. \A k \in Nat : k \in S BY <1>2, <1>3, SetInduction
<1> QED BY <1>1, <1>4

\* What one element brings about and every round keeps holds at the end of the loop: an
\* entry that is gathered stays.
THEOREM FoldReaches ==
  ASSUME NEW p, NEW base, NEW s, NEW n \in Nat, DOMAIN s = 1..n,
         NEW H, base \in H, \A v \in H : \A i \in 1..n : Op(p, v, s[i]) \in H,
         NEW G, G \subseteq H, \A v \in G : \A i \in 1..n : Op(p, v, s[i]) \in G,
         NEW j \in 1..n, \A v \in H : Op(p, v, s[j]) \in G
  PROVE  Fold(p, base, s) \in G
<1>1. PICK r : IsTrace(r, p, base, s, n) /\ Fold(p, base, s) = r[n] BY FoldTrace
<1> DEFINE S == {k \in Nat : k <= n => r[k] \in H /\ (j <= k => r[k] \in G)}
<1>2. 0 \in S BY <1>1 DEF IsTrace
<1>3. ASSUME NEW k \in Nat, k \in S PROVE k + 1 \in S
  <2>1. CASE k + 1 <= n
    <3>1. k + 1 \in 1..n /\ (k + 1) - 1 = k BY <2>1
    <3>2. r[k+1] = Op(p, r[k], s[k+1]) BY <1>1, <3>1 DEF IsTrace
    <3>3. r[k] \in H /\ (j <= k => r[k] \in G) BY <1>3, <2>1
    <3>4. r[k+1] \in H BY <3>1, <3>2, <3>3
    <3>5. ASSUME j <= k + 1 PROVE r[k+1] \in G
      <4>1. CASE j <= k BY <3>1, <3>2, <3>3, <4>1
      <4>2. CASE j = k + 1 BY <3>2, <3>3, <4>2
      <4> QED BY <3>5, <4>1, <4>2
    <3> QED BY <3>4, <3>5
  <2> QED BY <2>1
<1>4. \A k \in Nat : k \in S BY <1>2, <1>3, SetInduction
<1> QED BY <1>1, <1>4

=============================================================================
