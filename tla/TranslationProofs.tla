------------------------- MODULE TranslationProofs --------------------------
(***************************************************************************)
(* Lemmas about what a request tells the upstream, whatever the format of  *)
(* the client: the converters of anthropic.go and responses.go and         *)
(* buildCcRequest of request.go, as HistoryProofs needs them.              *)
(*                                                                         *)
(* 1. Lists: IsList is the type of a finite sequence of anything; folds,   *)
(*    flattening, and what passes a test keep it and its order.            *)
(* 2. Says(messages, things, told): a chat request's messages tell the     *)
(*    upstream these things and its system texts those.  Built: that is    *)
(*    what buildCcRequest makes of them.  Messages that follow one another *)
(*    say what each of them says.                                          *)
(* 3. AreTurns(f, turns): a conversation that a client of format f may     *)
(*    have had.  For each format, by induction over the turns, the chat    *)
(*    request its converter makes says what the turns are: OpenAIArrives,  *)
(*    ClaudeArrives (whose client merges turns of a side, so one message   *)
(*    becomes several) and ResponsesArrives (whose converter holds back an *)
(*    assistant message until what belongs to it has come).                *)
(* 4. The parameters: Carries.  Both together: Arrives.                    *)
(* 5. What a client adds to a conversation that awaits an answer makes one *)
(*    that awaits the next: TurnsJoin, ReactionIs.                         *)
(* 6. Where an element of joined lists comes from, and the names that a    *)
(*    request has for its results: NamesOK.                                *)
(***************************************************************************)
EXTENDS Conversation, FiniteSetTheorems, SequenceTheorems, TLAPS

-----------------------------------------------------------------------------
(* Lists of lists.                                                         *)

\* A list and its elements.
LEMMA ListElements ==
  ASSUME NEW s, IsList(s)
  PROVE  /\ Len(s) \in Nat /\ DOMAIN s = 1..Len(s)
         /\ \A i \in DOMAIN s : s[i] \in ToSet(s)
         /\ \A e \in ToSet(s) : \E i \in DOMAIN s : e = s[i]
         /\ s = [i \in DOMAIN s |-> s[i]]
         /\ s = << >> <=> Len(s) = 0
<1>1. s \in Seq(ToSet(s)) BY DEF IsList
<1> QED BY <1>1 DEF ToSet

LEMMA ListOf ==
  ASSUME NEW S, NEW s \in Seq(S)
  PROVE  IsList(s) /\ ToSet(s) \subseteq S
<1>1. Len(s) \in Nat /\ DOMAIN s = 1..Len(s) /\ s = [i \in 1..Len(s) |-> s[i]] OBVIOUS
<1>2. \A i \in 1..Len(s) : s[i] \in ToSet(s) BY <1>1 DEF ToSet
<1>3. s \in Seq(ToSet(s)) BY <1>1, <1>2, IsASeq
<1> QED BY <1>3 DEF ToSet, IsList

LEMMA NoList == IsList(<< >>) /\ ToSet(<< >>) = {} /\ Len(<< >>) = 0 /\ DOMAIN << >> = {}
<1>1. << >> \in Seq({}) /\ Len(<< >>) = 0 /\ DOMAIN << >> = {} OBVIOUS
<1>2. ToSet(<< >>) = {} BY <1>1, Zenon DEF ToSet
<1>3. << >> \in Seq(ToSet(<< >>)) BY <1>1, <1>2
<1> QED BY <1>1, <1>2, <1>3, Zenon DEF IsList

LEMMA OneList ==
  ASSUME NEW x
  PROVE  /\ IsList(<< x >>) /\ ToSet(<< x >>) = {x} /\ Len(<< x >>) = 1
         /\ DOMAIN << x >> = 1..1 /\ << x >>[1] = x /\ << x >> # << >>
<1>1. << x >> \in Seq({x}) /\ Len(<< x >>) = 1 /\ DOMAIN << x >> = 1..1 /\ << x >>[1] = x OBVIOUS
<1>2. IsList(<< x >>) /\ ToSet(<< x >>) \subseteq {x} BY <1>1, ListOf
<1>3. x \in ToSet(<< x >>) BY <1>1 DEF ToSet
<1> QED BY <1>1, <1>2, <1>3

LEMMA Concatenated ==
  ASSUME NEW s, NEW t, IsList(s), IsList(t)
  PROVE  /\ IsList(s \o t) /\ ToSet(s \o t) = ToSet(s) \cup ToSet(t)
         /\ Len(s \o t) = Len(s) + Len(t)
         /\ \A i \in 1..Len(s) : (s \o t)[i] = s[i]
         /\ \A i \in 1..Len(t) : (s \o t)[Len(s) + i] = t[i]
<1> DEFINE S == ToSet(s) \cup ToSet(t)
<1>1. s \in Seq(ToSet(s)) /\ t \in Seq(ToSet(t)) BY DEF IsList
<1>2. s \in Seq(S) /\ t \in Seq(S) BY <1>1
<1> HIDE DEF S
<1>3. s \o t \in Seq(S) BY <1>2
<1>4. ToSet(s \o t) \subseteq S /\ IsList(s \o t) BY <1>3, ListOf
<1>5. Len(s) \in Nat /\ Len(t) \in Nat /\ DOMAIN s = 1..Len(s) /\ DOMAIN t = 1..Len(t)
      /\ Len(s \o t) = Len(s) + Len(t) /\ DOMAIN (s \o t) = 1..(Len(s) + Len(t))
  BY <1>2
<1>6. \A i \in 1..Len(s) : i \in 1..(Len(s) + Len(t)) /\ (s \o t)[i] = s[i] BY <1>2, <1>5
<1>7. \A i \in 1..Len(t) : Len(s) + i \in 1..(Len(s) + Len(t)) /\ (s \o t)[Len(s) + i] = t[i]
  BY <1>2, <1>5
<1>8. ToSet(s) \subseteq ToSet(s \o t) BY <1>5, <1>6 DEF ToSet
<1>9. ToSet(t) \subseteq ToSet(s \o t) BY <1>5, <1>7 DEF ToSet
<1> QED BY <1>4, <1>5, <1>6, <1>7, <1>8, <1>9 DEF S

LEMMA SameList ==
  ASSUME NEW s, NEW t, IsList(s), IsList(t), Len(s) = Len(t),
         \A i \in 1..Len(s) : s[i] = t[i]
  PROVE  s = t
<1>1. s \in Seq(ToSet(s)) /\ t \in Seq(ToSet(t)) BY DEF IsList
<1> QED BY <1>1

LEMMA ConcatSame ==
  ASSUME NEW s, NEW t, NEW u, IsList(s), IsList(t), IsList(u)
  PROVE  /\ (s \o t) \o u = s \o (t \o u)
         /\ << >> \o s = s /\ s \o << >> = s
<1> DEFINE S == ToSet(s) \cup ToSet(t) \cup ToSet(u)
<1>1. s \in Seq(ToSet(s)) /\ t \in Seq(ToSet(t)) /\ u \in Seq(ToSet(u)) BY DEF IsList
<1>2. s \in Seq(S) /\ t \in Seq(S) /\ u \in Seq(S) BY <1>1
<1> HIDE DEF S
<1> QED BY <1>2

Associates(s, t, u) == (s \o t) \o u = s \o (t \o u)

LEMMA ConcatAll ==
  ASSUME NEW s, NEW t, NEW u, IsList(s), IsList(t), IsList(u)
  PROVE  Associates(s, t, u)
BY ConcatSame DEF Associates

LEMMA AppendedIsConcat ==
  ASSUME NEW s, IsList(s), NEW x
  PROVE  Append(s, x) = s \o << x >>
<1> DEFINE S == ToSet(s) \cup {x}
<1>1. s \in Seq(ToSet(s)) BY DEF IsList
<1>2. s \in Seq(S) /\ x \in S BY <1>1
<1> HIDE DEF S
<1> QED BY <1>2

\* A list made of another, position by position.
LEMMA ListMade ==
  ASSUME NEW n \in Nat, NEW f, f = [i \in 1..n |-> f[i]]
  PROVE  /\ IsList(f) /\ Len(f) = n /\ DOMAIN f = 1..n
         /\ \A y \in ToSet(f) : \E i \in 1..n : y = f[i]
<1>1. DOMAIN f = 1..n OBVIOUS
<1>2. \A i \in 1..n : f[i] \in ToSet(f) BY <1>1 DEF ToSet
<1>3. f \in Seq(ToSet(f)) BY <1>1, <1>2, IsASeq
<1>4. Len(f) = n BY <1>1, <1>3
<1> QED BY <1>1, <1>3, <1>4 DEF IsList, ToSet

-----------------------------------------------------------------------------
ChainOp(p, v, e) == v \o e

Chain == INSTANCE LeftFold WITH Op <- ChainOp

Lists(ss) == IsList(ss) /\ \A x \in ToSet(ss) : IsList(x)

\* What is in any of the lists.
All(ss) == UNION {ToSet(x) : x \in ToSet(ss)}

\* r are the concatenations of the first lists of ss.
Chained(r, ss) ==
  /\ r[0] = << >> /\ FlattenSeq(ss) = r[Len(ss)]
  /\ \A k \in 1..Len(ss) : r[k] = r[k-1] \o ss[k]
  /\ \A k \in 0..Len(ss) : IsList(r[k]) /\ ToSet(r[k]) \subseteq All(ss)

LEMMA FlattenChain ==
  ASSUME NEW ss, Lists(ss)
  PROVE  /\ \E r : Chained(r, ss)
         /\ \A p : FlattenSeq(ss) = Chain!Fold(p, << >>, ss)
<1> SUFFICES ASSUME NEW p
             PROVE  (\E r : Chained(r, ss)) /\ FlattenSeq(ss) = Chain!Fold(p, << >>, ss)
  OBVIOUS
<1> DEFINE n == Len(ss)
<1>1. n \in Nat /\ DOMAIN ss = 1..n /\ (ss = << >> <=> n = 0)
      /\ \A i \in 1..n : IsList(ss[i]) /\ ToSet(ss[i]) \subseteq All(ss)
  BY ListElements DEF Lists, All
<1> HIDE DEF n
<1>2. PICK r : Chain!IsTrace(r, p, << >>, ss, n) /\ Chain!Fold(p, << >>, ss) = r[n]
  BY <1>1, Chain!FoldTrace
<1>3. r[0] = << >> /\ \A k \in 1..n : r[k] = r[k-1] \o ss[k]
  BY <1>2 DEF Chain!IsTrace, ChainOp
<1>4. \A k \in 0..n : IsList(r[k]) /\ ToSet(r[k]) \subseteq All(ss)
  <2> DEFINE K == {k \in Nat : k <= n => IsList(r[k]) /\ ToSet(r[k]) \subseteq All(ss)}
  <2>1. 0 \in K
    <3>1. ToSet(r[0]) = {} /\ IsList(r[0]) BY <1>3, NoList
    <3> QED BY <3>1
  <2>2. ASSUME NEW k \in Nat, k \in K PROVE k + 1 \in K
    <3> SUFFICES ASSUME k + 1 <= n
                 PROVE  IsList(r[k + 1]) /\ ToSet(r[k + 1]) \subseteq All(ss)
      OBVIOUS
    <3>1. /\ IsList(r[k]) /\ ToSet(r[k]) \subseteq All(ss)
          /\ k + 1 \in 1..n /\ (k + 1) - 1 = k
      BY <1>1, <2>2
    <3>2. r[k + 1] = r[k] \o ss[k + 1] BY <1>3, <3>1
    <3>3. IsList(ss[k + 1]) /\ ToSet(ss[k + 1]) \subseteq All(ss) BY <1>1, <3>1
    <3>4. IsList(r[k + 1]) /\ ToSet(r[k + 1]) = ToSet(r[k]) \cup ToSet(ss[k + 1])
      BY <3>1, <3>2, <3>3, Concatenated
    <3> QED BY <3>1, <3>3, <3>4
  <2> HIDE DEF K
  <2>3. \A k \in Nat : k \in K BY <2>1, <2>2, Chain!SetInduction
  <2> QED BY <1>1, <2>3 DEF K
<1>5. FlattenSeq(ss) = r[n]
  <2>1. CASE n = 0
    <3>1. ss = << >> /\ Len(ss) = 0 BY <1>1, <2>1, NoList
    <3> QED BY <1>3, <2>1, <3>1 DEF FlattenSeq
  <2>2. CASE n # 0
    <3> DEFINE Eq(g) == g = [i \in 1..n |-> IF i = 1 THEN ss[i] ELSE g[i-1] \o ss[i]]
               f == CHOOSE g : Eq(g)
               h == [i \in 1..n |-> r[i]]
    <3>1. n \in 1..n /\ 1 \in 1..n BY <1>1, <2>2
    <3>2. r[1] = ss[1]
      <4>1. r[1] = << >> \o ss[1]
        <5>1. r[1] = r[1-1] \o ss[1] BY <1>3, <3>1
        <5>2. 1 - 1 = 0 OBVIOUS
        <5>3. r[0] = << >> BY <1>3
        <5> HIDE DEF f, h
        <5> QED BY <5>1, <5>2, <5>3
      <4> QED BY <1>1, <3>1, <4>1, ConcatSame
    <3>3. \A i \in 1..n : r[i] = IF i = 1 THEN ss[i] ELSE h[i-1] \o ss[i]
      <4>1. \A i \in 1..n : i # 1 => i - 1 \in 1..n BY <1>1
      <4> QED BY <1>3, <3>2, <4>1
    <3>4. Eq(h) BY <3>3
    <3>5. Eq(f) BY <3>4, Zenon
    <3>6. FlattenSeq(ss) = f[n]
      <4>1. n = Len(ss) BY DEF n
      <4> QED BY <2>2, <4>1, Zenon DEF FlattenSeq
    <3> HIDE DEF f
    <3>7. f[1] = ss[1] BY <3>1, <3>5
    <3>8. ASSUME NEW i \in 1..n, i # 1 PROVE i - 1 \in 1..n /\ f[i] = f[i-1] \o ss[i]
      <4>1. i - 1 \in 1..n BY <1>1, <3>8
      <4> QED BY <3>5, <3>8, <4>1
    <3> DEFINE K == {k \in Nat : k + 1 \in 1..n => f[k + 1] = r[k + 1]}
    <3>9. 0 \in K BY <3>2, <3>7
    <3>10. ASSUME NEW k \in Nat, k \in K PROVE k + 1 \in K
      <4> SUFFICES ASSUME k + 1 + 1 \in 1..n PROVE f[k + 1 + 1] = r[k + 1 + 1] OBVIOUS
      <4>1. k + 1 + 1 # 1 /\ (k + 1 + 1) - 1 = k + 1 /\ k + 1 \in 1..n BY <1>1
      <4>2. f[k + 1] = r[k + 1] BY <3>10, <4>1
      <4>3. f[k + 1 + 1] = f[k + 1] \o ss[k + 1 + 1] BY <3>8, <4>1
      <4>4. r[k + 1 + 1] = r[k + 1] \o ss[k + 1 + 1] BY <1>3, <4>1
      <4> QED BY <4>2, <4>3, <4>4
    <3> HIDE DEF K
    <3>11. \A k \in Nat : k \in K BY <3>9, <3>10, Chain!SetInduction
    <3>12. n - 1 \in Nat /\ (n - 1) + 1 = n BY <1>1, <2>2
    <3>13. n - 1 \in K BY <3>11, <3>12
    <3>14. f[n] = r[n] BY <3>1, <3>12, <3>13 DEF K
    <3> QED BY <3>6, <3>14
  <2> QED BY <2>1, <2>2
<1>6. Chained(r, ss) BY <1>3, <1>4, <1>5 DEF Chained, n
<1> QED BY <1>2, <1>5, <1>6

LEMMA FlattenConcat ==
  ASSUME NEW s, NEW t, Lists(s), Lists(t)
  PROVE  /\ Lists(s \o t)
         /\ FlattenSeq(s \o t) = FlattenSeq(s) \o FlattenSeq(t)
         /\ IsList(FlattenSeq(s)) /\ ToSet(FlattenSeq(s)) \subseteq All(s)
<1>1. IsList(s) /\ IsList(t) BY DEF Lists
<1>2. IsList(s \o t) /\ ToSet(s \o t) = ToSet(s) \cup ToSet(t) BY <1>1, Concatenated
<1>3. Lists(s \o t) BY <1>2 DEF Lists
<1>4. PICK r : Chained(r, t) BY FlattenChain
<1>5. PICK q : Chained(q, s) BY FlattenChain
<1> DEFINE m == Len(s)
           n == Len(t)
           v == FlattenSeq(s)
<1>6. m \in Nat /\ n \in Nat /\ DOMAIN t = 1..n BY <1>1, ListElements
<1> HIDE DEF m, n
<1>7. m \in 0..m /\ n \in 0..n BY <1>6
<1>8. IsList(v) /\ ToSet(v) \subseteq All(s) BY <1>5, <1>7 DEF Chained, m
<1>9. \A i \in 1..n : IsList(t[i]) BY <1>1, <1>6, ListElements DEF Lists
<1> HIDE DEF v
<1>10. Chain!Fold(0, v, t) = v \o FlattenSeq(t)
  <2> DEFINE h == [k \in 0..n |-> v \o r[k]]
  <2>1. h[0] = v
    <3>1. r[0] = << >> /\ 0 \in 0..n BY <1>4, <1>6 DEF Chained
    <3> QED BY <1>8, <3>1, ConcatSame
  <2>2. ASSUME NEW k \in 1..n PROVE h[k] = h[k-1] \o t[k]
    <3>1. k \in 0..n /\ k - 1 \in 0..n BY <1>6
    <3>2. h[k] = v \o r[k] /\ h[k-1] = v \o r[k-1] BY <3>1
    <3>3. r[k] = r[k-1] \o t[k] /\ IsList(r[k-1]) BY <1>4, <3>1 DEF Chained, n
    <3>4. PICK a, b, c : a = v /\ b = r[k-1] /\ c = t[k] OBVIOUS
    <3>5. IsList(a) /\ IsList(b) /\ IsList(c)
      <4>1. IsList(a) BY <1>8, <3>4
      <4>2. IsList(b) BY <3>3, <3>4
      <4>3. IsList(c) BY <1>9, <3>4
      <4> QED BY <4>1, <4>2, <4>3
    <3>6. Associates(a, b, c) BY <3>5, ConcatAll, Zenon
    <3> HIDE DEF h
    <3>7. h[k] = a \o (b \o c) /\ h[k-1] = a \o b BY <3>2, <3>3, <3>4, Zenon
    <3> QED BY <3>4, <3>6, <3>7, Zenon DEF Associates
  <2>3. h[n] = v \o FlattenSeq(t)
    <3>1. r[n] = FlattenSeq(t) BY <1>4 DEF Chained, n
    <3> QED BY <1>7, <3>1
  <2> HIDE DEF h
  <2>4. Chain!IsTrace(h, 0, v, t, n) BY <2>1, <2>2 DEF Chain!IsTrace, ChainOp
  <2>5. Chain!Fold(0, v, t) = h[n] BY <1>6, <2>4, Chain!FoldIs
  <2> QED BY <2>3, <2>5
<1>11. Chain!Fold(0, << >>, s \o t) = Chain!Fold(0, Chain!Fold(0, << >>, s), t)
  <2> DEFINE S == ToSet(s) \cup ToSet(t)
  <2>1. s \in Seq(ToSet(s)) /\ t \in Seq(ToSet(t)) BY <1>1 DEF IsList
  <2>2. s \in Seq(S) /\ t \in Seq(S) BY <2>1
  <2> HIDE DEF S
  <2> QED BY <2>2, Chain!FoldConcat
<1>12. FlattenSeq(s \o t) = Chain!Fold(0, Chain!Fold(0, << >>, s), t)
  BY <1>3, <1>11, FlattenChain
<1>13. v = Chain!Fold(0, << >>, s) BY FlattenChain DEF v
<1> QED BY <1>3, <1>8, <1>10, <1>12, <1>13 DEF v

LEMMA FlattenNone == FlattenSeq(<< >>) = << >> /\ Lists(<< >>)
BY NoList DEF FlattenSeq, Lists

LEMMA FlattenOne ==
  ASSUME NEW x, IsList(x)
  PROVE  FlattenSeq(<< x >>) = x /\ Lists(<< x >>)
<1>1. Lists(<< x >>) /\ Len(<< x >>) = 1 /\ << x >>[1] = x BY OneList DEF Lists
<1>2. PICK r : Chained(r, << x >>) BY <1>1, FlattenChain
<1>3. r[0] = << >> /\ FlattenSeq(<< x >>) = r[1] /\ \A k \in 1..1 : r[k] = r[k-1] \o << x >>[k]
  BY <1>1, <1>2 DEF Chained
<1>4. 1 - 1 = 0 /\ 1 \in 1..1 OBVIOUS
<1>5. r[1] = r[1-1] \o << x >>[1] BY <1>3, <1>4
<1>6. r[1] = << >> \o x BY <1>1, <1>3, <1>4, <1>5
<1> QED BY <1>1, <1>3, <1>6, ConcatSame

-----------------------------------------------------------------------------
(* Lists made by a function from the elements of another list.             *)

On(f, s) == [i \in DOMAIN s |-> f[s[i]]]

FlatOn(f, s) == FlattenSeq(On(f, s))

LEMMA OnList ==
  ASSUME NEW s, IsList(s), NEW f
  PROVE  /\ IsList(On(f, s)) /\ Len(On(f, s)) = Len(s) /\ ToSet(On(f, s)) = {f[x] : x \in ToSet(s)}
         /\ \A i \in 1..Len(s) : On(f, s)[i] = f[s[i]]
<1> DEFINE h == On(f, s)
           n == Len(s)
<1>1. n \in Nat /\ DOMAIN s = 1..n BY ListElements
<1> HIDE DEF n
<1>2. h = [i \in 1..n |-> f[s[i]]] BY <1>1 DEF On
<1>3. h = [i \in 1..n |-> h[i]] /\ (\A i \in 1..n : h[i] = f[s[i]]) /\ DOMAIN h = DOMAIN s
  BY <1>1, <1>2
<1>4. IsList(h) /\ Len(h) = n BY <1>1, <1>3, ListMade
<1>5. ToSet(h) = {f[x] : x \in ToSet(s)} BY <1>1, <1>3 DEF ToSet
<1> QED BY <1>3, <1>4, <1>5 DEF n

LEMMA OnConcat ==
  ASSUME NEW s, NEW t, IsList(s), IsList(t), NEW f
  PROVE  On(f, s \o t) = On(f, s) \o On(f, t)
<1> DEFINE u == On(f, s \o t)
           v == On(f, s) \o On(f, t)
           m == Len(s)
           n == Len(t)
<1>1. m \in Nat /\ n \in Nat BY ListElements
<1>2. /\ IsList(s \o t) /\ Len(s \o t) = m + n
      /\ \A i \in 1..m : (s \o t)[i] = s[i]
      /\ \A i \in 1..n : (s \o t)[m + i] = t[i]
  BY Concatenated
<1>3. IsList(u) /\ Len(u) = m + n /\ \A i \in 1..(m + n) : u[i] = f[(s \o t)[i]]
  <2>1. PICK st : st = s \o t OBVIOUS
  <2>2. IsList(On(f, st)) /\ Len(On(f, st)) = Len(st) /\ \A i \in 1..Len(st) : On(f, st)[i] = f[st[i]]
    <3>1. IsList(st) BY <1>2, <2>1, Zenon
    <3> QED BY <3>1, OnList, Zenon
  <2> QED BY <1>2, <2>1, <2>2, Zenon
<1>4. /\ IsList(On(f, s)) /\ Len(On(f, s)) = m /\ \A i \in 1..m : On(f, s)[i] = f[s[i]]
      /\ IsList(On(f, t)) /\ Len(On(f, t)) = n /\ \A i \in 1..n : On(f, t)[i] = f[t[i]]
  BY OnList, Zenon
<1> HIDE DEF m, n
<1>5. /\ IsList(v) /\ Len(v) = m + n
      /\ \A i \in 1..m : v[i] = On(f, s)[i]
      /\ \A i \in 1..n : v[m + i] = On(f, t)[i]
  BY <1>4, Concatenated
<1> HIDE DEF u, v
<1>6. ASSUME NEW i \in 1..(m + n) PROVE u[i] = v[i]
  <2>1. CASE i \in 1..m
    <3>1. u[i] = f[(s \o t)[i]] /\ (s \o t)[i] = s[i] BY <1>2, <1>3, <2>1, Zenon
    <3>2. v[i] = On(f, s)[i] /\ On(f, s)[i] = f[s[i]] BY <1>4, <1>5, <2>1, Zenon
    <3> QED BY <3>1, <3>2, Zenon
  <2>2. CASE i \notin 1..m
    <3>1. PICK j \in 1..n : i = m + j
      <4>1. i - m \in 1..n /\ i = m + (i - m) BY <1>1, <2>2
      <4> QED BY <4>1
    <3>2. u[i] = f[(s \o t)[i]] /\ (s \o t)[i] = t[j] BY <1>2, <1>3, <3>1, Zenon
    <3>3. v[i] = On(f, t)[j] /\ On(f, t)[j] = f[t[j]] BY <1>4, <1>5, <3>1, Zenon
    <3> QED BY <3>2, <3>3, Zenon
  <2> QED BY <2>1, <2>2
<1>7. u = v BY <1>1, <1>3, <1>5, <1>6, SameList
<1> QED BY <1>7 DEF u, v

LEMMA OnNone == \A f : On(f, << >>) = << >>
<1> SUFFICES ASSUME NEW f PROVE On(f, << >>) = << >> OBVIOUS
<1>1. IsList(On(f, << >>)) /\ Len(On(f, << >>)) = 0 BY NoList, OnList
<1> QED BY <1>1, ListElements

LEMMA OnOne == \A f, x : On(f, << x >>) = << f[x] >>
<1> SUFFICES ASSUME NEW f, NEW x PROVE On(f, << x >>) = << f[x] >> OBVIOUS
<1>1. /\ IsList(On(f, << x >>)) /\ Len(On(f, << x >>)) = 1
      /\ \A i \in 1..1 : On(f, << x >>)[i] = f[<< x >>[i]]
  BY OneList, OnList
<1>2. IsList(<< f[x] >>) /\ Len(<< f[x] >>) = 1 /\ << f[x] >>[1] = f[x] /\ << x >>[1] = x
  BY OneList
<1>3. \A i \in 1..1 : On(f, << x >>)[i] = << f[x] >>[i]
  <2>1. \A i \in 1..1 : i = 1 OBVIOUS
  <2> QED BY <1>1, <1>2, <2>1
<1> QED BY <1>1, <1>2, <1>3, SameList

\* f makes a list of every element of s.
Maps(f, s) == \A x \in ToSet(s) : IsList(f[x])

LEMMA FlatOnLists ==
  ASSUME NEW s, IsList(s), NEW f, Maps(f, s)
  PROVE  Lists(On(f, s)) /\ IsList(FlatOn(f, s)) /\ ToSet(FlatOn(f, s)) \subseteq UNION {ToSet(f[x]) : x \in ToSet(s)}
<1>1. IsList(On(f, s)) /\ ToSet(On(f, s)) = {f[x] : x \in ToSet(s)} BY OnList
<1>2. Lists(On(f, s)) BY <1>1 DEF Lists, Maps
<1>3. IsList(FlatOn(f, s)) /\ ToSet(FlatOn(f, s)) \subseteq All(On(f, s))
  BY <1>2, FlattenConcat DEF FlatOn
<1>4. All(On(f, s)) \subseteq UNION {ToSet(f[x]) : x \in ToSet(s)} BY <1>1 DEF All
<1> QED BY <1>2, <1>3, <1>4

LEMMA FlatOnConcat ==
  ASSUME NEW s, NEW t, IsList(s), IsList(t), NEW f, Maps(f, s), Maps(f, t)
  PROVE  FlatOn(f, s \o t) = FlatOn(f, s) \o FlatOn(f, t)
<1>1. Lists(On(f, s)) /\ Lists(On(f, t)) BY FlatOnLists
<1>2. On(f, s \o t) = On(f, s) \o On(f, t) BY OnConcat
<1> QED BY <1>1, <1>2, FlattenConcat DEF FlatOn

LEMMA FlatOnFew ==
  /\ \A f : FlatOn(f, << >>) = << >>
  /\ \A f, x : IsList(f[x]) => FlatOn(f, << x >>) = f[x]
BY OnNone, OnOne, FlattenNone, FlattenOne DEF FlatOn

\* Two ways to make one list of a list of lists.
LEMMA FlatOnFlatten ==
  ASSUME NEW ss, Lists(ss), NEW f, \A x \in All(ss) : IsList(f[x])
  PROVE  FlatOn(f, FlattenSeq(ss)) = FlattenSeq([i \in DOMAIN ss |-> FlatOn(f, ss[i])])
<1> DEFINE n == Len(ss)
           tt == [i \in DOMAIN ss |-> FlatOn(f, ss[i])]
<1>1. n \in Nat /\ DOMAIN ss = 1..n BY ListElements DEF Lists
<1>2. \A i \in 1..n : IsList(ss[i]) /\ Maps(f, ss[i])
  BY <1>1, ListElements DEF Lists, All, Maps
<1> HIDE DEF n
<1>3. \A i \in 1..n : tt[i] = FlatOn(f, ss[i]) BY <1>1
<1>4. IsList(tt) /\ Len(tt) = n /\ \A y \in ToSet(tt) : \E i \in 1..n : y = tt[i]
  <2>1. tt = [i \in 1..n |-> tt[i]] BY <1>1
  <2> HIDE DEF tt
  <2> QED BY <1>1, <2>1, ListMade
<1> HIDE DEF tt
<1>5. \A i \in 1..n : IsList(tt[i]) BY <1>2, <1>3, FlatOnLists
<1>6. Lists(tt) BY <1>4, <1>5 DEF Lists
<1>7. PICK r : Chained(r, ss) BY FlattenChain
<1>8. PICK q : Chained(q, tt) BY <1>6, FlattenChain
<1>9. /\ r[0] = << >> /\ FlattenSeq(ss) = r[n] /\ \A k \in 1..n : r[k] = r[k-1] \o ss[k]
      /\ \A k \in 0..n : IsList(r[k]) /\ ToSet(r[k]) \subseteq All(ss)
  BY <1>7 DEF Chained, n
<1>10. q[0] = << >> /\ FlattenSeq(tt) = q[n] /\ \A k \in 1..n : q[k] = q[k-1] \o tt[k]
  BY <1>4, <1>8 DEF Chained
<1> DEFINE K == {k \in Nat : k <= n => FlatOn(f, r[k]) = q[k]}
<1>11. 0 \in K BY <1>9, <1>10, FlatOnFew
<1>12. ASSUME NEW k \in Nat, k \in K PROVE k + 1 \in K
  <2> SUFFICES ASSUME k + 1 <= n PROVE FlatOn(f, r[k + 1]) = q[k + 1] OBVIOUS
  <2>1. k + 1 \in 1..n /\ k \in 0..n /\ (k + 1) - 1 = k BY <1>1
  <2>2. FlatOn(f, r[k]) = q[k] BY <1>12, <2>1
  <2>3. r[k + 1] = r[k] \o ss[k + 1] /\ q[k + 1] = q[k] \o FlatOn(f, ss[k + 1])
    BY <1>3, <1>9, <1>10, <2>1
  <2>4. IsList(r[k]) /\ Maps(f, r[k]) BY <1>9, <2>1 DEF Maps
  <2>5. IsList(ss[k + 1]) /\ Maps(f, ss[k + 1]) BY <1>2, <2>1
  <2>6. FlatOn(f, r[k] \o ss[k + 1]) = FlatOn(f, r[k]) \o FlatOn(f, ss[k + 1])
    BY <2>4, <2>5, FlatOnConcat, Zenon
  <2> QED BY <2>2, <2>3, <2>6, Zenon
<1> HIDE DEF K
<1>13. \A k \in Nat : k \in K BY <1>11, <1>12, Chain!SetInduction
<1>14. FlatOn(f, r[n]) = q[n] BY <1>1, <1>13 DEF K
<1> QED BY <1>9, <1>10, <1>14 DEF tt

-----------------------------------------------------------------------------
(* What passes a test, as the elements of a list that are in a set.        *)

LEMMA EmptyList ==
  ASSUME NEW s, IsList(s), ToSet(s) = {}
  PROVE  s = << >>
<1>1. Len(s) \in Nat /\ (\A i \in 1..Len(s) : FALSE) /\ (s = << >> <=> Len(s) = 0)
  BY ListElements
<1>2. Len(s) = 0
  <2>1. Len(s) # 0 => 1 \in 1..Len(s) BY <1>1
  <2> QED BY <1>1, <2>1
<1> QED BY <1>1, <1>2

LEMMA FlattenEmpty ==
  ASSUME NEW ss, IsList(ss), \A x \in ToSet(ss) : x = << >>
  PROVE  FlattenSeq(ss) = << >>
<1>1. Lists(ss) BY NoList DEF Lists
<1>2. All(ss) = {} BY NoList DEF All
<1>3. IsList(FlattenSeq(ss)) /\ ToSet(FlattenSeq(ss)) = {} BY <1>1, <1>2, FlattenConcat
<1> QED BY <1>3, EmptyList

\* u is s, and then t.
Concats(u, s, t) ==
  /\ Len(u) = Len(s) + Len(t)
  /\ \A i \in 1..Len(s) : u[i] = s[i]
  /\ \A i \in 1..Len(t) : u[Len(s) + i] = t[i]

LEMMA ConcatsAre ==
  ASSUME NEW s, NEW t, IsList(s), IsList(t)
  PROVE  Concats(s \o t, s, t)
BY Concatenated DEF Concats

LEMMA FlattenOnes ==
  ASSUME NEW s, IsList(s), NEW ss, IsList(ss), Len(ss) = Len(s),
         \A i \in 1..Len(s) : ss[i] = << s[i] >>
  PROVE  FlattenSeq(ss) = s
<1> DEFINE n == Len(s)
<1>1. n \in Nat /\ DOMAIN s = 1..n /\ DOMAIN ss = 1..n BY ListElements
<1>2. \A i \in 1..n : IsList(ss[i]) BY OneList
<1>3. Lists(ss)
  <2>1. ASSUME NEW x \in ToSet(ss) PROVE IsList(x)
    <3>1. PICK i \in DOMAIN ss : x = ss[i] BY ListElements
    <3> QED BY <1>1, <1>2, <3>1
  <2> QED BY <2>1 DEF Lists
<1>4. PICK r : Chained(r, ss) BY <1>3, FlattenChain
<1>5. /\ r[0] = << >> /\ FlattenSeq(ss) = r[n]
      /\ \A k \in 1..n : r[k] = r[k-1] \o << s[k] >>
      /\ \A k \in 0..n : IsList(r[k])
  BY <1>4 DEF Chained
<1> HIDE DEF n
<1> DEFINE K == {k \in Nat : k <= n => Len(r[k]) = k /\ \A i \in 1..k : r[k][i] = s[i]}
<1>6. 0 \in K BY <1>5, NoList
<1>7. ASSUME NEW k \in Nat, k \in K PROVE k + 1 \in K
  <2> SUFFICES ASSUME k + 1 <= n
               PROVE  Len(r[k + 1]) = k + 1 /\ \A i \in 1..(k + 1) : r[k + 1][i] = s[i]
    OBVIOUS
  <2>1. k + 1 \in 1..n /\ k \in 0..n /\ (k + 1) - 1 = k BY <1>1
  <2>2. Len(r[k]) = k /\ \A i \in 1..k : r[k][i] = s[i] BY <1>7, <2>1
  <2>3. PICK a, b : a = r[k] /\ b = << s[k + 1] >> OBVIOUS
  <2>4. r[k + 1] = a \o b BY <1>5, <2>1, <2>3
  <2>5. IsList(a) /\ IsList(b) /\ Len(b) = 1 /\ b[1] = s[k + 1] BY <1>5, <2>1, <2>3, OneList
  <2>6. /\ Len(a \o b) = Len(a) + Len(b)
        /\ \A i \in 1..Len(a) : (a \o b)[i] = a[i]
        /\ \A i \in 1..Len(b) : (a \o b)[Len(a) + i] = b[i]
    <3>1. Concats(a \o b, a, b) BY <2>5, ConcatsAre, Zenon
    <3> QED BY <3>1, Zenon DEF Concats
  <2>7. Len(a) = k /\ 1 \in 1..Len(b) BY <2>2, <2>3, <2>5
  <2>8. (a \o b)[k + 1] = s[k + 1] BY <2>5, <2>6, <2>7
  <2>9. \A i \in 1..k : (a \o b)[i] = s[i] BY <2>2, <2>3, <2>6, <2>7
  <2>10. \A i \in 1..(k + 1) : i \in 1..k \/ i = k + 1 OBVIOUS
  <2> QED BY <2>4, <2>5, <2>6, <2>7, <2>8, <2>9, <2>10
<1> HIDE DEF K
<1>8. \A k \in Nat : k \in K BY <1>6, <1>7, Chain!SetInduction
<1>9. Len(r[n]) = n /\ \A i \in 1..n : r[n][i] = s[i] BY <1>1, <1>8 DEF K
<1>10. IsList(r[n]) BY <1>1, <1>5
<1>11. r[n] = s BY <1>9, <1>10, SameList DEF n
<1> QED BY <1>5, <1>11

\* The elements of s that are in S, in order.
Filter(S, s) == FlattenSeq([i \in DOMAIN s |-> IF s[i] \in S THEN << s[i] >> ELSE << >>])

Single(S, T) == [x \in T |-> IF x \in S THEN << x >> ELSE << >>]

LEMMA FilterFlat ==
  ASSUME NEW S, NEW s, IsList(s), NEW T, ToSet(s) \subseteq T
  PROVE  Filter(S, s) = FlatOn(Single(S, T), s) /\ Maps(Single(S, T), s)
<1>1. \A i \in DOMAIN s : s[i] \in T BY ListElements
<1>2. \A i \in DOMAIN s : Single(S, T)[s[i]] = IF s[i] \in S THEN << s[i] >> ELSE << >>
  BY <1>1 DEF Single
<1>3. Filter(S, s) = FlatOn(Single(S, T), s) BY <1>2 DEF Filter, FlatOn, On
<1>4. ASSUME NEW x \in ToSet(s) PROVE IsList(Single(S, T)[x])
  <2>1. Single(S, T)[x] = << x >> \/ Single(S, T)[x] = << >> BY DEF Single
  <2>2. IsList(<< x >>) /\ IsList(<< >>) BY OneList, NoList, Zenon
  <2> QED BY <2>1, <2>2, Zenon
<1> QED BY <1>3, <1>4 DEF Maps

LEMMA FilterList ==
  ASSUME NEW S, NEW s, IsList(s)
  PROVE  IsList(Filter(S, s)) /\ ToSet(Filter(S, s)) \subseteq ToSet(s) \cap S
<1> DEFINE f == Single(S, ToSet(s))
<1>1. Filter(S, s) = FlatOn(f, s) /\ Maps(f, s) BY FilterFlat
<1>2. ASSUME NEW x \in ToSet(s) PROVE ToSet(f[x]) \subseteq ToSet(s) \cap S
  <2>1. (x \in S /\ f[x] = << x >>) \/ f[x] = << >> BY DEF Single
  <2>2. ToSet(<< x >>) = {x} /\ ToSet(<< >>) = {} BY OneList, NoList, Zenon
  <2> QED BY <2>1, <2>2
<1> HIDE DEF f
<1>3. IsList(FlatOn(f, s)) /\ ToSet(FlatOn(f, s)) \subseteq UNION {ToSet(f[x]) : x \in ToSet(s)}
  BY <1>1, FlatOnLists
<1>4. UNION {ToSet(f[x]) : x \in ToSet(s)} \subseteq ToSet(s) \cap S BY <1>2
<1> QED BY <1>1, <1>3, <1>4

LEMMA FilterConcat ==
  ASSUME NEW S, NEW s, NEW t, IsList(s), IsList(t)
  PROVE  Filter(S, s \o t) = Filter(S, s) \o Filter(S, t)
<1> DEFINE T == ToSet(s) \cup ToSet(t)
           f == Single(S, T)
<1>1. ToSet(s) \subseteq T /\ ToSet(t) \subseteq T OBVIOUS
<1>2. IsList(s \o t) /\ ToSet(s \o t) = T BY Concatenated
<1> HIDE DEF T
<1>3. Filter(S, s) = FlatOn(f, s) /\ Maps(f, s) /\ Filter(S, t) = FlatOn(f, t) /\ Maps(f, t)
  BY <1>1, FilterFlat
<1>4. PICK st : st = s \o t OBVIOUS
<1>5. ToSet(st) \subseteq T /\ IsList(st) BY <1>2, <1>4, Zenon
<1>6. Filter(S, st) = FlatOn(f, st) BY <1>5, FilterFlat
<1> HIDE DEF f
<1>7. FlatOn(f, s \o t) = FlatOn(f, s) \o FlatOn(f, t) BY <1>3, FlatOnConcat
<1> QED BY <1>3, <1>4, <1>6, <1>7, Zenon

LEMMA FilterAll ==
  ASSUME NEW S, NEW s, IsList(s), ToSet(s) \subseteq S
  PROVE  Filter(S, s) = s
<1> DEFINE ss == [i \in DOMAIN s |-> << s[i] >>]
<1>1. Len(s) \in Nat /\ DOMAIN s = 1..Len(s) /\ \A i \in DOMAIN s : s[i] \in S BY ListElements
<1>2. Filter(S, s) = FlattenSeq(ss) BY <1>1 DEF Filter
<1>3. ss = [i \in 1..Len(s) |-> ss[i]] /\ \A i \in 1..Len(s) : ss[i] = << s[i] >> BY <1>1
<1> HIDE DEF ss
<1>4. IsList(ss) /\ Len(ss) = Len(s) BY <1>1, <1>3, ListMade
<1> QED BY <1>2, <1>3, <1>4, FlattenOnes

LEMMA FilterNone ==
  ASSUME NEW S, NEW s, IsList(s), ToSet(s) \cap S = {}
  PROVE  Filter(S, s) = << >>
<1>1. IsList(Filter(S, s)) /\ ToSet(Filter(S, s)) = {} BY FilterList
<1> QED BY <1>1, EmptyList

\* What f makes of the elements that pass is what g makes of all of them.
LEMMA FilterMap ==
  ASSUME NEW S, NEW s, IsList(s), NEW f, Maps(f, s), NEW g,
         \A x \in ToSet(s) : g[x] = IF x \in S THEN f[x] ELSE << >>
  PROVE  FlatOn(f, Filter(S, s)) = FlatOn(g, s)
<1> DEFINE n == Len(s)
           h == Single(S, ToSet(s))
           ss == On(h, s)
           tt == [i \in DOMAIN ss |-> FlatOn(f, ss[i])]
<1>1. n \in Nat /\ DOMAIN s = 1..n /\ \A i \in 1..n : s[i] \in ToSet(s) BY ListElements
<1>2. Filter(S, s) = FlattenSeq(ss) /\ Maps(h, s) BY FilterFlat DEF FlatOn
<1>3. \A i \in 1..n : h[s[i]] = IF s[i] \in S THEN << s[i] >> ELSE << >> BY <1>1 DEF Single
<1>4. ASSUME NEW x \in ToSet(s) PROVE \A y \in ToSet(h[x]) : IsList(f[y])
  <2>1. h[x] = << x >> \/ h[x] = << >> BY DEF Single
  <2>2. ToSet(<< x >>) = {x} /\ ToSet(<< >>) = {} BY OneList, NoList, Zenon
  <2>3. IsList(f[x]) BY DEF Maps
  <2>4. CASE h[x] = << x >> BY <2>2, <2>3, <2>4
  <2>5. CASE h[x] = << >> BY <2>2, <2>5
  <2> QED BY <2>1, <2>4, <2>5
<1> HIDE DEF h, n
<1>5. Lists(ss) /\ ToSet(ss) = {h[x] : x \in ToSet(s)} /\ Len(ss) = n /\ IsList(ss)
      /\ \A i \in 1..n : ss[i] = h[s[i]]
  BY <1>2, FlatOnLists, OnList DEF n
<1>6. \A y \in All(ss) : IsList(f[y]) BY <1>4, <1>5 DEF All
<1> HIDE DEF ss
<1>7. FlatOn(f, FlattenSeq(ss)) = FlattenSeq(tt) BY <1>5, <1>6, FlatOnFlatten
<1>8. DOMAIN ss = 1..n BY <1>5, ListElements
<1>9. ASSUME NEW i \in 1..n PROVE FlatOn(f, ss[i]) = g[s[i]]
  <2>1. ss[i] = IF s[i] \in S THEN << s[i] >> ELSE << >> BY <1>3, <1>5
  <2>2. g[s[i]] = (IF s[i] \in S THEN f[s[i]] ELSE << >>) /\ IsList(f[s[i]]) BY <1>1 DEF Maps
  <2> QED BY <2>1, <2>2, FlatOnFew
<1>10. tt = On(g, s) BY <1>1, <1>8, <1>9 DEF On
<1> QED BY <1>2, <1>7, <1>10 DEF FlatOn

-----------------------------------------------------------------------------
(* What messages say: the things the upstream is told, and the texts of    *)
(* the system.                                                             *)

Texted(s) == \A p \in ToSet(s) : IsList(p.text)

TextOn(T) == [p \in T |-> p.text]

LEMMA JoinedFlat ==
  ASSUME NEW s, IsList(s), NEW T, ToSet(s) \subseteq T, \A p \in T : IsList(p.text)
  PROVE  Joined(s) = FlatOn(TextOn(T), s) /\ Maps(TextOn(T), s)
<1>1. \A i \in DOMAIN s : s[i] \in T BY ListElements
<1>2. \A i \in DOMAIN s : TextOn(T)[s[i]] = s[i].text BY <1>1 DEF TextOn
<1>3. Joined(s) = FlatOn(TextOn(T), s) BY <1>2 DEF Joined, FlatOn, On
<1> QED BY <1>3 DEF Maps, TextOn

LEMMA JoinedConcat ==
  ASSUME NEW s, NEW t, IsList(s), IsList(t), Texted(s), Texted(t)
  PROVE  /\ Joined(s \o t) = Joined(s) \o Joined(t)
         /\ IsList(s \o t) /\ Texted(s \o t)
         /\ IsList(Joined(s))
<1> DEFINE T == ToSet(s) \cup ToSet(t)
           f == TextOn(T)
<1>1. ToSet(s) \subseteq T /\ ToSet(t) \subseteq T /\ \A p \in T : IsList(p.text) BY DEF Texted
<1>2. IsList(s \o t) /\ ToSet(s \o t) = T BY Concatenated
<1> HIDE DEF T
<1>3. Joined(s) = FlatOn(f, s) /\ Maps(f, s) /\ Joined(t) = FlatOn(f, t) /\ Maps(f, t)
  BY <1>1, JoinedFlat
<1>4. PICK st : st = s \o t OBVIOUS
<1>5. ToSet(st) \subseteq T /\ IsList(st) BY <1>2, <1>4, Zenon
<1>6. Joined(st) = FlatOn(f, st) BY <1>1, <1>5, JoinedFlat
<1> HIDE DEF f
<1>7. FlatOn(f, s \o t) = FlatOn(f, s) \o FlatOn(f, t) /\ IsList(FlatOn(f, s))
  BY <1>3, FlatOnConcat, FlatOnLists
<1>8. Joined(s \o t) = Joined(s) \o Joined(t) BY <1>3, <1>4, <1>6, <1>7, Zenon
<1>9. Texted(s \o t) BY <1>1, <1>2 DEF Texted
<1> QED BY <1>2, <1>3, <1>7, <1>8, <1>9

LEMMA JoinedFew ==
  /\ Joined(<< >>) = << >> /\ Texted(<< >>)
  /\ \A p : IsList(p.text) => Joined(<< p >>) = p.text /\ Texted(<< p >>)
<1>1. Joined(<< >>) = << >> /\ Texted(<< >>)
  <2>1. FlatOn(TextOn({}), << >>) = << >> BY FlatOnFew
  <2>2. IsList(<< >>) /\ ToSet(<< >>) = {} BY NoList
  <2>3. Joined(<< >>) = FlatOn(TextOn({}), << >>) BY <2>2, JoinedFlat
  <2> QED BY <2>1, <2>2, <2>3 DEF Texted
<1>2. ASSUME NEW p, IsList(p.text) PROVE Joined(<< p >>) = p.text /\ Texted(<< p >>)
  <2>1. IsList(<< p >>) /\ ToSet(<< p >>) = {p} BY OneList
  <2>2. TextOn({p})[p] = p.text BY DEF TextOn
  <2>3. Joined(<< p >>) = FlatOn(TextOn({p}), << p >>) BY <1>2, <2>1, JoinedFlat
  <2>4. FlatOn(TextOn({p}), << p >>) = p.text BY <1>2, <2>2, FlatOnFew
  <2> QED BY <1>2, <2>1, <2>3, <2>4 DEF Texted
<1> QED BY <1>1, <1>2

-----------------------------------------------------------------------------
SystemRoles == {"system", "developer"}

\* What a message says, whatever calls came before it.
MsgThings(m) == IF m.role \in SystemRoles THEN << >> ELSE SentThings(ccMessage(m, << >>))

MsgSystem(m) == IF m.role \in SystemRoles THEN Joined(m.content) ELSE << >>

\* Calls are not parts of what a user says.
Uncalled(m) == m.role = "user" => \A p \in ToSet(m.content) : p.type \notin {"tool-call", "call"}

WellMessage(m) ==
  IsList(m.content) /\ Texted(m.content) /\ IsList(m.tool_calls) /\ Uncalled(m)

Messages(ms) == IsList(ms) /\ \A m \in ToSet(ms) : WellMessage(m)

Meant(ms) == FlattenSeq([i \in DOMAIN ms |-> MsgThings(ms[i])])

SystemText(ms) == FlattenSeq([i \in DOMAIN ms |-> MsgSystem(ms[i])])

Says(ms, things, text) == Messages(ms) /\ Meant(ms) = things /\ SystemText(ms) = text

LEMMA MadeList ==
  ASSUME NEW s, IsList(s), NEW f, DOMAIN f = DOMAIN s, f = [i \in DOMAIN s |-> f[i]]
  PROVE  IsList(f) /\ Len(f) = Len(s)
<1>1. Len(s) \in Nat /\ DOMAIN s = 1..Len(s) BY ListElements
<1> QED BY <1>1, ListMade

LEMMA SentList ==
  ASSUME NEW m, IsList(m.content)
  PROVE  IsList(SentThings(m))
<1> DEFINE c == m.content
           f == SentThings(m)
<1>1. DOMAIN f = DOMAIN c /\ f = [i \in DOMAIN c |-> f[i]] BY DEF SentThings
<1> HIDE DEF f, c
<1>2. IsList(c) BY DEF c
<1>3. IsList(f) BY <1>1, <1>2, MadeList
<1> QED BY <1>3 DEF f

LEMMA OfTypeIs ==
  ASSUME NEW parts, IsList(parts), NEW types, NEW T, ToSet(parts) \subseteq T
  PROVE  OfType(parts, types) = Filter({p \in T : p.type \in types}, parts)
<1>1. \A i \in DOMAIN parts : parts[i] \in T BY ListElements
<1> QED BY <1>1 DEF OfType, Passing, Filter

LEMMA OfTypeList ==
  ASSUME NEW parts, IsList(parts), NEW types
  PROVE  /\ IsList(OfType(parts, types))
         /\ ToSet(OfType(parts, types)) \subseteq {p \in ToSet(parts) : p.type \in types}
<1> DEFINE S == {p \in ToSet(parts) : p.type \in types}
<1>1. OfType(parts, types) = Filter(S, parts) BY OfTypeIs
<1> HIDE DEF S
<1>2. IsList(Filter(S, parts)) /\ ToSet(Filter(S, parts)) \subseteq S BY FilterList
<1> QED BY <1>1, <1>2 DEF S

LEMMA OfTypeConcat ==
  ASSUME NEW s, NEW t, IsList(s), IsList(t), NEW types
  PROVE  OfType(s \o t, types) = OfType(s, types) \o OfType(t, types)
<1> DEFINE T == ToSet(s) \cup ToSet(t)
           S == {p \in T : p.type \in types}
<1>1. PICK st : st = s \o t OBVIOUS
<1>2. IsList(st) /\ ToSet(st) \subseteq T /\ ToSet(s) \subseteq T /\ ToSet(t) \subseteq T
  BY <1>1, Concatenated
<1> HIDE DEF T
<1>3. /\ OfType(st, types) = Filter(S, st) /\ OfType(s, types) = Filter(S, s)
      /\ OfType(t, types) = Filter(S, t)
  BY <1>2, OfTypeIs
<1> HIDE DEF S
<1>4. Filter(S, s \o t) = Filter(S, s) \o Filter(S, t) BY FilterConcat
<1> QED BY <1>1, <1>3, <1>4, Zenon

LEMMA OfTypeAll ==
  ASSUME NEW s, IsList(s), NEW types, \A p \in ToSet(s) : p.type \in types
  PROVE  OfType(s, types) = s
<1> DEFINE S == {p \in ToSet(s) : p.type \in types}
<1>1. OfType(s, types) = Filter(S, s) /\ ToSet(s) \subseteq S BY OfTypeIs
<1> HIDE DEF S
<1> QED BY <1>1, FilterAll

LEMMA OfTypeNone ==
  ASSUME NEW s, IsList(s), NEW types, \A p \in ToSet(s) : p.type \notin types
  PROVE  OfType(s, types) = << >>
<1> DEFINE S == {p \in ToSet(s) : p.type \in types}
<1>1. OfType(s, types) = Filter(S, s) /\ ToSet(s) \cap S = {} BY OfTypeIs
<1> HIDE DEF S
<1> QED BY <1>1, FilterNone

-----------------------------------------------------------------------------
(* What the upstream is told: chatMessages and systemBlocksFromMessages.   *)

\* Leaving an empty string out leaves a list.
LEMMA UnemptyList ==
  ASSUME NEW s, IsList(s)
  PROVE  IsList(Unempty(s))
BY NoList DEF Unempty

\* The content of a message is a list, whatever names are known.
LEMMA WireContent ==
  ASSUME NEW m, WellMessage(m), NEW names
  PROVE  IsList(ccMessage(m, names).content)
<1> DEFINE c == m.content
           calls == m.tool_calls
<1>1. IsList(c) /\ IsList(calls) BY DEF WellMessage
<1>2. IsList(ccUserContent(c))
  <2> DEFINE f == ccUserContent(c)
  <2>1. DOMAIN f = DOMAIN c /\ f = [i \in DOMAIN c |-> f[i]] BY DEF ccUserContent
  <2> HIDE DEF f, c
  <2> QED BY <1>1, <2>1, MadeList DEF f
<1>3. IsList(ccAssistantMessage(m).content)
  <2> DEFINE f == [i \in DOMAIN calls |->
                     Part("tool-call", << >>, FALSE, calls[i].id, calls[i].name)]
             r == IF m.reasoning_content = << >> THEN << >>
                  ELSE << Part("reasoning", m.reasoning_content, FALSE, NoId, "") >>
             kinds == IF m.reasoning_content = << >> THEN {"text", "reasoning"} ELSE {"text"}
             o == OfType(Unempty(c), kinds)
  <2>1. ccAssistantMessage(m).content = r \o o \o f BY DEF ccAssistantMessage
  <2>2. DOMAIN f = DOMAIN calls /\ f = [i \in DOMAIN calls |-> f[i]] OBVIOUS
  <2>3. IsList(r) BY OneList, NoList
  <2> HIDE DEF r, f, calls, c
  <2>4. IsList(f) BY <1>1, <2>2, MadeList
  <2>5. IsList(o) BY <1>1, UnemptyList, OfTypeList
  <2> HIDE DEF o
  <2>6. IsList(r \o o) BY <2>3, <2>5, Concatenated
  <2>7. IsList((r \o o) \o f) BY <2>4, <2>6, Concatenated
  <2> QED BY <2>1, <2>7
<1>4. CASE m.role = "user" BY <1>2, <1>4 DEF ccMessage
<1>5. CASE m.role = "assistant" BY <1>3, <1>5 DEF ccMessage
<1>6. CASE m.role = "tool"
  <2>1. PICK x : ccMessage(m, names).content = << x >> BY <1>6 DEF ccMessage
  <2> QED BY <2>1, OneList
<1>7. CASE m.role \notin {"user", "assistant", "tool"}
  <2>1. PICK x : ccMessage(m, names).content = << x >> BY <1>7 DEF ccMessage
  <2> QED BY <2>1, OneList
<1> QED BY <1>4, <1>5, <1>6, <1>7

\* The names that are known only go into the results.
LEMMA NamesDoNotMatter ==
  ASSUME NEW m, m.role \notin SystemRoles, NEW names
  PROVE  SentThings(ccMessage(m, names)) = MsgThings(m)
<1>1. MsgThings(m) = SentThings(ccMessage(m, << >>)) BY DEF MsgThings
<1>2. CASE m.role = "user" BY <1>1, <1>2 DEF ccMessage
<1>3. CASE m.role = "assistant" BY <1>1, <1>3 DEF ccMessage
<1>4. CASE m.role = "tool"
  <2>1. ASSUME NEW k PROVE SentThings(ccMessage(m, k)) =
          << Thing("result", Joined(OfType(m.content, {"text"})), m.tool_call_id, "", FALSE) >>
    <3> DEFINE p == Part("tool-result", Joined(OfType(m.content, {"text"})), FALSE,
                         m.tool_call_id, toolResultName(m, k))
    <3>1. ccMessage(m, k).content = << p >> /\ ccMessage(m, k).role = "tool"
      BY <1>4 DEF ccMessage
    <3>2. p.type = "tool-result" /\ p.text = Joined(OfType(m.content, {"text"}))
          /\ p.id = m.tool_call_id /\ p.cache = FALSE
      BY DEF Part
    <3> HIDE DEF p
    <3>3. DOMAIN << p >> = {1} /\ << p >>[1] = p OBVIOUS
    <3>4. SentThings(ccMessage(m, k)) = [i \in {1} |-> Thing("result", p.text, p.id, "", p.cache)]
      BY <3>1, <3>2, <3>3 DEF SentThings
    <3>5. PICK th : th = Thing("result", p.text, p.id, "", p.cache) OBVIOUS
    <3>6. [i \in {1} |-> th] = << th >> OBVIOUS
    <3> QED BY <3>2, <3>4, <3>5, <3>6
  <2> QED BY <1>1, <2>1
<1>5. CASE m.role \notin {"user", "assistant", "tool"} BY <1>1, <1>5 DEF ccMessage
<1> QED BY <1>2, <1>3, <1>4, <1>5

LEMMA MsgLists ==
  ASSUME NEW m, WellMessage(m)
  PROVE  IsList(MsgThings(m)) /\ IsList(MsgSystem(m))
<1>1. IsList(SentThings(ccMessage(m, << >>))) BY WireContent, SentList
<1>2. IsList(Joined(m.content)) BY JoinedConcat DEF WellMessage
<1> QED BY <1>1, <1>2, NoList DEF MsgThings, MsgSystem

MeantOn(T) == [m \in T |-> MsgThings(m)]
SystemOn(T) == [m \in T |-> MsgSystem(m)]

LEMMA SaysFlat ==
  ASSUME NEW ms, Messages(ms), NEW T, ToSet(ms) \subseteq T
  PROVE  /\ Meant(ms) = FlatOn(MeantOn(T), ms) /\ Maps(MeantOn(T), ms)
         /\ SystemText(ms) = FlatOn(SystemOn(T), ms) /\ Maps(SystemOn(T), ms)
         /\ IsList(ms)
<1>1. IsList(ms) BY DEF Messages
<1>2. \A i \in DOMAIN ms : ms[i] \in T BY <1>1, ListElements
<1>3. \A i \in DOMAIN ms : MeantOn(T)[ms[i]] = MsgThings(ms[i])
                           /\ SystemOn(T)[ms[i]] = MsgSystem(ms[i])
  BY <1>2 DEF MeantOn, SystemOn
<1>4. Meant(ms) = FlatOn(MeantOn(T), ms) BY <1>3 DEF Meant, FlatOn, On
<1>5. SystemText(ms) = FlatOn(SystemOn(T), ms) BY <1>3 DEF SystemText, FlatOn, On
<1>6. \A m \in ToSet(ms) : /\ MeantOn(T)[m] = MsgThings(m) /\ IsList(MsgThings(m))
                           /\ SystemOn(T)[m] = MsgSystem(m) /\ IsList(MsgSystem(m))
  BY MsgLists DEF MeantOn, SystemOn, Messages
<1> QED BY <1>1, <1>4, <1>5, <1>6 DEF Maps

\* What one list of messages says after another.
LEMMA SaysConcat ==
  ASSUME NEW ms, NEW x, NEW a, Says(ms, x, a), NEW ns, NEW y, NEW b, Says(ns, y, b)
  PROVE  Says(ms \o ns, x \o y, a \o b)
<1> DEFINE T == ToSet(ms) \cup ToSet(ns)
           f == MeantOn(T)
           g == SystemOn(T)
<1>1. Messages(ms) /\ Messages(ns) /\ IsList(ms) /\ IsList(ns) BY DEF Says, Messages
<1>2. PICK mn : mn = ms \o ns OBVIOUS
<1>3. IsList(mn) /\ ToSet(mn) = T BY <1>1, <1>2, Concatenated
<1>4. Messages(mn) BY <1>1, <1>3 DEF Messages
<1>5. ToSet(ms) \subseteq T /\ ToSet(ns) \subseteq T /\ ToSet(mn) \subseteq T BY <1>3
<1> HIDE DEF T
<1>6. /\ Meant(mn) = FlatOn(f, mn) /\ SystemText(mn) = FlatOn(g, mn)
      /\ x = FlatOn(f, ms) /\ Maps(f, ms) /\ a = FlatOn(g, ms) /\ Maps(g, ms)
      /\ y = FlatOn(f, ns) /\ Maps(f, ns) /\ b = FlatOn(g, ns) /\ Maps(g, ns)
  BY <1>1, <1>4, <1>5, SaysFlat DEF Says
<1> HIDE DEF f, g
<1>7. FlatOn(f, ms \o ns) = x \o y BY <1>1, <1>6, FlatOnConcat
<1>8. FlatOn(g, ms \o ns) = a \o b BY <1>1, <1>6, FlatOnConcat
<1>9. Meant(mn) = x \o y BY <1>2, <1>6, <1>7, Zenon
<1>10. SystemText(mn) = a \o b BY <1>2, <1>6, <1>8, Zenon
<1>11. Says(mn, x \o y, a \o b) BY <1>4, <1>9, <1>10 DEF Says
<1> QED BY <1>2, <1>11, Zenon

LEMMA SaysNothing == Says(<< >>, << >>, << >>)
<1>1. IsList(<< >>) /\ ToSet(<< >>) = {} BY NoList
<1>2. Messages(<< >>) BY <1>1 DEF Messages
<1>3. FlatOn(MeantOn({}), << >>) = << >> /\ FlatOn(SystemOn({}), << >>) = << >> BY FlatOnFew
<1>4. Meant(<< >>) = FlatOn(MeantOn({}), << >>) /\ SystemText(<< >>) = FlatOn(SystemOn({}), << >>)
  BY <1>1, <1>2, SaysFlat
<1> QED BY <1>2, <1>3, <1>4 DEF Says

LEMMA SaysOne ==
  ASSUME NEW m, WellMessage(m)
  PROVE  Says(<< m >>, MsgThings(m), MsgSystem(m))
<1>1. IsList(<< m >>) /\ ToSet(<< m >>) = {m} BY OneList
<1>2. Messages(<< m >>) BY <1>1 DEF Messages
<1>3. MeantOn({m})[m] = MsgThings(m) /\ SystemOn({m})[m] = MsgSystem(m)
  BY DEF MeantOn, SystemOn
<1>4. FlatOn(MeantOn({m}), << m >>) = MsgThings(m) /\ FlatOn(SystemOn({m}), << m >>) = MsgSystem(m)
  BY <1>3, MsgLists, FlatOnFew
<1>5. Meant(<< m >>) = FlatOn(MeantOn({m}), << m >>)
      /\ SystemText(<< m >>) = FlatOn(SystemOn({m}), << m >>)
  BY <1>1, <1>2, SaysFlat
<1> QED BY <1>2, <1>4, <1>5 DEF Says

-----------------------------------------------------------------------------
\* What the upstream is told by its messages.
Told(ms) == FlattenSeq([i \in DOMAIN ms |-> SentThings(ms[i])])

Sendable(ms) == IsList(ms) /\ \A m \in ToSet(ms) : IsList(m.content)

SentOn(T) == [m \in T |-> SentThings(m)]

LEMMA ToldFlat ==
  ASSUME NEW ms, Sendable(ms), NEW T, ToSet(ms) \subseteq T
  PROVE  Told(ms) = FlatOn(SentOn(T), ms) /\ Maps(SentOn(T), ms) /\ IsList(ms)
<1>1. IsList(ms) BY DEF Sendable
<1>2. \A i \in DOMAIN ms : ms[i] \in T BY <1>1, ListElements
<1>3. \A i \in DOMAIN ms : SentOn(T)[ms[i]] = SentThings(ms[i]) BY <1>2 DEF SentOn
<1>4. Told(ms) = FlatOn(SentOn(T), ms) BY <1>3 DEF Told, FlatOn, On
<1>5. \A m \in ToSet(ms) : SentOn(T)[m] = SentThings(m) /\ IsList(SentThings(m))
  BY SentList DEF SentOn, Sendable
<1> QED BY <1>1, <1>4, <1>5 DEF Maps

\* ms tells x.
Tells(ms, x) == Sendable(ms) /\ Told(ms) = x

LEMMA TellsMore ==
  ASSUME NEW ms, NEW x, Tells(ms, x), NEW m, IsList(m.content)
  PROVE  Tells(Append(ms, m), x \o SentThings(m))
<1> DEFINE T == ToSet(ms) \cup {m}
           f == SentOn(T)
<1>1. Sendable(ms) /\ IsList(ms) BY DEF Tells, Sendable
<1>2. IsList(<< m >>) /\ ToSet(<< m >>) = {m} BY OneList
<1>3. PICK mn : mn = Append(ms, m) OBVIOUS
<1>4. mn = ms \o << m >> BY <1>1, <1>3, AppendedIsConcat
<1>5. IsList(mn) /\ ToSet(mn) = T BY <1>1, <1>2, <1>4, Concatenated
<1>6. Sendable(mn) /\ Sendable(<< m >>) BY <1>1, <1>2, <1>5 DEF Sendable
<1>7. ToSet(ms) \subseteq T /\ ToSet(mn) \subseteq T /\ ToSet(<< m >>) \subseteq T /\ m \in T
  BY <1>2, <1>5
<1> HIDE DEF T
<1>8. /\ Told(mn) = FlatOn(f, mn) /\ x = FlatOn(f, ms) /\ Maps(f, ms) /\ Maps(f, << m >>)
  BY <1>1, <1>6, <1>7, ToldFlat DEF Tells
<1>9. f[m] = SentThings(m) BY <1>7 DEF SentOn
<1>10. IsList(SentThings(m)) BY SentList
<1> HIDE DEF f
<1>11. FlatOn(f, << m >>) = SentThings(m) BY <1>9, <1>10, FlatOnFew
<1>12. FlatOn(f, ms \o << m >>) = FlatOn(f, ms) \o FlatOn(f, << m >>)
  BY <1>1, <1>2, <1>8, FlatOnConcat
<1>13. Told(mn) = x \o SentThings(m) BY <1>4, <1>8, <1>11, <1>12, Zenon
<1> QED BY <1>3, <1>6, <1>13 DEF Tells

LEMMA TellsNothing == Tells(<< >>, << >>)
<1>1. IsList(<< >>) /\ ToSet(<< >>) = {} BY NoList
<1>2. Sendable(<< >>) BY <1>1 DEF Sendable
<1>3. FlatOn(SentOn({}), << >>) = << >> BY FlatOnFew
<1>4. Told(<< >>) = FlatOn(SentOn({}), << >>) BY <1>1, <1>2, ToldFlat
<1> QED BY <1>2, <1>3, <1>4 DEF Tells

-----------------------------------------------------------------------------
ChatOp(p, done, m) == chatMessage(done, m)

Chat == INSTANCE LeftFold WITH Op <- ChatOp

NoChat == [messages |-> << >>, names |-> << >>]

LEMMA ChatIsFold == \A ms : chatMessages(ms) = Chat!Fold(0, NoChat, ms).messages
BY DEF chatMessages, NoChat, ChatOp, Chat!Fold, Chat!FoldLeft, FoldLeft, Chat!MapThenFoldSet,
       MapThenFoldSet, Max, Chat!Max

\* The upstream is told what the messages say.
LEMMA ChatTells ==
  ASSUME NEW ms, Messages(ms)
  PROVE  Tells(chatMessages(ms), Meant(ms))
<1> DEFINE n == Len(ms)
           mm == [i \in DOMAIN ms |-> MsgThings(ms[i])]
<1>1. IsList(ms) /\ n \in Nat /\ DOMAIN ms = 1..n BY ListElements DEF Messages
<1>2. \A i \in 1..n : WellMessage(ms[i]) BY <1>1, ListElements DEF Messages
<1> HIDE DEF n
<1>3. \A i \in 1..n : mm[i] = MsgThings(ms[i]) /\ IsList(mm[i]) BY <1>1, <1>2, MsgLists
<1>4. IsList(mm) /\ Len(mm) = n /\ \A y \in ToSet(mm) : \E i \in 1..n : y = mm[i]
  <2>1. mm = [i \in 1..n |-> mm[i]] BY <1>1
  <2> HIDE DEF mm
  <2> QED BY <1>1, <2>1, ListMade
<1> HIDE DEF mm
<1>5. Lists(mm) BY <1>3, <1>4 DEF Lists
<1>6. PICK q : Chained(q, mm) BY <1>5, FlattenChain
<1>7. q[0] = << >> /\ FlattenSeq(mm) = q[n] /\ (\A k \in 1..n : q[k] = q[k-1] \o mm[k])
      /\ \A k \in 0..n : IsList(q[k])
  BY <1>4, <1>6 DEF Chained
<1>8. PICK r : Chat!IsTrace(r, 0, NoChat, ms, n) /\ Chat!Fold(0, NoChat, ms) = r[n]
  BY <1>1, Chat!FoldTrace
<1>9. r[0] = NoChat /\ \A k \in 1..n : r[k] = chatMessage(r[k-1], ms[k])
  BY <1>8 DEF Chat!IsTrace, ChatOp
<1> DEFINE K == {k \in Nat : k <= n => Tells(r[k].messages, q[k])}
<1>10. 0 \in K
  <2>1. r[0].messages = << >> BY <1>9 DEF NoChat
  <2> QED BY <1>7, <2>1, TellsNothing
<1>11. ASSUME NEW k \in Nat, k \in K PROVE k + 1 \in K
  <2> SUFFICES ASSUME k + 1 <= n PROVE Tells(r[k + 1].messages, q[k + 1]) OBVIOUS
  <2>1. k + 1 \in 1..n /\ k \in 0..n /\ (k + 1) - 1 = k BY <1>1
  <2>2. Tells(r[k].messages, q[k]) BY <1>11, <2>1
  <2>3. PICK m : m = ms[k + 1] OBVIOUS
  <2>4. r[k + 1] = chatMessage(r[k], m) /\ q[k + 1] = q[k] \o MsgThings(m) /\ WellMessage(m)
    BY <1>2, <1>3, <1>7, <1>9, <2>1, <2>3
  <2>5. CASE m.role \in SystemRoles
    <3>1. r[k + 1] = r[k] BY <2>4, <2>5 DEF chatMessage, SystemRoles
    <3>2. MsgThings(m) = << >> BY <2>5 DEF MsgThings
    <3>3. IsList(q[k]) BY <1>7, <2>1
    <3>4. q[k + 1] = q[k] BY <2>4, <3>2, <3>3, ConcatSame
    <3> QED BY <2>2, <3>1, <3>4
  <2>6. CASE m.role \notin SystemRoles
    <3>1. PICK names : r[k + 1] = [messages |-> Append(r[k].messages, ccMessage(m, names)),
                                   names |-> names]
      BY <2>4, <2>6 DEF chatMessage, SystemRoles
    <3>2. r[k + 1].messages = Append(r[k].messages, ccMessage(m, names)) BY <3>1
    <3>3. IsList(ccMessage(m, names).content) BY <2>4, WireContent
    <3>4. Tells(r[k + 1].messages, q[k] \o SentThings(ccMessage(m, names)))
      BY <2>2, <3>2, <3>3, TellsMore
    <3>5. SentThings(ccMessage(m, names)) = MsgThings(m) BY <2>6, NamesDoNotMatter
    <3> QED BY <2>4, <3>4, <3>5
  <2> QED BY <2>5, <2>6
<1> HIDE DEF K
<1>12. \A k \in Nat : k \in K BY <1>10, <1>11, Chat!SetInduction
<1>13. Tells(r[n].messages, q[n]) BY <1>1, <1>12 DEF K
<1>14. Meant(ms) = q[n] BY <1>7 DEF Meant, mm
<1>15. chatMessages(ms) = r[n].messages BY <1>8, ChatIsFold
<1> QED BY <1>13, <1>14, <1>15

-----------------------------------------------------------------------------
\* The system's texts reach the upstream's, whatever is split or dropped on the way.
BlockTexts(system) == FlattenSeq([i \in DOMAIN system |-> system[i].text])

SystemOf(ms) == Passing(ms, LAMBDA m : m.role \in {"system", "developer"})

PartsOf(system) == FlattenSeq([i \in DOMAIN system |-> system[i].content])

BlocksOf(parts) == Passing(parts, LAMBDA p : p.text # << >> \/ p.cache)

Joinings(T) == [m \in T |-> Joined(m.content)]

\* Several lists of parts, joined.
LEMMA JoinedFlatten ==
  ASSUME NEW ss, Lists(ss), \A x \in ToSet(ss) : Texted(x)
  PROVE  /\ Joined(FlattenSeq(ss)) = FlattenSeq([i \in DOMAIN ss |-> Joined(ss[i])])
         /\ IsList(FlattenSeq(ss)) /\ Texted(FlattenSeq(ss))
<1> DEFINE f == TextOn(All(ss))
           s == FlattenSeq(ss)
<1>1. IsList(s) /\ ToSet(s) \subseteq All(ss) BY FlattenConcat
<1>2. \A p \in All(ss) : IsList(p.text) BY DEF All, Texted
<1>3. Texted(s) BY <1>1, <1>2 DEF Texted
<1> HIDE DEF s
<1>4. Joined(s) = FlatOn(f, s) BY <1>1, <1>2, JoinedFlat
<1>5. \A p \in All(ss) : IsList(f[p]) BY <1>2 DEF TextOn
<1>6. ASSUME NEW i \in DOMAIN ss PROVE FlatOn(f, ss[i]) = Joined(ss[i])
  <2>1. ss[i] \in ToSet(ss) BY ListElements DEF Lists
  <2>2. IsList(ss[i]) /\ ToSet(ss[i]) \subseteq All(ss) BY <2>1 DEF Lists, All
  <2> QED BY <1>2, <2>2, JoinedFlat
<1> HIDE DEF f
<1>7. FlatOn(f, FlattenSeq(ss)) = FlattenSeq([i \in DOMAIN ss |-> FlatOn(f, ss[i])])
  BY <1>5, FlatOnFlatten
<1>8. [i \in DOMAIN ss |-> FlatOn(f, ss[i])] = [i \in DOMAIN ss |-> Joined(ss[i])]
  BY <1>6
<1> QED BY <1>1, <1>3, <1>4, <1>7, <1>8 DEF s

\* What the elements that pass a test have, joined.
LEMMA JoinedPassing ==
  ASSUME NEW S, NEW s, IsList(s), Texted(s), \A p \in ToSet(s) : p \notin S => p.text = << >>
  PROVE  /\ Joined(Filter(S, s)) = Joined(s)
         /\ IsList(Filter(S, s)) /\ Texted(Filter(S, s))
<1> DEFINE f == TextOn(ToSet(s))
           t == Filter(S, s)
<1>1. IsList(t) /\ ToSet(t) \subseteq ToSet(s) BY FilterList
<1>2. Texted(t) BY <1>1 DEF Texted
<1> HIDE DEF t
<1>3. Joined(t) = FlatOn(f, t) /\ Joined(s) = FlatOn(f, s) /\ Maps(f, s)
  BY <1>1, JoinedFlat DEF Texted
<1>4. \A x \in ToSet(s) : f[x] = IF x \in S THEN f[x] ELSE << >> BY DEF TextOn
<1> HIDE DEF f
<1>5. FlatOn(f, Filter(S, s)) = FlatOn(f, s) BY <1>3, <1>4, FilterMap
<1> QED BY <1>1, <1>2, <1>3, <1>5 DEF t

LEMMA SystemTexts ==
  ASSUME NEW ms, Messages(ms)
  PROVE  /\ BlockTexts(systemBlocksFromMessages(ms)) = SystemText(ms)
         /\ IsList(systemBlocksFromMessages(ms))
<1> DEFINE S == {m \in ToSet(ms) : m.role \in SystemRoles}
           system == SystemOf(ms)
           cc == [i \in DOMAIN system |-> system[i].content]
           parts == PartsOf(system)
           blocks == BlocksOf(parts)
           out == systemBlocksFromMessages(ms)
<1>1. IsList(ms) /\ (\A i \in DOMAIN ms : ms[i] \in ToSet(ms))
      /\ \A m \in ToSet(ms) : WellMessage(m)
  BY ListElements DEF Messages
<1>2. system = Filter(S, ms) BY <1>1 DEF SystemOf, Passing, Filter, SystemRoles
<1>3. IsList(system) /\ ToSet(system) \subseteq S BY <1>1, <1>2, FilterList
<1>4. ASSUME NEW m \in ToSet(system) PROVE IsList(m.content) /\ Texted(m.content)
  BY <1>1, <1>3 DEF WellMessage
<1>5. out = [i \in DOMAIN blocks |->
               [text |-> blocks[i].text, newline |-> i < Len(blocks), cache |-> blocks[i].cache]]
  BY DEF systemBlocksFromMessages, SystemOf, PartsOf, BlocksOf
<1> HIDE DEF system, S, out
<1>6. IsList(cc) /\ ToSet(cc) = {m.content : m \in ToSet(system)}
  <2>1. DOMAIN cc = DOMAIN system /\ cc = [i \in DOMAIN system |-> cc[i]] OBVIOUS
  <2>2. ToSet(cc) = {m.content : m \in ToSet(system)} BY DEF ToSet
  <2> HIDE DEF cc
  <2> QED BY <1>3, <2>1, <2>2, MadeList
<1>7. Lists(cc) /\ \A x \in ToSet(cc) : Texted(x) BY <1>4, <1>6 DEF Lists
<1>8. parts = FlattenSeq(cc) BY DEF PartsOf
<1> HIDE DEF cc, parts
<1>9. /\ Joined(parts) = FlattenSeq([i \in DOMAIN cc |-> Joined(cc[i])])
      /\ IsList(parts) /\ Texted(parts)
  BY <1>7, <1>8, JoinedFlatten
<1>10. [i \in DOMAIN cc |-> Joined(cc[i])] = [i \in DOMAIN system |-> Joined(system[i].content)]
  BY DEF cc
<1>11. FlattenSeq([i \in DOMAIN system |-> Joined(system[i].content)]) = SystemText(ms)
  <2> DEFINE f == Joinings(ToSet(ms))
             g == SystemOn(ToSet(ms))
  <2>1. \A i \in DOMAIN system : system[i] \in ToSet(ms) BY <1>3, ListElements DEF S
  <2>2. \A i \in DOMAIN system : f[system[i]] = Joined(system[i].content)
    BY <2>1 DEF Joinings
  <2>3. FlattenSeq([i \in DOMAIN system |-> Joined(system[i].content)]) = FlatOn(f, system)
    BY <2>2 DEF FlatOn, On
  <2>4. \A m \in ToSet(ms) : f[m] = Joined(m.content) /\ IsList(Joined(m.content))
    BY <1>1, JoinedConcat DEF Joinings, WellMessage
  <2>5. Maps(f, ms) BY <2>4 DEF Maps
  <2>6. \A m \in ToSet(ms) : g[m] = IF m \in S THEN f[m] ELSE << >>
    BY <2>4 DEF SystemOn, MsgSystem, S
  <2>7. SystemText(ms) = FlatOn(g, ms) BY SaysFlat
  <2> HIDE DEF f, g
  <2>8. FlatOn(f, Filter(S, ms)) = FlatOn(g, ms) BY <1>1, <2>5, <2>6, FilterMap
  <2> QED BY <1>2, <2>3, <2>7, <2>8
<1>12. Joined(blocks) = Joined(parts) /\ IsList(blocks)
  <2> DEFINE B == {p \in ToSet(parts) : p.text # << >> \/ p.cache}
  <2>1. \A i \in DOMAIN parts : parts[i] \in ToSet(parts) BY <1>9, ListElements
  <2>2. blocks = Filter(B, parts) BY <2>1 DEF BlocksOf, Passing, Filter
  <2>3. \A p \in ToSet(parts) : p \notin B => p.text = << >> OBVIOUS
  <2> HIDE DEF B, blocks
  <2> QED BY <1>9, <2>2, <2>3, JoinedPassing
<1> HIDE DEF blocks
<1>13. BlockTexts(out) = Joined(blocks) BY <1>5 DEF BlockTexts, Joined
<1>14. IsList(out)
  <2>1. DOMAIN out = DOMAIN blocks /\ out = [i \in DOMAIN blocks |-> out[i]] BY <1>5
  <2> QED BY <1>12, <2>1, MadeList
<1>15. BlockTexts(out) = SystemText(ms) BY <1>9, <1>10, <1>11, <1>12, <1>13
<1> QED BY <1>14, <1>15 DEF out

-----------------------------------------------------------------------------
\* What buildCcRequest makes of messages.
LEMMA Built ==
  ASSUME NEW payload, NEW x, NEW y, Says(payload.messages, x, y)
  PROVE  /\ Told(buildCcRequest(payload).messages) = x
         /\ y # << >> => BlockTexts(buildCcRequest(payload).system) = y
<1> DEFINE ms == payload.messages
           b == systemBlocksFromMessages(ms)
           c == chatMessages(ms)
           key == payload.prompt_cache_key
           r == buildCcRequest(payload)
<1>1. Messages(ms) /\ Meant(ms) = x /\ SystemText(ms) = y BY DEF Says
<1>2. r.messages = c /\ (b # << >> => r.system = Marked(b, c, key)) BY DEF buildCcRequest
<1> HIDE DEF r, b, c, key, ms
<1>3. Told(c) = x BY <1>1, ChatTells DEF Tells, c
<1>4. BlockTexts(b) = y /\ IsList(b) BY <1>1, SystemTexts DEF b
<1>5. ASSUME y # << >> PROVE BlockTexts(r.system) = y
  <2>1. b # << >>
    <3>1. BlockTexts(<< >>) = << >>
      <4>1. [i \in DOMAIN << >> |-> << >>[i].text] = << >>
        <5>1. DOMAIN << >> = {} BY NoList
        <5> QED BY <5>1
      <4> QED BY <4>1, FlattenNone DEF BlockTexts
    <3> QED BY <1>4, <1>5, <3>1
  <2>2. r.system = Marked(b, c, key) BY <1>2, <2>1
  <2>3. CASE Marked(b, c, key) = b BY <1>4, <2>2, <2>3
  <2>4. CASE Marked(b, c, key) # b
    <3>1. r.system = [b EXCEPT ![Len(b)].cache = TRUE] BY <2>2, <2>4 DEF Marked
    <3>2. DOMAIN r.system = DOMAIN b BY <3>1
    <3>3. \A i \in DOMAIN b : r.system[i].text = b[i].text
      <4>1. \A i \in DOMAIN b : r.system[i] = IF i = Len(b) THEN [b[i] EXCEPT !.cache = TRUE] ELSE b[i]
        BY <3>1
      <4>2. \A i \in DOMAIN b : b[i].text = b[i].text /\ DOMAIN b[i] = {"text", "newline", "cache"}
        BY DEF b, systemBlocksFromMessages
      <4> QED BY <4>1, <4>2
    <3>4. BlockTexts(r.system) = BlockTexts(b) BY <3>2, <3>3 DEF BlockTexts
    <3> QED BY <1>4, <3>4
  <2> QED BY <2>3, <2>4
<1> QED BY <1>2, <1>3, <1>5 DEF r

-----------------------------------------------------------------------------
(* What each kind of message says.                                         *)

\* A part of a message, said by a role.
ThingOf(role, p) ==
  LET kind == CASE p.type = "text" /\ role = "assistant" -> "answer"
                [] p.type = "tool-call" -> "call"
                [] p.type = "tool-result" -> "result"
                [] OTHER -> p.type
  IN Thing(kind, p.text, p.id, IF kind = "call" THEN p.name ELSE "", p.cache)

LEMMA SentIs == \A m : SentThings(m) = [i \in DOMAIN m.content |-> ThingOf(m.role, m.content[i])]
BY DEF SentThings, ThingOf

LEMMA ThingsAre ==
  /\ \A text, cache : ThingOf("user", Text(text, cache)) = Thing("text", text, NoId, "", cache)
  /\ \A text : ThingOf("user", Part("image", text, FALSE, NoId, "")) = Thing("image", text, NoId, "", FALSE)
  /\ \A text : ThingOf("assistant", Text(text, FALSE)) = Thing("answer", text, NoId, "", FALSE)
  /\ \A text : ThingOf("assistant", Part("reasoning", text, FALSE, NoId, ""))
                 = Thing("reasoning", text, NoId, "", FALSE)
  /\ \A id, name : ThingOf("assistant", Part("tool-call", << >>, FALSE, id, name))
                     = Thing("call", << >>, id, name, FALSE)
BY DEF ThingOf, Text, Part

LEMMA TextFields ==
  \A text, cache : /\ Text(text, cache).type = "text" /\ Text(text, cache).text = text
                   /\ Text(text, cache).cache = cache
BY DEF Text, Part

IsAnswer(a) ==
  /\ IsList(a.thinking) /\ IsList(a.text) /\ IsList(a.calls)
  /\ \A c \in ToSet(a.calls) : c = Part("tool_use", << >>, FALSE, c.id, c.name)

TextParts(text) == IF text = << >> THEN << >> ELSE << Text(text, FALSE) >>

AnswerMessage(a) ==
  [Message("assistant", TextParts(a.text)) EXCEPT
     !.reasoning_content = a.thinking, !.tool_calls = a.calls]

LEMMA TextPartsIs ==
  ASSUME NEW text, IsList(text)
  PROVE  /\ IsList(TextParts(text)) /\ Texted(TextParts(text))
         /\ \A p \in ToSet(TextParts(text)) : p.type = "text"
         /\ Joined(TextParts(text)) = text
<1>1. CASE text = << >>
  <2>1. TextParts(text) = << >> BY <1>1 DEF TextParts
  <2> QED BY <1>1, <2>1, NoList, JoinedFew
<1>2. CASE text # << >>
  <2> DEFINE p == Text(text, FALSE)
  <2>1. p.type = "text" /\ p.text = text BY DEF Text, Part
  <2>2. TextParts(text) = << p >> BY <1>2 DEF TextParts
  <2> HIDE DEF p
  <2> QED BY <2>1, <2>2, OneList, JoinedFew
<1> QED BY <1>1, <1>2

\* The text of an answer is nothing or not empty.
LEMMA TextPartsUnempty ==
  ASSUME NEW text
  PROVE  Unempty(TextParts(text)) = TextParts(text)
<1>1. CASE text = << >> BY <1>1 DEF TextParts, Unempty
<1>2. CASE text # << >>
  <2> DEFINE p == Text(text, FALSE)
             e == Text(<< >>, FALSE)
  <2>1. p.text = text /\ e.text = << >> BY DEF Text, Part
  <2>2. TextParts(text) = << p >> BY <1>2 DEF TextParts
  <2>3. p # e BY <1>2, <2>1
  <2> HIDE DEF p, e
  <2>4. << p >> # << e >> BY <2>3
  <2> QED BY <2>2, <2>4 DEF Unempty, e
<1> QED BY <1>1, <1>2

LEMMA SaysAnswer ==
  ASSUME NEW a, IsAnswer(a)
  PROVE  Says(<< AnswerMessage(a) >>, AnswerThings(a), << >>)
<1> DEFINE m == AnswerMessage(a)
           R == IF a.thinking = << >> THEN << >>
                ELSE << Part("reasoning", a.thinking, FALSE, NoId, "") >>
           X == TextParts(a.text)
           C == [i \in DOMAIN a.calls |-> Part("tool-call", << >>, FALSE, a.calls[i].id, a.calls[i].name)]
           w == ccMessage(m, << >>)
           kinds == IF a.thinking = << >> THEN {"text", "reasoning"} ELSE {"text"}
           U == ToSet(w.content)
           g == [p \in U |-> ThingOf("assistant", p)]
<1>1. /\ m.role = "assistant" /\ m.content = X /\ m.reasoning_content = a.thinking
      /\ m.tool_calls = a.calls
  BY DEF AnswerMessage, Message
<1>2. IsList(X) /\ Texted(X) /\ (\A p \in ToSet(X) : p.type = "text") /\ IsList(a.calls)
  BY TextPartsIs DEF IsAnswer
<1>3. WellMessage(m) BY <1>1, <1>2 DEF WellMessage, Uncalled
<1>4. w.role = "assistant" /\ w.content = R \o OfType(X, kinds) \o C
  <2>1. w.role = "assistant" /\ w.content = R \o OfType(Unempty(X), kinds) \o C
    BY <1>1 DEF ccMessage, ccAssistantMessage
  <2>2. Unempty(X) = X BY TextPartsUnempty
  <2> QED BY <2>1, <2>2, Zenon
<1>5. OfType(X, kinds) = X BY <1>2, OfTypeAll
<1>6. IsList(R) BY OneList, NoList
<1>7. IsList(C) /\ Len(C) = Len(a.calls) /\ DOMAIN C = DOMAIN a.calls
  <2>1. DOMAIN C = DOMAIN a.calls /\ C = [i \in DOMAIN a.calls |-> C[i]] OBVIOUS
  <2> HIDE DEF C
  <2> QED BY <1>2, <2>1, MadeList
<1>8. MsgThings(m) = [i \in DOMAIN w.content |-> ThingOf("assistant", w.content[i])]
  BY <1>1, <1>4, SentIs DEF MsgThings, SystemRoles
<1> HIDE DEF w, m, X
<1>9. w.content = R \o X \o C /\ IsList(R \o X) BY <1>2, <1>4, <1>5, <1>6, Concatenated
<1>10. IsList(w.content) /\ U = ToSet(R) \cup ToSet(X) \cup ToSet(C)
  <2>1. PICK rx : rx = R \o X OBVIOUS
  <2>2. ToSet(rx) = ToSet(R) \cup ToSet(X) /\ IsList(rx) BY <1>2, <1>6, <2>1, Concatenated
  <2>3. PICK u : u = rx \o C OBVIOUS
  <2>4. w.content = u BY <1>9, <2>1, <2>3, Zenon
  <2> HIDE DEF R, C
  <2>5. IsList(u) /\ ToSet(u) = ToSet(rx) \cup ToSet(C) BY <1>7, <2>2, <2>3, Concatenated
  <2> QED BY <2>2, <2>4, <2>5
<1>11. MsgThings(m) = On(g, w.content)
  <2>1. \A i \in DOMAIN w.content : w.content[i] \in U BY <1>10, ListElements
  <2> QED BY <1>8, <2>1 DEF On
<1>12. \A p \in U : g[p] = ThingOf("assistant", p) OBVIOUS
<1> HIDE DEF g, U
<1>13. On(g, w.content) = On(g, R) \o On(g, X) \o On(g, C)
  <2>1. PICK rx : rx = R \o X OBVIOUS
  <2>2. w.content = rx \o C /\ IsList(rx) BY <1>9, <2>1, Zenon
  <2>3. On(g, rx) = On(g, R) \o On(g, X) BY <1>2, <1>6, <2>1, OnConcat
  <2> HIDE DEF R, C
  <2>4. On(g, rx \o C) = On(g, rx) \o On(g, C) BY <1>7, <2>2, OnConcat
  <2> QED BY <2>2, <2>3, <2>4, Zenon
<1>14. On(g, R) = IF a.thinking = << >> THEN << >>
                  ELSE << Thing("reasoning", a.thinking, NoId, "", FALSE) >>
  <2>1. CASE a.thinking = << >> BY <2>1, OnNone
  <2>2. CASE a.thinking # << >>
    <3>1. PICK p : p = Part("reasoning", a.thinking, FALSE, NoId, "") OBVIOUS
    <3>2. R = << p >> BY <2>2, <3>1
    <3>3. p \in U BY <1>10, <3>2, OneList
    <3>4. g[p] = Thing("reasoning", a.thinking, NoId, "", FALSE) BY <1>12, <3>1, <3>3, ThingsAre
    <3> QED BY <2>2, <3>2, <3>4, OnOne
  <2> QED BY <2>1, <2>2
<1>15. On(g, X) = IF a.text = << >> THEN << >> ELSE << Thing("answer", a.text, NoId, "", FALSE) >>
  <2>1. CASE a.text = << >> BY <2>1, OnNone DEF X, TextParts
  <2>2. CASE a.text # << >>
    <3>1. PICK p : p = Text(a.text, FALSE) OBVIOUS
    <3>2. X = << p >> BY <2>2, <3>1 DEF X, TextParts
    <3>3. p \in U BY <1>10, <3>2, OneList
    <3>4. g[p] = Thing("answer", a.text, NoId, "", FALSE) BY <1>12, <3>1, <3>3, ThingsAre
    <3> QED BY <2>2, <3>2, <3>4, OnOne
  <2> QED BY <2>1, <2>2
<1>16. On(g, C) = [i \in DOMAIN a.calls |->
                     Thing("call", << >>, a.calls[i].id, a.calls[i].name, FALSE)]
  <2>1. ASSUME NEW i \in DOMAIN C
        PROVE  g[C[i]] = Thing("call", << >>, a.calls[i].id, a.calls[i].name, FALSE)
    <3>1. C[i] = Part("tool-call", << >>, FALSE, a.calls[i].id, a.calls[i].name) BY <1>7
    <3>2. C[i] \in ToSet(C) BY <1>7, ListElements
    <3> HIDE DEF C
    <3>3. g[C[i]] = ThingOf("assistant", C[i]) BY <1>10, <1>12, <3>2
    <3> QED BY <3>1, <3>3, ThingsAre
  <2> HIDE DEF C
  <2> QED BY <1>7, <2>1 DEF On
<1> HIDE DEF R, C
<1>17. MsgThings(m) = AnswerThings(a) BY <1>11, <1>13, <1>14, <1>15, <1>16 DEF AnswerThings
<1>18. MsgSystem(m) = << >> BY <1>1 DEF MsgSystem, SystemRoles
<1> QED BY <1>3, <1>17, <1>18, SaysOne DEF m

-----------------------------------------------------------------------------
UserContent(parts) ==
  [i \in DOMAIN parts |-> IF parts[i].type = "image"
                          THEN Part("image_url", parts[i].text, FALSE, NoId, "") ELSE parts[i]]

PartThings(parts) ==
  [i \in DOMAIN parts |-> Thing(parts[i].type, parts[i].text, NoId, "", parts[i].cache)]

IsSaid(parts) == IsList(parts) /\ \A p \in ToSet(parts) : IsText(p) \/ IsPicture(p)

LEMMA SaysUser ==
  ASSUME NEW parts, IsSaid(parts)
  PROVE  Says(<< Message("user", UserContent(parts)) >>, PartThings(parts), << >>)
<1> DEFINE c == UserContent(parts)
           m == Message("user", c)
           w == ccMessage(m, << >>)
<1>1. m.role = "user" /\ m.content = c /\ m.tool_calls = << >> BY DEF Message
<1>2. IsList(parts) /\ (\A i \in DOMAIN parts : parts[i] \in ToSet(parts)) BY ListElements DEF IsSaid
<1>3. \A i \in DOMAIN parts : IsText(parts[i]) \/ IsPicture(parts[i]) BY <1>2 DEF IsSaid
<1>4. DOMAIN c = DOMAIN parts /\ c = [i \in DOMAIN parts |-> c[i]]
      /\ \A i \in DOMAIN parts : c[i] = IF parts[i].type = "image"
                                        THEN Part("image_url", parts[i].text, FALSE, NoId, "")
                                        ELSE parts[i]
  BY DEF UserContent
<1>5. w.role = "user" /\ w.content = ccUserContent(c) BY <1>1 DEF ccMessage
<1> HIDE DEF c, m, w
<1>6. IsList(c) BY <1>2, <1>4, MadeList
<1>7. ASSUME NEW i \in DOMAIN parts
      PROVE  /\ IsList(c[i].text)
             /\ c[i].type \notin {"tool-call", "call"}
             /\ ThingOf("user", ccUserContent(c)[i])
                  = Thing(parts[i].type, parts[i].text, NoId, "", parts[i].cache)
  <2>1. PICK p : p = parts[i] OBVIOUS
  <2>2. ccUserContent(c)[i] = IF c[i].type = "image_url"
                              THEN Part("image", c[i].text, FALSE, NoId, "") ELSE c[i]
    BY <1>4 DEF ccUserContent
  <2>3. CASE IsText(p)
    <3>1. p = Text(p.text, p.cache) /\ IsList(p.text) BY <2>3 DEF IsText
    <3>2. PICK x, y : x = p.text /\ y = p.cache OBVIOUS
    <3>21. p = Text(x, y) BY <3>1, <3>2, Zenon
    <3>22. Text(x, y).type = "text" BY TextFields
    <3>23. p.type = "text" BY <3>21, <3>22, Zenon
    <3>3. c[i] = p BY <1>4, <2>1, <3>23
    <3>4. ccUserContent(c)[i] = p BY <2>2, <3>23, <3>3
    <3>5. c[i].type \notin {"tool-call", "call"} BY <3>23, <3>3
    <3> QED BY <2>1, <3>1, <3>23, <3>3, <3>4, <3>5, ThingsAre
  <2>4. CASE IsPicture(p)
    <3>1. p = Part("image", p.text, FALSE, NoId, "") /\ IsList(p.text) BY <2>4 DEF IsPicture
    <3>2. PICK x : x = p.text OBVIOUS
    <3>21. p = Part("image", x, FALSE, NoId, "") BY <3>1, <3>2, Zenon
    <3>22. Part("image", x, FALSE, NoId, "").type = "image"
           /\ Part("image", x, FALSE, NoId, "").cache = FALSE
      BY DEF Part
    <3>23. p.type = "image" /\ p.cache = FALSE BY <3>21, <3>22, Zenon
    <3>3. c[i] = Part("image_url", p.text, FALSE, NoId, "") BY <1>4, <2>1, <3>23
    <3>4. c[i].text = p.text /\ c[i].type = "image_url"
      <4>1. Part("image_url", x, FALSE, NoId, "").text = x
            /\ Part("image_url", x, FALSE, NoId, "").type = "image_url"
        BY DEF Part
      <4> QED BY <3>2, <3>3, <4>1, Zenon
    <3>5. ccUserContent(c)[i] = Part("image", p.text, FALSE, NoId, "") BY <2>2, <3>4
    <3> QED BY <2>1, <3>1, <3>23, <3>4, <3>5, ThingsAre
  <2> QED BY <1>3, <2>1, <2>3, <2>4
<1>8. Texted(c)
  <2>1. ASSUME NEW p \in ToSet(c) PROVE IsList(p.text)
    <3>1. PICK i \in DOMAIN c : p = c[i] BY <1>6, ListElements
    <3> QED BY <1>4, <1>7, <3>1
  <2> QED BY <2>1 DEF Texted
<1>81. Uncalled(m)
  <2>1. ASSUME NEW p \in ToSet(c) PROVE p.type \notin {"tool-call", "call"}
    <3>1. PICK i \in DOMAIN c : p = c[i] BY <1>6, ListElements
    <3> QED BY <1>4, <1>7, <3>1
  <2> QED BY <1>1, <2>1 DEF Uncalled
<1>9. WellMessage(m) BY <1>1, <1>6, <1>8, <1>81, NoList DEF WellMessage
<1>10. MsgThings(m) = PartThings(parts)
  <2>1. MsgThings(m) = [i \in DOMAIN w.content |-> ThingOf("user", w.content[i])]
    BY <1>1, <1>5, SentIs DEF MsgThings, SystemRoles, w
  <2>2. DOMAIN w.content = DOMAIN parts BY <1>4, <1>5 DEF ccUserContent
  <2> QED BY <1>5, <1>7, <2>1, <2>2 DEF PartThings
<1>11. MsgSystem(m) = << >> BY <1>1 DEF MsgSystem, SystemRoles
<1>12. Says(<< m >>, PartThings(parts), << >>) BY <1>9, <1>10, <1>11, SaysOne
<1> QED BY <1>12 DEF m, c

LEMMA SaysTool ==
  ASSUME NEW id, NEW name, NEW text, IsList(text)
  PROVE  Says(<< ToolMessage(id, name, text) >>, << Thing("result", text, id, "", FALSE) >>, << >>)
<1> DEFINE m == ToolMessage(id, name, text)
           p == Text(text, FALSE)
           w == ccMessage(m, << >>)
           q == Part("tool-result", text, FALSE, id, toolResultName(m, << >>))
<1>1. m.role = "tool" /\ m.content = << p >> /\ m.tool_calls = << >> /\ m.tool_call_id = id
  BY DEF ToolMessage, Message
<1>2. p.type = "text" /\ p.text = text BY DEF Text, Part
<1> HIDE DEF m, p
<1>3. IsList(<< p >>) /\ ToSet(<< p >>) = {p} BY OneList
<1>4. OfType(<< p >>, {"text"}) = << p >> BY <1>2, <1>3, OfTypeAll
<1>5. Joined(<< p >>) = text /\ Texted(<< p >>) BY <1>2, JoinedFew
<1>6. WellMessage(m) BY <1>1, <1>3, <1>5, NoList DEF WellMessage, Uncalled
<1>7. w.role = "tool" /\ w.content = << q >> BY <1>1, <1>4, <1>5 DEF ccMessage
<1>8. q.type = "tool-result" /\ q.text = text /\ q.id = id /\ q.cache = FALSE BY DEF Part
<1> HIDE DEF q
<1>9. ThingOf("tool", q) = Thing("result", text, id, "", FALSE) BY <1>8 DEF ThingOf
<1>10. MsgThings(m) = << Thing("result", text, id, "", FALSE) >>
  <2>1. MsgThings(m) = [i \in DOMAIN << q >> |-> ThingOf("tool", << q >>[i])]
    BY <1>1, <1>7, SentIs DEF MsgThings, SystemRoles
  <2>2. PICK th : th = Thing("result", text, id, "", FALSE) OBVIOUS
  <2>3. DOMAIN << q >> = {1} /\ << q >>[1] = q /\ [i \in {1} |-> th] = << th >> OBVIOUS
  <2> QED BY <1>9, <2>1, <2>2, <2>3
<1>11. MsgSystem(m) = << >> BY <1>1 DEF MsgSystem, SystemRoles
<1> QED BY <1>6, <1>10, <1>11, SaysOne DEF m

LEMMA SaysSystem ==
  ASSUME NEW parts, IsList(parts), Texted(parts)
  PROVE  Says(<< Message("system", parts) >>, << >>, Joined(parts))
<1> DEFINE m == Message("system", parts)
<1>1. m.role = "system" /\ m.content = parts /\ m.tool_calls = << >> BY DEF Message
<1> HIDE DEF m
<1>2. WellMessage(m) BY <1>1, NoList DEF WellMessage, Uncalled
<1>3. MsgThings(m) = << >> /\ MsgSystem(m) = Joined(parts)
  BY <1>1 DEF MsgThings, MsgSystem, SystemRoles
<1> QED BY <1>2, <1>3, SaysOne DEF m

-----------------------------------------------------------------------------
(* The turns of a conversation, and the request of an OpenAI client.       *)

LEMMA SaysEach ==
  ASSUME NEW ms, IsList(ms), NEW tt, NEW yy,
         tt = [i \in DOMAIN ms |-> tt[i]], yy = [i \in DOMAIN ms |-> yy[i]],
         \A i \in DOMAIN ms : Says(<< ms[i] >>, tt[i], yy[i])
  PROVE  Says(ms, FlattenSeq(tt), FlattenSeq(yy))
<1>1. ASSUME NEW i \in DOMAIN ms
      PROVE  WellMessage(ms[i]) /\ MsgThings(ms[i]) = tt[i] /\ MsgSystem(ms[i]) = yy[i]
  <2>1. PICK m : m = ms[i] OBVIOUS
  <2>2. Says(<< m >>, tt[i], yy[i]) BY <2>1
  <2>3. m \in ToSet(<< m >>) BY OneList
  <2>4. WellMessage(m) BY <2>2, <2>3 DEF Says, Messages
  <2>5. Says(<< m >>, MsgThings(m), MsgSystem(m)) BY <2>4, SaysOne
  <2> QED BY <2>1, <2>2, <2>4, <2>5 DEF Says
<1>2. Messages(ms)
  <2>1. ASSUME NEW m \in ToSet(ms) PROVE WellMessage(m)
    <3>1. PICK i \in DOMAIN ms : m = ms[i] BY ListElements
    <3> QED BY <1>1, <3>1
  <2> QED BY <2>1 DEF Messages
<1>3. [i \in DOMAIN ms |-> MsgThings(ms[i])] = tt BY <1>1
<1>4. [i \in DOMAIN ms |-> MsgSystem(ms[i])] = yy BY <1>1
<1> QED BY <1>2, <1>3, <1>4 DEF Says, Meant, SystemText

LEMMA SaysLists ==
  ASSUME NEW ms, NEW x, NEW y, Says(ms, x, y)
  PROVE  IsList(x) /\ IsList(y) /\ IsList(ms)
<1>1. Messages(ms) /\ Meant(ms) = x /\ SystemText(ms) = y BY DEF Says
<1> DEFINE f == MeantOn(ToSet(ms))
           g == SystemOn(ToSet(ms))
<1>2. /\ Meant(ms) = FlatOn(f, ms) /\ Maps(f, ms)
      /\ SystemText(ms) = FlatOn(g, ms) /\ Maps(g, ms) /\ IsList(ms)
  BY <1>1, SaysFlat
<1> HIDE DEF f, g
<1> QED BY <1>1, <1>2, FlatOnLists

\* A turn of a client that speaks f.
IsUserTurn(f, t) ==
  /\ t.kind = "user" /\ IsSaid(t.parts)
  /\ f = "openai-response" =>
       \E text : t.parts = << Text(text, FALSE) >> /\ IsList(text) /\ text # << >>

IsSystemTurn(f, t) ==
  /\ t.kind = "system" /\ f # "claude"
  /\ \E text : t.parts = << Text(text, FALSE) >> /\ IsList(text)

IsAnswerTurn(t) == t.kind = "answer" /\ \E a : t.answer = << a >> /\ IsAnswer(a)

IsResultTurn(t) ==
  t.kind = "result" /\ \E text : t.parts = << Text(text, FALSE) >> /\ IsList(text)

IsTurn(f, t) == IsUserTurn(f, t) \/ IsSystemTurn(f, t) \/ IsAnswerTurn(t) \/ IsResultTurn(t)

\* Two answers never follow one another, and a result follows its call or a result.
Follows(t, u) ==
  /\ u.kind = "answer" => t.kind # "answer"
  /\ u.kind = "result" => t.kind \in {"answer", "result"}

AreTurns(f, turns) ==
  /\ IsList(turns) /\ \A i \in 1..Len(turns) : IsTurn(f, turns[i])
  /\ Len(turns) # 0 /\ turns[1].kind = "user"
  /\ \A i \in 1..Len(turns) : i # 1 => Follows(turns[i-1], turns[i])

TurnSystem(t) == IF t.kind = "system" THEN Joined(t.parts) ELSE << >>

Spoken(turns) == FlattenSeq([i \in DOMAIN turns |-> TurnThings(turns[i])])

Reminded(turns) == FlattenSeq([i \in DOMAIN turns |-> TurnSystem(turns[i])])

LEMMA UserTurnIs ==
  ASSUME NEW f, NEW t, IsUserTurn(f, t)
  PROVE  TurnThings(t) = PartThings(t.parts) /\ TurnSystem(t) = << >>
BY DEF IsUserTurn, TurnThings, PartThings, TurnSystem

LEMMA SystemTurnIs ==
  ASSUME NEW f, NEW t, IsSystemTurn(f, t)
  PROVE  /\ TurnThings(t) = << >> /\ TurnSystem(t) = Joined(t.parts)
         /\ \E text : /\ t.parts = << Text(text, FALSE) >> /\ IsList(text)
                      /\ Joined(t.parts) = text
         /\ IsList(t.parts) /\ Texted(t.parts)
<1>1. PICK text : t.parts = << Text(text, FALSE) >> /\ IsList(text) BY DEF IsSystemTurn
<1>2. PICK p : p = Text(text, FALSE) OBVIOUS
<1>3. p.text = text BY <1>2, TextFields
<1>4. Joined(<< p >>) = text /\ Texted(<< p >>) /\ IsList(<< p >>) BY <1>1, <1>3, JoinedFew, OneList
<1> QED BY <1>1, <1>2, <1>4 DEF IsSystemTurn, TurnThings, TurnSystem

LEMMA AnswerTurnIs ==
  ASSUME NEW t, IsAnswerTurn(t)
  PROVE  /\ IsAnswer(t.answer[1]) /\ TurnSystem(t) = << >>
         /\ TurnThings(t) = IF /\ format = "openai-response"
                               /\ t.answer[1].text = << >> /\ t.answer[1].calls = << >>
                            THEN << >> ELSE AnswerThings(t.answer[1])
<1>1. PICK a : t.answer = << a >> /\ IsAnswer(a) BY DEF IsAnswerTurn
<1>2. t.answer[1] = a BY <1>1
<1> QED BY <1>1, <1>2 DEF IsAnswerTurn, TurnThings, TurnSystem

LEMMA ResultTurnIs ==
  ASSUME NEW t, IsResultTurn(t)
  PROVE  /\ IsList(t.parts[1].text) /\ TurnSystem(t) = << >>
         /\ TurnThings(t) = << Thing("result", t.parts[1].text, t.id, "", FALSE) >>
<1>1. PICK text : t.parts = << Text(text, FALSE) >> /\ IsList(text) BY DEF IsResultTurn
<1>2. t.parts[1].text = text
  <2>1. PICK p : p = Text(text, FALSE) OBVIOUS
  <2>2. p.text = text BY <2>1, TextFields
  <2>3. t.parts = << p >> BY <1>1, <2>1, Zenon
  <2> QED BY <2>2, <2>3
<1> QED BY <1>1, <1>2 DEF IsResultTurn, TurnThings, TurnSystem

Retype(p, type) == [p EXCEPT !.type = type]

LEMMA Retyped ==
  ASSUME NEW z, NEW y, NEW text, NEW cache, NEW id, NEW name
  PROVE  Retype(Part(z, text, cache, id, name), y) = Part(y, text, cache, id, name)
BY DEF Retype, Part

LEMMA OpenAISays ==
  ASSUME NEW t, IsTurn(format, t), format = "openai"
  PROVE  Says(<< OpenAIMessage(t) >>, TurnThings(t), TurnSystem(t))
<1>1. CASE IsUserTurn(format, t)
  <2>1. IsSaid(t.parts) /\ t.kind = "user" BY <1>1 DEF IsUserTurn
  <2>2. \A i \in DOMAIN t.parts : t.parts[i].type = "image" =>
          [t.parts[i] EXCEPT !.type = "image_url"] = Part("image_url", t.parts[i].text, FALSE, NoId, "")
    <3>1. SUFFICES ASSUME NEW i \in DOMAIN t.parts, t.parts[i].type = "image"
                   PROVE  [t.parts[i] EXCEPT !.type = "image_url"]
                            = Part("image_url", t.parts[i].text, FALSE, NoId, "")
      OBVIOUS
    <3>2. PICK p, x, c : p = t.parts[i] /\ x = p.text /\ c = p.cache OBVIOUS
    <3>3. IsText(p) \/ IsPicture(p) BY <2>1, <3>1, <3>2, ListElements DEF IsSaid
    <3>4. ~IsText(p)
      <4>1. Text(x, c).type = "text" BY TextFields
      <4> QED BY <3>1, <3>2, <4>1 DEF IsText
    <3>5. p = Part("image", x, FALSE, NoId, "") BY <3>2, <3>3, <3>4 DEF IsPicture
    <3>6. [p EXCEPT !.type = "image_url"] = Part("image_url", x, FALSE, NoId, "")
      <4>1. Retype(Part("image", x, FALSE, NoId, ""), "image_url")
              = Part("image_url", x, FALSE, NoId, "")
        <5>1. PICK z, y, c1, id, n : /\ z = "image" /\ y = "image_url" /\ c1 = FALSE
                                    /\ id = NoId /\ n = ""
          OBVIOUS
        <5>2. Retype(Part(z, x, c1, id, n), y) = Part(y, x, c1, id, n) BY Retyped
        <5> QED BY <5>1, <5>2, Zenon
      <4> QED BY <3>5, <4>1, Zenon DEF Retype
    <3> QED BY <3>2, <3>6
  <2>3. OpenAIMessage(t) = Message("user", UserContent(t.parts))
    BY <2>1, <2>2 DEF OpenAIMessage, UserContent
  <2> QED BY <1>1, <2>1, <2>3, SaysUser, UserTurnIs
<1>2. CASE IsSystemTurn(format, t)
  <2>1. PICK text : t.parts = << Text(text, FALSE) >> BY <1>2 DEF IsSystemTurn
  <2>2. PICK p : p = Text(text, FALSE) OBVIOUS
  <2>3. p.type = "text" BY <2>2, TextFields
  <2>4. t.parts = << p >> BY <2>1, <2>2
  <2>5. [i \in DOMAIN t.parts |-> IF t.parts[i].type = "image"
                                  THEN [t.parts[i] EXCEPT !.type = "image_url"] ELSE t.parts[i]]
          = t.parts
    BY <2>3, <2>4
  <2>6. OpenAIMessage(t) = Message("system", t.parts) BY <1>2, <2>5 DEF OpenAIMessage, IsSystemTurn
  <2> QED BY <1>2, <2>6, SystemTurnIs, SaysSystem
<1>3. CASE IsAnswerTurn(t)
  <2>1. OpenAIMessage(t) = AnswerMessage(t.answer[1])
    BY <1>3 DEF OpenAIMessage, IsAnswerTurn, AnswerMessage, TextParts
  <2> QED BY <1>3, <2>1, AnswerTurnIs, SaysAnswer
<1>4. CASE IsResultTurn(t)
  <2>1. OpenAIMessage(t) = ToolMessage(t.id, "", t.parts[1].text)
    BY <1>4 DEF OpenAIMessage, IsResultTurn
  <2> QED BY <1>4, <2>1, ResultTurnIs, SaysTool
<1> QED BY <1>1, <1>2, <1>3, <1>4 DEF IsTurn

\* The system's texts a client opens with.
IsOpened(o) == IsList(o.system) /\ \A p \in ToSet(o.system) : IsText(p)

LEMMA OpenedIs ==
  ASSUME NEW o, IsOpened(o)
  PROVE  /\ IsList(o.system) /\ Texted(o.system)
         /\ \A p \in ToSet(o.system) : p.type = "text"
<1>1. ASSUME NEW p \in ToSet(o.system) PROVE IsList(p.text) /\ p.type = "text"
  <2>1. PICK x, c : p = Text(x, c) /\ IsList(p.text) BY DEF IsOpened, IsText
  <2>2. Text(x, c).type = "text" BY TextFields
  <2> QED BY <2>1, <2>2
<1> QED BY <1>1 DEF IsOpened, Texted

LEMMA OpenAIArrives ==
  ASSUME NEW o, IsOpened(o), NEW turns, AreTurns(format, turns), format = "openai"
  PROVE  Says(OpenAIRequest(o, turns).messages, Spoken(turns), Joined(o.system) \o Reminded(turns))
<1> DEFINE sys == IF o.system = << >> THEN << >> ELSE << Message("system", o.system) >>
           ms == [i \in DOMAIN turns |-> OpenAIMessage(turns[i])]
           tt == [i \in DOMAIN turns |-> TurnThings(turns[i])]
           yy == [i \in DOMAIN turns |-> TurnSystem(turns[i])]
<1>1. OpenAIRequest(o, turns).messages = sys \o ms BY DEF OpenAIRequest
<1>2. Says(sys, << >>, Joined(o.system))
  <2>1. CASE o.system = << >>
    <3>1. Joined(o.system) = << >> /\ sys = << >> BY <2>1, JoinedFew
    <3> QED BY <3>1, SaysNothing
  <2>2. CASE o.system # << >> BY <2>2, OpenedIs, SaysSystem
  <2> QED BY <2>1, <2>2
<1>3. IsList(turns) /\ DOMAIN turns = 1..Len(turns) BY ListElements DEF AreTurns
<1>4. \A i \in DOMAIN turns : Says(<< ms[i] >>, tt[i], yy[i]) BY <1>3, OpenAISays DEF AreTurns
<1>5. /\ DOMAIN ms = DOMAIN turns /\ ms = [i \in DOMAIN turns |-> ms[i]]
      /\ tt = [i \in DOMAIN ms |-> tt[i]] /\ yy = [i \in DOMAIN ms |-> yy[i]]
  OBVIOUS
<1>6. FlattenSeq(tt) = Spoken(turns) /\ FlattenSeq(yy) = Reminded(turns) BY DEF Spoken, Reminded
<1> HIDE DEF ms, tt, yy, sys
<1>7. IsList(ms) BY <1>3, <1>5, MadeList
<1>8. Says(ms, Spoken(turns), Reminded(turns)) BY <1>4, <1>5, <1>6, <1>7, SaysEach
<1>9. Says(sys \o ms, << >> \o Spoken(turns), Joined(o.system) \o Reminded(turns))
  BY <1>2, <1>8, SaysConcat
<1>10. << >> \o Spoken(turns) = Spoken(turns) BY <1>8, SaysLists, ConcatSame
<1> QED BY <1>1, <1>9, <1>10

-----------------------------------------------------------------------------
(* The request of an Anthropic client.                                     *)

Results(c) == OfType(c, {"tool_result"})
Remarks(c) == OfType(c, {"text", "image"})

ResultThings(rs) == [i \in DOMAIN rs |-> Thing("result", rs[i].text, rs[i].id, "", FALSE)]

\* What a message of the user says: its results first.
UserThings(c) == ResultThings(Results(c)) \o PartThings(Remarks(c))

IsResult(p) == p.type = "tool_result" /\ IsList(p.text)

IsUserContent(c) ==
  IsList(c) /\ \A p \in ToSet(c) : IsText(p) \/ IsPicture(p) \/ IsResult(p)

LEMMA SaidTypes ==
  ASSUME NEW p
  PROVE  /\ IsText(p) => p.type = "text" /\ IsList(p.text)
         /\ IsPicture(p) => p.type = "image" /\ IsList(p.text)
<1>1. PICK x, c : x = p.text /\ c = p.cache OBVIOUS
<1>2. Text(x, c).type = "text" BY TextFields
<1>3. Part("image", x, FALSE, NoId, "").type = "image" BY DEF Part
<1>4. IsText(p) => p.type = "text" BY <1>1, <1>2, Zenon DEF IsText
<1>5. IsPicture(p) => p.type = "image" BY <1>1, <1>3, Zenon DEF IsPicture
<1> QED BY <1>4, <1>5 DEF IsText, IsPicture

LEMMA PartThingsAre ==
  /\ PartThings(<< >>) = << >> /\ ResultThings(<< >>) = << >>
  /\ \A s, t : IsList(s) /\ IsList(t) =>
       /\ PartThings(s \o t) = PartThings(s) \o PartThings(t)
       /\ ResultThings(s \o t) = ResultThings(s) \o ResultThings(t)
<1>1. PartThings(<< >>) = << >> /\ ResultThings(<< >>) = << >>
  <2>1. DOMAIN << >> = {} BY NoList
  <2> QED BY <2>1 DEF PartThings, ResultThings
<1>2. ASSUME NEW s, NEW t, IsList(s), IsList(t)
      PROVE  /\ PartThings(s \o t) = PartThings(s) \o PartThings(t)
             /\ ResultThings(s \o t) = ResultThings(s) \o ResultThings(t)
  <2> DEFINE T == ToSet(s) \cup ToSet(t)
             f == [p \in T |-> Thing(p.type, p.text, NoId, "", p.cache)]
             g == [p \in T |-> Thing("result", p.text, p.id, "", FALSE)]
  <2>1. ASSUME NEW u, IsList(u), ToSet(u) \subseteq T
        PROVE  PartThings(u) = On(f, u) /\ ResultThings(u) = On(g, u)
    <3>1. \A i \in DOMAIN u : u[i] \in T BY <2>1, ListElements
    <3>2. \A i \in DOMAIN u :
            /\ f[u[i]] = Thing(u[i].type, u[i].text, NoId, "", u[i].cache)
            /\ g[u[i]] = Thing("result", u[i].text, u[i].id, "", FALSE)
      BY <3>1
    <3> HIDE DEF f, g
    <3> QED BY <3>2 DEF PartThings, ResultThings, On
  <2>2. PICK st : st = s \o t OBVIOUS
  <2>3. IsList(st) /\ ToSet(st) \subseteq T /\ ToSet(s) \subseteq T /\ ToSet(t) \subseteq T
    BY <1>2, <2>2, Concatenated
  <2> HIDE DEF f, g, T
  <2>4. PartThings(st) = On(f, st) /\ ResultThings(st) = On(g, st) BY <2>1, <2>3
  <2>5. PartThings(s) = On(f, s) /\ ResultThings(s) = On(g, s) BY <1>2, <2>1, <2>3
  <2>6. PartThings(t) = On(f, t) /\ ResultThings(t) = On(g, t) BY <1>2, <2>1, <2>3
  <2>7. On(f, s \o t) = On(f, s) \o On(f, t) /\ On(g, s \o t) = On(g, s) \o On(g, t)
    BY <1>2, OnConcat
  <2> QED BY <2>2, <2>4, <2>5, <2>6, <2>7, Zenon
<1> QED BY <1>1, <1>2

LEMMA UserSays ==
  ASSUME NEW c, IsUserContent(c), NEW names
  PROVE  Says(anthropicUser(c, names), UserThings(c), << >>)
<1> DEFINE rs == Results(c)
           said == Remarks(c)
           ms == [i \in DOMAIN rs |-> ToolMessage(rs[i].id, Name(names, rs[i].id), rs[i].text)]
           tt == [i \in DOMAIN rs |-> << Thing("result", rs[i].text, rs[i].id, "", FALSE) >>]
           yy == [i \in DOMAIN rs |-> << >>]
           user == IF said = << >> THEN << >> ELSE << Message("user", UserContent(said)) >>
<1>1. anthropicUser(c, names) = ms \o user
  BY DEF anthropicUser, Results, Remarks, UserContent
<1>2. /\ IsList(rs) /\ ToSet(rs) \subseteq {p \in ToSet(c) : p.type \in {"tool_result"}}
      /\ IsList(said) /\ ToSet(said) \subseteq {p \in ToSet(c) : p.type \in {"text", "image"}}
  BY OfTypeList DEF IsUserContent, Results, Remarks
<1> HIDE DEF rs, said
<1>3. \A i \in DOMAIN rs : IsList(rs[i].text)
  <2>1. ASSUME NEW i \in DOMAIN rs PROVE IsList(rs[i].text)
    <3>1. PICK p : p = rs[i] /\ p \in ToSet(rs) BY <1>2, ListElements
    <3>2. IsText(p) \/ IsPicture(p) \/ IsResult(p) BY <1>2, <3>1 DEF IsUserContent
    <3> QED BY <3>1, <3>2, SaidTypes DEF IsResult
  <2> QED BY <2>1
<1>4. Says(ms, ResultThings(rs), << >>)
  <2>1. /\ DOMAIN ms = DOMAIN rs /\ ms = [i \in DOMAIN rs |-> ms[i]]
        /\ DOMAIN tt = DOMAIN rs /\ tt = [i \in DOMAIN rs |-> tt[i]]
        /\ DOMAIN yy = DOMAIN rs /\ yy = [i \in DOMAIN rs |-> yy[i]]
        /\ \A i \in DOMAIN rs : yy[i] = << >>
    OBVIOUS
  <2>2. \A i \in DOMAIN rs : Says(<< ms[i] >>, tt[i], yy[i]) BY <1>3, SaysTool
  <2>3. \A i \in DOMAIN rs : tt[i] = << ResultThings(rs)[i] >> BY DEF ResultThings
  <2>4. DOMAIN ResultThings(rs) = DOMAIN rs
        /\ ResultThings(rs) = [i \in DOMAIN rs |-> ResultThings(rs)[i]]
    BY DEF ResultThings
  <2> HIDE DEF ms, tt, yy
  <2>5. IsList(ms) /\ IsList(tt) /\ IsList(yy) /\ Len(tt) = Len(rs)
    BY <1>2, <2>1, MadeList
  <2>6. IsList(ResultThings(rs)) /\ Len(ResultThings(rs)) = Len(rs) BY <1>2, <2>4, MadeList
  <2>7. FlattenSeq(tt) = ResultThings(rs)
    <3>1. DOMAIN rs = 1..Len(rs) BY <1>2, ListElements
    <3>2. \A i \in 1..Len(ResultThings(rs)) : tt[i] = << ResultThings(rs)[i] >>
      BY <2>3, <2>6, <3>1
    <3> QED BY <2>5, <2>6, <3>2, FlattenOnes
  <2>8. FlattenSeq(yy) = << >>
    <3>1. ASSUME NEW y \in ToSet(yy) PROVE y = << >>
      <4>1. PICK i \in DOMAIN yy : y = yy[i] BY <2>5, ListElements
      <4> QED BY <2>1, <4>1
    <3> QED BY <2>5, <3>1, FlattenEmpty
  <2>9. Says(ms, FlattenSeq(tt), FlattenSeq(yy)) BY <2>1, <2>2, <2>5, SaysEach
  <2> QED BY <2>7, <2>8, <2>9
<1>5. Says(user, PartThings(said), << >>)
  <2>1. IsSaid(said)
    <3>1. ASSUME NEW p \in ToSet(said) PROVE IsText(p) \/ IsPicture(p)
      <4>1. p.type \in {"text", "image"} /\ p \in ToSet(c) BY <1>2
      <4> QED BY <4>1 DEF IsUserContent, IsResult
    <3> QED BY <1>2, <3>1 DEF IsSaid
  <2>2. CASE said = << >> BY <2>2, SaysNothing, PartThingsAre
  <2>3. CASE said # << >> BY <2>1, <2>3, SaysUser
  <2> QED BY <2>2, <2>3
<1> HIDE DEF ms, user
<1>6. Says(ms \o user, ResultThings(rs) \o PartThings(said), << >> \o << >>)
  BY <1>4, <1>5, SaysConcat
<1>7. << >> \o << >> = << >> BY NoList, ConcatSame
<1> QED BY <1>1, <1>6, <1>7 DEF UserThings, rs, said

-----------------------------------------------------------------------------
\* The blocks of an answer.
AnswerBlocks(a) ==
  (IF a.thinking = << >> THEN << >> ELSE << Part("thinking", a.thinking, FALSE, NoId, "") >>)
  \o TextParts(a.text) \o a.calls

LEMMA Surrounded ==
  ASSUME NEW s, IsList(s)
  PROVE  s \o << >> \o << >> = s /\ << >> \o s \o << >> = s /\ << >> \o << >> \o s = s
<1>1. s \o << >> = s /\ << >> \o s = s BY ConcatSame
<1>2. << >> \o << >> = << >> BY NoList, ConcatSame
<1> QED BY <1>1, <1>2, Zenon

LEMMA OfTypeThree ==
  ASSUME NEW r, NEW x, NEW c, IsList(r), IsList(x), IsList(c), NEW types
  PROVE  OfType(r \o x \o c, types) = OfType(r, types) \o OfType(x, types) \o OfType(c, types)
<1>1. PICK rx : rx = r \o x OBVIOUS
<1>2. IsList(rx) BY <1>1, Concatenated
<1>3. OfType(rx \o c, types) = OfType(rx, types) \o OfType(c, types) BY <1>2, OfTypeConcat
<1>4. OfType(rx, types) = OfType(r, types) \o OfType(x, types) BY <1>1, OfTypeConcat
<1> QED BY <1>1, <1>3, <1>4, Zenon

\* anthropicAssistant puts an answer together again.
LEMMA AssistantIs ==
  ASSUME NEW a, IsAnswer(a)
  PROVE  anthropicAssistant(AnswerBlocks(a)) = AnswerMessage(a)
<1> DEFINE R == IF a.thinking = << >> THEN << >>
                ELSE << Part("thinking", a.thinking, FALSE, NoId, "") >>
           X == TextParts(a.text)
           C == a.calls
           B == AnswerBlocks(a)
<1>1. IsList(X) /\ (\A p \in ToSet(X) : p.type = "text") /\ IsList(C) /\ IsList(a.thinking)
  BY TextPartsIs DEF IsAnswer
<1>2. \A p \in ToSet(C) : p.type = "tool_use"
  <2>1. ASSUME NEW p \in ToSet(C) PROVE p.type = "tool_use"
    <3>1. PICK id, name : p = Part("tool_use", << >>, FALSE, id, name) BY DEF IsAnswer
    <3>2. Part("tool_use", << >>, FALSE, id, name).type = "tool_use" BY DEF Part
    <3> QED BY <3>1, <3>2
  <2> QED BY <2>1
<1>3. IsList(R) /\ (\A p \in ToSet(R) : p.type = "thinking") /\ Joined(R) = a.thinking
  <2>1. CASE a.thinking = << >> BY <2>1, NoList, JoinedFew
  <2>2. CASE a.thinking # << >>
    <3>1. PICK p : p = Part("thinking", a.thinking, FALSE, NoId, "") OBVIOUS
    <3>2. p.type = "thinking" /\ p.text = a.thinking BY <3>1 DEF Part
    <3>3. R = << p >> BY <2>2, <3>1
    <3> QED BY <1>1, <3>2, <3>3, OneList, JoinedFew
  <2> QED BY <2>1, <2>2
<1>4. B = R \o X \o C /\ Unempty(X) = X BY TextPartsUnempty DEF AnswerBlocks
<1> HIDE DEF B, R, X, C
<1>5. ASSUME NEW types
      PROVE  OfType(B, types) = OfType(R, types) \o OfType(X, types) \o OfType(C, types)
  BY <1>1, <1>3, <1>4, OfTypeThree
<1>6. OfType(B, {"text"}) = X
  <2>1. OfType(R, {"text"}) = << >> /\ OfType(X, {"text"}) = X /\ OfType(C, {"text"}) = << >>
    BY <1>1, <1>2, <1>3, OfTypeAll, OfTypeNone
  <2>2. OfType(B, {"text"}) = << >> \o X \o << >> BY <1>5, <2>1, Zenon
  <2> QED BY <1>1, <2>2, Surrounded, Zenon
<1>7. OfType(B, {"thinking"}) = R
  <2>1. /\ OfType(R, {"thinking"}) = R /\ OfType(X, {"thinking"}) = << >>
        /\ OfType(C, {"thinking"}) = << >>
    BY <1>1, <1>2, <1>3, OfTypeAll, OfTypeNone
  <2>2. OfType(B, {"thinking"}) = R \o << >> \o << >> BY <1>5, <2>1, Zenon
  <2> QED BY <1>3, <2>2, Surrounded, Zenon
<1>8. OfType(B, {"tool_use"}) = C
  <2>1. /\ OfType(R, {"tool_use"}) = << >> /\ OfType(X, {"tool_use"}) = << >>
        /\ OfType(C, {"tool_use"}) = C
    BY <1>1, <1>2, <1>3, OfTypeAll, OfTypeNone
  <2>2. OfType(B, {"tool_use"}) = << >> \o << >> \o C BY <1>5, <2>1, Zenon
  <2> QED BY <1>1, <2>2, Surrounded, Zenon
<1>9. anthropicAssistant(B) = AnswerMessage(a)
  BY <1>3, <1>4, <1>6, <1>7, <1>8 DEF anthropicAssistant, AnswerMessage, Message, X, C
<1> QED BY <1>9 DEF B

-----------------------------------------------------------------------------
ConvertOp(p, done, m) == anthropicMessage(done, m)
TurnOp(p, messages, t) == AnthropicTurn(messages, t)

Convert == INSTANCE LeftFold WITH Op <- ConvertOp
Write   == INSTANCE LeftFold WITH Op <- TurnOp

LEMMA ConvertIsFold ==
  \A ms : FoldLeft(anthropicMessage, NoChat, ms) = Convert!Fold(0, NoChat, ms)
BY DEF ConvertOp, Convert!Fold, Convert!FoldLeft, FoldLeft, Convert!MapThenFoldSet,
       MapThenFoldSet, Max, Convert!Max

LEMMA WriteIsFold ==
  \A turns : FoldLeft(AnthropicTurn, << >>, turns) = Write!Fold(0, << >>, turns)
BY DEF TurnOp, Write!Fold, Write!FoldLeft, FoldLeft, Write!MapThenFoldSet,
       MapThenFoldSet, Max, Write!Max

\* A message an Anthropic client writes, and what it says.
IsAnthropic(m) ==
  \/ m.role = "assistant" /\ \E a : m.content = AnswerBlocks(a) /\ IsAnswer(a)
  \/ m.role = "user" /\ IsUserContent(m.content)

AnthropicThings(m) ==
  IF m.role = "assistant" THEN MsgThings(anthropicAssistant(m.content)) ELSE UserThings(m.content)

Converted(ms) == Convert!Fold(0, NoChat, ms).messages

Converts(ms, x) ==
  /\ Says(Converted(ms), x, << >>)
  /\ "messages" \in DOMAIN Convert!Fold(0, NoChat, ms)

LEMMA ConvertMore ==
  ASSUME NEW ms, IsList(ms), NEW x, Converts(ms, x), NEW m, IsAnthropic(m)
  PROVE  Converts(ms \o << m >>, x \o AnthropicThings(m))
<1> DEFINE S == ToSet(ms) \cup {m}
           done == Convert!Fold(0, NoChat, ms)
<1>1. ms \in Seq(ToSet(ms)) BY DEF IsList
<1>2. ms \in Seq(S) /\ m \in S BY <1>1
<1> HIDE DEF S
<1>3. Convert!Fold(0, NoChat, Append(ms, m)) = ConvertOp(0, done, m) BY <1>2, Convert!FoldAppend
<1>4. Append(ms, m) = ms \o << m >> BY AppendedIsConcat
<1>5. Convert!Fold(0, NoChat, ms \o << m >>) = anthropicMessage(done, m)
  BY <1>3, <1>4, Zenon DEF ConvertOp
<1>6. /\ done.messages = Converted(ms) /\ "messages" \in DOMAIN done
      /\ Says(Converted(ms), x, << >>)
  BY DEF Converted, Converts
<1> HIDE DEF done
<1> DEFINE next == anthropicMessage(done, m)
<1>10. SUFFICES /\ Says(next.messages, x \o AnthropicThings(m), << >>)
                /\ "messages" \in DOMAIN next
  BY <1>5, Zenon DEF Converts, Converted
<1>7. << >> \o << >> = << >> BY NoList, ConcatSame
<1>8. CASE m.role = "assistant"
  <2>1. PICK a : m.content = AnswerBlocks(a) /\ IsAnswer(a) BY <1>8 DEF IsAnthropic
  <2>2. anthropicAssistant(m.content) = AnswerMessage(a) BY <2>1, AssistantIs
  <2>3. next.messages = Append(Converted(ms), AnswerMessage(a)) /\ "messages" \in DOMAIN next
    BY <1>6, <1>8, <2>2 DEF anthropicMessage
  <2> HIDE DEF next
  <2>4. Append(Converted(ms), AnswerMessage(a)) = Converted(ms) \o << AnswerMessage(a) >>
    BY <1>6, SaysLists, AppendedIsConcat
  <2>5. Says(<< AnswerMessage(a) >>, AnswerThings(a), << >>) BY <2>1, SaysAnswer
  <2>6. MsgThings(AnswerMessage(a)) = AnswerThings(a)
    <3>1. PICK w : w = AnswerMessage(a) OBVIOUS
    <3>2. w \in ToSet(<< w >>) BY OneList
    <3>3. WellMessage(w) BY <2>5, <3>1, <3>2 DEF Says, Messages
    <3>4. Says(<< w >>, MsgThings(w), MsgSystem(w)) BY <3>3, SaysOne
    <3> QED BY <2>5, <3>1, <3>4 DEF Says
  <2>7. AnthropicThings(m) = AnswerThings(a) BY <1>8, <2>2, <2>6 DEF AnthropicThings
  <2>8. Says(Converted(ms) \o << AnswerMessage(a) >>, x \o AnswerThings(a), << >> \o << >>)
    BY <1>6, <2>5, SaysConcat
  <2> QED BY <1>7, <2>3, <2>4, <2>7, <2>8
<1>9. CASE m.role # "assistant"
  <2>1. m.role = "user" /\ IsUserContent(m.content) BY <1>9 DEF IsAnthropic
  <2>2. PICK u : u = anthropicUser(m.content, done.names) OBVIOUS
  <2>3. next.messages = Converted(ms) \o u /\ "messages" \in DOMAIN next
    <3>1. done.messages \o anthropicUser(m.content, done.names) = Converted(ms) \o u
      BY <1>6, <2>2
    <3>2. anthropicMessage(done, m) = [done EXCEPT !.messages = @ \o anthropicUser(m.content, done.names)]
      BY <2>1 DEF anthropicMessage
    <3> QED BY <1>6, <3>1, <3>2
  <2>4. Says(u, UserThings(m.content), << >>) BY <2>1, <2>2, UserSays
  <2>5. Says(Converted(ms) \o u, x \o UserThings(m.content), << >> \o << >>) BY <1>6, <2>4, SaysConcat
  <2> HIDE DEF next
  <2>6. AnthropicThings(m) = UserThings(m.content) BY <1>9 DEF AnthropicThings
  <2> QED BY <1>7, <2>3, <2>5, <2>6
<1> QED BY <1>8, <1>9

LEMMA ConvertNothing == Converts(<< >>, << >>)
<1>1. DOMAIN << >> = {} BY NoList
<1>2. Convert!Fold(0, NoChat, << >>) = NoChat BY <1>1, Convert!FoldEmpty
<1> QED BY <1>2, SaysNothing DEF Converts, Converted, NoChat

-----------------------------------------------------------------------------
RoleOf(t) == IF t.kind = "answer" THEN "assistant" ELSE "user"

AnthropicMsg(t) == [role |-> RoleOf(t), content |-> AnthropicBlocks(t)]

\* The last message so far ends with turn t.
LastIs(m, t) ==
  /\ m = [role |-> m.role, content |-> m.content]
  /\ IsAnthropic(m) /\ m.role = RoleOf(t)
  /\ t.kind = "result" => Remarks(m.content) = << >>

LEMMA OneMade ==
  ASSUME NEW x
  PROVE  [i \in 1..1 |-> x] = << x >>
OBVIOUS

LEMMA ResultBlock ==
  ASSUME NEW p, p.type = "tool_result", NEW text, IsList(text), p.text = text, NEW id, p.id = id
  PROVE  /\ IsResult(p) /\ IsUserContent(<< p >>)
         /\ Results(<< p >>) = << p >> /\ Remarks(<< p >>) = << >>
         /\ ResultThings(<< p >>) = << Thing("result", text, id, "", FALSE) >>
<1>1. p.type = "tool_result" /\ p.text = text /\ p.id = id OBVIOUS
<1>2. IsResult(p) BY <1>1 DEF IsResult
<1>3. IsList(<< p >>) /\ ToSet(<< p >>) = {p} BY OneList
<1>4. IsUserContent(<< p >>) BY <1>2, <1>3 DEF IsUserContent
<1>5. Results(<< p >>) = << p >> BY <1>1, <1>3, OfTypeAll DEF Results
<1>6. Remarks(<< p >>) = << >> BY <1>1, <1>3, OfTypeNone DEF Remarks
<1>7. ResultThings(<< p >>) = << Thing("result", text, id, "", FALSE) >>
  <2>1. PICK th : th = Thing("result", text, id, "", FALSE) OBVIOUS
  <2>2. DOMAIN << p >> = 1..1 /\ << p >>[1] = p BY OneList, Zenon
  <2>3. \A i \in 1..1 : i = 1 OBVIOUS
  <2>4. \A i \in 1..1 : Thing("result", << p >>[i].text, << p >>[i].id, "", FALSE) = th
    BY <1>1, <2>1, <2>2, <2>3, Zenon
  <2>5. ResultThings(<< p >>) = [i \in 1..1 |-> th] BY <2>2, <2>4, Zenon DEF ResultThings
  <2> QED BY <2>1, <2>5, OneMade, Zenon
<1> QED BY <1>2, <1>4, <1>5, <1>6, <1>7

LEMMA SaidBlocks ==
  ASSUME NEW parts, IsSaid(parts)
  PROVE  IsUserContent(parts) /\ Results(parts) = << >> /\ Remarks(parts) = parts
<1>1. IsList(parts) BY DEF IsSaid
<1>2. \A p \in ToSet(parts) : p.type \in {"text", "image"} /\ p.type \notin {"tool_result"}
  BY SaidTypes DEF IsSaid
<1>3. IsUserContent(parts) BY DEF IsSaid, IsUserContent
<1>4. Results(parts) = << >> BY <1>1, <1>2, OfTypeNone DEF Results
<1>5. Remarks(parts) = parts BY <1>1, <1>2, OfTypeAll DEF Remarks
<1> QED BY <1>3, <1>4, <1>5

LEMMA ThingsLists ==
  /\ \A c : IsUserContent(c) => IsList(UserThings(c))
  /\ \A m : IsAnthropic(m) => IsList(AnthropicThings(m))
<1>1. ASSUME NEW c, IsUserContent(c) PROVE IsList(UserThings(c))
  BY <1>1, UserSays, SaysLists
<1>2. ASSUME NEW m, IsAnthropic(m) PROVE IsList(AnthropicThings(m))
  <2>1. CASE m.role = "assistant"
    <3>1. PICK a : m.content = AnswerBlocks(a) /\ IsAnswer(a) BY <1>2, <2>1 DEF IsAnthropic
    <3>2. anthropicAssistant(m.content) = AnswerMessage(a) BY <3>1, AssistantIs
    <3>3. PICK w : w = AnswerMessage(a) OBVIOUS
    <3>4. Says(<< w >>, AnswerThings(a), << >>) BY <3>1, <3>3, SaysAnswer
    <3>5. w \in ToSet(<< w >>) BY OneList
    <3>6. WellMessage(w) BY <3>4, <3>5 DEF Says, Messages
    <3> QED BY <2>1, <3>2, <3>3, <3>6, MsgLists DEF AnthropicThings
  <2>2. CASE m.role # "assistant" BY <1>1, <1>2, <2>2 DEF IsAnthropic, AnthropicThings
  <2> QED BY <2>1, <2>2
<1> QED BY <1>1, <1>2

\* A turn as a message of its own.
LEMMA TurnAlone ==
  ASSUME NEW t, IsTurn(format, t), format = "claude"
  PROVE  LastIs(AnthropicMsg(t), t) /\ AnthropicThings(AnthropicMsg(t)) = TurnThings(t)
<1> DEFINE m == AnthropicMsg(t)
<1>1. m = [role |-> m.role, content |-> m.content] /\ m.role = RoleOf(t)
      /\ m.content = AnthropicBlocks(t)
  BY DEF AnthropicMsg
<1> HIDE DEF m
<1>2. CASE IsUserTurn(format, t)
  <2>1. t.kind = "user" /\ IsSaid(t.parts) BY <1>2 DEF IsUserTurn
  <2>2. m.content = t.parts /\ m.role = "user" BY <1>1, <2>1 DEF AnthropicBlocks, RoleOf
  <2>3. UserThings(t.parts) = TurnThings(t)
    <3>1. IsList(PartThings(t.parts)) BY <2>1, SaysUser, SaysLists
    <3>2. << >> \o PartThings(t.parts) = PartThings(t.parts) BY <3>1, ConcatSame
    <3>3. UserThings(t.parts) = << >> \o PartThings(t.parts)
      BY <2>1, SaidBlocks, PartThingsAre, Zenon DEF UserThings
    <3> QED BY <1>2, <3>2, <3>3, UserTurnIs, Zenon
  <2>4. IsAnthropic(m) BY <2>1, <2>2, SaidBlocks DEF IsAnthropic
  <2> QED BY <1>1, <2>1, <2>2, <2>3, <2>4 DEF LastIs, AnthropicThings, m
<1>3. CASE IsAnswerTurn(t)
  <2>1. IsAnswer(t.answer[1]) /\ TurnThings(t) = AnswerThings(t.answer[1]) BY <1>3, AnswerTurnIs
  <2>2. t.kind = "answer" BY <1>3 DEF IsAnswerTurn
  <2>3. m.content = AnswerBlocks(t.answer[1]) /\ m.role = "assistant"
    BY <1>1, <2>2 DEF AnthropicBlocks, AnswerBlocks, TextParts, RoleOf
  <2>4. PICK a : a = t.answer[1] OBVIOUS
  <2>5. IsAnthropic(m) BY <2>1, <2>3 DEF IsAnthropic
  <2>6. AnthropicThings(m) = MsgThings(AnswerMessage(a))
    BY <2>1, <2>3, <2>4, AssistantIs DEF AnthropicThings
  <2>7. MsgThings(AnswerMessage(a)) = AnswerThings(a)
    <3>1. PICK w : w = AnswerMessage(a) OBVIOUS
    <3>2. Says(<< w >>, AnswerThings(a), << >>) BY <2>1, <2>4, <3>1, SaysAnswer
    <3>3. w \in ToSet(<< w >>) BY OneList
    <3>4. WellMessage(w) BY <3>2, <3>3 DEF Says, Messages
    <3>5. Says(<< w >>, MsgThings(w), MsgSystem(w)) BY <3>4, SaysOne
    <3> QED BY <3>1, <3>2, <3>5 DEF Says
  <2> QED BY <1>1, <2>1, <2>2, <2>4, <2>5, <2>6, <2>7 DEF LastIs, m
<1>4. CASE IsResultTurn(t)
  <2>1. t.kind = "result" BY <1>4 DEF IsResultTurn
  <2>2. PICK p : p = Part("tool_result", t.parts[1].text, FALSE, t.id, "") OBVIOUS
  <2>9. p.type = "tool_result" /\ p.text = t.parts[1].text /\ p.id = t.id BY <2>2 DEF Part
  <2>3. m.content = << p >> /\ m.role = "user" BY <1>1, <2>1, <2>2 DEF AnthropicBlocks, RoleOf
  <2>4. /\ IsUserContent(<< p >>) /\ Results(<< p >>) = << p >> /\ Remarks(<< p >>) = << >>
        /\ ResultThings(<< p >>) = TurnThings(t)
    <3>1. PICK x, id : x = t.parts[1].text /\ id = t.id OBVIOUS
    <3>2. IsList(x) /\ TurnThings(t) = << Thing("result", x, id, "", FALSE) >>
      BY <1>4, <3>1, ResultTurnIs, Zenon
    <3>3. p.type = "tool_result" /\ p.text = x /\ p.id = id BY <2>9, <3>1
    <3>4. /\ IsUserContent(<< p >>) /\ Results(<< p >>) = << p >> /\ Remarks(<< p >>) = << >>
          /\ ResultThings(<< p >>) = << Thing("result", x, id, "", FALSE) >>
      BY <3>2, <3>3, ResultBlock, Zenon
    <3> QED BY <3>2, <3>4, Zenon
  <2>5. IsAnthropic(m) BY <2>3, <2>4 DEF IsAnthropic
  <2>6. IsList(TurnThings(t))
    <3>1. PICK th : TurnThings(t) = << th >> BY <1>4, ResultTurnIs
    <3> QED BY <3>1, OneList
  <2>7. UserThings(<< p >>) = TurnThings(t) \o << >> BY <2>4, PartThingsAre DEF UserThings
  <2>8. UserThings(<< p >>) = TurnThings(t) BY <2>6, <2>7, ConcatSame
  <2> QED BY <1>1, <2>1, <2>3, <2>4, <2>5, <2>8 DEF LastIs, AnthropicThings, m
<1>5. ~IsSystemTurn(format, t) BY DEF IsSystemTurn
<1> QED BY <1>2, <1>3, <1>4, <1>5 DEF IsTurn

\* A turn of the user that goes on with the user's message.
LEMMA TurnMerged ==
  ASSUME NEW m, NEW t, LastIs(m, t), NEW u, IsTurn(format, u), format = "claude", Follows(t, u),
         u.kind # "answer", t.kind # "answer",
         NEW n, n = [m EXCEPT !.content = @ \o AnthropicBlocks(u)]
  PROVE  LastIs(n, u) /\ AnthropicThings(n) = AnthropicThings(m) \o TurnThings(u)
<1> DEFINE c == m.content
           b == AnthropicBlocks(u)
<1>1. m.role = "user" /\ IsUserContent(c) BY DEF LastIs, RoleOf, IsAnthropic
<1>2. n = [role |-> n.role, content |-> n.content] /\ n.role = "user" /\ n.content = c \o b
  BY <1>1 DEF LastIs
<1>3. AnthropicThings(m) = ResultThings(Results(c)) \o PartThings(Remarks(c))
  BY <1>1 DEF AnthropicThings, UserThings
<1>4. AnthropicThings(n) = UserThings(c \o b) BY <1>2 DEF AnthropicThings
<1>5. IsUserContent(b) /\ AnthropicThings(AnthropicMsg(u)) = UserThings(b)
  <2>1. LastIs(AnthropicMsg(u), u) BY TurnAlone
  <2>2. AnthropicMsg(u).role = "user" /\ AnthropicMsg(u).content = b BY DEF AnthropicMsg, RoleOf
  <2> QED BY <2>1, <2>2 DEF LastIs, IsAnthropic, AnthropicThings
<1>6. IsList(c) /\ IsList(b) BY <1>1, <1>5 DEF IsUserContent
<1> HIDE DEF c, b
<1>7. IsUserContent(c \o b)
  <2>1. PICK cb : cb = c \o b OBVIOUS
  <2>2. IsList(cb) /\ ToSet(cb) = ToSet(c) \cup ToSet(b) BY <1>6, <2>1, Concatenated
  <2>3. IsUserContent(cb) BY <1>1, <1>5, <2>2 DEF IsUserContent
  <2> QED BY <2>1, <2>3
<1>8. Results(c \o b) = Results(c) \o Results(b) /\ Remarks(c \o b) = Remarks(c) \o Remarks(b)
  BY <1>6, OfTypeConcat DEF Results, Remarks
<1>9. IsList(Results(c)) /\ IsList(Results(b)) /\ IsList(Remarks(c)) /\ IsList(Remarks(b))
  BY <1>6, OfTypeList DEF Results, Remarks
<1>10. TurnThings(u) = UserThings(b) BY <1>5, TurnAlone
<1>11. IsAnthropic(n) BY <1>2, <1>7 DEF IsAnthropic
<1>12. ASSUME NEW s, IsList(s) PROVE IsList(PartThings(s)) /\ IsList(ResultThings(s))
  <2>1. /\ DOMAIN PartThings(s) = DOMAIN s /\ PartThings(s) = [i \in DOMAIN s |-> PartThings(s)[i]]
        /\ DOMAIN ResultThings(s) = DOMAIN s
        /\ ResultThings(s) = [i \in DOMAIN s |-> ResultThings(s)[i]]
    BY DEF PartThings, ResultThings
  <2> QED BY <1>12, <2>1, MadeList
<1>13. PICK rc, rb, sc, sb : /\ rc = ResultThings(Results(c)) /\ rb = ResultThings(Results(b))
                             /\ sc = PartThings(Remarks(c)) /\ sb = PartThings(Remarks(b))
  OBVIOUS
<1>14. IsList(rc) /\ IsList(rb) /\ IsList(sc) /\ IsList(sb) BY <1>9, <1>12, <1>13
<1>15. AnthropicThings(n) = (rc \o rb) \o (sc \o sb)
  <2>1. ResultThings(Results(c) \o Results(b)) = rc \o rb BY <1>9, <1>13, PartThingsAre
  <2>2. PartThings(Remarks(c) \o Remarks(b)) = sc \o sb BY <1>9, <1>13, PartThingsAre
  <2> QED BY <1>4, <1>8, <2>1, <2>2, Zenon DEF UserThings
<1>16. AnthropicThings(m) \o TurnThings(u) = (rc \o sc) \o (rb \o sb)
  BY <1>3, <1>10, <1>13, Zenon DEF UserThings
<1>17. IsUserTurn(format, u) \/ IsResultTurn(u)
  BY DEF IsTurn, IsAnswerTurn, IsSystemTurn
<1>18. (rb = << >> /\ u.kind # "result") \/ (sc = << >> /\ sb = << >> /\ Remarks(c) = << >> /\ Remarks(b) = << >>)
  <2>1. CASE IsUserTurn(format, u)
    <3>1. b = u.parts /\ IsSaid(u.parts) /\ u.kind = "user"
      BY <2>1 DEF b, AnthropicBlocks, IsUserTurn
    <3>2. Results(b) = << >> BY <3>1, SaidBlocks
    <3> QED BY <1>13, <3>1, <3>2, PartThingsAre
  <2>2. CASE IsResultTurn(u)
    <3>1. u.kind = "result" /\ t.kind = "result" BY <2>2 DEF IsResultTurn, Follows
    <3>2. Remarks(c) = << >> BY <3>1 DEF LastIs, c
    <3>3. PICK p : p = Part("tool_result", u.parts[1].text, FALSE, u.id, "") OBVIOUS
    <3>4. b = << p >> BY <3>1, <3>3 DEF b, AnthropicBlocks
    <3>6. p.type = "tool_result" /\ p.text = u.parts[1].text /\ p.id = u.id BY <3>3 DEF Part
    <3>5. Remarks(b) = << >> BY <2>2, <3>4, <3>6, ResultTurnIs, ResultBlock
    <3> QED BY <1>13, <3>2, <3>5, PartThingsAre
  <2> QED BY <1>17, <2>1, <2>2
<1>19. AnthropicThings(n) = AnthropicThings(m) \o TurnThings(u)
  <2>1. CASE rb = << >>
    <3>1. rc \o rb = rc /\ rb \o sb = sb BY <1>14, <2>1, ConcatSame
    <3>2. Associates(rc, sc, sb) BY <1>14, ConcatAll
    <3> QED BY <1>15, <1>16, <3>1, <3>2, Zenon DEF Associates
  <2>2. CASE sc = << >> /\ sb = << >>
    <3>1. rc \o sc = rc /\ rb \o sb = rb BY <1>14, <2>2, ConcatSame
    <3>2. IsList(rc \o rb) BY <1>14, Concatenated
    <3>3. sc \o sb = << >> BY <2>2, NoList, ConcatSame
    <3>4. (rc \o rb) \o << >> = rc \o rb BY <3>2, ConcatSame
    <3> QED BY <1>15, <1>16, <3>1, <3>3, <3>4, Zenon
  <2> QED BY <1>18, <2>1, <2>2
<1>20. u.kind = "result" => Remarks(n.content) = << >>
  <2>1. << >> \o << >> = << >> BY NoList, ConcatSame
  <2> QED BY <1>2, <1>8, <1>18, <2>1
<1>21. n.role = RoleOf(u) BY <1>2 DEF RoleOf
<1> QED BY <1>2, <1>11, <1>19, <1>20, <1>21 DEF LastIs

-----------------------------------------------------------------------------
LEMMA TurnLists ==
  ASSUME NEW f, NEW t, IsTurn(f, t)
  PROVE  IsList(TurnThings(t)) /\ IsList(TurnSystem(t))
<1>1. CASE IsUserTurn(f, t)
  <2>1. IsSaid(t.parts) BY <1>1 DEF IsUserTurn
  <2> QED BY <1>1, <2>1, UserTurnIs, SaysUser, SaysLists, NoList
<1>2. CASE IsSystemTurn(f, t) BY <1>2, SystemTurnIs, NoList
<1>3. CASE IsAnswerTurn(t)
  <2>1. PICK a : a = t.answer[1] OBVIOUS
  <2>2. IsAnswer(a) BY <1>3, <2>1, AnswerTurnIs
  <2>3. IsList(AnswerThings(a)) BY <2>2, SaysAnswer, SaysLists
  <2> QED BY <1>3, <2>1, <2>3, AnswerTurnIs, NoList
<1>4. CASE IsResultTurn(t)
  <2>1. PICK th : TurnThings(t) = << th >> BY <1>4, ResultTurnIs
  <2> QED BY <1>4, <2>1, ResultTurnIs, NoList, OneList
<1> QED BY <1>1, <1>2, <1>3, <1>4 DEF IsTurn

\* w is what an Anthropic client has written of turns that say x, up to turn t.
Wrote(w, x, t) ==
  \E F, u, m : /\ w = F \o << m >> /\ IsList(F) /\ Converts(F, u) /\ IsList(u)
               /\ x = u \o AnthropicThings(m) /\ LastIs(m, t)

LEMMA WroteFirst ==
  ASSUME NEW t, IsTurn(format, t), format = "claude"
  PROVE  Wrote(AnthropicTurn(<< >>, t), TurnThings(t), t)
<1>1. PICK m : m = AnthropicMsg(t) OBVIOUS
<1>2. AnthropicTurn(<< >>, t) = Append(<< >>, m) BY <1>1 DEF AnthropicTurn, AnthropicMsg, RoleOf
<1>3. Append(<< >>, m) = << >> \o << m >> BY NoList, AppendedIsConcat
<1>4. LastIs(m, t) /\ AnthropicThings(m) = TurnThings(t) BY <1>1, TurnAlone
<1>5. TurnThings(t) = << >> \o AnthropicThings(m) BY <1>4, TurnLists, ConcatSame
<1>6. IsList(<< >>) /\ Converts(<< >>, << >>) BY NoList, ConvertNothing
<1>7. PICK e : e = << >> OBVIOUS
<1>8. /\ AnthropicTurn(<< >>, t) = e \o << m >> /\ IsList(e) /\ Converts(e, e)
      /\ TurnThings(t) = e \o AnthropicThings(m) /\ LastIs(m, t)
  BY <1>2, <1>3, <1>4, <1>5, <1>6, <1>7, Zenon
<1> QED BY <1>8, Zenon DEF Wrote

Replaces(w, n, F) == [w EXCEPT ![Len(w)] = n] = F \o << n >>

LEMMA LastReplaced ==
  ASSUME NEW F, IsList(F), NEW m, NEW n, NEW w, w = F \o << m >>
  PROVE  /\ IsList(w) /\ w # << >> /\ w[Len(w)] = m
         /\ Replaces(w, n, F)
<1>1. PICK k : k = Len(F) OBVIOUS
<1>2. k \in Nat BY <1>1, ListElements
<1>3. /\ IsList(w) /\ Len(w) = k + 1 /\ (\A i \in 1..k : w[i] = F[i]) /\ w[k+1] = m
  <2>1. IsList(w) /\ Len(w) = k + 1 /\ \A i \in 1..k : w[i] = F[i] BY <1>1, OneList, Concatenated
  <2>2. 1 \in 1..Len(<< m >>) /\ << m >>[1] = m BY OneList
  <2>3. w[k+1] = m BY <1>1, <2>2, OneList, Concatenated
  <2> QED BY <2>1, <2>3
<1>4. PICK y : y = F \o << n >> OBVIOUS
<1>5. /\ IsList(y) /\ Len(y) = k + 1 /\ (\A i \in 1..k : y[i] = F[i]) /\ y[k+1] = n
  <2>1. IsList(y) /\ Len(y) = k + 1 /\ \A i \in 1..k : y[i] = F[i]
    BY <1>1, <1>4, OneList, Concatenated
  <2>2. 1 \in 1..Len(<< n >>) /\ << n >>[1] = n BY OneList
  <2>3. y[k+1] = n BY <1>1, <1>4, <2>2, OneList, Concatenated
  <2> QED BY <2>1, <2>3
<1>6. DOMAIN w = 1..(k+1) BY <1>3, ListElements
<1>7. PICK z : z = [w EXCEPT ![k+1] = n] OBVIOUS
<1>8. /\ DOMAIN z = DOMAIN w /\ z = [i \in DOMAIN w |-> z[i]]
      /\ (\A i \in 1..k : z[i] = w[i]) /\ z[k+1] = n
  <2>1. DOMAIN z = DOMAIN w /\ z = [i \in DOMAIN w |-> z[i]] BY <1>7
  <2>2. k + 1 \in DOMAIN w /\ \A i \in 1..k : i \in DOMAIN w /\ i # k + 1 BY <1>2, <1>6
  <2>3. \A i \in DOMAIN w : z[i] = IF i = k + 1 THEN n ELSE w[i] BY <1>7
  <2> QED BY <2>1, <2>2, <2>3
<1>9. IsList(z) /\ Len(z) = k + 1 BY <1>3, <1>8, MadeList
<1>10. \A i \in 1..(k+1) : z[i] = y[i]
  <2>1. \A i \in 1..(k+1) : i \in 1..k \/ i = k + 1 BY <1>2
  <2> QED BY <1>3, <1>5, <1>8, <2>1
<1>11. z = y BY <1>5, <1>9, <1>10, SameList
<1>12. w # << >> BY <1>2, <1>3, NoList
<1>13. Replaces(w, n, F)
  <2>1. Len(w) = k + 1 BY <1>3
  <2> QED BY <1>4, <1>7, <1>11, <2>1, Zenon DEF Replaces
<1> QED BY <1>3, <1>12, <1>13

LEMMA WroteMore ==
  ASSUME NEW w, NEW x, NEW t, Wrote(w, x, t), NEW v, IsTurn(format, v), format = "claude",
         Follows(t, v)
  PROVE  Wrote(AnthropicTurn(w, v), x \o TurnThings(v), v)
<1>1. PICK F, u, m : /\ w = F \o << m >> /\ IsList(F) /\ Converts(F, u) /\ IsList(u)
                     /\ x = u \o AnthropicThings(m) /\ LastIs(m, t)
  BY DEF Wrote
<1>2. IsList(w) /\ w # << >> /\ w[Len(w)] = m BY <1>1, LastReplaced
<1>3. Last(w) = m BY <1>2 DEF Last
<1>4. m.role = RoleOf(t) /\ IsAnthropic(m) BY <1>1 DEF LastIs
<1>5. IsList(AnthropicThings(m)) /\ IsList(TurnThings(v)) BY <1>4, ThingsLists, TurnLists
<1>6. CASE RoleOf(t) = RoleOf(v)
  <2>1. PICK n : n = [m EXCEPT !.content = @ \o AnthropicBlocks(v)] OBVIOUS
  <2>2. v.kind # "answer" /\ t.kind # "answer" BY <1>6 DEF Follows, RoleOf
  <2>3. LastIs(n, v) /\ AnthropicThings(n) = AnthropicThings(m) \o TurnThings(v)
    BY <1>1, <2>1, <2>2, TurnMerged
  <2>4. AnthropicTurn(w, v) = [w EXCEPT ![Len(w)].content = @ \o AnthropicBlocks(v)]
    BY <1>2, <1>3, <1>4, <1>6 DEF AnthropicTurn, RoleOf
  <2>5. [w EXCEPT ![Len(w)].content = @ \o AnthropicBlocks(v)] = [w EXCEPT ![Len(w)] = n]
    BY <1>2, <2>1
  <2>6. AnthropicTurn(w, v) = F \o << n >>
    <3>1. [w EXCEPT ![Len(w)] = n] = F \o << n >>
      <4>1. IsList(F) /\ w = F \o << m >> BY <1>1
      <4>2. Replaces(w, n, F) BY <4>1, LastReplaced
      <4> QED BY <4>2 DEF Replaces
    <3> HIDE DEF AnthropicTurn
    <3> QED BY <2>4, <2>5, <3>1, Zenon
  <2>7. x \o TurnThings(v) = u \o AnthropicThings(n) BY <1>1, <1>5, <2>3, ConcatSame
  <2> QED BY <1>1, <2>3, <2>6, <2>7, Zenon DEF Wrote
<1>7. CASE RoleOf(t) # RoleOf(v)
  <2>1. PICK n : n = AnthropicMsg(v) OBVIOUS
  <2>2. AnthropicTurn(w, v) = Append(w, n)
    BY <1>3, <1>4, <1>7, <2>1 DEF AnthropicTurn, AnthropicMsg, RoleOf
  <2>3. AnthropicTurn(w, v) = w \o << n >> BY <1>2, <2>2, AppendedIsConcat
  <2>4. LastIs(n, v) /\ AnthropicThings(n) = TurnThings(v) BY <2>1, TurnAlone
  <2>5. Converts(w, x) BY <1>1, <1>4, ConvertMore
  <2>6. IsList(x) BY <1>1, <1>5, Concatenated
  <2> QED BY <1>2, <2>3, <2>4, <2>5, <2>6, Zenon DEF Wrote
<1> QED BY <1>6, <1>7

LEMMA WroteSays ==
  ASSUME NEW w, NEW x, NEW t, Wrote(w, x, t)
  PROVE  Says(Converted(w), x, << >>)
<1>1. PICK F, u, m : /\ w = F \o << m >> /\ IsList(F) /\ Converts(F, u) /\ IsList(u)
                     /\ x = u \o AnthropicThings(m) /\ LastIs(m, t)
  BY DEF Wrote
<1>2. IsAnthropic(m) BY <1>1 DEF LastIs
<1>3. Converts(w, x) BY <1>1, <1>2, ConvertMore
<1> QED BY <1>3 DEF Converts

LEMMA WroteAll ==
  ASSUME NEW turns, AreTurns(format, turns), format = "claude"
  PROVE  Wrote(FoldLeft(AnthropicTurn, << >>, turns), Spoken(turns), turns[Len(turns)])
<1> DEFINE n == Len(turns)
           tt == [i \in DOMAIN turns |-> TurnThings(turns[i])]
<1>1. n \in Nat /\ n # 0 /\ DOMAIN turns = 1..n BY ListElements DEF AreTurns
<1>2. \A i \in 1..n : IsTurn(format, turns[i]) BY DEF AreTurns
<1>3. \A i \in 1..n : i # 1 => Follows(turns[i-1], turns[i]) BY DEF AreTurns
<1>4. DOMAIN tt = DOMAIN turns /\ tt = [i \in DOMAIN turns |-> tt[i]]
      /\ (\A i \in 1..n : tt[i] = TurnThings(turns[i])) /\ FlattenSeq(tt) = Spoken(turns)
  BY <1>1 DEF Spoken
<1> HIDE DEF n, tt
<1>5. IsList(tt) /\ Len(tt) = n /\ \A y \in ToSet(tt) : \E i \in 1..n : y = tt[i]
  BY <1>1, <1>4, ListMade
<1>6. Lists(tt)
  <2>1. ASSUME NEW y \in ToSet(tt) PROVE IsList(y)
    <3>1. PICK i \in 1..n : y = tt[i] BY <1>5
    <3> QED BY <1>2, <1>4, <3>1, TurnLists
  <2> QED BY <1>5, <2>1 DEF Lists
<1>7. PICK r : Chained(r, tt) BY <1>6, FlattenChain
<1>8. r[0] = << >> /\ Spoken(turns) = r[n] /\ \A k \in 1..n : r[k] = r[k-1] \o TurnThings(turns[k])
  BY <1>4, <1>5, <1>7 DEF Chained
<1>9. PICK q : Write!IsTrace(q, 0, << >>, turns, n) /\ Write!Fold(0, << >>, turns) = q[n]
  BY <1>1, Write!FoldTrace
<1>10. q[0] = << >> /\ \A k \in 1..n : q[k] = AnthropicTurn(q[k-1], turns[k])
  BY <1>9 DEF Write!IsTrace, TurnOp
<1> DEFINE K == {k \in Nat : k + 1 <= n => Wrote(q[k+1], r[k+1], turns[k+1])}
<1>11. 0 \in K
  <2>1. 1 \in 1..n /\ 1 - 1 = 0 /\ 0 + 1 = 1 BY <1>1
  <2>2. q[1] = AnthropicTurn(<< >>, turns[1]) BY <1>10, <2>1
  <2>3. r[1] = << >> \o TurnThings(turns[1]) BY <1>8, <2>1
  <2>4. r[1] = TurnThings(turns[1]) BY <1>2, <2>1, <2>3, TurnLists, ConcatSame
  <2>5. Wrote(q[1], r[1], turns[1]) BY <1>2, <2>1, <2>2, <2>4, WroteFirst
  <2> QED BY <2>1, <2>5
<1>12. ASSUME NEW k \in Nat, k \in K PROVE k + 1 \in K
  <2> SUFFICES ASSUME k + 1 + 1 <= n PROVE Wrote(q[k+1+1], r[k+1+1], turns[k+1+1]) OBVIOUS
  <2>1. k + 1 <= n /\ k + 1 + 1 \in 1..n /\ (k + 1 + 1) - 1 = k + 1 /\ k + 1 + 1 # 1 BY <1>1
  <2>2. Wrote(q[k+1], r[k+1], turns[k+1]) BY <1>12, <2>1
  <2> HIDE DEF K
  <2>3. q[k+1+1] = AnthropicTurn(q[k+1], turns[k+1+1]) BY <1>10, <2>1
  <2>4. r[k+1+1] = r[k+1] \o TurnThings(turns[k+1+1]) BY <1>8, <2>1
  <2>5. Follows(turns[k+1], turns[k+1+1]) /\ IsTurn(format, turns[k+1+1]) BY <1>2, <1>3, <2>1
  <2> QED BY <2>2, <2>3, <2>4, <2>5, WroteMore
<1> HIDE DEF K
<1>13. \A k \in Nat : k \in K BY <1>11, <1>12, Write!SetInduction
<1>14. n - 1 \in K /\ (n - 1) + 1 = n BY <1>1, <1>13
<1>15. Wrote(q[n], r[n], turns[n]) BY <1>1, <1>14 DEF K
<1>16. FoldLeft(AnthropicTurn, << >>, turns) = q[n] BY <1>9, WriteIsFold
<1> QED BY <1>8, <1>15, <1>16 DEF n

\* Anthropic's messages have no system role, so nothing is added to the system's text.
LEMMA NothingReminded ==
  ASSUME NEW turns, AreTurns("claude", turns)
  PROVE  Reminded(turns) = << >>
<1> DEFINE yy == [i \in DOMAIN turns |-> TurnSystem(turns[i])]
<1>1. IsList(turns) /\ Len(turns) \in Nat /\ DOMAIN turns = 1..Len(turns)
  BY ListElements DEF AreTurns
<1>2. \A i \in DOMAIN turns : yy[i] = << >>
  <2> SUFFICES ASSUME NEW i \in DOMAIN turns PROVE TurnSystem(turns[i]) = << >> OBVIOUS
  <2>1. IsTurn("claude", turns[i]) BY <1>1 DEF AreTurns
  <2>2. ~IsSystemTurn("claude", turns[i]) BY DEF IsSystemTurn
  <2> QED BY <2>1, <2>2, UserTurnIs, AnswerTurnIs, ResultTurnIs DEF IsTurn
<1>3. DOMAIN yy = DOMAIN turns /\ yy = [i \in DOMAIN turns |-> yy[i]] OBVIOUS
<1>4. Reminded(turns) = FlattenSeq(yy) BY DEF Reminded
<1> HIDE DEF yy
<1>5. IsList(yy) BY <1>1, <1>3, MadeList
<1>6. \A y \in ToSet(yy) : y = << >> BY <1>2, <1>3, <1>5, ListElements
<1> QED BY <1>4, <1>5, <1>6, FlattenEmpty

LEMMA ConvertedMessages ==
  \A req : convertAnthropicToOpenAI(req).messages
             = anthropicSystem(req.system)
               \o FoldLeft(anthropicMessage, [messages |-> << >>, names |-> << >>],
                           req.messages).messages
BY DEF convertAnthropicToOpenAI

LEMMA ClaudeArrives ==
  ASSUME NEW o, IsOpened(o), NEW turns, AreTurns(format, turns), format = "claude"
  PROVE  Says(convertAnthropicToOpenAI(AnthropicRequest(o, turns)).messages,
              Spoken(turns), Joined(o.system) \o Reminded(turns))
<1>1. PICK w : w = FoldLeft(AnthropicTurn, << >>, turns) OBVIOUS
<1>2. convertAnthropicToOpenAI(AnthropicRequest(o, turns)).messages
        = anthropicSystem(o.system) \o FoldLeft(anthropicMessage, NoChat, w).messages
  <2>1. PICK req : req = AnthropicRequest(o, turns) OBVIOUS
  <2>2. req.system = o.system /\ req.messages = w
    <3>1. AnthropicRequest(o, turns).system = o.system BY DEF AnthropicRequest
    <3>2. AnthropicRequest(o, turns).messages = FoldLeft(AnthropicTurn, << >>, turns)
      BY DEF AnthropicRequest
    <3> QED BY <1>1, <2>1, <3>1, <3>2, Zenon
  <2>3. convertAnthropicToOpenAI(req).messages
          = anthropicSystem(req.system)
            \o FoldLeft(anthropicMessage, [messages |-> << >>, names |-> << >>], req.messages).messages
    BY ConvertedMessages
  <2> QED BY <2>1, <2>2, <2>3, Zenon DEF NoChat
<1>3. FoldLeft(anthropicMessage, NoChat, w).messages = Converted(w)
  BY ConvertIsFold, Zenon DEF Converted
<1>4. Says(Converted(w), Spoken(turns), << >>) BY <1>1, WroteAll, WroteSays
<1>5. Says(anthropicSystem(o.system), << >>, Joined(o.system))
  <2>1. /\ IsList(o.system) /\ Texted(o.system) /\ \A p \in ToSet(o.system) : p.type \in {"text"}
    BY OpenedIs
  <2>2. OfType(o.system, {"text"}) = o.system BY <2>1, OfTypeAll
  <2>3. anthropicSystem(o.system)
          = IF Len(o.system) <= 1 /\ Joined(o.system) = << >>
            THEN << >> ELSE << Message("system", o.system) >>
    BY <2>2 DEF anthropicSystem
  <2> QED BY <2>1, <2>3, SaysNothing, SaysSystem
<1>6. Says(anthropicSystem(o.system) \o Converted(w), << >> \o Spoken(turns),
           Joined(o.system) \o << >>)
  BY <1>4, <1>5, SaysConcat
<1>7. << >> \o Spoken(turns) = Spoken(turns) BY <1>4, SaysLists, ConcatSame
<1>8. Reminded(turns) = << >> BY NothingReminded
<1> QED BY <1>2, <1>3, <1>6, <1>7, <1>8

-----------------------------------------------------------------------------
ItemOp(p, done, item) == responsesItem(done, item)

Items == INSTANCE LeftFold WITH Op <- ItemOp

LEMMA ItemsIsFold ==
  \A base, items : FoldLeft(responsesItem, base, items) = Items!Fold(0, base, items)
BY DEF ItemOp, Items!Fold, Items!FoldLeft, FoldLeft, Items!MapThenFoldSet,
       MapThenFoldSet, Max, Items!Max

State(M, p) == [messages |-> M, pending |-> p]

Fields(role, content, reasoning, calls, id, name) ==
  [role |-> role, content |-> content, reasoning_content |-> reasoning, tool_calls |-> calls,
   tool_call_id |-> id, name |-> name]

Gathered(thinking, text, calls) ==
  Fields("assistant", TextParts(text), thinking, calls, NoId, "")

\* The pending message after these parts of an answer.
Gather(thinking, text, calls) ==
  IF thinking = << >> /\ text = << >> /\ calls = << >> THEN << >>
  ELSE << Gathered(thinking, text, calls) >>

SetCalls(d, e)     == [d EXCEPT !.pending[1].tool_calls = e]
SetReasoning(d, e) == [d EXCEPT !.pending[1].reasoning_content = e]
SetContent(d, e)   == [d EXCEPT !.pending[1].content = << e >>]

LEMMA SetsCalls ==
  \A M, r, c, t, k, i, n, e :
    SetCalls(State(M, << Fields(r, c, t, k, i, n) >>), e) = State(M, << Fields(r, c, t, e, i, n) >>)
BY DEF State, Fields, SetCalls

LEMMA SetsReasoning ==
  \A M, r, c, t, k, i, n, e :
    SetReasoning(State(M, << Fields(r, c, t, k, i, n) >>), e) = State(M, << Fields(r, c, e, k, i, n) >>)
BY DEF State, Fields, SetReasoning

LEMMA SetsContent ==
  \A M, r, c, t, k, i, n, e :
    SetContent(State(M, << Fields(r, c, t, k, i, n) >>), e) = State(M, << Fields(r, << e >>, t, k, i, n) >>)
BY DEF State, Fields, SetContent

LEMMA SetsState ==
  /\ \A M, p, z : [State(M, p) EXCEPT !.pending = z] = State(M, z)
  /\ \A M, p, z : [State(M, p) EXCEPT !.messages = Append(@, z)] = State(Append(M, z), p)
  /\ \A M, p : State(M, p).pending = p /\ State(M, p).messages = M
BY DEF State

LEMMA FieldsAre ==
  \A r, c, t, k, i, n : /\ Fields(r, c, t, k, i, n).content = c
                        /\ Fields(r, c, t, k, i, n).tool_calls = k
BY DEF Fields

LEMMA AnswerIs ==
  \A a : AnswerMessage(a) = Gathered(a.thinking, a.text, a.calls)
<1> TAKE a
<1>1. PICK x, y, c : x = TextParts(a.text) /\ y = a.thinking /\ c = a.calls OBVIOUS
<1>2. /\ \A r, u, s, t, i, n, v :
             [Fields(r, u, s, t, i, n) EXCEPT !.reasoning_content = v] = Fields(r, u, v, t, i, n)
      /\ \A r, u, s, t, i, n, v :
             [Fields(r, u, s, t, i, n) EXCEPT !.tool_calls = v] = Fields(r, u, s, v, i, n)
  BY DEF Fields
<1>3. PICK r, i, n, e : r = "assistant" /\ i = NoId /\ n = "" /\ e = << >> OBVIOUS
<1>4. PICK m : m = Message("assistant", x) OBVIOUS
<1>5. m = Fields(r, x, e, e, i, n) BY <1>3, <1>4 DEF Message, Fields
<1>6. [m EXCEPT !.reasoning_content = y, !.tool_calls = c]
        = [[m EXCEPT !.reasoning_content = y] EXCEPT !.tool_calls = c]
  OBVIOUS
<1>7. [[m EXCEPT !.reasoning_content = y] EXCEPT !.tool_calls = c] = Fields(r, x, y, c, i, n)
  <2>1. PICK z : z = [m EXCEPT !.reasoning_content = y] OBVIOUS
  <2>2. z = Fields(r, x, y, e, i, n) BY <1>2, <1>5, <2>1
  <2>3. [z EXCEPT !.tool_calls = c] = Fields(r, x, y, c, i, n) BY <1>2, <2>2
  <2> QED BY <2>1, <2>3
<1>8. AnswerMessage(a) = [m EXCEPT !.reasoning_content = y, !.tool_calls = c]
  BY <1>1, <1>4, Zenon DEF AnswerMessage
<1>9. Gathered(a.thinking, a.text, a.calls) = Fields(r, x, y, c, i, n)
  BY <1>1, <1>3, Zenon DEF Gathered
<1> QED BY <1>6, <1>7, <1>8, <1>9, Zenon

LEMMA GatheredIs ==
  \E r, i, n : \A th, tx, cs : Gathered(th, tx, cs) = Fields(r, TextParts(tx), th, cs, i, n)
<1>1. PICK r, i, n : r = "assistant" /\ i = NoId /\ n = "" OBVIOUS
<1>2. \A th, tx, cs : Gathered(th, tx, cs) = Fields(r, TextParts(tx), th, cs, i, n)
  BY <1>1, Zenon DEF Gathered
<1> QED BY <1>2, Zenon

LEMMA GatheredSets ==
  ASSUME NEW M, NEW th, NEW tx, NEW cs
  PROVE  /\ \A e : SetCalls(State(M, << Gathered(th, tx, cs) >>), e) = State(M, << Gathered(th, tx, e) >>)
         /\ \A e : SetReasoning(State(M, << Gathered(th, tx, cs) >>), e)
                    = State(M, << Gathered(e, tx, cs) >>)
         /\ \A e, u : TextParts(u) = << e >> =>
              SetContent(State(M, << Gathered(th, tx, cs) >>), e) = State(M, << Gathered(th, u, cs) >>)
<1>1. PICK r, i, n : \A t, x, c : Gathered(t, x, c) = Fields(r, TextParts(x), t, c, i, n)
  BY GatheredIs
<1>2. PICK x : x = TextParts(tx) OBVIOUS
<1>3. Gathered(th, tx, cs) = Fields(r, x, th, cs, i, n) BY <1>1, <1>2
<1>4. ASSUME NEW e
      PROVE  SetCalls(State(M, << Gathered(th, tx, cs) >>), e) = State(M, << Gathered(th, tx, e) >>)
  <2>1. Gathered(th, tx, e) = Fields(r, x, th, e, i, n) BY <1>1, <1>2
  <2> QED BY <1>3, <2>1, SetsCalls
<1>5. ASSUME NEW e
      PROVE  SetReasoning(State(M, << Gathered(th, tx, cs) >>), e) = State(M, << Gathered(e, tx, cs) >>)
  <2>1. Gathered(e, tx, cs) = Fields(r, x, e, cs, i, n) BY <1>1, <1>2
  <2> QED BY <1>3, <2>1, SetsReasoning
<1>6. ASSUME NEW e, NEW u, TextParts(u) = << e >>
      PROVE  SetContent(State(M, << Gathered(th, tx, cs) >>), e) = State(M, << Gathered(th, u, cs) >>)
  <2>1. Gathered(th, u, cs) = Fields(r, << e >>, th, cs, i, n) BY <1>1, <1>6
  <2> QED BY <1>3, <2>1, SetsContent
<1> QED BY <1>4, <1>5, <1>6

LEMMA GatheredFields ==
  \A th, tx, cs : /\ Gathered(th, tx, cs).tool_calls = cs
                  /\ Gathered(th, tx, cs).content = TextParts(tx)
BY GatheredIs, FieldsAre

LEMMA Ensured ==
  \A M, th, tx, cs :
    ensurePending(State(M, Gather(th, tx, cs))) = State(M, << Gathered(th, tx, cs) >>)
<1> TAKE M, th, tx, cs
<1>1. CASE th = << >> /\ tx = << >> /\ cs = << >>
  <2>1. Gather(th, tx, cs) = << >> BY <1>1 DEF Gather
  <2>2. PICK g : g = Message("assistant", << >>) OBVIOUS
  <2>3. ensurePending(State(M, << >>)) = State(M, << g >>) BY <2>2, SetsState DEF ensurePending
  <2>4. g = Gathered(<< >>, << >>, << >>) BY <2>2 DEF Gathered, Fields, Message, TextParts
  <2> QED BY <1>1, <2>1, <2>3, <2>4
<1>2. CASE ~(th = << >> /\ tx = << >> /\ cs = << >>)
  <2>1. PICK g : g = Gathered(th, tx, cs) OBVIOUS
  <2>2. Gather(th, tx, cs) = << g >> BY <1>2, <2>1, Zenon DEF Gather
  <2>3. << g >> # << >> OBVIOUS
  <2>4. ensurePending(State(M, << g >>)) = State(M, << g >>) BY <2>3, SetsState DEF ensurePending
  <2> QED BY <2>1, <2>2, <2>4
<1> QED BY <1>1, <1>2

LEMMA ReasoningGathered ==
  ASSUME NEW M, NEW th, NEW item, item.type = "reasoning", item.text = th
  PROVE  responsesItem(State(M, << >>), item) = State(M, Gather(th, << >>, << >>))
<1>1. CASE th = << >>
  <2>1. Gather(th, << >>, << >>) = << >> BY <1>1 DEF Gather
  <2> QED BY <1>1, <2>1 DEF responsesItem
<1>2. CASE th # << >>
  <2>1. Gather(<< >>, << >>, << >>) = << >> BY DEF Gather
  <2>2. ensurePending(State(M, << >>)) = State(M, << Gathered(<< >>, << >>, << >>) >>)
    BY <2>1, Ensured
  <2>3. responsesItem(State(M, << >>), item)
          = SetReasoning(State(M, << Gathered(<< >>, << >>, << >>) >>), th)
    BY <1>2, <2>2 DEF responsesItem, SetReasoning
  <2>4. SetReasoning(State(M, << Gathered(<< >>, << >>, << >>) >>), th)
          = State(M, << Gathered(th, << >>, << >>) >>)
    BY GatheredSets
  <2>5. Gather(th, << >>, << >>) = << Gathered(th, << >>, << >>) >> BY <1>2 DEF Gather
  <2> QED BY <2>3, <2>4, <2>5
<1> QED BY <1>1, <1>2

LEMMA TextGathered ==
  ASSUME NEW M, NEW th, NEW tx, NEW item,
         item.type = "message", item.name = "assistant", item.text = tx
  PROVE  responsesItem(State(M, Gather(th, << >>, << >>)), item) = State(M, Gather(th, tx, << >>))
<1>1. CASE tx = << >> BY <1>1 DEF responsesItem
<1>2. CASE tx # << >>
  <2>1. ensurePending(State(M, Gather(th, << >>, << >>))) = State(M, << Gathered(th, << >>, << >>) >>)
    BY Ensured
  <2>2. PICK p : p = Text(tx, FALSE) OBVIOUS
  <2>3. responsesItem(State(M, Gather(th, << >>, << >>)), item)
          = SetContent(State(M, << Gathered(th, << >>, << >>) >>), p)
    BY <1>2, <2>1, <2>2 DEF responsesItem, SetContent
  <2>4. TextParts(tx) = << p >> BY <1>2, <2>2 DEF TextParts
  <2>5. SetContent(State(M, << Gathered(th, << >>, << >>) >>), p)
          = State(M, << Gathered(th, tx, << >>) >>)
    BY <2>4, GatheredSets
  <2>6. Gather(th, tx, << >>) = << Gathered(th, tx, << >>) >> BY <1>2 DEF Gather
  <2> QED BY <2>3, <2>5, <2>6
<1> QED BY <1>1, <1>2

IsCall(c) == c = Part("tool_use", << >>, FALSE, c.id, c.name)

LEMMA CallGathered ==
  ASSUME NEW M, NEW th, NEW tx, NEW cs, IsList(cs), NEW c, IsCall(c),
         NEW item, item.type = "function_call", item.id = c.id, item.name = c.name
  PROVE  responsesItem(State(M, Gather(th, tx, cs)), item) = State(M, Gather(th, tx, Append(cs, c)))
<1>1. ensurePending(State(M, Gather(th, tx, cs))) = State(M, << Gathered(th, tx, cs) >>)
  BY Ensured
<1>2. Part("tool_use", << >>, FALSE, item.id, item.name) = c BY DEF IsCall
<1>7. PICK d : d = State(M, << Gathered(th, tx, cs) >>) OBVIOUS
<1>8. d.pending[1].tool_calls = cs
  <2>1. PICK g : g = Gathered(th, tx, cs) OBVIOUS
  <2>2. g.tool_calls = cs BY <2>1, GatheredFields
  <2>3. d.pending = << g >> BY <1>7, <2>1, SetsState, Zenon
  <2> QED BY <2>2, <2>3
<1>9. responsesItem(State(M, Gather(th, tx, cs)), item)
        = [d EXCEPT !.pending[1].tool_calls = Append(@, c)]
  BY <1>1, <1>2, <1>7 DEF responsesItem
<1>10. [d EXCEPT !.pending[1].tool_calls = Append(@, c)]
         = SetCalls(d, Append(d.pending[1].tool_calls, c))
  BY DEF SetCalls
<1>3. responsesItem(State(M, Gather(th, tx, cs)), item) = SetCalls(d, Append(cs, c))
  BY <1>8, <1>9, <1>10, Zenon
<1>4. SetCalls(d, Append(cs, c)) = State(M, << Gathered(th, tx, Append(cs, c)) >>)
  BY <1>7, GatheredSets
<1>5. Append(cs, c) # << >>
  <2>1. Append(cs, c) = cs \o << c >> BY AppendedIsConcat
  <2>2. Len(cs \o << c >>) = Len(cs) + 1 /\ Len(cs) \in Nat BY OneList, Concatenated, ListElements
  <2> QED BY <2>1, <2>2, NoList
<1>6. Gather(th, tx, Append(cs, c)) = << Gathered(th, tx, Append(cs, c)) >>
  BY <1>5, Zenon DEF Gather
<1> QED BY <1>3, <1>4, <1>6, Zenon

-----------------------------------------------------------------------------
LEMMA ItemsOne ==
  \A base, item : Items!Fold(0, base, << item >>) = responsesItem(base, item)
<1> TAKE base, item
<1> DEFINE S == {item}
<1>1. << >> \in Seq(S) /\ item \in S OBVIOUS
<1> HIDE DEF S
<1>6. PICK e : e = << >> OBVIOUS
<1>7. e \in Seq(S) BY <1>1, <1>6
<1>8. Items!Fold(0, base, Append(e, item)) = ItemOp(0, Items!Fold(0, base, e), item)
  BY <1>1, <1>7, Items!FoldAppend
<1>2. Items!Fold(0, base, Append(<< >>, item)) = ItemOp(0, Items!Fold(0, base, << >>), item)
  BY <1>6, <1>8, Zenon
<1>3. DOMAIN << >> = {} BY NoList
<1>4. Items!Fold(0, base, << >>) = base BY <1>3, Items!FoldEmpty
<1>5. Append(<< >>, item) = << item >> OBVIOUS
<1> QED BY <1>2, <1>4, <1>5, Zenon DEF ItemOp

LEMMA ItemsConcat ==
  ASSUME NEW s, NEW t, IsList(s), IsList(t), NEW base
  PROVE  Items!Fold(0, base, s \o t) = Items!Fold(0, Items!Fold(0, base, s), t)
<1> DEFINE S == ToSet(s) \cup ToSet(t)
<1>1. s \in Seq(ToSet(s)) /\ t \in Seq(ToSet(t)) BY DEF IsList
<1>2. s \in Seq(S) /\ t \in Seq(S) BY <1>1
<1> HIDE DEF S
<1> QED BY <1>2, Items!FoldConcat

LEMMA CallItem ==
  ASSUME NEW c, IsCall(c),
         NEW item, item = [c EXCEPT !.type = "function_call"]
  PROVE  item.type = "function_call" /\ item.id = c.id /\ item.name = c.name
<1>1. PICK z, y, x, f, id, n : /\ z = "tool_use" /\ y = "function_call" /\ x = << >> /\ f = FALSE
                               /\ id = c.id /\ n = c.name
  OBVIOUS
<1>2. c = Part(z, x, f, id, n) BY <1>1, Zenon DEF IsCall
<1>3. Retype(Part(z, x, f, id, n), y) = Part(y, x, f, id, n) BY Retyped
<1>4. item = Retype(c, y) BY <1>1, Zenon DEF Retype
<1>5. item = Part(y, x, f, id, n) BY <1>2, <1>3, <1>4, Zenon
<1>6. item.type = y /\ item.id = id /\ item.name = n BY <1>5 DEF Part
<1> QED BY <1>1, <1>6

CallItems(calls) == [i \in DOMAIN calls |-> [calls[i] EXCEPT !.type = "function_call"]]

LEMMA CallsGathered ==
  ASSUME NEW M, NEW th, NEW tx, NEW calls, IsList(calls),
         \A c \in ToSet(calls) : IsCall(c), NEW items, items = CallItems(calls)
  PROVE  Items!Fold(0, State(M, Gather(th, tx, << >>)), items) = State(M, Gather(th, tx, calls))
<1> DEFINE n == Len(calls)
           pre(k) == [i \in 1..k |-> calls[i]]
<1>1. /\ n \in Nat /\ DOMAIN calls = 1..n /\ calls = [i \in 1..n |-> calls[i]]
      /\ \A i \in 1..n : calls[i] \in ToSet(calls)
  BY ListElements
<1> HIDE DEF n
<1>2. DOMAIN items = 1..n BY <1>1 DEF CallItems
<1>12. PICK b : b = State(M, Gather(th, tx, << >>)) OBVIOUS
<1>13. PICK r : Items!IsTrace(r, 0, b, items, n) /\ Items!Fold(0, b, items) = r[n]
  <2>1. n \in Nat /\ DOMAIN items = 1..n BY <1>1, <1>2
  <2> QED BY <2>1, Items!FoldTrace
<1>3. Items!IsTrace(r, 0, State(M, Gather(th, tx, << >>)), items, n)
      /\ Items!Fold(0, State(M, Gather(th, tx, << >>)), items) = r[n]
  BY <1>12, <1>13, Zenon
<1>4. r[0] = State(M, Gather(th, tx, << >>)) /\ \A k \in 1..n : r[k] = responsesItem(r[k-1], items[k])
  BY <1>3 DEF Items!IsTrace, ItemOp
<1>5. pre(0) = << >>
  <2>1. 1..0 = {} OBVIOUS
  <2>2. IsList(pre(0)) /\ Len(pre(0)) = 0 BY ListMade
  <2> QED BY <2>2, ListElements
<1>6. ASSUME NEW k \in Nat, k + 1 <= n
      PROVE  IsList(pre(k)) /\ pre(k + 1) = Append(pre(k), calls[k + 1])
  <2>1. PICK s, t, x : s = pre(k) /\ t = pre(k + 1) /\ x = calls[k + 1] OBVIOUS
  <2>2. IsList(s) /\ Len(s) = k /\ DOMAIN s = 1..k /\ \A i \in 1..k : s[i] = calls[i]
    BY <2>1, ListMade
  <2>3. IsList(t) /\ Len(t) = k + 1 /\ \A i \in 1..(k + 1) : t[i] = calls[i] BY <2>1, ListMade
  <2>4. Append(s, x) = s \o << x >> BY <2>2, AppendedIsConcat
  <2>5. PICK u : u = s \o << x >> OBVIOUS
  <2>6. IsList(u) /\ Len(u) = k + 1 /\ (\A i \in 1..k : u[i] = s[i]) /\ u[k + 1] = x
    <3>1. IsList(u) /\ Len(u) = k + 1 /\ \A i \in 1..k : u[i] = s[i]
      BY <2>2, <2>5, OneList, Concatenated
    <3>2. 1 \in 1..Len(<< x >>) /\ << x >>[1] = x BY OneList
    <3>3. u[k + 1] = x BY <2>2, <2>5, <3>2, OneList, Concatenated
    <3> QED BY <3>1, <3>3
  <2>7. \A i \in 1..(k + 1) : t[i] = u[i]
    <3>1. \A i \in 1..(k + 1) : i \in 1..k \/ i = k + 1 OBVIOUS
    <3> QED BY <2>1, <2>2, <2>3, <2>6, <3>1
  <2>8. t = u BY <2>3, <2>6, <2>7, SameList
  <2> QED BY <2>1, <2>2, <2>4, <2>5, <2>8, Zenon
<1>7. pre(n) = calls BY <1>1
<1> HIDE DEF pre
<1> DEFINE K == {k \in Nat : k <= n => r[k] = State(M, Gather(th, tx, pre(k)))}
<1>8. 0 \in K BY <1>4, <1>5
<1>9. ASSUME NEW k \in Nat, k \in K PROVE k + 1 \in K
  <2> SUFFICES ASSUME k + 1 <= n PROVE r[k + 1] = State(M, Gather(th, tx, pre(k + 1))) OBVIOUS
  <2>1. k <= n /\ k + 1 \in 1..n /\ (k + 1) - 1 = k BY <1>1
  <2>2. r[k] = State(M, Gather(th, tx, pre(k))) BY <1>9, <2>1
  <2>3. PICK c, item : c = calls[k + 1] /\ item = items[k + 1] OBVIOUS
  <2>4. IsCall(c) BY <1>1, <2>1, <2>3
  <2>5. item = [c EXCEPT !.type = "function_call"] BY <1>1, <2>1, <2>3 DEF CallItems
  <2>6. item.type = "function_call" /\ item.id = c.id /\ item.name = c.name BY <2>4, <2>5, CallItem
  <2>7. IsList(pre(k)) /\ pre(k + 1) = Append(pre(k), c) BY <1>6, <2>3
  <2>8. responsesItem(State(M, Gather(th, tx, pre(k))), item)
          = State(M, Gather(th, tx, Append(pre(k), c)))
    <3>1. PICK p : p = pre(k) OBVIOUS
    <3>2. IsList(p) BY <2>7, <3>1
    <3>3. responsesItem(State(M, Gather(th, tx, p)), item) = State(M, Gather(th, tx, Append(p, c)))
      BY <2>4, <2>6, <3>2, CallGathered
    <3> QED BY <3>1, <3>3, Zenon
  <2>9. r[k + 1] = responsesItem(r[k], item) BY <1>4, <2>1, <2>3
  <2> QED BY <2>2, <2>7, <2>8, <2>9
<1> HIDE DEF K
<1>10. \A k \in Nat : k \in K BY <1>8, <1>9, Items!SetInduction
<1>11. r[n] = State(M, Gather(th, tx, pre(n))) BY <1>1, <1>10 DEF K
<1> QED BY <1>3, <1>7, <1>11

LEMMA Pair == \A x, y : << x, y >> = << x >> \o << y >>
<1> TAKE x, y
<1> DEFINE S == {x, y}
<1>1. x \in S /\ y \in S OBVIOUS
<1> HIDE DEF S
<1>2. PICK p, q : p = << x, y >> /\ q = << x >> \o << y >> OBVIOUS
<1>3. p \in Seq(S) BY <1>1, <1>2
<1>4. IsList(p) /\ Len(p) = 2 /\ p[1] = x /\ p[2] = y BY <1>2, <1>3, ListOf
<1>5. 1 \in 1..1 /\ 1 + 1 = 2 OBVIOUS
<1>6. IsList(q) /\ Len(q) = 2 /\ q[1] = x /\ q[2] = y BY <1>2, <1>5, OneList, Concatenated
<1>7. \A i \in 1..2 : i = 1 \/ i = 2 OBVIOUS
<1>8. p = q BY <1>4, <1>6, <1>7, SameList
<1> QED BY <1>2, <1>8

LEMMA AnswerGathered ==
  ASSUME NEW t, IsAnswerTurn(t), NEW a, a = t.answer[1], NEW M
  PROVE  /\ IsList(ResponsesItems(t))
         /\ Items!Fold(0, State(M, << >>), ResponsesItems(t))
              = State(M, Gather(a.thinking, a.text, a.calls))
<1>1. IsAnswer(a) /\ t.kind = "answer" BY AnswerTurnIs DEF IsAnswerTurn
<1>2. PICK ri, mi, items :
        /\ ri = Part("reasoning", a.thinking, FALSE, NoId, "")
        /\ mi = Part("message", a.text, FALSE, NoId, "assistant")
        /\ items = CallItems(a.calls)
  OBVIOUS
<1>3. ResponsesItems(t) = << ri, mi >> \o items BY <1>1, <1>2 DEF ResponsesItems, CallItems
<1>4. << ri, mi >> = << ri >> \o << mi >> BY Pair
<1>5. /\ ri.type = "reasoning" /\ ri.text = a.thinking
      /\ mi.type = "message" /\ mi.name = "assistant" /\ mi.text = a.text
  BY <1>2 DEF Part
<1>6. IsList(a.calls) /\ \A c \in ToSet(a.calls) : IsCall(c)
  BY <1>1 DEF IsAnswer, IsCall
<1>7. IsList(items)
  <2>1. DOMAIN items = DOMAIN a.calls /\ items = [i \in DOMAIN a.calls |-> items[i]] BY <1>2 DEF CallItems
  <2> QED BY <1>6, <2>1, MadeList
<1>8. IsList(<< ri >>) /\ IsList(<< mi >>) /\ IsList(<< ri >> \o << mi >>)
  BY OneList, Concatenated
<1>9. PICK d0, d1, d2 : /\ d0 = State(M, << >>) /\ d1 = State(M, Gather(a.thinking, << >>, << >>))
                        /\ d2 = State(M, Gather(a.thinking, a.text, << >>))
  OBVIOUS
<1>10. Items!Fold(0, d0, << ri >>) = d1
  <2>1. responsesItem(d0, ri) = d1 BY <1>5, <1>9, ReasoningGathered
  <2> QED BY <2>1, ItemsOne
<1>11. Items!Fold(0, d1, << mi >>) = d2
  <2>1. responsesItem(d1, mi) = d2 BY <1>5, <1>9, TextGathered
  <2> QED BY <2>1, ItemsOne
<1>12. Items!Fold(0, d0, << ri >> \o << mi >>) = d2 BY <1>8, <1>10, <1>11, ItemsConcat
<1>13. Items!Fold(0, d2, items) = State(M, Gather(a.thinking, a.text, a.calls))
  <2>1. PICK th, tx, calls : th = a.thinking /\ tx = a.text /\ calls = a.calls OBVIOUS
  <2>2. /\ IsList(calls) /\ items = CallItems(calls) /\ d2 = State(M, Gather(th, tx, << >>))
        /\ \A c \in ToSet(calls) : IsCall(c)
    BY <1>2, <1>6, <1>9, <2>1
  <2>3. Items!Fold(0, State(M, Gather(th, tx, << >>)), items) = State(M, Gather(th, tx, calls))
    BY <2>2, CallsGathered
  <2> QED BY <2>1, <2>2, <2>3
<1>14. Items!Fold(0, d0, (<< ri >> \o << mi >>) \o items)
         = State(M, Gather(a.thinking, a.text, a.calls))
  BY <1>7, <1>8, <1>12, <1>13, ItemsConcat
<1>15. IsList((<< ri >> \o << mi >>) \o items) BY <1>7, <1>8, Concatenated
<1> QED BY <1>3, <1>4, <1>9, <1>14, <1>15

-----------------------------------------------------------------------------
WorthKeeping(pending) == Passing(pending, LAMBDA m : m.content # << >> \/ m.tool_calls # << >>)

\* The converter's state after items that say x, and y as the system.
Reads(d, x, y) ==
  /\ d = State(d.messages, d.pending) /\ IsList(d.messages)
  /\ Says(d.messages \o WorthKeeping(d.pending), x, y)

Fresh(d) == d.pending = << >>

AddMessage(d, m) == [flushPending(d) EXCEPT !.messages = Append(@, m)]

LEMMA KeptFew ==
  /\ WorthKeeping(<< >>) = << >>
  /\ \A m : WorthKeeping(<< m >>) = IF m.content # << >> \/ m.tool_calls # << >> THEN << m >> ELSE << >>
<1>1. WorthKeeping(<< >>) = << >>
  <2>1. WorthKeeping(<< >>) = FlattenSeq(<< >>) BY NoList DEF WorthKeeping, Passing
  <2> QED BY <2>1, FlattenNone
<1>2. ASSUME NEW m
      PROVE  WorthKeeping(<< m >>) = IF m.content # << >> \/ m.tool_calls # << >> THEN << m >> ELSE << >>
  <2>1. PICK v : v = IF m.content # << >> \/ m.tool_calls # << >> THEN << m >> ELSE << >> OBVIOUS
  <2>2. DOMAIN << m >> = 1..1 /\ << m >>[1] = m BY OneList
  <2>3. \A i \in 1..1 : i = 1 OBVIOUS
  <2>4. [i \in DOMAIN << m >> |-> IF << m >>[i].content # << >> \/ << m >>[i].tool_calls # << >>
                                  THEN << << m >>[i] >> ELSE << >>]
          = [i \in 1..1 |-> v]
    BY <2>1, <2>2, <2>3
  <2>5. WorthKeeping(<< m >>) = FlattenSeq([i \in 1..1 |-> v]) BY <2>4, Zenon DEF WorthKeeping, Passing
  <2>6. [i \in 1..1 |-> v] = << v >> BY OneMade
  <2>7. IsList(v) BY <2>1, OneList, NoList
  <2> QED BY <2>1, <2>5, <2>6, <2>7, FlattenOne
<1> QED BY <1>1, <1>2

LEMMA Flushed ==
  ASSUME NEW d, NEW x, NEW y, Reads(d, x, y)
  PROVE  /\ flushPending(d) = State(d.messages \o WorthKeeping(d.pending), << >>)
         /\ Says(d.messages \o WorthKeeping(d.pending), x, y)
         /\ Reads(flushPending(d), x, y) /\ Fresh(flushPending(d))
<1>1. flushPending(d) = State(d.messages \o WorthKeeping(d.pending), << >>)
  BY Zenon DEF flushPending, State, WorthKeeping
<1>2. PICK n : n = d.messages \o WorthKeeping(d.pending) OBVIOUS
<1>3. Says(n, x, y) BY <1>2 DEF Reads
<1>4. flushPending(d).messages = n /\ flushPending(d).pending = << >> BY <1>1, <1>2, SetsState
<1>5. n \o WorthKeeping(<< >>) = n BY <1>3, KeptFew, SaysLists, ConcatSame
<1>7. IsList(n) BY <1>3, SaysLists
<1>6. Reads(flushPending(d), x, y) BY <1>1, <1>2, <1>3, <1>4, <1>5, <1>7, Zenon DEF Reads
<1> QED BY <1>1, <1>2, <1>3, <1>4, <1>6 DEF Fresh

LEMMA MessageAdded ==
  ASSUME NEW d, NEW x, NEW y, Reads(d, x, y), NEW m, NEW u, NEW v, Says(<< m >>, u, v)
  PROVE  Reads(AddMessage(d, m), x \o u, y \o v) /\ Fresh(AddMessage(d, m))
<1>1. PICK n : n = d.messages \o WorthKeeping(d.pending) OBVIOUS
<1>2. flushPending(d) = State(n, << >>) /\ Says(n, x, y) BY <1>1, Flushed
<1>3. AddMessage(d, m) = State(Append(n, m), << >>) BY <1>2, SetsState DEF AddMessage
<1>4. PICK w : w = n \o << m >> OBVIOUS
<1>5. Append(n, m) = w BY <1>2, <1>4, SaysLists, AppendedIsConcat
<1>6. Says(w, x \o u, y \o v) BY <1>2, <1>4, SaysConcat
<1>7. PICK e : e = AddMessage(d, m) OBVIOUS
<1>8. e = State(w, << >>) /\ e.messages = w /\ e.pending = << >> BY <1>3, <1>5, <1>7, SetsState
<1>9. w \o WorthKeeping(<< >>) = w BY <1>6, KeptFew, SaysLists, ConcatSame
<1>11. IsList(w) BY <1>6, SaysLists
<1>10. Reads(e, x \o u, y \o v) BY <1>6, <1>8, <1>9, <1>11, Zenon DEF Reads
<1> QED BY <1>7, <1>8, <1>10 DEF Fresh

LEMMA SaidIs ==
  ASSUME NEW d, NEW x, NEW y, Reads(d, x, y), NEW role, NEW text, NEW u, NEW v,
         text = << >> => u = << >> /\ v = << >>,
         text # << >> => Says(<< Message(role, << Text(text, FALSE) >>) >>, u, v)
  PROVE  Reads(Said(d, role, text), x \o u, y \o v) /\ Fresh(Said(d, role, text))
<1>1. CASE text = << >>
  <2>1. Said(d, role, text) = flushPending(d) BY <1>1 DEF Said
  <2>2. IsList(x) /\ IsList(y) BY Flushed, SaysLists
  <2>3. x \o << >> = x /\ y \o << >> = y BY <2>2, ConcatSame
  <2> QED BY <1>1, <2>1, <2>3, Flushed
<1>2. CASE text # << >>
  <2>1. PICK m : m = Message(role, << Text(text, FALSE) >>) OBVIOUS
  <2>2. Said(d, role, text) = AddMessage(d, m) BY <1>2, <2>1 DEF Said, AddMessage
  <2>3. Says(<< m >>, u, v) BY <1>2, <2>1
  <2> QED BY <2>2, <2>3, MessageAdded
<1> QED BY <1>1, <1>2

Afterwards(d, t, x, y) == Reads(d, x, y) /\ (t.kind # "answer" => Fresh(d))

LEMMA UserRead ==
  ASSUME NEW d, NEW x, NEW y, Reads(d, x, y), NEW t, IsUserTurn("openai-response", t)
  PROVE  /\ IsList(ResponsesItems(t))
         /\ Afterwards(Items!Fold(0, d, ResponsesItems(t)), t, x \o TurnThings(t), y \o TurnSystem(t))
<1>1. t.kind = "user" /\ IsSaid(t.parts) BY DEF IsUserTurn
<1>2. PICK text : t.parts = << Text(text, FALSE) >> /\ IsList(text) /\ text # << >> BY DEF IsUserTurn
<1>3. PICK p : p = Text(text, FALSE) OBVIOUS
<1>4. p.type = "text" /\ p.text = text BY <1>3, TextFields
<1>5. t.parts = << p >> BY <1>2, <1>3
<1>6. Joined(t.parts) = text BY <1>2, <1>4, <1>5, JoinedFew
<1>7. PICK item : item = Part("message", text, FALSE, NoId, "user") OBVIOUS
<1>8. ResponsesItems(t) = << item >> BY <1>1, <1>6, <1>7 DEF ResponsesItems
<1>9. item.type = "message" /\ item.text = text /\ item.name = "user" BY <1>7 DEF Part
<1>10. responsesItem(d, item) = Said(d, "user", text) BY <1>9 DEF responsesItem
<1>11. UserContent(t.parts) = << p >>
  <2>1. DOMAIN << p >> = 1..1 /\ << p >>[1] = p BY OneList
  <2>2. \A i \in 1..1 : i = 1 OBVIOUS
  <2>3. UserContent(<< p >>) = [i \in 1..1 |-> p] BY <1>4, <2>1, <2>2 DEF UserContent
  <2> QED BY <1>5, <2>3, OneMade
<1>12. Says(<< Message("user", << p >>) >>, PartThings(t.parts), << >>) BY <1>1, <1>11, SaysUser
<1>13. TurnThings(t) = PartThings(t.parts) /\ TurnSystem(t) = << >> BY UserTurnIs
<1>14. /\ Reads(Said(d, "user", text), x \o TurnThings(t), y \o TurnSystem(t))
       /\ Fresh(Said(d, "user", text))
  <2>1. PICK role, u, v : role = "user" /\ u = TurnThings(t) /\ v = TurnSystem(t) OBVIOUS
  <2>2. Says(<< Message(role, << Text(text, FALSE) >>) >>, u, v) BY <1>3, <1>12, <1>13, <2>1
  <2>3. Reads(Said(d, role, text), x \o u, y \o v) /\ Fresh(Said(d, role, text))
    BY <1>2, <2>2, SaidIs
  <2> QED BY <2>1, <2>3
<1>15. Items!Fold(0, d, ResponsesItems(t)) = Said(d, "user", text) BY <1>8, <1>10, ItemsOne
<1>16. IsList(ResponsesItems(t)) BY <1>8, OneList
<1> QED BY <1>14, <1>15, <1>16 DEF Afterwards

LEMMA SystemRead ==
  ASSUME NEW d, NEW x, NEW y, Reads(d, x, y), NEW t, IsSystemTurn("openai-response", t)
  PROVE  /\ IsList(ResponsesItems(t))
         /\ Afterwards(Items!Fold(0, d, ResponsesItems(t)), t, x \o TurnThings(t), y \o TurnSystem(t))
<1>1. t.kind = "system" BY DEF IsSystemTurn
<1>2. PICK text : t.parts = << Text(text, FALSE) >> /\ IsList(text) /\ Joined(t.parts) = text
  BY SystemTurnIs
<1>3. TurnThings(t) = << >> /\ TurnSystem(t) = text /\ IsList(t.parts) /\ Texted(t.parts)
  BY <1>2, SystemTurnIs
<1>4. PICK item : item = Part("message", text, FALSE, NoId, "system") OBVIOUS
<1>5. ResponsesItems(t) = << item >> BY <1>1, <1>2, <1>4 DEF ResponsesItems
<1>6. item.type = "message" /\ item.text = text /\ item.name = "system" BY <1>4 DEF Part
<1>7. responsesItem(d, item) = Said(d, "system", text) BY <1>6 DEF responsesItem
<1>8. Says(<< Message("system", t.parts) >>, << >>, text) BY <1>2, <1>3, SaysSystem
<1>9. /\ Reads(Said(d, "system", text), x \o TurnThings(t), y \o TurnSystem(t))
      /\ Fresh(Said(d, "system", text))
  <2>1. PICK role, u, v : role = "system" /\ u = TurnThings(t) /\ v = TurnSystem(t) OBVIOUS
  <2>2. Says(<< Message(role, << Text(text, FALSE) >>) >>, u, v) BY <1>2, <1>3, <1>8, <2>1
  <2>3. text = << >> => u = << >> /\ v = << >> BY <1>3, <2>1
  <2>4. Reads(Said(d, role, text), x \o u, y \o v) /\ Fresh(Said(d, role, text))
    BY <2>2, <2>3, SaidIs
  <2> QED BY <2>1, <2>4
<1>10. Items!Fold(0, d, ResponsesItems(t)) = Said(d, "system", text) BY <1>5, <1>7, ItemsOne
<1>11. IsList(ResponsesItems(t)) BY <1>5, OneList
<1> QED BY <1>9, <1>10, <1>11 DEF Afterwards

LEMMA ResultRead ==
  ASSUME NEW d, NEW x, NEW y, Reads(d, x, y), NEW t, IsResultTurn(t)
  PROVE  /\ IsList(ResponsesItems(t))
         /\ Afterwards(Items!Fold(0, d, ResponsesItems(t)), t, x \o TurnThings(t), y \o TurnSystem(t))
<1>1. t.kind = "result" BY DEF IsResultTurn
<1>2. PICK text, id : text = t.parts[1].text /\ id = t.id OBVIOUS
<1>3. PICK item : item = Part("function_call_output", text, FALSE, id, "") OBVIOUS
<1>4. ResponsesItems(t) = << item >> BY <1>1, <1>2, <1>3 DEF ResponsesItems
<1>5. item.type = "function_call_output" /\ item.text = text /\ item.id = id BY <1>3 DEF Part
<1>6. PICK m : m = ToolMessage(id, "", text) OBVIOUS
<1>7. responsesItem(d, item) = AddMessage(d, m)
  BY <1>5, <1>6 DEF responsesItem, responsesOutput, AddMessage
<1>8. Says(<< m >>, TurnThings(t), TurnSystem(t)) BY <1>2, <1>6, ResultTurnIs, SaysTool
<1>9. Items!Fold(0, d, ResponsesItems(t)) = AddMessage(d, m) BY <1>4, <1>7, ItemsOne
<1>10. IsList(ResponsesItems(t)) BY <1>4, OneList
<1> QED BY <1>8, <1>9, <1>10, MessageAdded DEF Afterwards

LEMMA AnswerRead ==
  ASSUME NEW d, NEW x, NEW y, Reads(d, x, y), Fresh(d), NEW t, IsAnswerTurn(t),
         format = "openai-response"
  PROVE  /\ IsList(ResponsesItems(t))
         /\ Afterwards(Items!Fold(0, d, ResponsesItems(t)), t, x \o TurnThings(t), y \o TurnSystem(t))
<1>1. PICK a : a = t.answer[1] OBVIOUS
<1>2. IsAnswer(a) /\ t.kind = "answer" BY <1>1, AnswerTurnIs DEF IsAnswerTurn
<1>3. PICK M, th, tx, cs : M = d.messages /\ th = a.thinking /\ tx = a.text /\ cs = a.calls OBVIOUS
<1>4. d = State(M, << >>) BY <1>3 DEF Reads, Fresh
<1>5. Says(M, x, y)
  <2>1. Says(M \o << >>, x, y) BY <1>3, KeptFew DEF Reads, Fresh
  <2>2. IsList(M) BY <1>3 DEF Reads
  <2> QED BY <2>1, <2>2, ConcatSame
<1>6. PICK g : g = Gather(th, tx, cs) OBVIOUS
<1>7. IsList(ResponsesItems(t)) /\ Items!Fold(0, d, ResponsesItems(t)) = State(M, g)
  BY <1>1, <1>3, <1>4, <1>6, AnswerGathered
<1>8. PICK b : b = Gathered(th, tx, cs) OBVIOUS
<1>9. b.tool_calls = cs /\ b.content = TextParts(tx) /\ b = AnswerMessage(a)
  BY <1>3, <1>8, GatheredFields, AnswerIs
<1>10. g = << >> \/ g = << b >> BY <1>6, <1>8, Zenon DEF Gather
<1>11. TextParts(tx) = << >> <=> tx = << >> BY DEF TextParts
<1>12. Says(M \o WorthKeeping(g), x \o TurnThings(t), y \o TurnSystem(t))
  <2>0. TurnSystem(t) = << >> BY AnswerTurnIs
  <2>1. CASE tx = << >> /\ cs = << >>
    <3>1. WorthKeeping(g) = << >> BY <1>9, <1>10, <1>11, <2>1, KeptFew
    <3>2. TurnThings(t) = << >> BY <1>1, <1>3, <2>1, AnswerTurnIs
    <3> QED BY <1>5, <2>0, <3>1, <3>2, SaysNothing, SaysConcat
  <2>2. CASE ~(tx = << >> /\ cs = << >>)
    <3>1. g = << b >> BY <1>6, <1>8, <2>2, Zenon DEF Gather
    <3>2. WorthKeeping(g) = << b >> BY <1>9, <1>11, <2>2, <3>1, KeptFew
    <3>3. TurnThings(t) = AnswerThings(a) BY <1>1, <1>3, <2>2, AnswerTurnIs
    <3>4. Says(<< b >>, AnswerThings(a), << >>) BY <1>2, <1>9, SaysAnswer
    <3> QED BY <1>5, <2>0, <3>2, <3>3, <3>4, SaysConcat
  <2> QED BY <2>1, <2>2
<1>13. State(M, g).messages = M /\ State(M, g).pending = g BY SetsState
<1>14. Reads(State(M, g), x \o TurnThings(t), y \o TurnSystem(t))
  BY <1>5, <1>12, <1>13, SaysLists, Zenon DEF Reads
<1> QED BY <1>2, <1>7, <1>14 DEF Afterwards

LEMMA TurnRead ==
  ASSUME NEW d, NEW x, NEW y, Reads(d, x, y), NEW t, IsTurn(format, t),
         t.kind = "answer" => Fresh(d), format = "openai-response"
  PROVE  /\ IsList(ResponsesItems(t))
         /\ Afterwards(Items!Fold(0, d, ResponsesItems(t)), t, x \o TurnThings(t), y \o TurnSystem(t))
<1>1. CASE IsUserTurn(format, t) BY <1>1, UserRead
<1>2. CASE IsSystemTurn(format, t) BY <1>2, SystemRead
<1>3. CASE IsAnswerTurn(t)
  <2>1. t.kind = "answer" BY <1>3 DEF IsAnswerTurn
  <2> QED BY <1>3, <2>1, AnswerRead
<1>4. CASE IsResultTurn(t) BY <1>4, ResultRead
<1> QED BY <1>1, <1>2, <1>3, <1>4 DEF IsTurn

LEMMA ReadNothing ==
  ASSUME NEW o, IsOpened(o), NEW none, none = State(<< >>, << >>)
  PROVE  /\ Reads(Said(none, "system", Joined(o.system)), << >>, Joined(o.system))
         /\ Fresh(Said(none, "system", Joined(o.system)))
<1>1. PICK e, role, text : e = << >> /\ role = "system" /\ text = Joined(o.system) OBVIOUS
<1>2. IsList(e) /\ e \o WorthKeeping(e) = e /\ Says(e, e, e)
  BY <1>1, KeptFew, NoList, ConcatSame, SaysNothing
<1>3. none.messages = e /\ none.pending = e /\ none = State(e, e) BY <1>1, SetsState
<1>4. Reads(none, e, e) BY <1>2, <1>3, Zenon DEF Reads
<1>5. IsList(text)
  <2>1. IsList(o.system) /\ Texted(o.system) BY OpenedIs
  <2> QED BY <1>1, <2>1, SaysSystem, SaysLists
<1>6. PICK p : p = Text(text, FALSE) OBVIOUS
<1>7. Says(<< Message(role, << p >>) >>, e, text)
  <2>1. p.text = text BY <1>6, TextFields
  <2>2. IsList(<< p >>) /\ Texted(<< p >>) /\ Joined(<< p >>) = text BY <1>5, <2>1, OneList, JoinedFew
  <2> QED BY <1>1, <2>2, SaysSystem
<1>8. text = << >> => e = << >> /\ text = << >> BY <1>1
<1>9. Says(<< Message(role, << Text(text, FALSE) >>) >>, e, text) BY <1>6, <1>7
<1>10. Reads(Said(none, role, text), e \o e, e \o text) /\ Fresh(Said(none, role, text))
  BY <1>4, <1>8, <1>9, SaidIs
<1>11. e \o e = e /\ e \o text = text BY <1>1, <1>2, <1>5, ConcatSame
<1> QED BY <1>1, <1>10, <1>11

LEMMA ReadAll ==
  ASSUME NEW o, IsOpened(o), NEW turns, AreTurns(format, turns), format = "openai-response",
         NEW base, base = Said(State(<< >>, << >>), "system", Joined(o.system)),
         NEW ss, ss = [i \in DOMAIN turns |-> ResponsesItems(turns[i])]
  PROVE  Reads(Items!Fold(0, base, FlattenSeq(ss)), Spoken(turns),
               Joined(o.system) \o Reminded(turns))
<1> DEFINE n == Len(turns)
           tt == [i \in DOMAIN turns |-> TurnThings(turns[i])]
           yy == [i \in DOMAIN turns |-> TurnSystem(turns[i])]
<1>0. PICK J : J = Joined(o.system) OBVIOUS
<1>1. n \in Nat /\ n # 0 /\ DOMAIN turns = 1..n BY ListElements DEF AreTurns
<1>2. \A i \in 1..n : IsTurn(format, turns[i]) BY DEF AreTurns
<1>3. \A i \in 1..n : i # 1 => Follows(turns[i-1], turns[i]) BY DEF AreTurns
<1>4. turns[1].kind = "user" BY DEF AreTurns
<1>5. Reads(base, << >>, J) /\ Fresh(base)
  <2>1. PICK none : none = State(<< >>, << >>) OBVIOUS
  <2> QED BY <1>0, <2>1, ReadNothing
<1>6. /\ DOMAIN tt = 1..n /\ tt = [i \in 1..n |-> tt[i]]
      /\ DOMAIN yy = 1..n /\ yy = [i \in 1..n |-> yy[i]]
      /\ DOMAIN ss = 1..n /\ ss = [i \in 1..n |-> ss[i]]
      /\ \A i \in 1..n : /\ tt[i] = TurnThings(turns[i]) /\ yy[i] = TurnSystem(turns[i])
                         /\ ss[i] = ResponsesItems(turns[i])
      /\ FlattenSeq(tt) = Spoken(turns) /\ FlattenSeq(yy) = Reminded(turns)
  BY <1>1 DEF Spoken, Reminded
<1> HIDE DEF n, tt, yy
<1>7. ASSUME NEW i \in 1..n PROVE IsList(tt[i]) /\ IsList(yy[i]) /\ IsList(ss[i])
  <2>1. IsTurn(format, turns[i]) BY <1>2
  <2>2. IsList(ResponsesItems(turns[i]))
    <3>1. PICK d, e, t : d = base /\ e = << >> /\ t = turns[i] OBVIOUS
    <3>2. Reads(d, e, J) /\ Fresh(d) /\ IsTurn(format, t) BY <1>5, <2>1, <3>1
    <3> QED BY <3>1, <3>2, TurnRead
  <2> QED BY <1>6, <2>1, <2>2, TurnLists
<1>8. ASSUME NEW f, f = [i \in 1..n |-> f[i]], \A i \in 1..n : IsList(f[i])
      PROVE  Lists(f) /\ Len(f) = n
  <2>1. IsList(f) /\ Len(f) = n /\ \A y \in ToSet(f) : \E i \in 1..n : y = f[i]
    BY <1>1, <1>8, ListMade
  <2>2. ASSUME NEW y \in ToSet(f) PROVE IsList(y)
    <3>1. PICK i \in 1..n : y = f[i] BY <2>1
    <3> QED BY <1>8, <3>1
  <2> QED BY <2>1, <2>2 DEF Lists
<1>9. /\ Lists(tt) /\ Len(tt) = n /\ Lists(yy) /\ Len(yy) = n /\ Lists(ss) /\ Len(ss) = n
  BY <1>6, <1>7, <1>8
<1>10. PICK r : Chained(r, ss) BY <1>9, FlattenChain
<1>11. PICK p : Chained(p, tt) BY <1>9, FlattenChain
<1>12. PICK q : Chained(q, yy) BY <1>9, FlattenChain
<1>13. /\ r[0] = << >> /\ FlattenSeq(ss) = r[n] /\ \A k \in 0..n : IsList(r[k])
       /\ \A k \in 1..n : r[k] = r[k-1] \o ResponsesItems(turns[k])
  BY <1>6, <1>9, <1>10 DEF Chained
<1>14. /\ p[0] = << >> /\ FlattenSeq(tt) = p[n] /\ \A k \in 0..n : IsList(p[k])
       /\ \A k \in 1..n : p[k] = p[k-1] \o TurnThings(turns[k])
  BY <1>6, <1>9, <1>11 DEF Chained
<1>15. /\ q[0] = << >> /\ FlattenSeq(yy) = q[n] /\ \A k \in 0..n : IsList(q[k])
       /\ \A k \in 1..n : q[k] = q[k-1] \o TurnSystem(turns[k])
  BY <1>6, <1>9, <1>12 DEF Chained
<1>16. IsList(J) BY <1>5, SaysLists DEF Reads
<1> DEFINE F(k) == Items!Fold(0, base, r[k])
           K == {k \in Nat : k <= n =>
                   /\ Reads(F(k), p[k], J \o q[k])
                   /\ (k = 0 \/ turns[k].kind # "answer") => Fresh(F(k))}
<1>17. 0 \in K
  <2>1. DOMAIN << >> = {} BY NoList
  <2>2. Items!Fold(0, base, << >>) = base BY <2>1, Items!FoldEmpty
  <2>3. F(0) = base BY <1>13, <2>2
  <2>4. J \o q[0] = J BY <1>15, <1>16, ConcatSame
  <2>5. Reads(F(0), p[0], J \o q[0]) /\ Fresh(F(0)) BY <1>5, <1>14, <2>3, <2>4
  <2> QED BY <2>5
<1>18. ASSUME NEW k \in Nat, k \in K PROVE k + 1 \in K
  <2> SUFFICES ASSUME k + 1 <= n
               PROVE  /\ Reads(F(k + 1), p[k + 1], J \o q[k + 1])
                      /\ turns[k + 1].kind # "answer" => Fresh(F(k + 1))
    OBVIOUS
  <2>1. k <= n /\ k \in 0..n /\ k + 1 \in 1..n /\ (k + 1) - 1 = k /\ (k = 0 \/ k + 1 # 1) BY <1>1
  <2>2. Reads(F(k), p[k], J \o q[k]) /\ ((k = 0 \/ turns[k].kind # "answer") => Fresh(F(k)))
    BY <1>18, <2>1
  <2> HIDE DEF K
  <2>3. PICK t, d : t = turns[k + 1] /\ d = F(k) OBVIOUS
  <2>4. IsTurn(format, t) BY <1>2, <2>1, <2>3
  <2>5. t.kind = "answer" => Fresh(d)
    <3>1. CASE k = 0 BY <2>2, <2>3, <3>1
    <3>2. CASE k # 0
      <4>1. Follows(turns[k], t) BY <1>3, <2>1, <2>3, <3>2
      <4> QED BY <2>2, <2>3, <4>1 DEF Follows
    <3> QED BY <3>1, <3>2
  <2>6. Reads(d, p[k], J \o q[k]) BY <2>2, <2>3
  <2>7. /\ IsList(ResponsesItems(t))
        /\ Afterwards(Items!Fold(0, d, ResponsesItems(t)), t, p[k] \o TurnThings(t),
                 (J \o q[k]) \o TurnSystem(t))
    BY <2>4, <2>5, <2>6, TurnRead
  <2>8. F(k + 1) = Items!Fold(0, d, ResponsesItems(t))
    <3>1. r[k + 1] = r[k] \o ResponsesItems(t) /\ IsList(r[k]) BY <1>13, <2>1, <2>3
    <3>2. Items!Fold(0, base, r[k] \o ResponsesItems(t))
            = Items!Fold(0, Items!Fold(0, base, r[k]), ResponsesItems(t))
      BY <2>7, <3>1, ItemsConcat
    <3> QED BY <2>3, <3>1, <3>2
  <2>9. (J \o q[k]) \o TurnSystem(t) = J \o q[k + 1]
    <3>1. IsList(q[k]) /\ q[k + 1] = q[k] \o TurnSystem(t) BY <1>15, <2>1, <2>3
    <3>2. IsList(TurnSystem(t)) BY <2>4, TurnLists
    <3>3. PICK s, u, v : s = q[k] /\ u = TurnSystem(t) /\ v = q[k + 1] OBVIOUS
    <3>4. IsList(s) /\ IsList(u) /\ v = s \o u BY <3>1, <3>2, <3>3
    <3>5. (J \o s) \o u = J \o (s \o u) BY <1>16, <3>4, ConcatAll DEF Associates
    <3> QED BY <3>3, <3>4, <3>5, Zenon
  <2>10. p[k + 1] = p[k] \o TurnThings(t) BY <1>14, <2>1, <2>3
  <2> HIDE DEF F
  <2> QED BY <2>3, <2>7, <2>8, <2>9, <2>10 DEF Afterwards
<1> HIDE DEF K
<1>19. \A k \in Nat : k \in K BY <1>17, <1>18, Items!SetInduction
<1>20. Reads(F(n), p[n], J \o q[n]) BY <1>1, <1>19 DEF K
<1> QED BY <1>0, <1>6, <1>13, <1>14, <1>15, <1>20

LEMMA ConvertedResponses ==
  \A req : convertResponsesToChat(req).messages
             = flushPending(FoldLeft(responsesItem,
                 Said([messages |-> << >>, pending |-> << >>], "system", req.instructions),
                 req.input)).messages
BY DEF convertResponsesToChat

LEMMA ResponsesArrives ==
  ASSUME NEW o, IsOpened(o), NEW turns, AreTurns(format, turns), format = "openai-response"
  PROVE  Says(convertResponsesToChat(ResponsesRequest(o, turns)).messages,
              Spoken(turns), Joined(o.system) \o Reminded(turns))
<1>1. PICK base, ss : /\ base = Said(State(<< >>, << >>), "system", Joined(o.system))
                      /\ ss = [i \in DOMAIN turns |-> ResponsesItems(turns[i])]
  OBVIOUS
<1>2. PICK d : d = Items!Fold(0, base, FlattenSeq(ss)) OBVIOUS
<1>3. Reads(d, Spoken(turns), Joined(o.system) \o Reminded(turns)) BY <1>1, <1>2, ReadAll
<1>4. PICK req : req = ResponsesRequest(o, turns) OBVIOUS
<1>5. req.instructions = Joined(o.system) /\ req.input = FlattenSeq(ss)
  <2>1. ResponsesRequest(o, turns).instructions = Joined(o.system) BY DEF ResponsesRequest
  <2>2. ResponsesRequest(o, turns).input
          = FlattenSeq([i \in DOMAIN turns |-> ResponsesItems(turns[i])])
    BY DEF ResponsesRequest
  <2> QED BY <1>1, <1>4, <2>1, <2>2, Zenon
<1>6. FoldLeft(responsesItem,
               Said([messages |-> << >>, pending |-> << >>], "system", req.instructions),
               req.input) = d
  <2>1. Said([messages |-> << >>, pending |-> << >>], "system", req.instructions) = base
    BY <1>1, <1>5, Zenon DEF State
  <2>2. FoldLeft(responsesItem, base, req.input) = d BY <1>2, <1>5, ItemsIsFold, Zenon
  <2> QED BY <2>1, <2>2, Zenon
<1>7. convertResponsesToChat(req).messages = flushPending(d).messages
  BY <1>6, ConvertedResponses, Zenon
<1>8. flushPending(d) = State(d.messages \o WorthKeeping(d.pending), << >>)
      /\ Says(d.messages \o WorthKeeping(d.pending), Spoken(turns), Joined(o.system) \o Reminded(turns))
  BY <1>3, Flushed
<1> QED BY <1>4, <1>7, <1>8, SetsState

-----------------------------------------------------------------------------
(* What the upstream is sent for an opening and a history.                 *)

\* What the system said on the way, as the property gathers it.
RemindersOf(turns) == Passing(turns, LAMBDA t : t.kind = "system")

ReminderParts(turns) ==
  FlattenSeq([i \in DOMAIN RemindersOf(turns) |-> RemindersOf(turns)[i].parts])

LEMMA RemindersAre ==
  ASSUME NEW turns, IsList(turns), NEW f, \A t \in ToSet(turns) : IsTurn(f, t)
  PROVE  /\ IsList(ReminderParts(turns)) /\ Texted(ReminderParts(turns))
         /\ Joined(ReminderParts(turns)) = Reminded(turns)
<1> DEFINE T == ToSet(turns)
           S == {t \in T : t.kind = "system"}
           rs == RemindersOf(turns)
           parts == [t \in T |-> t.parts]
           joined == [t \in T |-> TurnSystem(t)]
           ss == On(parts, rs)
<1>1. \A i \in DOMAIN turns : turns[i] \in T BY ListElements
<1>2. rs = Filter(S, turns) BY <1>1 DEF RemindersOf, Passing, Filter
<1>3. \A t \in T : /\ parts[t] = t.parts /\ joined[t] = TurnSystem(t)
                   /\ t \in S <=> t.kind = "system"
                   /\ joined[t] = IF t \in S THEN Joined(t.parts) ELSE << >>
  BY DEF TurnSystem
<1>4. \A t \in S : t \in T /\ t.kind = "system" OBVIOUS
<1> HIDE DEF S, parts, joined
<1>5. IsList(rs) /\ ToSet(rs) \subseteq T \cap S BY <1>2, FilterList
<1>6. \A i \in DOMAIN rs : rs[i] \in ToSet(rs) BY <1>5, ListElements
<1>7. ss = [i \in DOMAIN rs |-> rs[i].parts] BY <1>3, <1>5, <1>6 DEF On
<1>8. \A t \in S : IsList(t.parts) /\ Texted(t.parts)
  <2>1. \A t \in S : IsSystemTurn(f, t)
    BY <1>4 DEF IsTurn, IsUserTurn, IsAnswerTurn, IsResultTurn
  <2> QED BY <2>1, SystemTurnIs
<1> HIDE DEF rs, T
<1>9. IsList(ss) /\ ToSet(ss) = {parts[t] : t \in ToSet(rs)} BY <1>5, OnList
<1>10. \A x \in ToSet(ss) : IsList(x) /\ Texted(x) BY <1>3, <1>5, <1>8, <1>9
<1>11. PICK st : st = ss OBVIOUS
<1>12. Lists(st) /\ \A x \in ToSet(st) : Texted(x) BY <1>9, <1>10, <1>11 DEF Lists
<1>13. /\ Joined(FlattenSeq(st)) = FlattenSeq([i \in DOMAIN st |-> Joined(st[i])])
       /\ IsList(FlattenSeq(st)) /\ Texted(FlattenSeq(st))
  BY <1>12, JoinedFlatten
<1>14. FlattenSeq([i \in DOMAIN st |-> Joined(st[i])]) = FlatOn(joined, rs)
  <2>1. DOMAIN st = DOMAIN rs /\ \A i \in DOMAIN rs : st[i] = rs[i].parts BY <1>7, <1>11
  <2>2. \A i \in DOMAIN rs : joined[rs[i]] = Joined(st[i]) BY <1>3, <1>5, <1>6, <2>1
  <2> QED BY <2>1, <2>2 DEF FlatOn, On
<1>15. FlatOn(joined, rs) = FlatOn(joined, turns)
  <2>1. \A t \in T : IsList(joined[t])
    <3>1. \A t \in S : IsList(Joined(t.parts)) BY <1>8, JoinedConcat
    <3> QED BY <1>3, <3>1, NoList
  <2>2. Maps(joined, turns) BY <2>1 DEF Maps, T
  <2>3. \A t \in ToSet(turns) : joined[t] = IF t \in S THEN joined[t] ELSE << >> BY <1>3 DEF T
  <2> QED BY <1>2, <2>2, <2>3, FilterMap
<1>16. FlatOn(joined, turns) = Reminded(turns)
  <2>1. \A i \in DOMAIN turns : joined[turns[i]] = TurnSystem(turns[i]) BY <1>1, <1>3
  <2> QED BY <2>1 DEF FlatOn, On, Reminded
<1>17. FlattenSeq(st) = ReminderParts(turns) BY <1>7, <1>11 DEF rs, ReminderParts
<1> QED BY <1>11, <1>13, <1>14, <1>15, <1>16, <1>17

-----------------------------------------------------------------------------
(* The parameters of a request.                                            *)

\* A choice among tools.
Chooses(choice, tools) ==
  /\ choice = [type |-> choice.type, name |-> choice.name]
  /\ choice.type \in {"", "auto", "none", "required", "function"}
  /\ choice.type = "function" => \E t \in ToSet(tools) : t.name = choice.name

LEMMA Parted ==
  ASSUME NEW s, IsList(s), NEW i \in DOMAIN s
  PROVE  \E u, v : IsList(u) /\ IsList(v) /\ s = (u \o << s[i] >>) \o v
<1> DEFINE u == [j \in 1..(i-1) |-> s[j]]
           v == [j \in 1..(Len(s)-i) |-> s[i+j]]
           x == << s[i] >>
<1>1. Len(s) \in Nat /\ i \in 1..Len(s) BY ListElements
<1>2. i - 1 \in Nat /\ Len(s) - i \in Nat BY <1>1
<1>3. u = [j \in 1..(i-1) |-> u[j]] /\ v = [j \in 1..(Len(s)-i) |-> v[j]] OBVIOUS
<1>4. (\A j \in 1..(i-1) : u[j] = s[j]) /\ (\A j \in 1..(Len(s)-i) : v[j] = s[i+j]) OBVIOUS
<1>5. IsList(x) /\ Len(x) = 1 /\ x[1] = s[i] BY OneList
<1> HIDE DEF u, v, x
<1>6. IsList(u) /\ Len(u) = i - 1 /\ IsList(v) /\ Len(v) = Len(s) - i BY <1>2, <1>3, ListMade
<1>7. PICK ux : ux = u \o x OBVIOUS
<1>8. /\ IsList(ux) /\ Len(ux) = i
      /\ \A j \in 1..(i-1) : ux[j] = s[j]
      /\ ux[i] = s[i]
  <2>1. /\ IsList(ux) /\ Len(ux) = Len(u) + Len(x) /\ \A j \in 1..Len(u) : ux[j] = u[j]
        /\ \A j \in 1..Len(x) : ux[Len(u) + j] = x[j]
    <3>1. Concats(u \o x, u, x) BY <1>5, <1>6, ConcatsAre
    <3>2. IsList(u \o x) BY <1>5, <1>6, Concatenated
    <3> QED BY <1>7, <3>1, <3>2, Zenon DEF Concats
  <2>2. 1 \in 1..Len(x) /\ Len(u) + 1 = i BY <1>1, <1>5, <1>6
  <2> QED BY <1>1, <1>4, <1>5, <1>6, <2>1, <2>2
<1>9. PICK w : w = ux \o v OBVIOUS
<1>10. /\ IsList(w) /\ Len(w) = Len(ux) + Len(v) /\ \A j \in 1..Len(ux) : w[j] = ux[j]
       /\ \A j \in 1..Len(v) : w[Len(ux) + j] = v[j]
  <2>1. Concats(ux \o v, ux, v) BY <1>6, <1>8, ConcatsAre
  <2>2. IsList(ux \o v) BY <1>6, <1>8, Concatenated
  <2> QED BY <1>9, <2>1, <2>2, Zenon DEF Concats
<1>11. Len(w) = Len(s) BY <1>1, <1>6, <1>8, <1>10
<1>12. ASSUME NEW j \in 1..Len(s) PROVE s[j] = w[j]
  <2>1. CASE j < i BY <1>1, <1>8, <1>10, <2>1
  <2>2. CASE j = i BY <1>1, <1>8, <1>10, <2>2
  <2>3. CASE j > i
    <3>1. PICK k : k = j - i OBVIOUS
    <3>2. k \in 1..(Len(s)-i) /\ i + k = j BY <1>1, <2>3, <3>1
    <3>3. v[k] = s[j] BY <1>4, <3>2
    <3>4. w[i + k] = v[k] BY <1>6, <1>8, <1>10, <3>2
    <3> QED BY <3>2, <3>3, <3>4
  <2> QED BY <1>1, <2>1, <2>2, <2>3
<1>13. s = w BY <1>10, <1>11, <1>12, SameList
<1> QED BY <1>6, <1>7, <1>9, <1>13 DEF x

LEMMA FilterKeeps ==
  ASSUME NEW S, NEW s, IsList(s), NEW x \in ToSet(s), x \in S
  PROVE  x \in ToSet(Filter(S, s))
<1>1. PICK i \in DOMAIN s : x = s[i] BY ListElements
<1>2. PICK u, v : IsList(u) /\ IsList(v) /\ s = (u \o << s[i] >>) \o v BY Parted
<1>3. PICK ux : ux = u \o << x >> OBVIOUS
<1>4. s = ux \o v BY <1>1, <1>2, <1>3
<1>5. IsList(<< x >>) /\ ToSet(<< x >>) = {x} BY OneList
<1>6. IsList(ux) BY <1>2, <1>3, <1>5, Concatenated
<1>7. PICK fs, fu, fx, fv : /\ fs = Filter(S, s) /\ fu = Filter(S, u)
                            /\ fx = Filter(S, ux) /\ fv = Filter(S, v)
  OBVIOUS
<1>8. IsList(fu) /\ IsList(fx) /\ IsList(fv) BY <1>2, <1>6, <1>7, FilterList
<1>9. fs = fx \o fv BY <1>2, <1>4, <1>6, <1>7, FilterConcat
<1>10. Filter(S, << x >>) = << x >>
  <2>1. ToSet(<< x >>) \subseteq S BY <1>5
  <2> QED BY <1>5, <2>1, FilterAll
<1>11. fx = fu \o << x >>
  <2>1. PICK xs : xs = << x >> OBVIOUS
  <2>2. Filter(S, u \o xs) = Filter(S, u) \o Filter(S, xs) BY <1>2, <1>5, <2>1, FilterConcat
  <2> QED BY <1>3, <1>7, <1>10, <2>1, <2>2, Zenon
<1>12. ToSet(fx) = ToSet(fu) \cup {x} BY <1>5, <1>8, <1>11, Concatenated
<1>13. ToSet(fs) = ToSet(fx) \cup ToSet(fv) BY <1>8, <1>9, Concatenated
<1> QED BY <1>7, <1>12, <1>13

\* The payload's parameters, where those of the opening have arrived.
Carries(payload, o) ==
  /\ IsList(payload.tools) /\ Chooses(payload.tool_choice, payload.tools)
  /\ payload.max_tokens \in Int /\ payload.reasoning_effort = o.effort

Offers(request) ==
  request.tool_choice.type = "tool" /\ request.tool_choice.name \notin DOMAIN Aliases =>
    request.tool_choice.name \in ToSet(request.tools)

LEMMA TokensBounded ==
  ASSUME NEW n \in Int
  PROVE  maxTokens(n) \in 1..MaxTokensLimit /\ nonZeroInt(n, DefaultMaxTokens) \in Int
<1>1. DefaultMaxTokens \in 1..MaxTokensLimit /\ MaxTokensLimit \in Int
  BY SMT DEF DefaultMaxTokens, MaxTokensLimit
<1> QED BY <1>1 DEF maxTokens, nonZeroInt

LEMMA BuiltParameters ==
  ASSUME NEW p, NEW o, Carries(p, o)
  PROVE  LET r == buildCcRequest(p)
         IN Offers(r) /\ r.reasoning_effort = o.effort /\ r.max_tokens \in 1..MaxTokensLimit
<1> DEFINE r == buildCcRequest(p)
           c == p.tool_choice
           w == wireToolChoice(c)
           ts == p.tools
<1>1. /\ r.max_tokens = maxTokens(p.max_tokens) /\ r.tools = wireTools(ts)
      /\ r.tool_choice = w /\ r.reasoning_effort = p.reasoning_effort
  BY DEF buildCcRequest
<1>2. IsList(ts) /\ Chooses(c, ts) BY DEF Carries
<1>3. w.name = c.name /\ (w.type = "tool" => c.type = "function")
  <2>1. PICK ty, nm : c = [type |-> ty, name |-> nm] BY <1>2 DEF Chooses
  <2> HIDE DEF c
  <2>2. c.type = ty /\ c.name = nm BY <2>1
  <2>3. ty \in {"", "auto", "none", "required", "function"} BY <1>2, <2>2 DEF Chooses
  <2>4. CASE ty \in {"", "auto", "none"}
    <3>1. wireToolChoice(c) = c BY <2>2, <2>4 DEF wireToolChoice
    <3> QED BY <2>2, <2>4, <3>1
  <2>5. CASE ty = "required"
    <3>1. wireToolChoice(c) = [c EXCEPT !.type = "any"] BY <2>2, <2>5 DEF wireToolChoice
    <3>2. [c EXCEPT !.type = "any"].type = "any" /\ [c EXCEPT !.type = "any"].name = nm BY <2>1
    <3> QED BY <2>2, <3>1, <3>2
  <2>6. CASE ty = "function"
    <3>1. wireToolChoice(c) = [c EXCEPT !.type = "tool"] BY <2>2, <2>6 DEF wireToolChoice
    <3>2. [c EXCEPT !.type = "tool"].name = nm BY <2>1
    <3> QED BY <2>2, <2>6, <3>1, <3>2
  <2> QED BY <2>3, <2>4, <2>5, <2>6
<1> HIDE DEF r, w, c, ts
<1>4. ASSUME c.type = "function", c.name \notin DOMAIN Aliases PROVE c.name \in ToSet(wireTools(ts))
  <2>1. PICK t \in ToSet(ts) : t.name = c.name BY <1>2, <1>4 DEF Chooses
  <2>2. PICK i \in DOMAIN ts : t = ts[i] BY <1>2, ListElements
  <2>3. DOMAIN wireTools(ts) = DOMAIN ts /\ wireTools(ts)[i] = c.name
        /\ wireTools(ts) = [j \in DOMAIN ts |-> wireTools(ts)[j]]
    BY <1>4, <2>1, <2>2 DEF wireTools, toWireToolName
  <2>4. IsList(wireTools(ts)) BY <1>2, <2>3, MadeList
  <2> QED BY <2>2, <2>3, <2>4, ListElements
<1>5. Offers(r) BY <1>1, <1>3, <1>4 DEF Offers
<1>6. r.reasoning_effort = o.effort /\ r.max_tokens \in 1..MaxTokensLimit
  BY <1>1, TokensBounded DEF Carries
<1> QED BY <1>5, <1>6 DEF r

-----------------------------------------------------------------------------
LEMMA OpeningIs ==
  ASSUME NEW o, IsOpening(o)
  PROVE  IsOpened(o) /\ Chooses(o.tool_choice, o.tools) /\ IsList(o.tools) /\ o.max_tokens \in Int
<1>1. o.tool_choice.type = "function" => \E t \in ToSet(o.tools) : t.name = o.tool_choice.name
  BY DEF IsOpening
<1> QED BY <1>1 DEF IsOpening, IsOpened, Chooses

LEMMA OpenAICarries ==
  ASSUME NEW o, IsOpening(o), NEW turns
  PROVE  Carries(OpenAIRequest(o, turns), o)
<1> DEFINE p == OpenAIRequest(o, turns)
<1>1. /\ p.tools = o.tools /\ p.tool_choice = o.tool_choice
      /\ p.max_tokens = o.max_tokens /\ p.reasoning_effort = o.effort
  BY DEF OpenAIRequest
<1> HIDE DEF p
<1>2. Carries(p, o) BY <1>1, OpeningIs DEF Carries
<1> QED BY <1>2 DEF p

LEMMA AnthropicCarries ==
  ASSUME NEW o, IsOpening(o), NEW turns
  PROVE  Carries(convertAnthropicToOpenAI(AnthropicRequest(o, turns)), o)
<1> DEFINE req == AnthropicRequest(o, turns)
           p == convertAnthropicToOpenAI(req)
           c == o.tool_choice
<1>1. /\ req.tools = o.tools /\ req.tool_choice = AnthropicChoice(c)
      /\ req.max_tokens = o.max_tokens
      /\ req.thinking = [type |-> IF o.effort = "" THEN "" ELSE "adaptive", effort |-> o.effort,
                         budget |-> 0]
  BY DEF AnthropicRequest
<1> HIDE DEF req
<1>2. /\ p.tools = req.tools /\ p.tool_choice = anthropicToolChoice(req.tool_choice)
      /\ p.max_tokens = nonZeroInt(req.max_tokens, DefaultMaxTokens)
      /\ p.reasoning_effort = anthropicEffort(req.thinking)
  BY DEF convertAnthropicToOpenAI
<1> HIDE DEF p
<1>3. Chooses(c, o.tools) /\ IsList(o.tools) /\ o.max_tokens \in Int BY OpeningIs
<1>4. anthropicToolChoice(AnthropicChoice(c)) = c
  <2>1. PICK ty, nm : c = [type |-> ty, name |-> nm] BY <1>3 DEF Chooses
  <2> HIDE DEF c
  <2>2. c.type = ty /\ c.name = nm BY <2>1
  <2>3. ty \in {"", "auto", "none", "required", "function"} BY <1>3, <2>2 DEF Chooses
  <2>4. CASE ty \in {"", "auto", "none"}
    <3>1. AnthropicChoice(c) = c BY <2>2, <2>4 DEF AnthropicChoice
    <3>2. anthropicToolChoice(c) = c BY <2>2, <2>4 DEF anthropicToolChoice
    <3> QED BY <3>1, <3>2
  <2>5. CASE ty = "required"
    <3>1. PICK d : d = [c EXCEPT !.type = "any"] OBVIOUS
    <3>2. AnthropicChoice(c) = d BY <2>2, <2>5, <3>1 DEF AnthropicChoice
    <3>5. d = [type |-> "any", name |-> nm] BY <2>1, <3>1
    <3>3. d.type = "any" /\ [d EXCEPT !.type = "required"] = c
      <4>1. c = [type |-> "required", name |-> nm] BY <2>1, <2>5
      <4>2. d.type = "any" BY <3>5
      <4>3. [d EXCEPT !.type = "required"] = [type |-> "required", name |-> nm] BY <3>5
      <4> QED BY <4>1, <4>2, <4>3
    <3>4. anthropicToolChoice(d) = [d EXCEPT !.type = "required"] BY <3>3 DEF anthropicToolChoice
    <3> QED BY <3>2, <3>3, <3>4
  <2>6. CASE ty = "function"
    <3>1. PICK d : d = [c EXCEPT !.type = "tool"] OBVIOUS
    <3>2. AnthropicChoice(c) = d BY <2>2, <2>6, <3>1 DEF AnthropicChoice
    <3>5. d = [type |-> "tool", name |-> nm] BY <2>1, <3>1
    <3>3. d.type = "tool" /\ [d EXCEPT !.type = "function"] = c
      <4>1. c = [type |-> "function", name |-> nm] BY <2>1, <2>6
      <4>2. d.type = "tool" BY <3>5
      <4>3. [d EXCEPT !.type = "function"] = [type |-> "function", name |-> nm] BY <3>5
      <4> QED BY <4>1, <4>2, <4>3
    <3>4. anthropicToolChoice(d) = [d EXCEPT !.type = "function"] BY <3>3 DEF anthropicToolChoice
    <3> QED BY <3>2, <3>3, <3>4
  <2> QED BY <2>3, <2>4, <2>5, <2>6
<1>5. anthropicEffort(req.thinking) = o.effort
  <2>1. req.thinking.effort = o.effort
        /\ req.thinking.type = IF o.effort = "" THEN "" ELSE "adaptive"
    <3>1. PICK y, e : y = (IF o.effort = "" THEN "" ELSE "adaptive") /\ e = o.effort OBVIOUS
    <3>2. req.thinking = [type |-> y, effort |-> e, budget |-> 0] BY <1>1, <3>1
    <3>3. req.thinking.type = y /\ req.thinking.effort = e BY <3>2
    <3> QED BY <3>1, <3>3
  <2>2. CASE o.effort = "" BY <2>1, <2>2 DEF anthropicEffort
  <2>3. CASE o.effort # "" BY <2>1, <2>3 DEF anthropicEffort
  <2> QED BY <2>2, <2>3
<1>6. Carries(p, o) BY <1>1, <1>2, <1>3, <1>4, <1>5, TokensBounded DEF Carries
<1> QED BY <1>6 DEF p, req

LEMMA ResponsesCarries ==
  ASSUME NEW o, IsOpening(o), NEW turns
  PROVE  Carries(convertResponsesToChat(ResponsesRequest(o, turns)), o)
<1> DEFINE req == ResponsesRequest(o, turns)
           p == convertResponsesToChat(req)
           c == o.tool_choice
           ts == o.tools
           S == {t \in ToSet(ts) : t.type = "function" \/ t.name # ""}
<1>1. /\ req.tools = ts /\ req.tool_choice = c
      /\ req.max_output_tokens = o.max_tokens /\ req.effort = o.effort
  BY DEF ResponsesRequest
<1> HIDE DEF req
<1>2. /\ p.tools = Passing(req.tools, LAMBDA t : t.type = "function" \/ t.name # "")
      /\ p.tool_choice = IF req.tool_choice.name # ""
                         THEN [type |-> "function", name |-> req.tool_choice.name]
                         ELSE req.tool_choice
      /\ p.max_tokens = req.max_output_tokens /\ p.reasoning_effort = req.effort
  BY DEF convertResponsesToChat
<1> HIDE DEF p
<1>3. Chooses(c, ts) /\ IsList(ts) /\ o.max_tokens \in Int BY OpeningIs
<1>4. c.type = "function" => c.name # "" /\ c \in ToSet(ts) BY DEF IsOpening
<1>5. c.type # "function" => c.name = "" BY DEF IsOpening
<1>6. p.tool_choice = c
  <2>1. CASE c.name # ""
    <3>1. c.type = "function" /\ c = [type |-> c.type, name |-> c.name]
      BY <1>3, <1>5, <2>1 DEF Chooses
    <3>2. p.tool_choice = [type |-> "function", name |-> c.name] BY <1>1, <1>2, <2>1
    <3> QED BY <3>1, <3>2
  <2>2. CASE c.name = "" BY <1>1, <1>2, <2>2
  <2> QED BY <2>1, <2>2
<1>7. p.tools = Filter(S, ts)
  <2>1. \A i \in DOMAIN ts : ts[i] \in ToSet(ts) BY <1>3, ListElements
  <2>2. Passing(ts, LAMBDA t : t.type = "function" \/ t.name # "") = Filter(S, ts)
    BY <2>1 DEF Passing, Filter
  <2> QED BY <1>1, <1>2, <2>2
<1>8. IsList(p.tools)
  <2>1. IsList(Filter(S, ts)) BY <1>3, FilterList
  <2> QED BY <1>7, <2>1, Zenon
<1>9. ASSUME c.type = "function" PROVE \E t \in ToSet(p.tools) : t.name = c.name
  <2>1. c \in ToSet(ts) /\ c \in S BY <1>4, <1>9
  <2>2. c \in ToSet(Filter(S, ts)) BY <1>3, <2>1, FilterKeeps
  <2> QED BY <1>7, <2>2
<1>10. Chooses(p.tool_choice, p.tools) BY <1>3, <1>6, <1>9 DEF Chooses
<1>11. Carries(p, o) BY <1>1, <1>2, <1>3, <1>8, <1>10 DEF Carries
<1> QED BY <1>11 DEF p, req

-----------------------------------------------------------------------------
(* The three formats together.                                             *)

\* What format's converter makes of the history.
ChatOf(f, o, turns) ==
  CASE f = "openai" -> OpenAIRequest(o, turns)
    [] f = "claude" -> convertAnthropicToOpenAI(AnthropicRequest(o, turns))
    [] f = "openai-response" -> convertResponsesToChat(ResponsesRequest(o, turns))

Formats == {"openai", "claude", "openai-response"}

LEMMA ChatArrives ==
  ASSUME NEW o, IsOpening(o), NEW turns, AreTurns(format, turns), format \in Formats
  PROVE  /\ Says(ChatOf(format, o, turns).messages, Spoken(turns), Joined(o.system) \o Reminded(turns))
         /\ Carries(ChatOf(format, o, turns), o)
<1>1. CASE format = "openai"
  <2>1. ChatOf(format, o, turns) = OpenAIRequest(o, turns) BY <1>1 DEF ChatOf
  <2> QED BY <1>1, <2>1, OpeningIs, OpenAIArrives, OpenAICarries
<1>2. CASE format = "claude"
  <2>1. ChatOf(format, o, turns) = convertAnthropicToOpenAI(AnthropicRequest(o, turns))
    BY <1>2 DEF ChatOf
  <2> QED BY <1>2, <2>1, OpeningIs, ClaudeArrives, AnthropicCarries
<1>3. CASE format = "openai-response"
  <2>1. ChatOf(format, o, turns) = convertResponsesToChat(ResponsesRequest(o, turns))
    BY <1>3 DEF ChatOf
  <2> QED BY <1>3, <2>1, OpeningIs, ResponsesArrives, ResponsesCarries
<1> QED BY <1>1, <1>2, <1>3 DEF Formats

SentAs(turns) == Sent = buildCcRequest(ChatOf(format, opening, turns))

LEMMA RequestIs ==
  ASSUME NEW turns, turns = << UserTurn(opening.ask) >> \o history, format \in Formats
  PROVE  SentAs(turns)
<1>2. CASE format = "openai"
  <2>1. Sent = TranslateRequest(format, OpenAIRequest(opening, turns)) BY <1>2 DEF Sent
  <2>2. ChatOf(format, opening, turns) = OpenAIRequest(opening, turns) BY <1>2 DEF ChatOf
  <2>3. \A body : TranslateRequest(format, body) = buildCcRequest(body) BY <1>2 DEF TranslateRequest
  <2> QED BY <2>1, <2>2, <2>3 DEF SentAs
<1>3. CASE format = "claude"
  <2>1. Sent = TranslateRequest(format, AnthropicRequest(opening, turns)) BY <1>3 DEF Sent
  <2>2. ChatOf(format, opening, turns) = convertAnthropicToOpenAI(AnthropicRequest(opening, turns))
    BY <1>3 DEF ChatOf
  <2>3. \A body : TranslateRequest(format, body) = buildCcRequest(convertAnthropicToOpenAI(body))
    BY <1>3 DEF TranslateRequest
  <2> QED BY <2>1, <2>2, <2>3 DEF SentAs
<1>4. CASE format = "openai-response"
  <2>1. Sent = TranslateRequest(format, ResponsesRequest(opening, turns)) BY <1>4 DEF Sent
  <2>2. ChatOf(format, opening, turns) = convertResponsesToChat(ResponsesRequest(opening, turns))
    BY <1>4 DEF ChatOf
  <2>3. \A body : TranslateRequest(format, body) = buildCcRequest(convertResponsesToChat(body))
    BY <1>4 DEF TranslateRequest
  <2> QED BY <2>1, <2>2, <2>3 DEF SentAs
<1>5. format = "openai" \/ format = "claude" \/ format = "openai-response" BY DEF Formats
<1>6. SentAs(turns) BY <1>2, <1>3, <1>4, <1>5
<1> QED BY <1>6

\* A client's turns so far.
Conversing ==
  /\ format \in Formats /\ IsOpening(opening)
  /\ AreTurns(format, << UserTurn(opening.ask) >> \o history) /\ IsList(history)
  /\ \A t \in ToSet(history) : IsTurn(format, t)

\* The question reminds of nothing.
LEMMA AskReminds ==
  ASSUME NEW f, NEW turns, IsList(turns), \A t \in ToSet(turns) : IsTurn(f, t),
         NEW u, u.kind = "user"
  PROVE  Reminded(<< u >> \o turns) = Reminded(turns)
<1> DEFINE T == {u} \cup ToSet(turns)
           g == [t \in T |-> TurnSystem(t)]
<1>1. PICK us : us = << u >> OBVIOUS
<1>2. IsList(us) /\ ToSet(us) = {u} BY <1>1, OneList
<1>3. PICK w : w = us \o turns OBVIOUS
<1>4. IsList(w) /\ ToSet(w) = T BY <1>2, <1>3, Concatenated
<1>5. \A t \in T : g[t] = TurnSystem(t) OBVIOUS
<1>6. TurnSystem(u) = << >> BY DEF TurnSystem
<1>7. \A t \in ToSet(turns) : IsList(TurnSystem(t))
  <2>1. ASSUME NEW t \in ToSet(turns) PROVE IsList(TurnSystem(t))
    <3>1. CASE t.kind = "system"
      <4>1. IsSystemTurn(f, t) BY <3>1 DEF IsTurn, IsUserTurn, IsAnswerTurn, IsResultTurn
      <4>2. TurnSystem(t) = Joined(t.parts) /\ IsList(t.parts) /\ Texted(t.parts) BY <4>1, SystemTurnIs
      <4> QED BY <4>2, JoinedConcat
    <3>2. CASE t.kind # "system"
      <4>1. TurnSystem(t) = << >> BY <3>2 DEF TurnSystem
      <4> QED BY <4>1, NoList
    <3> QED BY <3>1, <3>2
  <2> QED BY <2>1
<1>8. u \in T /\ ToSet(turns) \subseteq T OBVIOUS
<1> HIDE DEF T, g
<1>9. ASSUME NEW s, IsList(s), ToSet(s) \subseteq T PROVE Reminded(s) = FlatOn(g, s)
  <2>1. \A i \in DOMAIN s : s[i] \in T BY <1>9, ListElements
  <2>2. \A i \in DOMAIN s : g[s[i]] = TurnSystem(s[i]) BY <1>5, <2>1
  <2> QED BY <2>2 DEF Reminded, FlatOn, On
<1>10. Maps(g, us) /\ Maps(g, turns) BY <1>2, <1>5, <1>6, <1>7, <1>8, NoList DEF Maps
<1>11. FlatOn(g, w) = FlatOn(g, us) \o FlatOn(g, turns) BY <1>2, <1>3, <1>10, FlatOnConcat
<1>12. FlatOn(g, us) = << >>
  <2>1. g[u] = << >> /\ IsList(g[u]) BY <1>5, <1>6, <1>8, NoList
  <2> QED BY <1>1, <2>1, FlatOnFew
<1>13. IsList(FlatOn(g, turns)) BY <1>10, FlatOnLists
<1>14. FlatOn(g, w) = FlatOn(g, turns) BY <1>11, <1>12, <1>13, ConcatSame
<1>15. Reminded(w) = FlatOn(g, w) /\ Reminded(turns) = FlatOn(g, turns) BY <1>4, <1>8, <1>9
<1> QED BY <1>1, <1>3, <1>14, <1>15

LEMMA Arrives ==
  ASSUME Conversing
  PROVE  ConversationArrives
<1>1. PICK turns : turns = << UserTurn(opening.ask) >> \o history OBVIOUS
<1>2. PICK chat : chat = ChatOf(format, opening, turns) OBVIOUS
<1>3. PICK request : request = Sent OBVIOUS
<1>4. PICK said, told : said = Spoken(turns) /\ told = Joined(opening.system) \o Reminded(turns)
  OBVIOUS
<1>5. request = buildCcRequest(chat)
  <2>1. format \in Formats BY DEF Conversing
  <2>2. SentAs(turns) BY <1>1, <2>1, RequestIs
  <2> QED BY <1>2, <1>3, <2>2 DEF SentAs
<1>6. Says(chat.messages, said, told) /\ Carries(chat, opening)
  BY <1>1, <1>2, <1>4, ChatArrives DEF Conversing
<1>7. Told(request.messages) = said /\ (told # << >> => BlockTexts(request.system) = told)
  <2>1. /\ Told(buildCcRequest(chat).messages) = said
        /\ told # << >> => BlockTexts(buildCcRequest(chat).system) = told
    BY <1>6, Built
  <2> QED BY <1>5, <2>1, Zenon
<1>8. /\ Offers(request) /\ request.reasoning_effort = opening.effort
      /\ request.max_tokens \in 1..MaxTokensLimit
  BY <1>5, <1>6, BuiltParameters
<1>9. told = Joined(opening.system \o ReminderParts(history))
  <2>1. /\ IsList(ReminderParts(history)) /\ Texted(ReminderParts(history))
        /\ Joined(ReminderParts(history)) = Reminded(history)
    BY RemindersAre DEF Conversing
  <2>2. IsList(opening.system) /\ Texted(opening.system) BY OpeningIs, OpenedIs DEF Conversing
  <2>3. PICK rp : rp = ReminderParts(history) OBVIOUS
  <2>4. Joined(opening.system \o rp) = Joined(opening.system) \o Joined(rp)
    BY <2>1, <2>2, <2>3, JoinedConcat
  <2>5. Reminded(turns) = Reminded(history)
    <3>1. UserTurn(opening.ask).kind = "user" BY DEF UserTurn
    <3> QED BY <1>1, <3>1, AskReminds DEF Conversing
  <2> QED BY <1>4, <2>1, <2>3, <2>4, <2>5, Zenon
<1>10. RemindersOf(history) = Passing(history, LAMBDA t : t.kind = "system") BY DEF RemindersOf
<1> QED BY <1>1, <1>3, <1>4, <1>7, <1>8, <1>9, <1>10
       DEF ConversationArrives, Told, BlockTexts, Offers, Spoken, ReminderParts, RemindersOf

-----------------------------------------------------------------------------
(* What the client does next.                                              *)

LEMMA UserTurnFields == \A parts : UserTurn(parts).kind = "user" /\ UserTurn(parts).parts = parts
BY DEF UserTurn

LEMMA SystemTurnFields ==
  \A text : SystemTurn(text).kind = "system" /\ SystemTurn(text).parts = << Text(text, FALSE) >>
<1> TAKE text
<1>1. PICK ps, none, id, kind :
        ps = << Text(text, FALSE) >> /\ none = << >> /\ id = NoId /\ kind = "system"
  OBVIOUS
<1>2. UserTurn(ps) = [kind |-> "user", parts |-> ps, answer |-> none, id |-> id]
  BY <1>1, Zenon DEF UserTurn
<1>3. SystemTurn(text) = [UserTurn(ps) EXCEPT !.kind = kind] BY <1>1, Zenon DEF SystemTurn
<1>4. [UserTurn(ps) EXCEPT !.kind = kind].kind = kind
      /\ [UserTurn(ps) EXCEPT !.kind = kind].parts = ps
  BY <1>2
<1> QED BY <1>1, <1>3, <1>4

LEMMA AnswerTurnFields == \A a : AnswerTurn(a).kind = "answer" /\ AnswerTurn(a).answer = << a >>
<1> TAKE a
<1>1. PICK none, id, kind, one :
        none = << >> /\ id = NoId /\ kind = "answer" /\ one = << a >>
  OBVIOUS
<1>2. PICK u : u = [kind |-> "user", parts |-> none, answer |-> none, id |-> id] OBVIOUS
<1>3. UserTurn(<< >>) = u BY <1>1, <1>2, Zenon DEF UserTurn
<1>4. AnswerTurn(a) = [u EXCEPT !.kind = kind, !.answer = one]
  BY <1>1, <1>3, Zenon DEF AnswerTurn
<1>5. PICK v : v = [u EXCEPT !.kind = kind] OBVIOUS
<1>6. v = [kind |-> kind, parts |-> none, answer |-> none, id |-> id] BY <1>2, <1>5
<1>7. [u EXCEPT !.kind = kind, !.answer = one] = [v EXCEPT !.answer = one]
  <2>1. [u EXCEPT !.kind = kind, !.answer = one] = [[u EXCEPT !.kind = kind] EXCEPT !.answer = one]
    OBVIOUS
  <2> QED BY <1>5, <2>1
<1>8. [v EXCEPT !.answer = one].kind = kind /\ [v EXCEPT !.answer = one].answer = one BY <1>6
<1> QED BY <1>1, <1>4, <1>7, <1>8

LEMMA ResultTurnFields ==
  \A id, output : /\ ResultTurn(id, output).kind = "result"
                  /\ ResultTurn(id, output).parts = << Text(output, FALSE) >>
                  /\ ResultTurn(id, output).id = id
<1> TAKE id, output
<1>1. PICK none, no, kind, ps :
        none = << >> /\ no = NoId /\ kind = "result" /\ ps = << Text(output, FALSE) >>
  OBVIOUS
<1>2. PICK u : u = [kind |-> "user", parts |-> ps, answer |-> none, id |-> no] OBVIOUS
<1>3. UserTurn(ps) = u BY <1>1, <1>2, Zenon DEF UserTurn
<1>4. ResultTurn(id, output) = [u EXCEPT !.kind = kind, !.id = id]
  BY <1>1, <1>3, Zenon DEF ResultTurn
<1>5. PICK v : v = [u EXCEPT !.kind = kind] OBVIOUS
<1>6. v = [kind |-> kind, parts |-> ps, answer |-> none, id |-> no] BY <1>2, <1>5
<1>7. [u EXCEPT !.kind = kind, !.id = id] = [v EXCEPT !.id = id]
  <2>1. [u EXCEPT !.kind = kind, !.id = id] = [[u EXCEPT !.kind = kind] EXCEPT !.id = id]
    OBVIOUS
  <2> QED BY <1>5, <2>1
<1>8. /\ [v EXCEPT !.id = id].kind = kind /\ [v EXCEPT !.id = id].parts = ps
      /\ [v EXCEPT !.id = id].id = id
  BY <1>6
<1> QED BY <1>1, <1>4, <1>7, <1>8

\* Turns that may follow an answer: none is an answer, and results come first.
IsReaction(f, r) ==
  /\ IsList(r) /\ Len(r) # 0
  /\ \A i \in 1..Len(r) : IsTurn(f, r[i]) /\ r[i].kind # "answer"
  /\ \A i \in 1..Len(r) : i # 1 /\ r[i].kind = "result" => r[i-1].kind = "result"

\* The turns up to and including a question, results or a remark: an answer may follow.
Awaits(f, turns) == AreTurns(f, turns) /\ turns[Len(turns)].kind # "answer"

LEMMA TurnsJoin ==
  ASSUME NEW f, NEW turns, Awaits(f, turns), NEW t, IsTurn(f, t), t.kind = "answer",
         NEW r, IsReaction(f, r), NEW w, w = (turns \o << t >>) \o r
  PROVE  Awaits(f, w)
<1> DEFINE n == Len(turns)
           k == Len(r)
           one == << t >>
<1>1. IsList(turns) /\ n \in Nat /\ n # 0 /\ IsList(r) /\ k \in Nat /\ k # 0
  BY ListElements DEF Awaits, AreTurns, IsReaction
<1>2. IsList(one) /\ Len(one) = 1 /\ one[1] = t BY OneList
<1> HIDE DEF one
<1>3. PICK m : m = turns \o one OBVIOUS
<1>4. Concats(turns \o one, turns, one) /\ IsList(turns \o one)
  BY <1>1, <1>2, ConcatsAre, Concatenated
<1>5. IsList(m) /\ Len(m) = n + 1 /\ (\A i \in 1..n : m[i] = turns[i]) /\ m[n + 1] = t
  <2>1. Concats(m, turns, one) /\ IsList(m) BY <1>3, <1>4
  <2>2. 1 \in 1..Len(one) BY <1>2
  <2> QED BY <1>2, <2>1, <2>2 DEF Concats
<1>6. w = m \o r BY <1>3 DEF one
<1>7. Concats(m \o r, m, r) /\ IsList(m \o r) BY <1>1, <1>5, ConcatsAre, Concatenated
<1>8. Concats(w, m, r) /\ IsList(w) BY <1>6, <1>7
<1>9. /\ Len(w) = n + 1 + k /\ \A i \in 1..n : w[i] = turns[i]
      /\ w[n + 1] = t /\ \A i \in 1..k : w[n + 1 + i] = r[i]
  BY <1>1, <1>5, <1>8 DEF Concats
<1>19. Len(w) = n + 1 + k BY <1>9
<1>10. ASSUME NEW i \in 1..Len(w)
       PROVE  i \in 1..n \/ i = n + 1 \/ (i - (n + 1) \in 1..k /\ w[i] = r[i - (n + 1)])
  <2>1. CASE i > n + 1
    <3>1. PICK j : j = i - (n + 1) OBVIOUS
    <3>2. j \in 1..k /\ n + 1 + j = i BY <1>1, <1>19, <2>1, <3>1
    <3>3. w[n + 1 + j] = r[j] BY <1>9, <3>2
    <3> QED BY <3>1, <3>2, <3>3
  <2> QED BY <1>1, <1>19, <2>1
<1>11. \A i \in 1..n : IsTurn(f, turns[i]) BY DEF Awaits, AreTurns
<1>12. \A i \in 1..k : IsTurn(f, r[i]) /\ r[i].kind # "answer" BY DEF IsReaction
<1>13. ASSUME NEW i \in 1..Len(w) PROVE IsTurn(f, w[i])
  BY <1>9, <1>10, <1>11, <1>12
<1>14. turns[n].kind # "answer" /\ turns[1].kind = "user" BY DEF Awaits, AreTurns
<1>15. ASSUME NEW i \in 1..Len(w), i # 1 PROVE Follows(w[i-1], w[i])
  <2>1. CASE i \in 1..n
    <3>1. i - 1 \in 1..n BY <1>1, <1>15, <2>1
    <3>2. Follows(turns[i-1], turns[i]) BY <1>15, <2>1 DEF Awaits, AreTurns
    <3> QED BY <1>9, <2>1, <3>1, <3>2
  <2>2. CASE i = n + 1
    <3>1. i - 1 = n /\ n \in 1..n BY <1>1, <2>2
    <3> QED BY <1>9, <1>14, <2>2, <3>1 DEF Follows
  <2>3. CASE i - (n + 1) \in 1..k /\ w[i] = r[i - (n + 1)]
    <3>1. PICK j : j = i - (n + 1) OBVIOUS
    <3>2. j \in 1..k /\ w[i] = r[j] /\ r[j].kind # "answer" BY <1>12, <2>3, <3>1
    <3>3. CASE j = 1
      <4>1. i - 1 = n + 1 BY <1>1, <3>1, <3>3
      <4> QED BY <1>9, <3>2, <4>1 DEF Follows
    <3>4. CASE j # 1
      <4>1. j - 1 \in 1..k /\ n + 1 + (j - 1) = i - 1 BY <1>1, <3>1, <3>2, <3>4
      <4>2. w[i - 1] = r[j - 1]
        <5>1. PICK h : h = j - 1 OBVIOUS
        <5>2. w[n + 1 + h] = r[h] BY <1>9, <4>1, <5>1
        <5> QED BY <4>1, <5>1, <5>2
      <4>3. r[j].kind = "result" => r[j - 1].kind = "result" BY <3>2, <3>4 DEF IsReaction
      <4> QED BY <3>2, <4>2, <4>3 DEF Follows
    <3> QED BY <3>3, <3>4
  <2> QED BY <1>10, <2>1, <2>2, <2>3
<1>16. w[1].kind = "user" /\ w[Len(w)].kind # "answer"
  <2>1. 1 \in 1..n /\ k \in 1..k /\ Len(w) = n + 1 + k BY <1>1, <1>9
  <2>2. w[1] = turns[1] /\ w[n + 1 + k] = r[k] BY <1>9, <2>1
  <2> QED BY <1>12, <1>14, <2>1, <2>2
<1>17. Len(w) # 0 BY <1>1, <1>9
<1> QED BY <1>8, <1>13, <1>15, <1>16, <1>17 DEF Awaits, AreTurns

-----------------------------------------------------------------------------
\* The turns of a reaction.
LEMMA GoesOn ==
  ASSUME NEW f \in Formats, NEW cache \in BOOLEAN, f = "openai-response" => cache = FALSE
  PROVE  LET u == UserTurn(<< Text(<<"go on">>, cache) >>)
         IN IsTurn(f, u) /\ u.kind = "user"
<1>1. PICK text, p, ps : text = <<"go on">> /\ p = Text(text, cache) /\ ps = << p >> OBVIOUS
<1>2. PICK word : word = "go on" OBVIOUS
<1>3. IsList(text) /\ text # << >>
  <2>1. text = << word >> BY <1>1, <1>2
  <2> QED BY <2>1, OneList, Zenon
<1>4. p.text = text /\ p.cache = cache BY <1>1, TextFields
<1>5. IsText(p) BY <1>1, <1>3, <1>4 DEF IsText
<1>6. IsList(ps) /\ ToSet(ps) = {p} BY <1>1, OneList
<1>7. IsSaid(ps) BY <1>5, <1>6 DEF IsSaid
<1>8. PICK u : u = UserTurn(ps) OBVIOUS
<1>9. u.kind = "user" /\ u.parts = ps BY <1>8, UserTurnFields
<1>10. f = "openai-response" => \E t : u.parts = << Text(t, FALSE) >> /\ IsList(t) /\ t # << >>
  <2>1. ASSUME f = "openai-response" PROVE u.parts = << Text(text, FALSE) >> BY <1>1, <1>9, <2>1
  <2> QED BY <1>3, <2>1
<1>11. IsUserTurn(f, u) BY <1>7, <1>9, <1>10 DEF IsUserTurn
<1>12. IsTurn(f, u) /\ u.kind = "user" BY <1>9, <1>11 DEF IsTurn
<1> QED BY <1>1, <1>8, <1>12

LEMMA Minds ==
  ASSUME NEW f \in Formats, f # "claude"
  PROVE  IsTurn(f, SystemTurn(<<"mind">>)) /\ SystemTurn(<<"mind">>).kind = "system"
<1>1. PICK word, text : word = "mind" /\ text = << word >> OBVIOUS
<1>2. IsList(text) BY <1>1, OneList
<1>3. PICK u : u = SystemTurn(text) OBVIOUS
<1>4. u.kind = "system" /\ u.parts = << Text(text, FALSE) >> BY <1>3, SystemTurnFields
<1>5. IsSystemTurn(f, u) BY <1>2, <1>4 DEF IsSystemTurn
<1>6. IsTurn(f, u) BY <1>5 DEF IsTurn
<1> QED BY <1>1, <1>3, <1>4, <1>6

LEMMA Outputs ==
  \A f, id, name : /\ IsTurn(f, ResultTurn(id, <<"result", name>>))
                   /\ ResultTurn(id, <<"result", name>>).kind = "result"
<1> TAKE f, id, name
<1>1. PICK word, text : word = "result" /\ text = << word, name >> OBVIOUS
<1>2. IsList(text)
  <2>1. IsList(<< word >>) /\ IsList(<< name >>) BY OneList
  <2>2. text = << word >> \o << name >> BY <1>1, Pair
  <2> QED BY <2>1, <2>2, Concatenated
<1>3. PICK u : u = ResultTurn(id, text) OBVIOUS
<1>4. u.kind = "result" /\ u.parts = << Text(text, FALSE) >> BY <1>3, ResultTurnFields
<1>5. IsResultTurn(u) BY <1>2, <1>4 DEF IsResultTurn
<1>6. IsTurn(f, u) BY <1>5 DEF IsTurn
<1> QED BY <1>1, <1>3, <1>4, <1>6

\* What is added, or what the tools said, or that and more.
More(f) ==
  { << UserTurn(<< Text(<<"go on">>, cache) >>) >> : cache \in {FALSE, f = "claude"} }
  \cup (IF f = "claude" THEN {}
        ELSE {<< SystemTurn(<<"mind">>), UserTurn(<< Text(<<"go on">>, FALSE) >>) >>})

\* No results among them.
IsMore(f, m) ==
  IsList(m) /\ \A i \in 1..Len(m) : IsTurn(f, m[i]) /\ m[i].kind \in {"user", "system"}

IsOutput(f, r) == IsList(r) /\ \A i \in 1..Len(r) : IsTurn(f, r[i]) /\ r[i].kind = "result"

LEMMA MoreIs ==
  ASSUME NEW f \in Formats, NEW m \in More(f)
  PROVE  IsMore(f, m) /\ Len(m) # 0
<1>1. CASE \E cache \in {FALSE, f = "claude"} : m = << UserTurn(<< Text(<<"go on">>, cache) >>) >>
  <2>1. PICK cache \in {FALSE, f = "claude"} : m = << UserTurn(<< Text(<<"go on">>, cache) >>) >>
    BY <1>1
  <2>2. cache \in BOOLEAN /\ (f = "openai-response" => cache = FALSE) OBVIOUS
  <2>3. PICK u : u = UserTurn(<< Text(<<"go on">>, cache) >>) OBVIOUS
  <2>4. IsTurn(f, u) /\ u.kind = "user" BY <2>2, <2>3, GoesOn
  <2>5. IsList(m) /\ Len(m) = 1 /\ m[1] = u BY <2>1, <2>3, OneList
  <2> QED BY <2>4, <2>5 DEF IsMore
<1>2. CASE f # "claude" /\ m = << SystemTurn(<<"mind">>), UserTurn(<< Text(<<"go on">>, FALSE) >>) >>
  <2>1. PICK s, u : s = SystemTurn(<<"mind">>) /\ u = UserTurn(<< Text(<<"go on">>, FALSE) >>)
    OBVIOUS
  <2>2. IsTurn(f, s) /\ s.kind = "system" BY <1>2, <2>1, Minds
  <2>3. PICK no : no = FALSE OBVIOUS
  <2>4. no \in BOOLEAN /\ (f = "openai-response" => no = FALSE) BY <2>3
  <2>5. IsTurn(f, u) /\ u.kind = "user" BY <2>1, <2>3, <2>4, GoesOn
  <2>6. m = << s >> \o << u >> BY <1>2, <2>1, Pair
  <2>7. PICK ss, us : ss = << s >> /\ us = << u >> OBVIOUS
  <2>8. IsList(ss) /\ Len(ss) = 1 /\ ss[1] = s /\ IsList(us) /\ Len(us) = 1 /\ us[1] = u
    BY <2>7, OneList
  <2>9. Concats(ss \o us, ss, us) /\ IsList(ss \o us) BY <2>8, ConcatsAre, Concatenated
  <2>10. Concats(m, ss, us) /\ IsList(m) BY <2>6, <2>7, <2>9
  <2>11. 1 \in 1..1 OBVIOUS
  <2>12. Len(m) = 2 /\ m[1] = s /\ m[2] = u BY <2>8, <2>10, <2>11 DEF Concats
  <2>13. \A i \in 1..Len(m) : m[i] = s \/ m[i] = u BY <2>12
  <2> QED BY <2>2, <2>5, <2>10, <2>12, <2>13 DEF IsMore
<1> QED BY <1>1, <1>2 DEF More

\* What the tools say, and more.
LEMMA OutputMore ==
  ASSUME NEW f, NEW r, IsOutput(f, r), NEW m, IsMore(f, m), Len(r) + Len(m) # 0, NEW w, w = r \o m
  PROVE  IsReaction(f, w)
<1> DEFINE n == Len(r)
           k == Len(m)
<1>1. IsList(r) /\ IsList(m) /\ n \in Nat /\ k \in Nat BY ListElements DEF IsOutput, IsMore
<1>2. Concats(r \o m, r, m) /\ IsList(r \o m) BY <1>1, ConcatsAre, Concatenated
<1>3. Concats(w, r, m) /\ IsList(w) BY <1>2
<1>4. /\ Len(w) = n + k /\ \A i \in 1..n : w[i] = r[i]
      /\ \A i \in 1..k : w[n + i] = m[i]
  BY <1>3 DEF Concats
<1>5. Len(w) = n + k BY <1>4
<1>6. ASSUME NEW i \in 1..Len(w), i \notin 1..n PROVE i - n \in 1..k /\ w[i] = m[i - n]
  <2>1. PICK j : j = i - n OBVIOUS
  <2>2. j \in 1..k /\ n + j = i BY <1>1, <1>5, <1>6, <2>1
  <2>3. w[n + j] = m[j] BY <1>4, <2>2
  <2> QED BY <2>1, <2>2, <2>3
<1>7. \A i \in 1..n : IsTurn(f, r[i]) /\ r[i].kind = "result" BY DEF IsOutput
<1>8. \A i \in 1..k : IsTurn(f, m[i]) /\ m[i].kind \in {"user", "system"} BY DEF IsMore
<1>9. ASSUME NEW i \in 1..Len(w)
      PROVE  /\ IsTurn(f, w[i]) /\ w[i].kind # "answer"
             /\ i # 1 /\ w[i].kind = "result" => w[i-1].kind = "result"
  <2>1. CASE i \in 1..n
    <3>1. i # 1 => i - 1 \in 1..n BY <1>1, <2>1
    <3> QED BY <1>4, <1>7, <2>1, <3>1
  <2>2. CASE i \notin 1..n BY <1>6, <1>8, <2>2
  <2> QED BY <2>1, <2>2
<1>10. Len(w) # 0 BY <1>5
<1> QED BY <1>3, <1>9, <1>10 DEF IsReaction

ReactionsTo(f, results) ==
  IF results = << >> THEN More(f)
  ELSE { r \o m : r \in {results, Reverse(results)}, m \in More(f) \cup {<< >>} }

OutputsOf(answer) ==
  [i \in DOMAIN answer.calls |->
     ResultTurn(answer.calls[i].id, <<"result", answer.calls[i].name>>)]

LEMMA ReactionsAre ==
  ASSUME NEW f, NEW answer
  PROVE  Reactions(f, answer) = ReactionsTo(f, OutputsOf(answer))
BY DEF Reactions, ReactionsTo, More, OutputsOf

LEMMA ReactionIs ==
  ASSUME NEW f \in Formats, NEW a, IsAnswer(a), NEW r \in Reactions(f, a)
  PROVE  IsReaction(f, r)
<1> DEFINE calls == a.calls
           results == [i \in DOMAIN calls |-> ResultTurn(calls[i].id, <<"result", calls[i].name>>)]
<1>1. IF results = << >> THEN r \in More(f)
      ELSE \E q \in {results, Reverse(results)}, m \in More(f) \cup {<< >>} : r = q \o m
  <2>1. r \in ReactionsTo(f, results) BY ReactionsAre, Zenon DEF OutputsOf
  <2> HIDE DEF results
  <2> QED BY <2>1 DEF ReactionsTo
<1>2. IsList(calls) BY DEF IsAnswer
<1>3. DOMAIN results = DOMAIN calls /\ results = [i \in DOMAIN calls |-> results[i]]
      /\ \A i \in DOMAIN calls : IsTurn(f, results[i]) /\ results[i].kind = "result"
  BY Outputs
<1> HIDE DEF calls, results
<1>4. IsList(results) /\ Len(results) = Len(calls) BY <1>2, <1>3, MadeList
<1>5. DOMAIN results = 1..Len(results) /\ Len(results) \in Nat
      /\ (results = << >> <=> Len(results) = 0)
  BY <1>4, ListElements
<1>6. IsOutput(f, results) BY <1>3, <1>4, <1>5 DEF IsOutput
<1>7. IsOutput(f, Reverse(results)) /\ Len(Reverse(results)) = Len(results)
  <2> DEFINE n == Len(results)
             v == Reverse(results)
  <2>1. v = [i \in 1..n |-> results[(n - i) + 1]] BY DEF Reverse
  <2>2. v = [i \in 1..n |-> v[i]] BY <2>1
  <2>3. \A i \in 1..n : (n - i) + 1 \in 1..n BY <1>5
  <2>4. ASSUME NEW i \in 1..n PROVE IsTurn(f, v[i]) /\ v[i].kind = "result"
    <3>1. PICK j : j = (n - i) + 1 OBVIOUS
    <3>2. j \in 1..n BY <2>3, <3>1
    <3>3. v[i] = results[j] BY <2>1, <3>1
    <3> HIDE DEF v
    <3> QED BY <1>3, <1>5, <3>2, <3>3
  <2> HIDE DEF v
  <2>5. IsList(v) /\ Len(v) = n BY <1>5, <2>2, ListMade
  <2> QED BY <2>4, <2>5 DEF IsOutput, v
<1>8. IsMore(f, << >>) /\ Len(<< >>) = 0 /\ IsOutput(f, << >>) BY NoList DEF IsMore, IsOutput
<1>9. CASE results = << >>
  <2>1. r \in More(f) BY <1>1, <1>9
  <2>2. IsMore(f, r) /\ Len(r) # 0 BY <2>1, MoreIs
  <2>3. IsList(r) /\ Len(r) \in Nat BY <2>2, ListElements DEF IsMore
  <2>4. r = << >> \o r BY <2>3, ConcatSame
  <2>5. PICK none : none = << >> OBVIOUS
  <2>6. IsOutput(f, none) /\ Len(none) + Len(r) # 0 /\ r = none \o r BY <1>8, <2>2, <2>3, <2>4, <2>5
  <2> QED BY <2>2, <2>6, OutputMore
<1>10. CASE results # << >>
  <2>1. PICK q \in {results, Reverse(results)}, m \in More(f) \cup {<< >>} : r = q \o m
    BY <1>1, <1>10
  <2>2. IsOutput(f, q) /\ Len(q) \in Nat /\ Len(q) # 0 BY <1>5, <1>6, <1>7, <1>10
  <2>3. IsMore(f, m)
    <3>1. CASE m \in More(f) BY <3>1, MoreIs
    <3>2. CASE m = << >> BY <1>8, <3>2
    <3> QED BY <3>1, <3>2
  <2>4. Len(m) \in Nat BY <2>3, ListElements DEF IsMore
  <2>5. Len(q) + Len(m) # 0 BY <2>2, <2>4
  <2> QED BY <2>1, <2>2, <2>3, <2>5, OutputMore
<1> QED BY <1>9, <1>10

-----------------------------------------------------------------------------
(* Where the elements of lists are once the lists are joined.              *)

\* The element i of list j has its place in x, and before it are only elements of list j
\* before i, and of the lists before j.
PlaceOf(x, ss, j, i) ==
  \E q \in 1..Len(x) :
    /\ x[q] = ss[j][i]
    /\ \A p \in 1..(q - 1) :
         \E k \in 1..j : \E h \in 1..Len(ss[k]) : x[p] = ss[k][h] /\ (k = j => h < i)

\* The place q of x is one of a list, and before it is all of the lists before that one.
SourceOf(x, ss, q) ==
  \E j \in 1..Len(ss) : \E i \in 1..Len(ss[j]) :
    /\ x[q] = ss[j][i]
    /\ \A k \in 1..(j - 1) : \A h \in 1..Len(ss[k]) : \E p \in 1..(q - 1) : x[p] = ss[k][h]

\* Of the first k lists, joined: which list covers a place, where an element is, and that
\* a list begins after the ones before it.
Covers(r, ss, k) == \A q \in 1..Len(r[k]) : \E j \in 1..k : \E i \in 1..Len(ss[j]) : q = Len(r[j-1]) + i

Holds(r, ss, k) ==
  \A j \in 1..k : \A i \in 1..Len(ss[j]) :
    Len(r[j-1]) + i \in 1..Len(r[k]) /\ r[k][Len(r[j-1]) + i] = ss[j][i]

Grows(r, k) == \A l \in 0..k : Len(r[l]) <= Len(r[k])

LEMMA Places ==
  ASSUME NEW ss, Lists(ss), NEW r, Chained(r, ss)
  PROVE  /\ \A k \in 1..Len(ss) : Len(r[k]) = Len(r[k-1]) + Len(ss[k])
         /\ \A k \in 0..Len(ss) : /\ Len(r[k]) \in Nat /\ Covers(r, ss, k)
                                  /\ Holds(r, ss, k) /\ Grows(r, k)
<1> DEFINE n == Len(ss)
<1>1. n \in Nat /\ \A k \in 1..n : IsList(ss[k]) /\ Len(ss[k]) \in Nat
  <2>1. IsList(ss) /\ \A s \in ToSet(ss) : IsList(s) /\ Len(s) \in Nat BY ListElements DEF Lists
  <2> QED BY <2>1, ListElements
<1>2. r[0] = << >> /\ (\A k \in 1..n : r[k] = r[k-1] \o ss[k]) /\ \A k \in 0..n : IsList(r[k])
  BY DEF Chained
<1> HIDE DEF n
<1>3. ASSUME NEW k \in 1..n PROVE Concats(r[k], r[k-1], ss[k])
  <2>1. k - 1 \in 0..n BY <1>1
  <2>2. IsList(r[k-1]) /\ IsList(ss[k]) BY <1>1, <1>2, <2>1
  <2>3. Concats(r[k-1] \o ss[k], r[k-1], ss[k]) BY <2>2, ConcatsAre
  <2> QED BY <1>2, <2>3
<1>4. \A k \in 0..n : Len(r[k]) \in Nat BY <1>2, ListElements
<1>5. ASSUME NEW k \in 1..n
      PROVE  /\ Len(r[k]) = Len(r[k-1]) + Len(ss[k])
             /\ \A i \in 1..Len(r[k-1]) : r[k][i] = r[k-1][i]
             /\ \A i \in 1..Len(ss[k]) : r[k][Len(r[k-1]) + i] = ss[k][i]
  BY <1>3 DEF Concats
<1> DEFINE K == {k \in Nat : k <= n => Covers(r, ss, k) /\ Holds(r, ss, k) /\ Grows(r, k)}
<1>6. 0 \in K
  <2>1. Len(r[0]) = 0 BY <1>2, NoList
  <2>2. Covers(r, ss, 0) BY <2>1 DEF Covers
  <2>3. Holds(r, ss, 0) BY DEF Holds
  <2>4. Grows(r, 0) BY <2>1 DEF Grows
  <2> QED BY <2>2, <2>3, <2>4
<1>7. ASSUME NEW k \in Nat, k \in K PROVE k + 1 \in K
  <2> SUFFICES ASSUME k + 1 <= n
               PROVE  Covers(r, ss, k + 1) /\ Holds(r, ss, k + 1) /\ Grows(r, k + 1)
    OBVIOUS
  <2>1. k + 1 \in 1..n /\ k \in 0..n /\ (k + 1) - 1 = k BY <1>1
  <2>2. Covers(r, ss, k) /\ Holds(r, ss, k) /\ Grows(r, k) BY <1>7, <2>1
  <2>3. PICK m, l, c : m = Len(r[k]) /\ l = Len(ss[k + 1]) /\ c = Len(r[k + 1]) OBVIOUS
  <2>4. m \in Nat /\ l \in Nat /\ c = m + l BY <1>1, <1>4, <1>5, <2>1, <2>3
  <2>5. /\ \A i \in 1..m : r[k + 1][i] = r[k][i]
        /\ \A i \in 1..l : r[k + 1][m + i] = ss[k + 1][i]
    <3>1. PICK k1 : k1 = k + 1 OBVIOUS
    <3>2. k1 \in 1..n /\ k1 - 1 = k BY <2>1, <3>1
    <3>3. /\ \A i \in 1..Len(r[k1-1]) : r[k1][i] = r[k1-1][i]
          /\ \A i \in 1..Len(ss[k1]) : r[k1][Len(r[k1-1]) + i] = ss[k1][i]
      BY <1>5, <3>2
    <3>4. Len(r[k1-1]) = m /\ Len(ss[k1]) = l /\ r[k1-1] = r[k] BY <2>3, <3>1, <3>2
    <3> QED BY <3>1, <3>3, <3>4
  <2>6. Covers(r, ss, k + 1)
    <3> SUFFICES ASSUME NEW q \in 1..c
                 PROVE  \E j \in 1..(k + 1) : \E i \in 1..Len(ss[j]) : q = Len(r[j-1]) + i
      BY <2>3 DEF Covers
    <3>1. CASE q \in 1..m
      <4>1. PICK j \in 1..k : \E i \in 1..Len(ss[j]) : q = Len(r[j-1]) + i
        BY <2>2, <2>3, <3>1 DEF Covers
      <4>2. j \in 1..(k + 1) OBVIOUS
      <4> QED BY <4>1, <4>2
    <3>2. CASE q \notin 1..m
      <4>1. PICK i : i = q - m OBVIOUS
      <4>2. i \in 1..l /\ q = m + i BY <2>4, <3>2, <4>1
      <4>3. k + 1 \in 1..(k + 1) /\ Len(r[(k + 1) - 1]) = m BY <2>1, <2>3
      <4> QED BY <2>3, <4>2, <4>3
    <3> QED BY <3>1, <3>2
  <2>7. Holds(r, ss, k + 1)
    <3> SUFFICES ASSUME NEW j \in 1..(k + 1), NEW i \in 1..Len(ss[j])
                 PROVE  /\ Len(r[j-1]) + i \in 1..Len(r[k + 1])
                        /\ r[k + 1][Len(r[j-1]) + i] = ss[j][i]
      BY DEF Holds
    <3>1. CASE j \in 1..k
      <4>1. PICK q : q = Len(r[j-1]) + i OBVIOUS
      <4>2. q \in 1..m /\ r[k][q] = ss[j][i] BY <2>2, <2>3, <3>1, <4>1 DEF Holds
      <4>3. q \in 1..c BY <2>4, <4>2
      <4> QED BY <2>3, <2>5, <4>1, <4>2, <4>3
    <3>2. CASE j = k + 1
      <4>1. i \in 1..l /\ Len(r[j-1]) = m BY <2>1, <2>3, <3>2
      <4>2. m + i \in 1..c BY <2>4, <4>1
      <4> QED BY <2>3, <2>5, <3>2, <4>1, <4>2
    <3> QED BY <3>1, <3>2
  <2>8. Grows(r, k + 1)
    <3>1. m <= c BY <2>4
    <3>2. ASSUME NEW i \in 0..(k + 1) PROVE Len(r[i]) <= c
      <4>1. CASE i = k + 1
        <5>1. Len(r[i]) = c BY <2>3, <4>1
        <5> QED BY <2>4, <5>1
      <4>2. CASE i # k + 1
        <5>1. i \in 0..k BY <4>2
        <5>2. Len(r[i]) <= m BY <2>2, <2>3, <5>1 DEF Grows
        <5>3. i \in 0..n
          <6>1. i \in Nat /\ i <= k /\ k <= n BY <1>1, <2>1, <5>1
          <6> QED BY <1>1, <6>1
        <5>4. PICK a : a = Len(r[i]) OBVIOUS
        <5>5. a \in Nat /\ a <= m BY <1>4, <5>2, <5>3, <5>4
        <5> QED BY <2>4, <3>1, <5>4, <5>5
      <4> QED BY <4>1, <4>2
    <3> QED BY <2>3, <3>2 DEF Grows
  <2> QED BY <2>6, <2>7, <2>8
<1> HIDE DEF K
<1>8. \A k \in Nat : k \in K BY <1>6, <1>7, Chain!SetInduction
<1>9. ASSUME NEW k \in 0..n PROVE Covers(r, ss, k) /\ Holds(r, ss, k) /\ Grows(r, k)
  <2>1. k \in Nat /\ k <= n BY <1>1
  <2> QED BY <1>8, <2>1 DEF K
<1> QED BY <1>4, <1>5, <1>9 DEF n

LEMMA PlaceFound ==
  ASSUME NEW ss, Lists(ss), NEW x, x = FlattenSeq(ss), NEW j \in 1..Len(ss), NEW i \in 1..Len(ss[j])
  PROVE  PlaceOf(x, ss, j, i)
<1> DEFINE n == Len(ss)
<1>1. n \in Nat /\ \A k \in 1..n : IsList(ss[k]) /\ Len(ss[k]) \in Nat
  <2>1. IsList(ss) /\ \A s \in ToSet(ss) : IsList(s) /\ Len(s) \in Nat BY ListElements DEF Lists
  <2> QED BY <2>1, ListElements
<1>2. PICK r : Chained(r, ss) BY FlattenChain
<1>3. x = r[n] BY <1>2 DEF Chained
<1>4. /\ \A k \in 1..n : Len(r[k]) = Len(r[k-1]) + Len(ss[k])
      /\ \A k \in 0..n : Len(r[k]) \in Nat /\ Covers(r, ss, k) /\ Holds(r, ss, k) /\ Grows(r, k)
  BY <1>2, Places
<1> HIDE DEF n
<1>5. j \in 1..n BY DEF n
<1>6. j - 1 \in 0..n /\ j \in 0..n /\ n \in 0..n BY <1>1, <1>5
<1>7. PICK b, q : b = Len(r[j-1]) /\ q = b + i OBVIOUS
<1>8. b \in Nat /\ i \in Nat /\ i >= 1 /\ i <= Len(ss[j]) /\ Len(ss[j]) \in Nat
  BY <1>1, <1>4, <1>5, <1>6, <1>7
<1>9. q \in 1..Len(x) /\ x[q] = ss[j][i] BY <1>3, <1>4, <1>5, <1>6, <1>7 DEF Holds
<1>10. ASSUME NEW p \in 1..(q - 1)
       PROVE  \E k \in 1..j : \E h \in 1..Len(ss[k]) : x[p] = ss[k][h] /\ (k = j => h < i)
  <2>1. p \in 1..Len(x) /\ p \in Nat /\ p < q
    <3>1. Len(x) \in Nat BY <1>3, <1>4, <1>6
    <3> QED BY <1>9, <3>1
  <2>2. PICK k \in 1..n : \E h \in 1..Len(ss[k]) : p = Len(r[k-1]) + h
    BY <1>3, <1>4, <1>6, <2>1 DEF Covers
  <2>3. PICK h \in 1..Len(ss[k]) : p = Len(r[k-1]) + h BY <2>2
  <2>4. x[p] = ss[k][h] BY <1>3, <1>4, <1>6, <2>3 DEF Holds
  <2>5. PICK a : a = Len(r[k-1]) OBVIOUS
  <2>6. k - 1 \in 0..n /\ a \in Nat BY <1>1, <1>4, <2>5
  <2>7. h \in Nat /\ h >= 1 /\ p = a + h BY <1>1, <2>3, <2>5
  <2>8. k <= j
    <3> SUFFICES ASSUME ~(k <= j) PROVE FALSE OBVIOUS
    <3>1. j \in 0..(k - 1) BY <1>5
    <3>2. Len(r[j]) <= a BY <1>4, <2>5, <2>6, <3>1 DEF Grows
    <3>3. Len(r[j]) = b + Len(ss[j]) BY <1>4, <1>5, <1>7
    <3>4. PICK lj : lj = Len(ss[j]) OBVIOUS
    <3>5. b + lj <= a /\ lj \in Nat /\ i <= lj BY <1>8, <3>2, <3>3, <3>4
    <3> QED BY <1>7, <1>8, <2>1, <2>6, <2>7, <3>5
  <2>9. k = j => h < i
    <3>1. k = j => a = b BY <1>7, <2>5
    <3> QED BY <1>7, <1>8, <2>1, <2>6, <2>7, <3>1
  <2>10. k \in 1..j BY <1>5, <2>8
  <2> QED BY <2>4, <2>9, <2>10
<1> QED BY <1>9, <1>10 DEF PlaceOf

LEMMA SourceFound ==
  ASSUME NEW ss, Lists(ss), NEW x, x = FlattenSeq(ss), NEW q \in 1..Len(x)
  PROVE  SourceOf(x, ss, q)
<1> DEFINE n == Len(ss)
<1>1. n \in Nat /\ \A k \in 1..n : IsList(ss[k]) /\ Len(ss[k]) \in Nat
  <2>1. IsList(ss) /\ \A s \in ToSet(ss) : IsList(s) /\ Len(s) \in Nat BY ListElements DEF Lists
  <2> QED BY <2>1, ListElements
<1>2. PICK r : Chained(r, ss) BY FlattenChain
<1>3. x = r[n] BY <1>2 DEF Chained
<1>4. /\ \A k \in 1..n : Len(r[k]) = Len(r[k-1]) + Len(ss[k])
      /\ \A k \in 0..n : Len(r[k]) \in Nat /\ Covers(r, ss, k) /\ Holds(r, ss, k) /\ Grows(r, k)
  BY <1>2, Places
<1> HIDE DEF n
<1>5. n \in 0..n /\ Len(x) \in Nat BY <1>1, <1>3, <1>4
<1>6. PICK j \in 1..n : \E i \in 1..Len(ss[j]) : q = Len(r[j-1]) + i
  BY <1>3, <1>4, <1>5 DEF Covers
<1>7. PICK i \in 1..Len(ss[j]) : q = Len(r[j-1]) + i BY <1>6
<1>8. x[q] = ss[j][i] BY <1>3, <1>4, <1>5, <1>7 DEF Holds
<1>9. PICK b : b = Len(r[j-1]) OBVIOUS
<1>10. j - 1 \in 0..n /\ b \in Nat /\ i \in Nat /\ i >= 1 /\ q = b + i
  <2>1. j - 1 \in 0..n BY <1>1
  <2>2. Len(ss[j]) \in Nat BY <1>1
  <2> QED BY <1>4, <1>7, <1>9, <2>1, <2>2
<1>11. ASSUME NEW k \in 1..(j - 1), NEW h \in 1..Len(ss[k])
       PROVE  \E p \in 1..(q - 1) : x[p] = ss[k][h]
  <2>1. k \in 1..n /\ k \in 0..(j - 1) BY <1>1
  <2>2. PICK a, p : a = Len(r[k-1]) /\ p = a + h OBVIOUS
  <2>3. p \in 1..Len(x) /\ x[p] = ss[k][h] BY <1>3, <1>4, <1>5, <2>1, <2>2 DEF Holds
  <2>4. Len(r[k]) = a + Len(ss[k]) BY <1>4, <2>1, <2>2
  <2>5. Len(r[k]) <= b BY <1>4, <1>9, <1>10, <2>1 DEF Grows
  <2>6. k - 1 \in 0..n /\ a \in Nat /\ Len(ss[k]) \in Nat BY <1>1, <1>4, <2>1, <2>2
  <2>7. h \in Nat /\ h >= 1 /\ h <= Len(ss[k]) BY <2>6
  <2>8. p <= q - 1 /\ p >= 1 /\ p \in Nat
    <3>1. PICK lk : lk = Len(ss[k]) OBVIOUS
    <3>2. a + lk <= b /\ lk \in Nat /\ h <= lk BY <2>4, <2>5, <2>6, <2>7, <3>1
    <3>3. p = a + h /\ q = b + i /\ a \in Nat /\ b \in Nat /\ h \in Nat /\ i \in Nat BY <1>10, <2>2, <2>6, <2>7
    <3>4. h >= 1 /\ i >= 1 /\ p \in Nat BY <1>10, <2>7, <3>3
    <3>5. p <= b BY <3>2, <3>3
    <3> QED BY <3>3, <3>4, <3>5
  <2>9. p \in 1..(q - 1) BY <1>5, <1>10, <2>8
  <2> QED BY <2>3, <2>9
<1>12. j \in 1..Len(ss) BY DEF n
<1> QED BY <1>8, <1>11, <1>12 DEF SourceOf

-----------------------------------------------------------------------------
(* Which names the upstream is told, and for which results.                *)

NameOp(p, known, call) == WithName(known, call)

Known == INSTANCE LeftFold WITH Op <- NameOp

\* w names what n does and the first k calls, the last one first.
Names(w, n, calls, k) ==
  /\ DOMAIN n \subseteq DOMAIN w
  /\ \A i \in 1..k : calls[i].id \in DOMAIN w
  /\ \A id \in DOMAIN w : \/ id \in DOMAIN n /\ w[id] = n[id]
                          \/ \E i \in 1..k : calls[i].id = id /\ w[id] = calls[i].name

IsNamed(w, known, call) ==
  /\ DOMAIN w = DOMAIN known \cup {call.id}
  /\ w[call.id] = call.name
  /\ \A id \in DOMAIN known : id # call.id => w[id] = known[id]

LEMMA NameOpIs == \A known, call : IsNamed(NameOp(0, known, call), known, call)
BY DEF NameOp, WithName, IsNamed

LEMMA WithNamesIs ==
  ASSUME NEW n, NEW calls, IsList(calls)
  PROVE  Names(WithNames(n, calls), n, calls, Len(calls))
<1> DEFINE N == Len(calls)
<1>1. N \in Nat /\ DOMAIN calls = 1..N BY ListElements
<1>2. WithNames(n, calls) = Known!Fold(0, n, calls)
  BY DEF WithNames, NameOp, Known!Fold, Known!FoldLeft, FoldLeft, Known!MapThenFoldSet,
         MapThenFoldSet, Max, Known!Max
<1> HIDE DEF N
<1>3. PICK r : Known!IsTrace(r, 0, n, calls, N) /\ Known!Fold(0, n, calls) = r[N]
  BY <1>1, Known!FoldTrace
<1>4. r[0] = n /\ \A k \in 1..N : r[k] = NameOp(0, r[k-1], calls[k]) BY <1>3 DEF Known!IsTrace
<1> DEFINE K == {k \in Nat : k <= N => Names(r[k], n, calls, k)}
<1>5. 0 \in K BY <1>4 DEF Names
<1>6. ASSUME NEW k \in Nat, k \in K PROVE k + 1 \in K
  <2> SUFFICES ASSUME k + 1 <= N PROVE Names(r[k + 1], n, calls, k + 1) OBVIOUS
  <2>1. k + 1 \in 1..N /\ (k + 1) - 1 = k /\ k <= N BY <1>1
  <2>2. Names(r[k], n, calls, k) BY <1>6, <2>1
  <2>3. PICK call, v, w, j : call = calls[k + 1] /\ v = r[k] /\ w = r[k + 1] /\ j = k + 1 OBVIOUS
  <2>4. w = NameOp(0, v, call) BY <1>4, <2>1, <2>3
  <2>41. IsNamed(w, v, call) BY <2>4, NameOpIs
  <2>5. /\ DOMAIN w = DOMAIN v \cup {call.id} /\ w[call.id] = call.name
        /\ \A id \in DOMAIN v : id # call.id => w[id] = v[id]
    BY <2>41 DEF IsNamed
  <2>6. \A i \in 1..j : i \in 1..k \/ i = j BY <2>3
  <2>61. j \in 1..j /\ \A i \in 1..k : i \in 1..j BY <2>3
  <2>7. call = calls[j] BY <2>3
  <2>8. Names(v, n, calls, k) BY <2>2, <2>3
  <2>9. Names(w, n, calls, j) BY <2>5, <2>6, <2>61, <2>7, <2>8 DEF Names
  <2> QED BY <2>3, <2>9
<1> HIDE DEF K
<1>7. \A k \in Nat : k \in K BY <1>5, <1>6, Known!SetInduction
<1>8. Names(r[N], n, calls, N) BY <1>1, <1>7 DEF K
<1> QED BY <1>2, <1>3, <1>8 DEF N

-----------------------------------------------------------------------------
\* A call that a message tells the upstream.
Calls(m, c) == c \in ToSet(m.content) /\ c.type = "tool-call"

IsToolMessage(m) == \E t : m.content = << t >> /\ t.type = "tool-result"

\* Of the messages so far, the names are those of the calls in them and name every call,
\* and the result of an earlier call has the name of a call of that identifier, if it is
\* a name at all.
CallsNamed(ms, names) ==
  \A id \in DOMAIN names : \E i \in 1..Len(ms) : \E c :
    Calls(ms[i], c) /\ c.id = id /\ c.name = names[id]

AllNamed(ms, names) ==
  \A i \in 1..Len(ms) : \A c : Calls(ms[i], c) /\ c.id # NoId => c.id \in DOMAIN names

ToolNamed(ms, j) ==
  IsToolMessage(ms[j]) /\
  \A i \in 1..(j - 1) : \A c : Calls(ms[i], c) /\ c.id = ms[j].content[1].id /\ c.id # NoId =>
    \E k \in 1..Len(ms) : \E d : /\ Calls(ms[k], d) /\ d.id = c.id
                                 /\ d.name \in {"", ms[j].content[1].name}

Uncalling(m) == \A c \in ToSet(m.content) : c.type # "call"

NamesOK(ms, names) ==
  /\ IsList(ms) /\ CallsNamed(ms, names) /\ AllNamed(ms, names)
  /\ \A j \in 1..Len(ms) : Uncalling(ms[j]) /\ (ms[j].role = "tool" => ToolNamed(ms, j))

\* ns are the names and those of the calls in m, a message that comes with these names.
NamesFrom(m, names, ns) ==
  /\ Uncalling(m) /\ DOMAIN names \subseteq DOMAIN ns
  /\ \A c : Calls(m, c) /\ c.id # NoId => c.id \in DOMAIN ns
  /\ \A id \in DOMAIN ns : \/ id \in DOMAIN names /\ ns[id] = names[id]
                           \/ \E c : Calls(m, c) /\ c.id = id /\ ns[id] = c.name
  /\ m.role = "tool" =>
       /\ IsToolMessage(m)
       /\ m.content[1].id \in DOMAIN names =>
            names[m.content[1].id] \in {"", m.content[1].name}

\* One message more.
LEMMA NamesMore ==
  ASSUME NEW ms, NEW names, NamesOK(ms, names), NEW m, NEW ns, NamesFrom(m, names, ns)
  PROVE  NamesOK(Append(ms, m), ns)
<1>1. PICK n, n1, w : n = Len(ms) /\ n1 = n + 1 /\ w = Append(ms, m) OBVIOUS
<1>2. IsList(ms) /\ n \in Nat /\ n1 \in Nat BY <1>1, ListElements DEF NamesOK
<1>3. IsList(w) /\ Len(w) = n1 /\ (\A i \in 1..n : w[i] = ms[i]) /\ w[n1] = m
  <2>1. PICK one : one = << m >> OBVIOUS
  <2>2. IsList(one) /\ Len(one) = 1 /\ one[1] = m BY <2>1, OneList
  <2>3. w = ms \o one BY <1>1, <1>2, <2>1, AppendedIsConcat
  <2>4. IsList(ms \o one) BY <1>2, <2>2, Concatenated
  <2>41. Concats(ms \o one, ms, one) BY <1>2, <2>2, ConcatsAre
  <2>42. IsList(w) /\ Concats(w, ms, one) BY <2>3, <2>4, <2>41, Zenon
  <2>43. 1 \in 1..Len(one) /\ Len(one) = 1 BY <2>2
  <2>5. Len(w) = n + 1 /\ (\A i \in 1..n : w[i] = ms[i]) /\ w[n + 1] = one[1]
    BY <1>1, <2>42, <2>43 DEF Concats
  <2> QED BY <1>1, <2>2, <2>42, <2>5
<1>4. \A i \in 1..n1 : i \in 1..n \/ i = n1 BY <1>1, <1>2
<1>5. n1 \in 1..n1 /\ \A i \in 1..n : i \in 1..n1 BY <1>1, <1>2
<1>6. CallsNamed(ms, names) /\ AllNamed(ms, names)
      /\ \A j \in 1..n : Uncalling(ms[j]) /\ (ms[j].role = "tool" => ToolNamed(ms, j))
  BY <1>1 DEF NamesOK
<1>61. /\ Uncalling(m) /\ DOMAIN names \subseteq DOMAIN ns
       /\ \A c : Calls(m, c) /\ c.id # NoId => c.id \in DOMAIN ns
       /\ \A id \in DOMAIN ns : \/ id \in DOMAIN names /\ ns[id] = names[id]
                                \/ \E c : Calls(m, c) /\ c.id = id /\ ns[id] = c.name
  BY DEF NamesFrom
<1>7. CallsNamed(w, ns)
  <2> SUFFICES ASSUME NEW id \in DOMAIN ns
               PROVE  \E i \in 1..n1 : \E c : Calls(w[i], c) /\ c.id = id /\ c.name = ns[id]
    BY <1>3 DEF CallsNamed
  <2>1. CASE id \in DOMAIN names /\ ns[id] = names[id]
    <3>1. PICK i \in 1..n : \E c : Calls(ms[i], c) /\ c.id = id /\ c.name = names[id]
      BY <1>1, <1>6, <2>1 DEF CallsNamed
    <3> QED BY <1>3, <1>5, <2>1, <3>1
  <2>2. CASE \E c : Calls(m, c) /\ c.id = id /\ ns[id] = c.name
    BY <1>3, <1>5, <2>2
  <2> QED BY <1>61, <2>1, <2>2
<1>8. AllNamed(w, ns)
  <2> SUFFICES ASSUME NEW i \in 1..n1, NEW c, Calls(w[i], c), c.id # NoId PROVE c.id \in DOMAIN ns
    BY <1>3 DEF AllNamed
  <2>1. CASE i \in 1..n
    <3>1. Calls(ms[i], c) BY <1>3, <2>1
    <3>2. c.id \in DOMAIN names BY <1>1, <1>6, <2>1, <3>1 DEF AllNamed
    <3> QED BY <1>61, <3>2
  <2>2. CASE i = n1 BY <1>3, <1>61, <2>2
  <2> QED BY <1>4, <2>1, <2>2
<1>9. ASSUME NEW j \in 1..n1 PROVE Uncalling(w[j])
  BY <1>3, <1>4, <1>6, <1>61
<1>10. ASSUME NEW j \in 1..n1, w[j].role = "tool" PROVE ToolNamed(w, j)
  <2>1. CASE j \in 1..n
    <3>1. w[j] = ms[j] /\ ToolNamed(ms, j) BY <1>3, <1>6, <1>10, <2>1
    <3>2. IsToolMessage(w[j]) BY <3>1 DEF ToolNamed
    <3>3. ASSUME NEW i \in 1..(j - 1), NEW c, Calls(w[i], c), c.id = w[j].content[1].id, c.id # NoId
          PROVE  \E k \in 1..n1 : \E d : /\ Calls(w[k], d) /\ d.id = c.id
                                         /\ d.name \in {"", w[j].content[1].name}
      <4>1. i \in 1..n BY <1>2, <2>1
      <4>2. Calls(ms[i], c) /\ c.id = ms[j].content[1].id BY <1>3, <3>1, <3>3, <4>1
      <4>3. PICK k \in 1..n : \E d : /\ Calls(ms[k], d) /\ d.id = c.id
                                     /\ d.name \in {"", ms[j].content[1].name}
        BY <1>1, <3>1, <3>3, <4>2 DEF ToolNamed
      <4>4. k \in 1..n1 /\ w[k] = ms[k] BY <1>3, <1>5
      <4> QED BY <3>1, <4>3, <4>4
    <3> QED BY <1>3, <3>2, <3>3 DEF ToolNamed
  <2>2. CASE j = n1
    <3>1. w[j] = m BY <1>3, <2>2
    <3>2. IsToolMessage(m) /\ (m.content[1].id \in DOMAIN names =>
                                 names[m.content[1].id] \in {"", m.content[1].name})
      BY <1>10, <3>1 DEF NamesFrom
    <3>3. ASSUME NEW i \in 1..(j - 1), NEW c, Calls(w[i], c), c.id = m.content[1].id, c.id # NoId
          PROVE  \E k \in 1..n1 : \E d : /\ Calls(w[k], d) /\ d.id = c.id
                                         /\ d.name \in {"", m.content[1].name}
      <4>1. i \in 1..n BY <1>1, <1>2, <2>2
      <4>2. Calls(ms[i], c) BY <1>3, <3>3, <4>1
      <4>3. c.id \in DOMAIN names BY <1>1, <1>6, <3>3, <4>1, <4>2 DEF AllNamed
      <4>4. names[c.id] \in {"", m.content[1].name} BY <3>2, <3>3, <4>3
      <4>5. PICK k \in 1..n : \E d : Calls(ms[k], d) /\ d.id = c.id /\ d.name = names[c.id]
        BY <1>1, <1>6, <4>3 DEF CallsNamed
      <4>6. k \in 1..n1 /\ w[k] = ms[k] BY <1>3, <1>5
      <4> QED BY <4>4, <4>5, <4>6
    <3>4. IsToolMessage(w[j]) BY <3>1, <3>2
    <3>5. ASSUME NEW i \in 1..(j - 1), NEW c, Calls(w[i], c), c.id = w[j].content[1].id, c.id # NoId
          PROVE  \E k \in 1..Len(w) : \E d : /\ Calls(w[k], d) /\ d.id = c.id
                                             /\ d.name \in {"", w[j].content[1].name}
      <4>1. c.id = m.content[1].id BY <3>1, <3>5
      <4>2. \E k \in 1..n1 : \E d : /\ Calls(w[k], d) /\ d.id = c.id
                                     /\ d.name \in {"", m.content[1].name}
        BY <3>3, <3>5, <4>1
      <4> QED BY <1>3, <3>1, <4>2
    <3> QED BY <3>4, <3>5 DEF ToolNamed
  <2> QED BY <1>4, <2>1, <2>2
<1>11. NamesOK(w, ns) BY <1>3, <1>7, <1>8, <1>9, <1>10 DEF NamesOK
<1> QED BY <1>1, <1>11

=============================================================================
