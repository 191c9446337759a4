------------------------- MODULE ConversationProofs -------------------------
(***************************************************************************)
(* Theorems about one response read by both readers (protocol.go,          *)
(* streamLoop and collectNonStream of executor.go), stated of Talk, the    *)
(* specification of Conversation, in which one response follows another.   *)
(*                                                                         *)
(* 1. How bytes become lines: a response is the span of its bytes, and     *)
(*    the lines of a span are the lines that end in it.                    *)
(* 2. CutInv: whatever the chunks were, each reader has read exactly the   *)
(*    complete lines that have arrived, and keeps the rest.                *)
(* 3. The reader of a stream keeps its types and its numbering, by         *)
(*    induction over the lines.                                            *)
(* 4. Both readers side by side around the finish line, by induction over  *)
(*    the lines: they agree on the message and on the verdict.             *)
(* 5. Which tool calls the readers have: those of the response, those of   *)
(*    a stream numbered without a gap.                                     *)
(***************************************************************************)
EXTENDS Conversation, FiniteSetTheorems, SequenceTheorems, TLAPS

\* The folds of the model, for LeftFold.
ParseOp(p, st, line) == IF st.upstreamError # << >> THEN st ELSE parseLine(st, line)
FeedOp(p, a, line) == feed(a, line)
SplitOp(p, split, b) ==
  IF b = NL THEN [lines |-> Append(split.lines, split.rest), rest |-> << >>]
  ELSE [split EXCEPT !.rest = Append(@, b)]
TextOp(kind, ts, c) == IF c.kind = kind THEN Append(ts, c.text) ELSE ts

Parse == INSTANCE LeftFold WITH Op <- ParseOp
Feed  == INSTANCE LeftFold WITH Op <- FeedOp
Split == INSTANCE LeftFold WITH Op <- SplitOp
Carry == INSTANCE LeftFold WITH Op <- TextOp

LEMMA ParseIsFold == \A s, lines : ParseAll(s, lines) = Parse!Fold(0, s, lines)
BY DEF ParseAll, ParseOp, Parse!Fold, Parse!FoldLeft, FoldLeft, Parse!MapThenFoldSet,
       MapThenFoldSet, Max, Parse!Max

LEMMA FeedIsFold == \A a, lines : FeedAll(a, lines) = Feed!Fold(0, a, lines)
BY DEF FeedAll, FeedOp, Feed!Fold, Feed!FoldLeft, FoldLeft, Feed!MapThenFoldSet,
       MapThenFoldSet, Max, Feed!Max

LEMMA SplitIsFold ==
  \A bytes : SplitLines(bytes) = Split!Fold(0, [lines |-> << >>, rest |-> << >>], bytes)
BY DEF SplitLines, SplitOp, Split!Fold, Split!FoldLeft, FoldLeft, Split!MapThenFoldSet,
       MapThenFoldSet, Max, Split!Max

LEMMA TextsIsFold == \A kind : Texts(kind) = Carry!Fold(kind, << >>, stream.out)
BY DEF Texts, TextOp, Carry!Fold, Carry!FoldLeft, FoldLeft, Carry!MapThenFoldSet,
       MapThenFoldSet, Max, Carry!Max

-----------------------------------------------------------------------------
\* Byte k of a response.
ByteAt(k) == IF k % 3 = 0 THEN NL ELSE << (k + 2) \div 3, k % 3 >>

\* The bytes a+1 to b.
Span(a, b) == [k \in 1..(b - a) |-> ByteAt(a + k)]

ByteSet == Int \X Int

LEMMA ByteType == \A k \in Int : ByteAt(k) \in ByteSet
BY DEF ByteAt, NL, ByteSet

LEMMA BytesAre ==
  ASSUME script \in Seq(Lines), terminated \in BOOLEAN
  PROVE  /\ Len(Bytes) = IF terminated \/ script = << >> THEN 3 * Len(script)
                         ELSE 3 * Len(script) - 1
         /\ Len(Bytes) \in Nat
         /\ Bytes = Span(0, Len(Bytes))
<1> DEFINE n == Len(script)
           all == [ k \in 1 .. 3 * n |-> IF k % 3 = 0 THEN NL ELSE <<(k + 2) \div 3, k % 3>> ]
<1>1. n \in Nat OBVIOUS
<1>2. n = 0 <=> script = << >> OBVIOUS
<1>3. \A k \in 1..3*n : all[k] = ByteAt(k) BY DEF ByteAt
<1>4. all = [k \in 1..3*n |-> ByteAt(k)] BY DEF ByteAt
<1> HIDE DEF n, all
<1>5. all \in Seq(ByteSet) /\ Len(all) = 3 * n
  <2>1. \A k \in 1..3*n : ByteAt(k) \in ByteSet BY <1>1, ByteType
  <2>2. 3 * n \in Nat BY <1>1
  <2> QED BY <1>4, <2>1, <2>2
<1>6. Bytes = IF terminated \/ script = << >> THEN all ELSE Front(all)
  BY DEF Bytes, all, n
<1>7. CASE terminated \/ script = << >>
  <2>1. Bytes = all /\ Len(Bytes) = 3 * n BY <1>5, <1>6, <1>7
  <2>2. Bytes = Span(0, Len(Bytes)) BY <1>1, <1>4, <2>1 DEF Span
  <2> QED BY <1>1, <1>7, <2>1, <2>2 DEF n
<1>8. CASE ~terminated /\ script # << >>
  <2>1. n \in Nat \ {0} BY <1>1, <1>2, <1>8
  <2>2. Bytes = SubSeq(all, 1, 3 * n - 1) BY <1>5, <1>6, <1>8 DEF Front
  <2>3. /\ Bytes \in Seq(ByteSet)
        /\ Len(Bytes) = 3 * n - 1
        /\ \A i \in 1..(3 * n - 1) : Bytes[i] = all[i]
    <3>1. \A i \in 1..(3*n - 1) : all[i] \in ByteSet BY <1>5, <2>1
    <3>2. 3 * n - 1 \in Int /\ 1 <= 3 * n - 1 BY <2>1
    <3> HIDE DEF ByteSet
    <3>3. /\ SubSeq(all, 1, 3 * n - 1) \in Seq(ByteSet)
          /\ Len(SubSeq(all, 1, 3 * n - 1)) = (3 * n - 1) - 1 + 1
          /\ \A i \in 1..((3 * n - 1) - 1 + 1) : SubSeq(all, 1, 3 * n - 1)[i] = all[1 + i - 1]
      BY <3>1, <3>2, SubSeqProperties
    <3> QED BY <2>1, <2>2, <3>3
  <2>4. \A i \in 1..(3 * n - 1) : Bytes[i] = ByteAt(0 + i)
    <3>1. \A i \in 1..(3 * n - 1) : i \in 1..(3 * n) /\ 0 + i = i BY <1>1
    <3> QED BY <1>4, <2>3, <3>1
  <2>5. Bytes = Span(0, 3 * n - 1) BY <2>1, <2>3, <2>4 DEF Span
  <2> QED BY <1>8, <2>1, <2>3, <2>5 DEF n
<1> QED BY <1>7, <1>8

\* What is cut out of the bytes of a response, and put together again.
LEMMA SpanType ==
  ASSUME NEW a \in Nat, NEW b \in Nat, a <= b
  PROVE  /\ Span(a, b) \in Seq(ByteSet) /\ Len(Span(a, b)) = b - a
         /\ DOMAIN Span(a, b) = 1..(b - a)
         /\ \A k \in 1..(b - a) : Span(a, b)[k] = ByteAt(a + k)
<1>1. \A k \in 1..(b - a) : ByteAt(a + k) \in ByteSet BY ByteType
<1>2. b - a \in Nat OBVIOUS
<1> QED BY <1>1, <1>2 DEF Span

LEMMA SpanCut ==
  ASSUME NEW a \in Nat, NEW b \in Nat, NEW n \in Nat, a <= b, b <= n
  PROVE  SubSeq(Span(0, n), a + 1, b) = Span(a, b)
<1>1. /\ Span(0, n) \in Seq(ByteSet)
      /\ \A k \in 1..n : Span(0, n)[k] = ByteAt(k)
  <2>1. 0 \in Nat /\ 0 <= n /\ n - 0 = n /\ \A k \in 1..n : 0 + k = k OBVIOUS
  <2>2. /\ Span(0, n) \in Seq(ByteSet)
        /\ \A k \in 1..(n - 0) : Span(0, n)[k] = ByteAt(0 + k)
    BY <2>1, SpanType
  <2> QED BY <2>1, <2>2
<1>2. \A k \in (a+1)..b : Span(0, n)[k] \in ByteSet BY <1>1, ByteType
<1> DEFINE s == SubSeq(Span(0, n), a + 1, b)
<1> HIDE DEF ByteSet
<1>3. /\ s \in Seq(ByteSet)
      /\ Len(s) = IF a + 1 <= b THEN b - (a + 1) + 1 ELSE 0
      /\ \A k \in 1..(b - (a + 1) + 1) : s[k] = Span(0, n)[(a + 1) + k - 1]
  BY <1>2, SubSeqProperties
<1>4. Len(s) = b - a BY <1>3
<1>5. \A k \in 1..(b - a) : s[k] = ByteAt(a + k) BY <1>1, <1>3
<1>6. /\ Span(a, b) \in Seq(ByteSet) /\ Len(Span(a, b)) = b - a
      /\ \A k \in 1..(b - a) : Span(a, b)[k] = ByteAt(a + k)
  BY SpanType
<1> HIDE DEF s
<1>7. s = Span(a, b) BY <1>3, <1>4, <1>5, <1>6, SeqEqual
<1> QED BY <1>7 DEF s

LEMMA SpanJoin ==
  ASSUME NEW a \in Nat, NEW b \in Nat, NEW c \in Nat, a <= b, b <= c
  PROVE  Span(a, b) \o Span(b, c) = Span(a, c)
<1> DEFINE s == Span(a, b)
           t == Span(b, c)
           u == Span(a, c)
<1>1. /\ s \in Seq(ByteSet) /\ Len(s) = b - a /\ \A k \in 1..(b - a) : s[k] = ByteAt(a + k)
      /\ t \in Seq(ByteSet) /\ Len(t) = c - b /\ \A k \in 1..(c - b) : t[k] = ByteAt(b + k)
      /\ u \in Seq(ByteSet) /\ Len(u) = c - a /\ \A k \in 1..(c - a) : u[k] = ByteAt(a + k)
  <2>1. a <= c OBVIOUS
  <2> QED BY <2>1, SpanType
<1> HIDE DEF s, t, u, ByteSet
<1>2. /\ s \o t \in Seq(ByteSet) /\ Len(s \o t) = (b - a) + (c - b)
      /\ \A k \in 1..((b - a) + (c - b)) :
           (s \o t)[k] = IF k <= b - a THEN s[k] ELSE t[k - (b - a)]
  <2>1. s \in Seq(ByteSet) /\ t \in Seq(ByteSet) BY <1>1
  <2>2. /\ s \o t \in Seq(ByteSet) /\ Len(s \o t) = Len(s) + Len(t)
        /\ \A k \in 1..(Len(s) + Len(t)) :
             (s \o t)[k] = IF k <= Len(s) THEN s[k] ELSE t[k - Len(s)]
    BY <2>1, ConcatProperties
  <2>3. Len(s) = b - a /\ Len(t) = c - b BY <1>1
  <2> QED BY <2>2, <2>3
<1>3. Len(s \o t) = c - a BY <1>2
<1>4. ASSUME NEW k \in 1..(c - a) PROVE (s \o t)[k] = u[k]
  <2>1. (s \o t)[k] = IF k <= b - a THEN s[k] ELSE t[k - (b - a)] BY <1>2, <1>4
  <2>2. CASE k <= b - a
    <3>1. k \in 1..(b - a) BY <2>2
    <3> QED BY <1>1, <2>1, <2>2, <3>1
  <2>3. CASE ~(k <= b - a)
    <3>1. k - (b - a) \in 1..(c - b) /\ b + (k - (b - a)) = a + k BY <2>3
    <3> QED BY <1>1, <2>1, <2>3, <3>1
  <2> QED BY <2>2, <2>3
<1>5. s \o t = u BY <1>1, <1>2, <1>3, <1>4, SeqEqual
<1> QED BY <1>5 DEF s, t, u

\* A span and the byte that follows it.
LEMMA SpanAppend ==
  ASSUME NEW a \in Nat, NEW b \in Nat, a <= b
  PROVE  Append(Span(a, b), ByteAt(b + 1)) = Span(a, b + 1)
<1> DEFINE s == Span(a, b)
           u == Span(a, b + 1)
           e == ByteAt(b + 1)
<1>1. /\ s \in Seq(ByteSet) /\ Len(s) = b - a /\ \A k \in 1..(b - a) : s[k] = ByteAt(a + k)
  BY SpanType
<1>2. /\ u \in Seq(ByteSet) /\ Len(u) = (b + 1) - a
      /\ \A k \in 1..((b + 1) - a) : u[k] = ByteAt(a + k)
  <2>1. b + 1 \in Nat /\ a <= b + 1 OBVIOUS
  <2> QED BY <2>1, SpanType
<1>3. e \in ByteSet BY ByteType
<1>4. u[Len(s) + 1] = e
  <2>1. (b + 1) - a \in 1..((b + 1) - a) /\ a + ((b + 1) - a) = b + 1
        /\ Len(s) + 1 = (b + 1) - a
    BY <1>1
  <2> QED BY <1>2, <2>1
<1> HIDE DEF s, u, e, ByteSet
<1>5. /\ Append(s, e) \in Seq(ByteSet) /\ Len(Append(s, e)) = Len(s) + 1
      /\ \A k \in 1..Len(s) : Append(s, e)[k] = s[k]
      /\ Append(s, e)[Len(s) + 1] = e
  BY <1>1, <1>3, AppendProperties
<1>6. \A k \in 1..Len(s) : s[k] = u[k] BY <1>1, <1>2
<1>7. Len(s) \in Nat /\ Len(u) = Len(s) + 1 BY <1>1, <1>2
<1>8. \A k \in 1..(Len(s) + 1) : Append(s, e)[k] = u[k] BY <1>4, <1>5, <1>6, <1>7
<1>9. Append(s, e) = u BY <1>2, <1>5, <1>7, <1>8, SeqEqual
<1> QED BY <1>9 DEF s, u, e

\* The two halves of line j.
Halves(j) == << << j, 1 >>, << j, 2 >> >>

LEMMA HalvesAre ==
  ASSUME NEW j \in Nat
  PROVE  Span(3 * j, 3 * j + 2) = Halves(j + 1)
<1>1. 3 * j \in Nat /\ 3 * j + 2 \in Nat /\ (3 * j + 2) - 3 * j = 2 OBVIOUS
<1>2. Span(3 * j, 3 * j + 2) = [k \in 1..2 |-> ByteAt(3 * j + k)] BY <1>1 DEF Span
<1>3. ByteAt(3 * j + 1) = << j + 1, 1 >>
  <2>1. (3 * j + 1) % 3 = 1 /\ ((3 * j + 1) + 2) \div 3 = j + 1 OBVIOUS
  <2> QED BY <2>1 DEF ByteAt
<1>4. ByteAt(3 * j + 2) = << j + 1, 2 >>
  <2>1. (3 * j + 2) % 3 = 2 /\ ((3 * j + 2) + 2) \div 3 = j + 1 OBVIOUS
  <2> QED BY <2>1 DEF ByteAt
<1> HIDE DEF ByteAt
<1>5. [k \in 1..2 |-> ByteAt(3 * j + k)] = << << j + 1, 1 >>, << j + 1, 2 >> >>
  BY <1>3, <1>4
<1> QED BY <1>2, <1>5 DEF Halves

LEMMA SplitRest ==
  ASSUME NEW l, NEW q, NEW b, b # NL
  PROVE  SplitOp(0, [lines |-> l, rest |-> q], b) = [lines |-> l, rest |-> Append(q, b)]
BY DEF SplitOp

LEMMA SplitFields ==
  \A l, q : [lines |-> l, rest |-> q].lines = l /\ [lines |-> l, rest |-> q].rest = q
OBVIOUS

\* Splitting what follows line c up to byte m: the lines that are complete, and the rest.
LEMMA SplitSpan ==
  ASSUME NEW c \in Nat, NEW m \in Nat, 3 * c <= m
  PROVE  SplitLines(Span(3 * c, m)) =
           [lines |-> [i \in 1..(m \div 3 - c) |-> Halves(c + i)], rest |-> Span(3 * (m \div 3), m)]
<1> DEFINE s == Span(3 * c, m)
           n == m - 3 * c
           LinesTo(d) == [i \in 1..d |-> Halves(c + i)]
           T(k) == [lines |-> LinesTo(k \div 3), rest |-> Span(3 * c + 3 * (k \div 3), 3 * c + k)]
           base == [lines |-> << >>, rest |-> << >>]
           r == [k \in 0..n |-> T(k)]
<1>1. n \in Nat /\ DOMAIN s = 1..n /\ \A k \in 1..n : s[k] = ByteAt(3 * c + k)
  BY SpanType
<1>2. T(0) = base
  <2>1. 0 \div 3 = 0 /\ 3 * c + 3 * 0 = 3 * c /\ 3 * c + 0 = 3 * c OBVIOUS
  <2>2. LinesTo(0) = << >> OBVIOUS
  <2>3. Span(3 * c, 3 * c) = << >>
    <3>1. (3 * c) - (3 * c) = 0 OBVIOUS
    <3> QED BY <3>1 DEF Span
  <2> HIDE DEF LinesTo
  <2> QED BY <2>1, <2>2, <2>3
<1>3. ASSUME NEW k \in 1..n PROVE T(k) = SplitOp(0, T(k - 1), s[k])
  <2> DEFINE d == k \div 3
  <2>0. s[k] = ByteAt(3 * c + k) BY <1>1, <1>3
  <2>1. CASE k % 3 = 0
    <3>1. d \in Nat \ {0} /\ k = 3 * d /\ (k - 1) \div 3 = d - 1 /\ k \in Nat BY <1>1, <2>1
    <3> HIDE DEF d
    <3>2. s[k] = NL
      <4>1. (3 * c + k) % 3 = 0 BY <3>1
      <4> QED BY <2>0, <4>1 DEF ByteAt
    <3>3. Span(3 * c + 3 * (d - 1), 3 * c + (k - 1)) = Halves(c + d)
      <4> DEFINE j == c + d - 1
      <4>1. j \in Nat /\ 3 * c + 3 * (d - 1) = 3 * j /\ 3 * c + (k - 1) = 3 * j + 2 /\ j + 1 = c + d
        BY <3>1
      <4> HIDE DEF j
      <4> QED BY <4>1, HalvesAre
    <3>4. Span(3 * c + 3 * d, 3 * c + k) = << >>
      <4>1. 3 * c + 3 * d = 3 * c + k /\ (3 * c + k) - (3 * c + k) = 0 BY <3>1
      <4>2. Span(3 * c + k, 3 * c + k) = << >> BY <4>1 DEF Span
      <4> QED BY <4>1, <4>2
    <3>5. Append(LinesTo(d - 1), Halves(c + d)) = LinesTo(d)
      <4> DEFINE H == {Halves(c + i) : i \in Nat}
      <4>1. \A i \in Nat : Halves(c + i) \in H OBVIOUS
      <4>2. d - 1 \in Nat /\ d \in Nat BY <3>1
      <4> HIDE DEF H, Halves
      <4>3. LinesTo(d - 1) \in Seq(H) /\ Len(LinesTo(d - 1)) = d - 1 BY <4>1, <4>2
      <4>4. Append(LinesTo(d - 1), Halves(c + d)) = [i \in 1..((d - 1) + 1) |->
               IF i = (d - 1) + 1 THEN Halves(c + d) ELSE LinesTo(d - 1)[i]]
        BY <4>1, <4>2, <4>3
      <4>5. \A i \in 1..d : i # d => LinesTo(d - 1)[i] = Halves(c + i) BY <4>2
      <4> QED BY <4>2, <4>4, <4>5
    <3>6. T(k - 1).lines = LinesTo(d - 1) /\ T(k - 1).rest = Halves(c + d)
      BY <3>1, <3>3
    <3>7. T(k) = [lines |-> LinesTo(d), rest |-> << >>] BY <3>4 DEF d
    <3> HIDE DEF T, LinesTo
    <3> QED BY <3>2, <3>5, <3>6, <3>7 DEF SplitOp
  <2>2. CASE k % 3 # 0
    <3>1. d \in Nat /\ (k - 1) \div 3 = d /\ 3 * d <= k - 1 /\ k \in Nat /\ k - 1 \in Nat BY <1>1, <2>2
    <3> HIDE DEF d
    <3>2. s[k] # NL
      <4>1. (3 * c + k) % 3 # 0 BY <2>2
      <4> QED BY <2>0, <4>1 DEF ByteAt, NL
    <3>3. Append(Span(3 * c + 3 * d, 3 * c + (k - 1)), s[k]) = Span(3 * c + 3 * d, 3 * c + k)
      <4> DEFINE a == 3 * c + 3 * d
                 b == 3 * c + (k - 1)
      <4>1. a \in Nat /\ b \in Nat /\ a <= b /\ b + 1 = 3 * c + k BY <3>1
      <4> HIDE DEF a, b
      <4>2. Append(Span(a, b), ByteAt(b + 1)) = Span(a, b + 1) BY <4>1, SpanAppend
      <4> QED BY <2>0, <4>1, <4>2 DEF a, b
    <3>4. T(k - 1) = [lines |-> LinesTo(d), rest |-> Span(3 * c + 3 * d, 3 * c + (k - 1))]
      BY <3>1
    <3>5. T(k) = [lines |-> LinesTo(d), rest |-> Span(3 * c + 3 * d, 3 * c + k)]
      BY DEF d
    <3> HIDE DEF T, LinesTo
    <3>6. SplitOp(0, T(k - 1), s[k]) =
            [lines |-> LinesTo(d), rest |-> Append(Span(3 * c + 3 * d, 3 * c + (k - 1)), s[k])]
      BY <3>2, <3>4, SplitRest
    <3> QED BY <3>3, <3>5, <3>6
  <2> QED BY <2>1, <2>2
<1> HIDE DEF T
<1>4. r[0] = base BY <1>1, <1>2
<1>5. \A k \in 1..n : r[k] = SplitOp(0, r[k - 1], s[k])
  <2>1. \A k \in 1..n : k \in 0..n /\ k - 1 \in 0..n BY <1>1
  <2> QED BY <1>3, <2>1
<1>6. r[n] = T(n) BY <1>1
<1> HIDE DEF r, s, n, base
<1>7. Split!IsTrace(r, 0, base, s, n) BY <1>4, <1>5 DEF Split!IsTrace
<1>8. Split!Fold(0, base, s) = T(n) BY <1>1, <1>6, <1>7, Split!FoldIs
<1>9. SplitLines(s) = T(n) BY <1>8, SplitIsFold DEF base
<1>10. n \div 3 = m \div 3 - c /\ 3 * c + 3 * (n \div 3) = 3 * (m \div 3) /\ 3 * c + n = m
  BY DEF n
<1> QED BY <1>9, <1>10 DEF T, s

-----------------------------------------------------------------------------
\* What either reader has made of the first k lines.
ParsePrefix(k) == ParseAll(newCCStreamState, SubSeq(script, 1, k))
FeedPrefix(k)  == FeedAll(newCCAccumulator, SubSeq(script, 1, k))

LEMMA CutAt ==
  ASSUME script \in Seq(Lines), NEW c \in Nat, NEW d \in Nat, c <= d, d <= Len(script)
  PROVE  /\ SubSeq(script, 1, c) \in Seq(Lines) /\ SubSeq(script, c + 1, d) \in Seq(Lines)
         /\ SubSeq(script, 1, c) \o SubSeq(script, c + 1, d) = SubSeq(script, 1, d)
<1> DEFINE n == Len(script)
<1>1. n \in Nat /\ \A i \in 1..n : script[i] \in Lines OBVIOUS
<1> HIDE DEF Lines
<1>2. 1 \in 1..n+1 /\ c \in 0..n /\ d \in c..n /\ 1 - 1 = 0 BY <1>1
<1>3. SubSeq(script, 1, c) \in Seq(Lines) /\ SubSeq(script, c + 1, d) \in Seq(Lines)
  <2>1. \A i \in 1..c : script[i] \in Lines BY <1>1, <1>2
  <2>2. \A i \in (c+1)..d : script[i] \in Lines BY <1>1, <1>2
  <2> QED BY <2>1, <2>2, SubSeqProperties
<1>4. SubSeq(script, 1, c) \o SubSeq(script, c + 1, d) = SubSeq(script, 1, d)
  BY <1>2, ConcatAdjacentSubSeq
<1> QED BY <1>3, <1>4

LEMMA ParseConcat ==
  ASSUME NEW st, NEW s \in Seq(Lines), NEW t \in Seq(Lines)
  PROVE  ParseAll(st, s \o t) = ParseAll(ParseAll(st, s), t)
<1>1. Parse!Fold(0, st, s \o t) = Parse!Fold(0, Parse!Fold(0, st, s), t)
  BY Parse!FoldConcat
<1> QED BY <1>1, ParseIsFold

LEMMA FeedConcat ==
  ASSUME NEW a, NEW s \in Seq(Lines), NEW t \in Seq(Lines)
  PROVE  FeedAll(a, s \o t) = FeedAll(FeedAll(a, s), t)
<1>1. Feed!Fold(0, a, s \o t) = Feed!Fold(0, Feed!Fold(0, a, s), t)
  BY Feed!FoldConcat
<1> QED BY <1>1, FeedIsFold

\* Going on where a reader was.
LEMMA ParseMore ==
  ASSUME script \in Seq(Lines), NEW c \in Nat, NEW d \in Nat, c <= d, d <= Len(script)
  PROVE  ParseAll(ParsePrefix(c), SubSeq(script, c + 1, d)) = ParsePrefix(d)
<1> DEFINE s == SubSeq(script, 1, c)
           t == SubSeq(script, c + 1, d)
<1>1. s \in Seq(Lines) /\ t \in Seq(Lines) /\ s \o t = SubSeq(script, 1, d)
  BY CutAt, Zenon
<1> HIDE DEF s, t
<1>3. ParseAll(newCCStreamState, s \o t) = ParseAll(ParseAll(newCCStreamState, s), t)
  BY <1>1, ParseConcat, Zenon
<1> QED BY <1>1, <1>3 DEF ParsePrefix, s, t

LEMMA FeedMore ==
  ASSUME script \in Seq(Lines), NEW c \in Nat, NEW d \in Nat, c <= d, d <= Len(script)
  PROVE  FeedAll(FeedPrefix(c), SubSeq(script, c + 1, d)) = FeedPrefix(d)
<1> DEFINE s == SubSeq(script, 1, c)
           t == SubSeq(script, c + 1, d)
<1>1. s \in Seq(Lines) /\ t \in Seq(Lines) /\ s \o t = SubSeq(script, 1, d)
  BY CutAt, Zenon
<1> HIDE DEF s, t
<1>3. FeedAll(newCCAccumulator, s \o t) = FeedAll(FeedAll(newCCAccumulator, s), t)
  BY <1>1, FeedConcat, Zenon
<1> QED BY <1>1, <1>3 DEF FeedPrefix, s, t

\* Nothing is parsed after an error.
LEMMA ParseStops ==
  ASSUME NEW st, st.upstreamError # << >>, NEW lines, NEW n \in Nat, DOMAIN lines = 1..n
  PROVE  ParseAll(st, lines) = st
<1> DEFINE r == [k \in 0..n |-> st]
<1>1. r[0] = st /\ r[n] = st OBVIOUS
<1>2. \A k \in 1..n : r[k] = st /\ r[k-1] = st OBVIOUS
<1>3. \A k \in 1..n : ParseOp(0, st, lines[k]) = st BY DEF ParseOp
<1> HIDE DEF r
<1>4. Parse!IsTrace(r, 0, st, lines, n) BY <1>1, <1>2, <1>3 DEF Parse!IsTrace
<1>5. Parse!Fold(0, st, lines) = r[n] BY <1>4, Parse!FoldIs
<1> QED BY <1>1, <1>5, ParseIsFold

\* One line more.
LEMMA OneLine ==
  ASSUME script \in Seq(Lines), NEW k \in Nat, k < Len(script)
  PROVE  /\ ParsePrefix(k + 1) = ParseOp(0, ParsePrefix(k), script[k + 1])
         /\ FeedPrefix(k + 1) = feed(FeedPrefix(k), script[k + 1])
         /\ script[k + 1] \in Lines
<1> DEFINE s == SubSeq(script, 1, k)
           e == script[k + 1]
<1> HIDE DEF Lines
<1>1. e \in Lines OBVIOUS
<1>2. s \in Seq(Lines) BY CutAt
<1>3. Append(s, e) = SubSeq(script, 1, k + 1) OBVIOUS
<1> HIDE DEF s, e
<1>4. Parse!Fold(0, newCCStreamState, Append(s, e))
        = ParseOp(0, Parse!Fold(0, newCCStreamState, s), e)
  BY <1>1, <1>2, Parse!FoldAppend
<1>5. Feed!Fold(0, newCCAccumulator, Append(s, e))
        = FeedOp(0, Feed!Fold(0, newCCAccumulator, s), e)
  BY <1>1, <1>2, Feed!FoldAppend
<1>6. ParseAll(newCCStreamState, Append(s, e)) = ParseOp(0, ParseAll(newCCStreamState, s), e)
  BY <1>4, ParseIsFold
<1>7. FeedAll(newCCAccumulator, Append(s, e)) = feed(FeedAll(newCCAccumulator, s), e)
  BY <1>5, FeedIsFold DEF FeedOp
<1> QED BY <1>1, <1>3, <1>6, <1>7 DEF ParsePrefix, FeedPrefix, s, e

LEMMA NoLine ==
  ASSUME script \in Seq(Lines)
  PROVE  ParsePrefix(0) = newCCStreamState /\ FeedPrefix(0) = newCCAccumulator
<1>1. DOMAIN SubSeq(script, 1, 0) = {} OBVIOUS
<1>2. /\ Parse!Fold(0, newCCStreamState, SubSeq(script, 1, 0)) = newCCStreamState
      /\ Feed!Fold(0, newCCAccumulator, SubSeq(script, 1, 0)) = newCCAccumulator
  BY <1>1, Parse!FoldEmpty, Feed!FoldEmpty
<1> QED BY <1>2, ParseIsFold, FeedIsFold DEF ParsePrefix, FeedPrefix

LEMMA AllLines ==
  ASSUME script \in Seq(Lines)
  PROVE  ParsePrefix(Len(script)) = StreamReference /\ FeedPrefix(Len(script)) = AccReference
<1>1. SubSeq(script, 1, Len(script)) = script BY SubSeqFull
<1> QED BY <1>1 DEF ParsePrefix, FeedPrefix, StreamReference, AccReference

LEMMA LineOfHalves ==
  ASSUME script \in Seq(Lines), NEW j \in 1..Len(script)
  PROVE  LineOf(Halves(j)) = script[j]
<1>1. j \in DOMAIN script OBVIOUS
<1>2. Halves(j)[1][1] = j BY DEF Halves
<1>3. \E i \in DOMAIN script : Halves(j) = << <<i, 1>>, <<i, 2>> >> BY <1>1 DEF Halves
<1> HIDE DEF Halves
<1> QED BY <1>2, <1>3 DEF LineOf

LEMMA LineOfNothing == LineOf(<< >>) = Junk
<1>1. \A i : << >> # << <<i, 1>>, <<i, 2>> >> OBVIOUS
<1> QED BY <1>1, Zenon DEF LineOf

\* Reading on from line c up to byte m.
LEMMA ReadOn ==
  ASSUME script \in Seq(Lines), NEW c \in Nat, NEW m \in Nat, 3 * c <= m,
         m \div 3 <= Len(script), NEW split, split = SplitLines(Span(3 * c, m))
  PROVE  /\ [i \in DOMAIN split.lines |-> LineOf(split.lines[i])]
              = SubSeq(script, c + 1, m \div 3)
         /\ split.rest = Span(3 * (m \div 3), m)
<1> DEFINE d == m \div 3 - c
<1>1. d \in Nat /\ c + d = m \div 3 /\ c + d <= Len(script) /\ Len(script) \in Nat OBVIOUS
<1>2. split = [lines |-> [i \in 1..d |-> Halves(c + i)], rest |-> Span(3 * (m \div 3), m)]
  BY SplitSpan
<1> HIDE DEF d, Halves, Span
<1>3. DOMAIN split.lines = 1..d /\ \A i \in 1..d : split.lines[i] = Halves(c + i)
  <2>1. split.lines = [i \in 1..d |-> Halves(c + i)] BY <1>2, SplitFields, Zenon
  <2> QED BY <2>1
<1>4. \A i \in 1..d : LineOf(split.lines[i]) = script[c + i]
  <2>1. \A i \in 1..d : c + i \in 1..Len(script) BY <1>1
  <2> QED BY <1>3, <2>1, LineOfHalves
<1>5. [i \in DOMAIN split.lines |-> LineOf(split.lines[i])] = [i \in 1..d |-> script[c + i]]
  BY <1>3, <1>4
<1>6. SubSeq(script, c + 1, c + d) = [i \in 1..d |-> script[c + i]]
  <2>1. \A i \in 1..d : (c + 1) + i - 1 = c + i BY <1>1
  <2>2. (c + d) - (c + 1) + 1 = d BY <1>1
  <2> QED BY <1>1, <2>1, <2>2
<1> QED BY <1>1, <1>2, <1>5, <1>6

-----------------------------------------------------------------------------
\* Both readers have seen the lines that have arrived whole and hold what follows them;
\* streamLoop only up to the first error.
CutInv ==
  /\ script \in Seq(Lines) /\ terminated \in BOOLEAN /\ closed \in BOOLEAN /\ stopped \in BOOLEAN
  /\ sent \in Nat /\ sent <= Len(Bytes)
  /\ acc = FeedPrefix(sent \div 3) /\ accPending = Span(3 * (sent \div 3), sent)
  /\ ~stopped => streamPending = Span(3 * (sent \div 3), sent)
  /\ \A i \in DOMAIN streamPending : streamPending[i] # NL
  /\ ~closed => /\ stream = ParsePrefix(sent \div 3)
                /\ stopped <=> stream.upstreamError # << >>
  /\ closed => sent = Len(Bytes) /\ stopped /\ stream = StreamReference

\* Where a response is when m of its bytes have arrived.
LEMMA Arrived ==
  ASSUME script \in Seq(Lines), terminated \in BOOLEAN, NEW m \in Nat, m <= Len(Bytes)
  PROVE  /\ m \div 3 \in Nat /\ m \div 3 <= Len(script) /\ 3 * (m \div 3) <= m
         /\ m = Len(Bytes) => \/ m = 3 * Len(script) /\ m \div 3 = Len(script)
                              \/ /\ ~terminated /\ Len(script) # 0
                                 /\ m \div 3 = Len(script) - 1
                                 /\ m = 3 * (Len(script) - 1) + 2
<1> DEFINE n == Len(script)
<1>1. n \in Nat /\ (n = 0 <=> script = << >>) OBVIOUS
<1>2. /\ Len(Bytes) = IF terminated \/ script = << >> THEN 3 * n ELSE 3 * n - 1
  BY BytesAre
<1> HIDE DEF n
<1>3. CASE terminated \/ script = << >>
  <2>1. Len(Bytes) = 3 * n BY <1>2, <1>3
  <2> QED BY <1>1, <2>1 DEF n
<1>4. CASE ~terminated /\ script # << >>
  <2>1. Len(Bytes) = 3 * n - 1 /\ n # 0 BY <1>1, <1>2, <1>4
  <2> QED BY <1>1, <1>4, <2>1 DEF n
<1> QED BY <1>3, <1>4

\* What follows the last newline has none.
LEMMA RestHasNoNewline ==
  ASSUME NEW m \in Nat, NEW q, q = Span(3 * (m \div 3), m)
  PROVE  \A i \in DOMAIN q : q[i] # NL
<1>1. 3 * (m \div 3) \in Nat /\ 3 * (m \div 3) <= m OBVIOUS
<1>2. /\ DOMAIN q = 1..(m - 3 * (m \div 3))
      /\ \A k \in 1..(m - 3 * (m \div 3)) : q[k] = ByteAt(3 * (m \div 3) + k)
  BY <1>1, SpanType
<1>3. \A k \in 1..(m - 3 * (m \div 3)) : (3 * (m \div 3) + k) % 3 # 0 BY <1>1
<1>4. \A k \in 1..(m - 3 * (m \div 3)) : ByteAt(3 * (m \div 3) + k) # NL
  BY <1>3 DEF ByteAt, NL
<1> QED BY <1>2, <1>4

\* Bytes without a newline complete no line.
LEMMA NoNewline ==
  ASSUME NEW a \in Nat, NEW b \in Nat, a <= b,
         ~ \E i \in DOMAIN Span(a, b) : Span(a, b)[i] = NL
  PROVE  b \div 3 = a \div 3
<1> SUFFICES ASSUME b \div 3 # a \div 3 PROVE FALSE OBVIOUS
<1> DEFINE j == 3 * (b \div 3)
<1>1. a < j /\ j <= b /\ j % 3 = 0 /\ j \in Nat OBVIOUS
<1> HIDE DEF j
<1>2. DOMAIN Span(a, b) = 1..(b - a) /\ \A k \in 1..(b - a) : Span(a, b)[k] = ByteAt(a + k)
  BY SpanType
<1>3. j - a \in 1..(b - a) /\ a + (j - a) = j BY <1>1
<1>4. Span(a, b)[j - a] = NL BY <1>1, <1>2, <1>3 DEF ByteAt
<1> QED BY <1>2, <1>3, <1>4

\* Processing what has arrived of the lines after line sent / 3.
LEMMA ProcessAcc ==
  ASSUME CutInv, NEW m \in Nat, sent <= m, m <= Len(Bytes),
         processAcc(Span(3 * (sent \div 3), m))
  PROVE  acc' = FeedPrefix(m \div 3) /\ accPending' = Span(3 * (m \div 3), m)
<1> DEFINE c == sent \div 3
           split == SplitLines(Span(3 * c, m))
<1>1. /\ script \in Seq(Lines) /\ terminated \in BOOLEAN /\ sent \in Nat /\ sent <= Len(Bytes)
      /\ acc = FeedPrefix(c)
  BY DEF CutInv
<1>2. c \in Nat /\ c <= Len(script) /\ 3 * c <= sent /\ m \div 3 \in Nat /\ m \div 3 <= Len(script)
  BY <1>1, Arrived
<1>3. 3 * c <= m /\ c <= m \div 3 BY <1>1, <1>2
<1>4. /\ acc' = FeedAll(acc, [i \in DOMAIN split.lines |-> LineOf(split.lines[i])])
      /\ accPending' = split.rest
  BY DEF processAcc, Kept
<1> HIDE DEF c, split
<1>5. /\ [i \in DOMAIN split.lines |-> LineOf(split.lines[i])] = SubSeq(script, c + 1, m \div 3)
      /\ split.rest = Span(3 * (m \div 3), m)
  BY <1>1, <1>2, <1>3, ReadOn, Zenon DEF split
<1>6. FeedAll(FeedPrefix(c), SubSeq(script, c + 1, m \div 3)) = FeedPrefix(m \div 3)
  BY <1>1, <1>2, <1>3, FeedMore, Zenon
<1> QED BY <1>1, <1>4, <1>5, <1>6, Zenon

LEMMA ProcessStream ==
  ASSUME CutInv, ~closed, NEW m \in Nat, sent <= m, m <= Len(Bytes),
         processStream(Span(3 * (sent \div 3), m))
  PROVE  /\ stream' = ParsePrefix(m \div 3) /\ streamPending' = Span(3 * (m \div 3), m)
         /\ stopped' \in BOOLEAN /\ (stopped' <=> stream'.upstreamError # << >>)
<1> DEFINE c == sent \div 3
           split == SplitLines(Span(3 * c, m))
<1>1. /\ script \in Seq(Lines) /\ terminated \in BOOLEAN /\ sent \in Nat /\ sent <= Len(Bytes)
      /\ stream = ParsePrefix(c)
  BY DEF CutInv
<1>2. c \in Nat /\ c <= Len(script) /\ 3 * c <= sent /\ m \div 3 \in Nat /\ m \div 3 <= Len(script)
  BY <1>1, Arrived
<1>3. 3 * c <= m /\ c <= m \div 3 BY <1>1, <1>2
<1>4. /\ stream' = ParseAll(stream, [i \in DOMAIN split.lines |-> LineOf(split.lines[i])])
      /\ streamPending' = split.rest
      /\ stopped' = (stream'.upstreamError # << >>)
  BY DEF processStream, Kept
<1> HIDE DEF c, split
<1>5. /\ [i \in DOMAIN split.lines |-> LineOf(split.lines[i])] = SubSeq(script, c + 1, m \div 3)
      /\ split.rest = Span(3 * (m \div 3), m)
  BY <1>1, <1>2, <1>3, ReadOn, Zenon DEF split
<1>6. ParseAll(ParsePrefix(c), SubSeq(script, c + 1, m \div 3)) = ParsePrefix(m \div 3)
  BY <1>1, <1>2, <1>3, ParseMore, Zenon
<1>7. stream' = ParsePrefix(m \div 3) /\ streamPending' = Span(3 * (m \div 3), m)
  BY <1>1, <1>4, <1>5, <1>6, Zenon
<1> QED BY <1>4, <1>7

\* The bytes of a response do not change while it arrives.
LEMMA SameBytes ==
  ASSUME script' = script, terminated' = terminated, NEW k, sent' = k
  PROVE  /\ Bytes' = Bytes /\ ParsePrefix(sent \div 3)' = ParsePrefix(k \div 3)
         /\ FeedPrefix(sent \div 3)' = FeedPrefix(k \div 3)
         /\ StreamReference' = StreamReference
<1>1. Bytes' = Bytes BY DEF Bytes
<1>2. ParsePrefix(sent \div 3)' = ParsePrefix(k \div 3) BY DEF ParsePrefix
<1>3. FeedPrefix(sent \div 3)' = FeedPrefix(k \div 3) BY DEF FeedPrefix
<1>4. StreamReference' = StreamReference BY DEF StreamReference
<1> QED BY <1>1, <1>2, <1>3, <1>4

\* The next n bytes, after the unfinished line.
LEMMA Payload ==
  ASSUME CutInv, NEW n \in Nat, sent + n <= Len(Bytes)
  PROVE  /\ SubSeq(Bytes, sent + 1, sent + n) = Span(sent, sent + n)
         /\ Span(3 * (sent \div 3), sent) \o Span(sent, sent + n)
              = Span(3 * (sent \div 3), sent + n)
<1>1. script \in Seq(Lines) /\ terminated \in BOOLEAN /\ sent \in Nat BY DEF CutInv
<1>2. Len(Bytes) \in Nat /\ Bytes = Span(0, Len(Bytes)) BY <1>1, BytesAre
<1>3. sent + n \in Nat /\ sent <= sent + n /\ 3 * (sent \div 3) \in Nat
      /\ 3 * (sent \div 3) <= sent
  BY <1>1
<1> HIDE DEF Span
<1>4. SubSeq(Span(0, Len(Bytes)), sent + 1, sent + n) = Span(sent, sent + n)
  BY <1>1, <1>2, <1>3, SpanCut
<1>5. Span(3 * (sent \div 3), sent) \o Span(sent, sent + n)
              = Span(3 * (sent \div 3), sent + n)
  BY <1>1, <1>3, SpanJoin
<1> QED BY <1>2, <1>4, <1>5, Zenon

LEMMA CutChunk == CutInv /\ chunk => CutInv'
<1> SUFFICES ASSUME CutInv, chunk PROVE CutInv' OBVIOUS
<1>1. PICK n \in 1..MaxChunk :
        /\ sent + n <= Len(Bytes)
        /\ sent' = sent + n
        /\ LET payload == SubSeq(Bytes, sent + 1, sent + n)
               newline == \E i \in DOMAIN payload : payload[i] = NL
           IN IF newline
              THEN /\ processAcc(accPending \o payload)
                   /\ IF stopped THEN UNCHANGED << stream, streamPending, stopped >>
                      ELSE processStream(streamPending \o payload)
              ELSE /\ accPending' = accPending \o payload
                   /\ streamPending' = IF stopped THEN streamPending ELSE streamPending \o payload
                   /\ UNCHANGED << acc, stream, stopped >>
  BY DEF chunk
<1> DEFINE m == sent + n
           c == sent \div 3
           p == Span(sent, m)
<1>2. ~closed /\ closed' = closed /\ script' = script /\ terminated' = terminated
  BY DEF chunk
<1>3. /\ script \in Seq(Lines) /\ terminated \in BOOLEAN /\ closed \in BOOLEAN /\ stopped \in BOOLEAN
      /\ sent \in Nat /\ sent <= Len(Bytes)
      /\ acc = FeedPrefix(c) /\ accPending = Span(3 * c, sent)
      /\ ~stopped => streamPending = Span(3 * c, sent)
      /\ \A i \in DOMAIN streamPending : streamPending[i] # NL
      /\ stream = ParsePrefix(c) /\ (stopped <=> stream.upstreamError # << >>)
  BY <1>2 DEF CutInv
<1>4. n \in Nat /\ m \in Nat /\ sent <= m /\ m <= Len(Bytes) /\ sent' = m
  BY <1>1, <1>3
<1>5. /\ SubSeq(Bytes, sent + 1, m) = p
      /\ accPending \o p = Span(3 * c, m)
      /\ ~stopped => streamPending \o p = Span(3 * c, m)
  BY <1>1, <1>3, <1>4, Payload
<1>6. /\ c \in Nat /\ m \div 3 \in Nat /\ c <= m \div 3 /\ m \div 3 <= Len(script)
  BY <1>3, <1>4, Arrived
<1>7. IF \E i \in DOMAIN p : p[i] = NL
      THEN /\ processAcc(Span(3 * c, m))
           /\ IF stopped THEN UNCHANGED << stream, streamPending, stopped >>
              ELSE processStream(Span(3 * c, m))
      ELSE /\ accPending' = Span(3 * c, m)
           /\ streamPending' = IF stopped THEN streamPending ELSE Span(3 * c, m)
           /\ UNCHANGED << acc, stream, stopped >>
  BY <1>1, <1>5 DEF m
<1> HIDE DEF m, c, p
<1>8. /\ acc' = FeedPrefix(m \div 3) /\ accPending' = Span(3 * (m \div 3), m)
      /\ ~stopped' => streamPending' = Span(3 * (m \div 3), m)
      /\ \A i \in DOMAIN streamPending' : streamPending'[i] # NL
      /\ stream' = ParsePrefix(m \div 3)
      /\ stopped' \in BOOLEAN /\ (stopped' <=> stream'.upstreamError # << >>)
  <2>1. CASE \E i \in DOMAIN p : p[i] = NL
    <3>1. acc' = FeedPrefix(m \div 3) /\ accPending' = Span(3 * (m \div 3), m)
      BY <1>4, <1>7, <2>1, ProcessAcc DEF c
    <3>2. CASE stopped
      <4>1. stream' = stream /\ streamPending' = streamPending /\ stopped' = stopped
        BY <1>7, <2>1, <3>2
      <4>2. ParsePrefix(m \div 3) = ParsePrefix(c)
        <5>1. ParseAll(ParsePrefix(c), SubSeq(script, c + 1, m \div 3)) = ParsePrefix(m \div 3)
          BY <1>3, <1>6, ParseMore, Zenon
        <5>2. ParsePrefix(c).upstreamError # << >> BY <1>3, <3>2
        <5>3. DOMAIN SubSeq(script, c + 1, m \div 3) = 1..(m \div 3 - c) /\ m \div 3 - c \in Nat
          BY <1>3, <1>6
        <5>4. ParseAll(ParsePrefix(c), SubSeq(script, c + 1, m \div 3)) = ParsePrefix(c)
          BY <5>2, <5>3, ParseStops
        <5> QED BY <5>1, <5>4
      <4> QED BY <1>3, <3>1, <3>2, <4>1, <4>2
    <3>3. CASE ~stopped
      <4>1. processStream(Span(3 * c, m)) BY <1>7, <2>1, <3>3
      <4>2. /\ stream' = ParsePrefix(m \div 3) /\ streamPending' = Span(3 * (m \div 3), m)
            /\ stopped' \in BOOLEAN /\ (stopped' <=> stream'.upstreamError # << >>)
        BY <1>2, <1>4, <4>1, ProcessStream DEF c
      <4>3. \A i \in DOMAIN streamPending' : streamPending'[i] # NL
        BY <1>4, <4>2, RestHasNoNewline
      <4> QED BY <3>1, <4>2, <4>3
    <3> QED BY <3>2, <3>3
  <2>2. CASE ~ \E i \in DOMAIN p : p[i] = NL
    <3>1. m \div 3 = c BY <1>3, <1>4, <2>2, NoNewline DEF p, c
    <3>2. /\ accPending' = Span(3 * c, m)
          /\ streamPending' = IF stopped THEN streamPending ELSE Span(3 * c, m)
          /\ acc' = acc /\ stream' = stream /\ stopped' = stopped
      BY <1>7, <2>2
    <3>3. ~stopped => \A i \in DOMAIN streamPending' : streamPending'[i] # NL
      <4>1. \A q : q = Span(3 * (m \div 3), m) => \A i \in DOMAIN q : q[i] # NL
        BY <1>4, RestHasNoNewline
      <4> QED BY <3>1, <3>2, <4>1
    <3> QED BY <1>3, <3>1, <3>2, <3>3
  <2> QED BY <2>1, <2>2
<1>9. /\ Bytes' = Bytes /\ FeedPrefix(sent \div 3)' = FeedPrefix(m \div 3)
      /\ ParsePrefix(sent \div 3)' = ParsePrefix(m \div 3)
  BY <1>2, <1>4, SameBytes
<1> QED BY <1>2, <1>3, <1>4, <1>8, <1>9 DEF CutInv

LEMMA CutClose == CutInv /\ close => CutInv'
<1> SUFFICES ASSUME CutInv, close PROVE CutInv' OBVIOUS
<1> DEFINE n == Len(script)
           m == sent
           k == m \div 3
<1>1. /\ ~closed /\ m = Len(Bytes) /\ closed' = TRUE
      /\ IF stopped THEN UNCHANGED << stream, streamPending, stopped >>
         ELSE /\ stream' = parseLine(stream, LineOf(streamPending))
              /\ stopped' = TRUE
              /\ UNCHANGED streamPending
      /\ processAcc(accPending)
      /\ script' = script /\ terminated' = terminated /\ sent' = m
  BY DEF close
<1>2. /\ script \in Seq(Lines) /\ terminated \in BOOLEAN /\ stopped \in BOOLEAN
      /\ m \in Nat /\ m <= Len(Bytes)
      /\ acc = FeedPrefix(k) /\ accPending = Span(3 * k, m)
      /\ ~stopped => streamPending = Span(3 * k, m)
      /\ \A i \in DOMAIN streamPending : streamPending[i] # NL
      /\ stream = ParsePrefix(k) /\ (stopped <=> stream.upstreamError # << >>)
  BY <1>1 DEF CutInv
<1>3. /\ k \in Nat /\ k <= n /\ 3 * k <= m
      /\ \/ m = 3 * n /\ k = n
         \/ n # 0 /\ k = n - 1 /\ m = 3 * k + 2
  <2>1. /\ k \in Nat /\ k <= Len(script) /\ 3 * k <= m
        /\ m = Len(Bytes) => \/ m = 3 * Len(script) /\ k = Len(script)
                             \/ /\ ~terminated /\ Len(script) # 0
                                /\ k = Len(script) - 1
                                /\ m = 3 * (Len(script) - 1) + 2
    BY <1>2, Arrived
  <2> QED BY <1>1, <2>1
<1>4. n \in Nat BY <1>2
<1>5. acc' = FeedPrefix(k) /\ accPending' = Span(3 * k, m)
  <2>1. processAcc(Span(3 * k, m)) BY <1>1, <1>2
  <2>2. sent <= m BY <1>2
  <2> QED BY <1>2, <2>1, <2>2, ProcessAcc
<1>6. ParsePrefix(n) = StreamReference BY <1>2, AllLines
<1> HIDE DEF k, m, n
<1>7. stream' = ParsePrefix(n)
  <2>1. CASE stopped
    <3>1. stream' = ParsePrefix(k) BY <1>1, <1>2, <2>1
    <3>2. ParseAll(ParsePrefix(k), SubSeq(script, k + 1, n)) = ParsePrefix(n)
      BY <1>2, <1>3, <1>4, ParseMore DEF n
    <3>3. DOMAIN SubSeq(script, k + 1, n) = 1..(n - k) /\ n - k \in Nat
      BY <1>2, <1>3, <1>4 DEF n
    <3>4. ParsePrefix(k).upstreamError # << >> BY <1>2, <2>1
    <3>5. ParseAll(ParsePrefix(k), SubSeq(script, k + 1, n)) = ParsePrefix(k)
      BY <3>3, <3>4, ParseStops
    <3> QED BY <3>1, <3>2, <3>5
  <2>2. CASE ~stopped /\ m = 3 * n /\ k = n
    <3>1. streamPending = << >>
      <4>1. m - 3 * k = 0 BY <1>3, <1>4, <2>2
      <4>2. Span(3 * k, m) = << >> BY <4>1 DEF Span
      <4> QED BY <1>2, <2>2, <4>2
    <3>2. stream' = parseLine(stream, Junk) BY <1>1, <2>2, <3>1, LineOfNothing
    <3>3. parseLine(stream, Junk) = stream BY DEF parseLine, Junk, Line
    <3> QED BY <1>2, <2>2, <3>2, <3>3
  <2>3. CASE ~stopped /\ n # 0 /\ k = n - 1 /\ m = 3 * k + 2
    <3>1. streamPending = Halves(k + 1)
      <4>1. Span(3 * k, 3 * k + 2) = Halves(k + 1) BY <1>3, HalvesAre
      <4> QED BY <1>2, <2>3, <4>1
    <3>2. k + 1 \in 1..Len(script) /\ k + 1 = n /\ k < Len(script) BY <1>3, <1>4, <2>3 DEF n
    <3>3. LineOf(streamPending) = script[k + 1] BY <1>2, <3>1, <3>2, LineOfHalves
    <3>4. stream' = parseLine(ParsePrefix(k), script[k + 1]) BY <1>1, <1>2, <2>3, <3>3
    <3>5. ParsePrefix(k + 1) = ParseOp(0, ParsePrefix(k), script[k + 1])
      BY <1>2, <1>3, <3>2, OneLine
    <3>6. ~(ParsePrefix(k).upstreamError # << >>) BY <1>2, <2>3
    <3>7. ParsePrefix(k + 1) = parseLine(ParsePrefix(k), script[k + 1])
      BY <3>5, <3>6 DEF ParseOp
    <3> QED BY <3>2, <3>4, <3>7
  <2> QED BY <1>3, <2>1, <2>2, <2>3
<1>8. stopped' /\ streamPending' = streamPending BY <1>1, <1>2
<1>9. /\ Bytes' = Bytes /\ FeedPrefix(sent \div 3)' = FeedPrefix(m \div 3)
      /\ StreamReference' = StreamReference
  BY <1>1, SameBytes
<1> QED BY <1>1, <1>2, <1>5, <1>6, <1>7, <1>8, <1>9 DEF CutInv, k

\* A response of which nothing has arrived.
CutFresh ==
  /\ script \in Seq(Lines) /\ terminated \in BOOLEAN /\ sent = 0 /\ closed = FALSE
  /\ stream = newCCStreamState /\ streamPending = << >> /\ stopped = FALSE
  /\ acc = newCCAccumulator /\ accPending = << >>

LEMMA CutStart == CutFresh => CutInv
<1> SUFFICES ASSUME CutFresh PROVE CutInv OBVIOUS
<1> DEFINE k == sent \div 3
<1>1. script \in Seq(Lines) /\ terminated \in BOOLEAN /\ closed = FALSE /\ stopped = FALSE
  BY DEF CutFresh
<1>2. sent = 0 /\ k = 0 /\ 3 * k = 0 /\ sent \in Nat BY DEF CutFresh
<1>3. Len(Bytes) \in Nat BY <1>1, BytesAre
<1>4. Span(3 * k, sent) = << >>
  <2>1. Span(0, 0) = << >> BY DEF Span
  <2> QED BY <1>2, <2>1
<1>5. ParsePrefix(k) = newCCStreamState /\ FeedPrefix(k) = newCCAccumulator
  BY <1>1, <1>2, NoLine
<1>6. newCCStreamState.upstreamError = << >> BY DEF newCCStreamState
<1> HIDE DEF k
<1>7. acc = FeedPrefix(k) /\ accPending = Span(3 * k, sent) BY <1>4, <1>5 DEF CutFresh
<1>8. streamPending = Span(3 * k, sent) BY <1>4 DEF CutFresh
<1>9. \A i \in DOMAIN streamPending : streamPending[i] # NL
  <2>1. DOMAIN streamPending = {} BY DEF CutFresh
  <2> QED BY <2>1
<1>10. stream = ParsePrefix(k) /\ (stopped <=> stream.upstreamError # << >>)
  BY <1>1, <1>5, <1>6 DEF CutFresh
<1>11. sent <= Len(Bytes) BY <1>2, <1>3
<1> QED BY <1>1, <1>2, <1>7, <1>8, <1>9, <1>10, <1>11, Zenon DEF CutInv, k

LEMMA CutSame == CutInv /\ UNCHANGED vars => CutInv'
<1> SUFFICES ASSUME CutInv, UNCHANGED vars PROVE CutInv' OBVIOUS
<1>1. /\ script' = script /\ terminated' = terminated /\ sent' = sent /\ closed' = closed
      /\ stream' = stream /\ streamPending' = streamPending /\ stopped' = stopped
      /\ acc' = acc /\ accPending' = accPending
  BY DEF vars
<1>2. /\ Bytes' = Bytes /\ ParsePrefix(sent \div 3)' = ParsePrefix(sent \div 3)
      /\ FeedPrefix(sent \div 3)' = FeedPrefix(sent \div 3)
      /\ StreamReference' = StreamReference
  BY <1>1, SameBytes
<1> QED BY <1>1, <1>2 DEF CutInv

\* In a conversation the invariant of the cuts always holds: the pending buffers of
\* streamLoop and collectNonStream hold what follows the last newline that arrived,
\* and both readers have processed every line before it, each exactly once.
THEOREM TalkCuts == Talk => []CutInv
<1>1. Begin => CutInv
  <2> SUFFICES ASSUME Begin PROVE CutInv OBVIOUS
  <2>1. Init BY DEF Begin
  <2>2. script \in Seq(Lines) BY <2>1, ConstantsAssumption DEF Init
  <2> QED BY <2>1, <2>2, CutStart DEF Init, CutFresh
<1>2. CutInv /\ [TalkNext]_allVars => CutInv'
  <2> SUFFICES ASSUME CutInv, [TalkNext]_allVars PROVE CutInv' OBVIOUS
  <2>1. CASE chunk BY <2>1, CutChunk
  <2>2. CASE close BY <2>2, CutClose
  <2>3. CASE Finished BY <2>3, CutSame DEF Finished
  <2>4. CASE Reply BY <2>4, CutSame DEF Reply
  <2>5. CASE Respond
    <3>1. CutFresh' BY <2>5, ConversationAssumption DEF Respond, CutFresh
    <3> QED BY <3>1, CutStart, PTL
  <2>6. CASE UNCHANGED allVars
    <3>1. UNCHANGED vars BY <2>6 DEF allVars
    <3> QED BY <3>1, CutSame
  <2> QED BY <2>1, <2>2, <2>3, <2>4, <2>5, <2>6 DEF TalkNext
<1> QED BY <1>1, <1>2, PTL DEF Talk

LEMMA CutsFollow == CutInv => CutsDoNotMatter
<1> SUFFICES ASSUME CutInv, closed
             PROVE  stream = StreamReference /\ (terminated => acc = AccReference)
  BY DEF CutsDoNotMatter
<1> DEFINE k == sent \div 3
<1>1. /\ script \in Seq(Lines) /\ terminated \in BOOLEAN /\ sent \in Nat /\ sent = Len(Bytes)
      /\ stream = StreamReference /\ acc = FeedPrefix(k)
  BY DEF CutInv
<1>2. terminated => k = Len(script)
  <2>1. sent <= Len(Bytes) BY <1>1
  <2> QED BY <1>1, <2>1, Arrived
<1>3. FeedPrefix(Len(script)) = AccReference BY <1>1, AllLines
<1> QED BY <1>1, <1>2, <1>3

\* Where the upstream's chunks end changes nothing: once it has closed, streamLoop
\* has parsed the lines of the response, the last one included, and collectNonStream
\* has fed them, if the last one is terminated.
THEOREM CutsTheorem == Talk => []CutsDoNotMatter
BY TalkCuts, CutsFollow, PTL

-----------------------------------------------------------------------------
\* The chunks of a stream, and the state of the reader that makes them.
Counts == Nat \X Nat \X Nat

\* The literals are strings, which the provers have to be told.
Strings == STRING \cup {"", "stop", "tool_calls", "length", "upstream_error"}

Kinds == {"text-delta", "reasoning-delta", "tool-call", "finish"}

Carried == Strings \cup (Nat \X STRING)

Chunks == [kind : Kinds, text : Carried, role : BOOLEAN, finish : Strings, usage : Counts]

StreamStates ==
  [sawFinish : BOOLEAN, chunkIndex : Nat, toolCallIndex : Nat, finishReason : Strings,
   usage : Usages, outputTokens : Nat, upstreamError : Seq(Int), out : Seq(Chunks)]

\* The positions among the first n of out that hold a chunk of a kind.
KindIn(out, kind, n) == {i \in 1..n : out[i].kind = kind}

\* Chunk i has the role if it is the first with content, and its number if it is a call.
NumberedAt(out, i) ==
  /\ out[i].kind # "finish" => (out[i].role <=> \A j \in 1..(i - 1) : out[j].kind = "finish")
  /\ out[i].kind = "tool-call" => out[i].text[1] = Cardinality(KindIn(out, "tool-call", i - 1))

StreamOK(s) ==
  /\ s \in StreamStates
  /\ s.toolCallIndex <= s.chunkIndex /\ s.chunkIndex <= Len(s.out)
  /\ s.chunkIndex = 0 <=> \A j \in 1..Len(s.out) : s.out[j].kind = "finish"
  /\ s.toolCallIndex = Cardinality(KindIn(s.out, "tool-call", Len(s.out)))
  /\ \A i \in 1..Len(s.out) : NumberedAt(s.out, i)

ChunkIs(c, kind, text, role, finish, usage) ==
  /\ c \in Chunks /\ c.kind = kind /\ c.text = text /\ (c.role <=> role)
  /\ c.finish = finish /\ c.usage = usage

LEMMA ChunkType ==
  ASSUME NEW kind \in Kinds, NEW text \in Carried, NEW role \in BOOLEAN,
         NEW finish \in Strings, NEW usage \in Counts
  PROVE  ChunkIs(makeChunk(kind, text, role, finish, usage), kind, text, role, finish, usage)
<1> HIDE DEF Carried, Counts, Strings, Kinds
<1> QED BY DEF Chunks, makeChunk, ChunkIs

StateIs(t, i, j, o) ==
  t \in StreamStates /\ t.chunkIndex = i /\ t.toolCallIndex = j /\ t.out = o

LEMMA CountedState ==
  ASSUME NEW s \in StreamStates, NEW i \in Nat, NEW j \in Nat, NEW o \in Seq(Chunks)
  PROVE  /\ StateIs([s EXCEPT !.chunkIndex = i, !.out = o], i, s.toolCallIndex, o)
         /\ StateIs([s EXCEPT !.chunkIndex = i, !.toolCallIndex = j, !.out = o], i, j, o)
<1> DEFINE U == Usages
           C == Seq(Chunks)
           E == Seq(Int)
<1>1. StreamStates = [sawFinish : BOOLEAN, chunkIndex : Nat, toolCallIndex : Nat,
        finishReason : Strings, usage : U, outputTokens : Nat, upstreamError : E, out : C]
  BY DEF StreamStates
<1>2. o \in C OBVIOUS
<1> HIDE DEF U, C, E, Strings
<1> QED BY <1>1, <1>2 DEF StateIs

LEMMA KindInFinite ==
  ASSUME NEW out, NEW kind, NEW n \in Nat
  PROVE  IsFiniteSet(KindIn(out, kind, n)) /\ Cardinality(KindIn(out, kind, n)) \in Nat
<1>1. KindIn(out, kind, n) \subseteq 1..n BY DEF KindIn
<1>2. IsFiniteSet(1..n) BY FS_Interval
<1> QED BY <1>1, <1>2, FS_Subset, FS_CardinalityType

\* One chunk more.
LEMMA OneChunk ==
  ASSUME NEW out \in Seq(Chunks), NEW c \in Chunks, NEW o, o = Append(out, c)
  PROVE  /\ o \in Seq(Chunks) /\ Len(o) = Len(out) + 1 /\ Len(out) \in Nat
         /\ \A i \in 1..Len(out) : o[i] = out[i]
         /\ o[Len(out) + 1] = c
<1> HIDE DEF Chunks
<1> QED BY AppendProperties

MoreOfKind(out, o, n, kind) ==
  /\ o[n + 1].kind # kind => KindIn(o, kind, n + 1) = KindIn(out, kind, n)
  /\ o[n + 1].kind = kind =>
       /\ KindIn(o, kind, n + 1) = KindIn(out, kind, n) \cup {n + 1}
       /\ Cardinality(KindIn(o, kind, n + 1)) = Cardinality(KindIn(out, kind, n)) + 1

LEMMA KindMore ==
  ASSUME NEW out, NEW o, NEW n \in Nat, \A i \in 1..n : o[i] = out[i], NEW kind
  PROVE  MoreOfKind(out, o, n, kind)
<1>1. o[n + 1].kind # kind => KindIn(o, kind, n + 1) = KindIn(out, kind, n) BY DEF KindIn
<1>2. ASSUME o[n + 1].kind = kind
      PROVE  /\ KindIn(o, kind, n + 1) = KindIn(out, kind, n) \cup {n + 1}
             /\ Cardinality(KindIn(o, kind, n + 1)) = Cardinality(KindIn(out, kind, n)) + 1
  <2>1. KindIn(o, kind, n + 1) = KindIn(out, kind, n) \cup {n + 1} BY <1>2 DEF KindIn
  <2>2. n + 1 \notin KindIn(out, kind, n) BY DEF KindIn
  <2>3. IsFiniteSet(KindIn(out, kind, n)) BY KindInFinite
  <2> QED BY <2>1, <2>2, <2>3, FS_AddElement
<1> QED BY <1>1, <1>2 DEF MoreOfKind

\* The numbering of a sequence of chunks that is one longer.
LEMMA NumberedMore ==
  ASSUME NEW out, NEW o, NEW n \in Nat, \A i \in 1..n : o[i] = out[i],
         \A i \in 1..n : NumberedAt(out, i),
         o[n + 1].kind # "finish" =>
           (o[n + 1].role <=> \A j \in 1..n : out[j].kind = "finish"),
         o[n + 1].kind = "tool-call" =>
           o[n + 1].text[1] = Cardinality(KindIn(out, "tool-call", n))
  PROVE  \A i \in 1..(n + 1) : NumberedAt(o, i)
<1>1. ASSUME NEW i \in 1..n PROVE NumberedAt(o, i)
  <2>1. i - 1 \in 0..n /\ \A j \in 1..(i - 1) : o[j] = out[j] OBVIOUS
  <2>2. KindIn(o, "tool-call", i - 1) = KindIn(out, "tool-call", i - 1) BY <2>1 DEF KindIn
  <2>3. NumberedAt(out, i) /\ o[i] = out[i] OBVIOUS
  <2> QED BY <2>1, <2>2, <2>3 DEF NumberedAt
<1>2. NumberedAt(o, n + 1)
  <2>1. (n + 1) - 1 = n /\ n \in 0..n OBVIOUS
  <2>2. KindIn(o, "tool-call", n) = KindIn(out, "tool-call", n) BY DEF KindIn
  <2> QED BY <2>1, <2>2 DEF NumberedAt
<1>3. \A i \in 1..(n + 1) : i \in 1..n \/ i = n + 1 OBVIOUS
<1> QED BY <1>1, <1>2, <1>3

LEMMA ContentOK ==
  ASSUME NEW s, StreamOK(s), NEW line \in Lines, line.type \in {"text-delta", "reasoning-delta"}
  PROVE  StreamOK(streamContent(s, line))
<1> DEFINE c == makeChunk(line.type, line.text, s.chunkIndex = 0, "", <<0, 0, 0>>)
           t == streamContent(s, line)
           n == Len(s.out)
<1>1. /\ s \in StreamStates /\ s.out \in Seq(Chunks) /\ n \in Nat
      /\ s.chunkIndex \in Nat /\ s.toolCallIndex \in Nat
      /\ s.toolCallIndex <= s.chunkIndex /\ s.chunkIndex <= n
      /\ s.chunkIndex = 0 <=> \A j \in 1..n : s.out[j].kind = "finish"
      /\ s.toolCallIndex = Cardinality(KindIn(s.out, "tool-call", n))
      /\ \A i \in 1..n : NumberedAt(s.out, i)
  BY DEF StreamOK, StreamStates
<1>2. ChunkIs(c, line.type, line.text, s.chunkIndex = 0, "", <<0, 0, 0>>)
  <2>1. line.type \in Kinds /\ line.text \in STRING BY DEF Lines, Kinds
  <2>2. line.text \in Carried BY <2>1 DEF Carried, Strings
  <2>3. << 0, 0, 0 >> \in Counts BY DEF Counts
  <2>4. "" \in Strings BY DEF Strings
  <2>5. (s.chunkIndex = 0) \in BOOLEAN BY Zenon
  <2> QED BY <2>1, <2>2, <2>3, <2>4, <2>5, ChunkType, Zenon
<1>3. /\ c \in Chunks /\ (c.role <=> s.chunkIndex = 0)
      /\ c.kind # "finish" /\ c.kind # "tool-call"
  BY <1>2 DEF ChunkIs
<1> HIDE DEF c
<1> DEFINE o == Append(s.out, c)
           i1 == s.chunkIndex + 1
<1>4. t = [s EXCEPT !.chunkIndex = i1, !.out = o] BY DEF streamContent, c
<1>5. /\ o \in Seq(Chunks) /\ Len(o) = n + 1
      /\ \A i \in 1..n : o[i] = s.out[i]
      /\ o[n + 1] = c
  BY <1>1, <1>3, OneChunk
<1>6. i1 \in Nat /\ i1 # 0 /\ s.toolCallIndex <= i1 /\ i1 <= n + 1 BY <1>1
<1> HIDE DEF o, i1, t
<1>7. StateIs(t, i1, s.toolCallIndex, o)
  <2>1. s \in StreamStates /\ s.toolCallIndex \in Nat /\ o \in Seq(Chunks) /\ i1 \in Nat
    BY <1>1, <1>5, <1>6
  <2> QED BY <1>4, <2>1, CountedState, Zenon
<1> HIDE DEF n
<1>8. KindIn(o, "tool-call", n + 1) = KindIn(s.out, "tool-call", n)
  <2>1. n \in Nat /\ (\A i \in 1..n : o[i] = s.out[i]) BY <1>1, <1>5
  <2>2. o[n + 1].kind # "tool-call" BY <1>3, <1>5
  <2>3. MoreOfKind(s.out, o, n, "tool-call") BY <2>1, KindMore, Zenon
  <2> QED BY <2>2, <2>3 DEF MoreOfKind
<1>9. \A i \in 1..(n + 1) : NumberedAt(o, i) BY <1>1, <1>3, <1>5, NumberedMore
<1>10. ~ \A j \in 1..(n + 1) : o[j].kind = "finish"
  <2>1. n + 1 \in 1..(n + 1) BY <1>1
  <2> QED BY <1>3, <1>5, <2>1
<1>11. StreamOK(t) BY <1>1, <1>5, <1>6, <1>7, <1>8, <1>9, <1>10 DEF StreamOK, StateIs
<1> QED BY <1>11 DEF t

LEMMA ToolCallOK ==
  ASSUME NEW s, StreamOK(s), NEW line \in Lines
  PROVE  StreamOK(streamToolCall(s, line))
<1> DEFINE c == makeChunk("tool-call", <<s.toolCallIndex, line.text>>, s.chunkIndex = 0, "",
                          <<0, 0, 0>>)
           t == streamToolCall(s, line)
           n == Len(s.out)
<1>1. /\ s \in StreamStates /\ s.out \in Seq(Chunks) /\ n \in Nat
      /\ s.chunkIndex \in Nat /\ s.toolCallIndex \in Nat
      /\ s.toolCallIndex <= s.chunkIndex /\ s.chunkIndex <= n
      /\ s.chunkIndex = 0 <=> \A j \in 1..n : s.out[j].kind = "finish"
      /\ s.toolCallIndex = Cardinality(KindIn(s.out, "tool-call", n))
      /\ \A i \in 1..n : NumberedAt(s.out, i)
  BY DEF StreamOK, StreamStates
<1>2. ChunkIs(c, "tool-call", <<s.toolCallIndex, line.text>>, s.chunkIndex = 0, "", <<0, 0, 0>>)
  <2>1. line.text \in STRING BY DEF Lines
  <2>2. <<s.toolCallIndex, line.text>> \in Carried BY <1>1, <2>1 DEF Carried
  <2>3. << 0, 0, 0 >> \in Counts BY DEF Counts
  <2>4. "" \in Strings BY DEF Strings
  <2>5. (s.chunkIndex = 0) \in BOOLEAN BY Zenon
  <2>6. "tool-call" \in Kinds BY DEF Kinds
  <2> QED BY <2>2, <2>3, <2>4, <2>5, <2>6, ChunkType, Zenon
<1>3. /\ c \in Chunks /\ (c.role <=> s.chunkIndex = 0)
      /\ c.kind = "tool-call" /\ c.kind # "finish"
      /\ c.text[1] = Cardinality(KindIn(s.out, "tool-call", n))
  <2> HIDE DEF c
  <2>1. /\ c \in Chunks /\ (c.role <=> s.chunkIndex = 0) /\ c.kind = "tool-call"
        /\ c.text = <<s.toolCallIndex, line.text>>
    BY <1>2 DEF ChunkIs
  <2> QED BY <1>1, <2>1
<1> HIDE DEF c
<1> DEFINE o == Append(s.out, c)
           i1 == s.chunkIndex + 1
           j1 == s.toolCallIndex + 1
<1>4. t = [s EXCEPT !.chunkIndex = i1, !.toolCallIndex = j1, !.out = o] BY DEF streamToolCall, c
<1>5. /\ o \in Seq(Chunks) /\ Len(o) = n + 1
      /\ \A i \in 1..n : o[i] = s.out[i]
      /\ o[n + 1] = c
  BY <1>1, <1>3, OneChunk
<1>6. i1 \in Nat /\ i1 # 0 /\ j1 \in Nat /\ j1 <= i1 /\ i1 <= n + 1
      /\ j1 = Cardinality(KindIn(s.out, "tool-call", n)) + 1
  BY <1>1
<1> HIDE DEF o, i1, j1, t
<1>7. StateIs(t, i1, j1, o)
  <2>1. s \in StreamStates /\ j1 \in Nat /\ o \in Seq(Chunks) /\ i1 \in Nat
    BY <1>1, <1>5, <1>6
  <2> QED BY <1>4, <2>1, CountedState, Zenon
<1> HIDE DEF n
<1>8. j1 = Cardinality(KindIn(o, "tool-call", n + 1))
  <2>1. n \in Nat /\ (\A i \in 1..n : o[i] = s.out[i]) BY <1>1, <1>5
  <2>2. o[n + 1].kind = "tool-call" BY <1>3, <1>5
  <2>3. MoreOfKind(s.out, o, n, "tool-call") BY <2>1, KindMore, Zenon
  <2> QED BY <1>6, <2>2, <2>3 DEF MoreOfKind
<1>9. \A i \in 1..(n + 1) : NumberedAt(o, i) BY <1>1, <1>3, <1>5, NumberedMore
<1>10. ~ \A j \in 1..(n + 1) : o[j].kind = "finish"
  <2>1. n + 1 \in 1..(n + 1) BY <1>1
  <2> QED BY <1>3, <1>5, <2>1
<1>11. StreamOK(t) BY <1>1, <1>5, <1>6, <1>7, <1>8, <1>9, <1>10 DEF StreamOK, StateIs
<1> QED BY <1>11 DEF t

LEMMA ReasonType ==
  \A r \in STRING : mapFinishReason(r) \in Strings /\ (r # "" => mapFinishReason(r) # "")
BY DEF mapFinishReason, Strings

\* No reason counts as an ordinary end.
LEMMA NoReason == mapFinishReason("") = "stop"
BY DEF mapFinishReason, ProviderErrors

LEMMA UsageType ==
  ASSUME NEW u \in Usages
  PROVE  /\ normalizeUsage(u) \in Usages /\ outputTokensOf(u) \in Nat /\ openAIUsage(u) \in Counts
         /\ outputTokensOf(normalizeUsage(u)) = outputTokensOf(u)
<1>1. CASE u = << >>
  <2>1. << >> \in Usages /\ <<0, 0, 0>> \in Counts BY DEF Usages, Counts
  <2> QED BY <1>1, <2>1 DEF normalizeUsage, outputTokensOf, openAIUsage
<1>2. CASE u # << >>
  <2>1. u[1] \in Counts /\ u[1][2] \in Nat BY <1>2 DEF Usages, Counts
  <2>2. << <<0, 0, 0>> >> \in Usages /\ << <<0, 0, 0>> >> # << >> BY DEF Usages
  <2>3. CASE u[1][2] = 0
    <3>1. normalizeUsage(u) = << <<0, 0, 0>> >> BY <1>2, <2>3 DEF normalizeUsage
    <3>2. normalizeUsage(<< <<0, 0, 0>> >>) = << <<0, 0, 0>> >> BY <2>2 DEF normalizeUsage
    <3> QED BY <1>2, <2>1, <2>2, <3>1, <3>2 DEF outputTokensOf, openAIUsage
  <2>4. CASE u[1][2] # 0
    <3>1. normalizeUsage(u) = u BY <1>2, <2>4 DEF normalizeUsage
    <3> QED BY <1>2, <2>1, <3>1 DEF outputTokensOf, openAIUsage
  <2> QED BY <2>3, <2>4
<1> QED BY <1>1, <1>2

\* Nothing but the reader's counts and chunks matters to StreamOK.
LEMMA SameCounts ==
  ASSUME NEW s, StreamOK(s), NEW t \in StreamStates, t.chunkIndex = s.chunkIndex,
         t.toolCallIndex = s.toolCallIndex, t.out = s.out
  PROVE  StreamOK(t)
BY DEF StreamOK

LEMMA FinishStepOK ==
  ASSUME NEW s, StreamOK(s), NEW line \in Lines
  PROVE  StreamOK(streamFinishStep(s, line))
<1> DEFINE t == streamFinishStep(s, line)
           f == IF line.reason # "" THEN mapFinishReason(line.reason) ELSE s.finishReason
           u == IF line.usage # << >> THEN line.usage ELSE s.usage
<1>1. s \in StreamStates BY DEF StreamOK
<1>2. f \in Strings BY <1>1, ReasonType DEF StreamStates, Lines
<1>3. u \in Usages BY <1>1 DEF StreamStates, Lines
<1>4. t = [s EXCEPT !.sawFinish = TRUE, !.finishReason = f, !.usage = u] BY DEF streamFinishStep
<1> HIDE DEF t, f, u, Strings, Usages
<1> DEFINE C == Seq(Chunks)
           E == Seq(Int)
<1>5. StreamStates = [sawFinish : BOOLEAN, chunkIndex : Nat, toolCallIndex : Nat,
        finishReason : Strings, usage : Usages, outputTokens : Nat, upstreamError : E, out : C]
  BY DEF StreamStates
<1> HIDE DEF C, E
<1>6. /\ t \in StreamStates /\ t.chunkIndex = s.chunkIndex
      /\ t.toolCallIndex = s.toolCallIndex /\ t.out = s.out
  BY <1>1, <1>2, <1>3, <1>4, <1>5
<1>7. StreamOK(t) BY <1>6, SameCounts
<1> QED BY <1>7 DEF t

LEMMA ErrorOK ==
  ASSUME NEW s, StreamOK(s), NEW line \in Lines
  PROVE  StreamOK([s EXCEPT !.upstreamError = mapCCEventError(line)])
<1> DEFINE e == mapCCEventError(line)
           t == [s EXCEPT !.upstreamError = e]
           C == Seq(Chunks)
           E == Seq(Int)
<1>1. s \in StreamStates BY DEF StreamOK
<1>2. e \in E
  <2>1. mappedCCStatus(line.code) \in Int BY DEF mappedCCStatus, ccStatusMap
  <2> QED BY <2>1 DEF mapCCEventError
<1>3. StreamStates = [sawFinish : BOOLEAN, chunkIndex : Nat, toolCallIndex : Nat,
        finishReason : Strings, usage : Usages, outputTokens : Nat, upstreamError : E, out : C]
  BY DEF StreamStates
<1> HIDE DEF e, C, E, Usages, Strings
<1>4. /\ t \in StreamStates /\ t.chunkIndex = s.chunkIndex
      /\ t.toolCallIndex = s.toolCallIndex /\ t.out = s.out
  BY <1>1, <1>2, <1>3
<1> HIDE DEF t
<1>5. StreamOK(t) BY <1>4, SameCounts
<1> QED BY <1>5 DEF t, e
\* What a finish line makes of the reader's reason and usage.
ReasonAt(s, line) == IF s.finishReason # "" THEN s.finishReason ELSE mapFinishReason(line.reason)
UsageAt(s, line) == normalizeUsage(IF line.usage # << >> THEN line.usage ELSE s.usage)
LastChunk(s, line) ==
  makeChunk("finish", "", FALSE, toOpenAIFinishReason(ReasonAt(s, line)),
            openAIUsage(UsageAt(s, line)))

FinishedIs(t, s, line) ==
  /\ t.sawFinish = TRUE /\ t.usage = UsageAt(s, line)
  /\ t.outputTokens = outputTokensOf(UsageAt(s, line))
  /\ t.finishReason = s.finishReason /\ t.upstreamError = s.upstreamError
  /\ t.out = Append(s.out, LastChunk(s, line))
  /\ StateIs(t, s.chunkIndex, s.toolCallIndex, Append(s.out, LastChunk(s, line)))

LEMMA FinishFields ==
  ASSUME NEW s \in StreamStates, NEW line \in Lines
  PROVE  /\ FinishedIs(streamFinish(s, line), s, line)
         /\ ChunkIs(LastChunk(s, line), "finish", "", FALSE,
                    toOpenAIFinishReason(ReasonAt(s, line)), openAIUsage(UsageAt(s, line)))
<1> DEFINE c == LastChunk(s, line)
           t == streamFinish(s, line)
           o == Append(s.out, c)
           u == UsageAt(s, line)
           x == outputTokensOf(u)
           C == Seq(Chunks)
           E == Seq(Int)
<1>1. u \in Usages /\ x \in Nat /\ openAIUsage(u) \in Counts
  <2> DEFINE w == IF line.usage # << >> THEN line.usage ELSE s.usage
  <2>1. w \in Usages BY DEF StreamStates, Lines
  <2>2. u = normalizeUsage(w) BY DEF UsageAt
  <2> HIDE DEF w, u
  <2> QED BY <2>1, <2>2, UsageType
<1>2. ReasonAt(s, line) \in Strings
  <2>1. line.reason \in STRING BY DEF Lines
  <2>2. s.finishReason \in Strings BY DEF StreamStates
  <2> QED BY <2>1, <2>2, ReasonType DEF ReasonAt
<1>3. toOpenAIFinishReason(ReasonAt(s, line)) \in Strings
  BY <1>2 DEF toOpenAIFinishReason, Strings
<1>4. ChunkIs(c, "finish", "", FALSE, toOpenAIFinishReason(ReasonAt(s, line)), openAIUsage(u))
  <2>1. "finish" \in Kinds /\ "" \in Carried BY DEF Kinds, Carried, Strings
  <2>2. FALSE \in BOOLEAN BY Zenon
  <2> QED BY <1>1, <1>3, <2>1, <2>2, ChunkType, Zenon DEF LastChunk
<1>5. o \in C
  <2>1. s.out \in Seq(Chunks) BY DEF StreamStates
  <2>2. c \in Chunks BY <1>4 DEF ChunkIs
  <2> HIDE DEF c
  <2> QED BY <2>1, <2>2, OneChunk
<1>6. t = [s EXCEPT !.sawFinish = TRUE, !.usage = u, !.outputTokens = x, !.out = o]
  BY DEF streamFinish, LastChunk, UsageAt, ReasonAt
<1>7. StreamStates = [sawFinish : BOOLEAN, chunkIndex : Nat, toolCallIndex : Nat,
        finishReason : Strings, usage : Usages, outputTokens : Nat, upstreamError : E, out : C]
  BY DEF StreamStates
<1> HIDE DEF c, t, o, u, x, C, E, Usages, Strings
<1>8. /\ t \in StreamStates /\ t.sawFinish = TRUE /\ t.usage = u /\ t.outputTokens = x
      /\ t.finishReason = s.finishReason /\ t.upstreamError = s.upstreamError
      /\ t.chunkIndex = s.chunkIndex /\ t.toolCallIndex = s.toolCallIndex /\ t.out = o
  BY <1>1, <1>5, <1>6, <1>7
<1>9. FinishedIs(t, s, line) BY <1>8 DEF FinishedIs, StateIs, c, o, u, x
<1> QED BY <1>4, <1>9 DEF c, t, u

LEMMA FinishOK ==
  ASSUME NEW s, StreamOK(s), NEW line \in Lines
  PROVE  StreamOK(streamFinish(s, line))
<1> DEFINE c == LastChunk(s, line)
           t == streamFinish(s, line)
           o == Append(s.out, c)
           n == Len(s.out)
<1>1. /\ s \in StreamStates /\ s.out \in Seq(Chunks) /\ n \in Nat
      /\ s.chunkIndex \in Nat /\ s.toolCallIndex \in Nat
      /\ s.toolCallIndex <= s.chunkIndex /\ s.chunkIndex <= n
      /\ s.chunkIndex = 0 <=> \A j \in 1..n : s.out[j].kind = "finish"
      /\ s.toolCallIndex = Cardinality(KindIn(s.out, "tool-call", n))
      /\ \A i \in 1..n : NumberedAt(s.out, i)
  BY DEF StreamOK, StreamStates
<1>2. c \in Chunks /\ c.kind = "finish" BY <1>1, FinishFields DEF ChunkIs
<1>3. StateIs(t, s.chunkIndex, s.toolCallIndex, o) BY <1>1, FinishFields DEF FinishedIs
<1> HIDE DEF c, t
<1>5. /\ o \in Seq(Chunks) /\ Len(o) = n + 1
      /\ \A i \in 1..n : o[i] = s.out[i]
      /\ o[n + 1] = c
  BY <1>1, <1>2, OneChunk
<1> HIDE DEF o, n
<1>8. KindIn(o, "tool-call", n + 1) = KindIn(s.out, "tool-call", n)
  <2>1. n \in Nat /\ (\A i \in 1..n : o[i] = s.out[i]) BY <1>1, <1>5
  <2>2. o[n + 1].kind # "tool-call" BY <1>2, <1>5
  <2>3. MoreOfKind(s.out, o, n, "tool-call") BY <2>1, KindMore, Zenon
  <2> QED BY <2>2, <2>3 DEF MoreOfKind
<1>9. \A i \in 1..(n + 1) : NumberedAt(o, i) BY <1>1, <1>2, <1>5, NumberedMore
<1>10. (\A j \in 1..(n + 1) : o[j].kind = "finish") <=> \A j \in 1..n : s.out[j].kind = "finish"
  <2>1. \A j \in 1..(n + 1) : j \in 1..n \/ j = n + 1 BY <1>1
  <2>2. \A j \in 1..n : j \in 1..(n + 1) BY <1>1
  <2> QED BY <1>2, <1>5, <2>1, <2>2
<1>11. s.chunkIndex <= n + 1 BY <1>1
<1>12. StreamOK(t) BY <1>1, <1>3, <1>5, <1>8, <1>9, <1>10, <1>11 DEF StreamOK, StateIs
<1> QED BY <1>12 DEF t

LEMMA LineOK ==
  ASSUME NEW s, StreamOK(s), NEW line \in Lines
  PROVE  StreamOK(ParseOp(0, s, line))
<1>1. StreamOK(parseLine(s, line))
  <2>1. CASE line.type = "error" BY <2>1, ErrorOK DEF parseLine
  <2>2. CASE line.type \in {"text-delta", "reasoning-delta"}
    <3>1. parseLine(s, line) = IF line.text # "" THEN streamContent(s, line) ELSE s
      BY <2>2 DEF parseLine
    <3> QED BY <2>2, <3>1, ContentOK
  <2>3. CASE line.type = "tool-call"
    <3>1. parseLine(s, line) = streamToolCall(s, line) BY <2>3 DEF parseLine
    <3> QED BY <3>1, ToolCallOK
  <2>4. CASE line.type = "finish-step"
    <3>1. parseLine(s, line) = streamFinishStep(s, line) BY <2>4 DEF parseLine
    <3> QED BY <3>1, FinishStepOK
  <2>5. CASE line.type = "finish"
    <3>1. parseLine(s, line) = streamFinish(s, line) BY <2>5 DEF parseLine
    <3> QED BY <3>1, FinishOK
  <2>6. CASE line.type \notin {"error", "text-delta", "reasoning-delta", "tool-call",
                               "finish-step", "finish"}
    BY <2>6 DEF parseLine
  <2> QED BY <2>1, <2>2, <2>3, <2>4, <2>5, <2>6
<1> QED BY <1>1 DEF ParseOp

LEMMA NewStreamOK == StreamOK(newCCStreamState)
<1> DEFINE s == newCCStreamState
           C == Seq(Chunks)
           E == Seq(Int)
<1>1. << >> \in Usages /\ << >> \in C /\ << >> \in E /\ "" \in Strings BY DEF Usages, Strings
<1>2. StreamStates = [sawFinish : BOOLEAN, chunkIndex : Nat, toolCallIndex : Nat,
        finishReason : Strings, usage : Usages, outputTokens : Nat, upstreamError : E, out : C]
  BY DEF StreamStates
<1> HIDE DEF C, E, Usages, Strings
<1>3. s \in StreamStates BY <1>1, <1>2 DEF newCCStreamState
<1>4. s.chunkIndex = 0 /\ s.toolCallIndex = 0 /\ Len(s.out) = 0 BY DEF newCCStreamState
<1> HIDE DEF s
<1>5. KindIn(s.out, "tool-call", Len(s.out)) = {} BY <1>4 DEF KindIn
<1>6. Cardinality({}) = 0 BY FS_EmptySet
<1>7. s.toolCallIndex = Cardinality(KindIn(s.out, "tool-call", Len(s.out))) BY <1>4, <1>5, <1>6
<1>8. \A j \in 1..Len(s.out) : FALSE BY <1>4
<1>9. s.toolCallIndex <= s.chunkIndex /\ s.chunkIndex <= Len(s.out) BY <1>4
<1>10. StreamOK(s) BY <1>3, <1>4, <1>7, <1>8, <1>9, Zenon DEF StreamOK
<1> QED BY <1>10 DEF s

LEMMA PrefixOK ==
  ASSUME script \in Seq(Lines), NEW k \in Nat, k <= Len(script)
  PROVE  StreamOK(ParsePrefix(k))
<1> DEFINE S == {j \in Nat : j <= Len(script) => StreamOK(ParsePrefix(j))}
<1>1. 0 \in S BY NoLine, NewStreamOK
<1>2. ASSUME NEW j \in Nat, j \in S PROVE j + 1 \in S
  <2> SUFFICES ASSUME j + 1 <= Len(script) PROVE StreamOK(ParsePrefix(j + 1)) OBVIOUS
  <2>1. j < Len(script) OBVIOUS
  <2>2. StreamOK(ParsePrefix(j)) BY <1>2, <2>1
  <2>3. /\ ParsePrefix(j + 1) = ParseOp(0, ParsePrefix(j), script[j + 1])
        /\ script[j + 1] \in Lines
    BY <2>1, OneLine
  <2> QED BY <2>2, <2>3, LineOK
<1> HIDE DEF S
<1>3. \A j \in Nat : j \in S BY <1>1, <1>2, Parse!SetInduction
<1> QED BY <1>3 DEF S

\* The stream is what the reader made of some prefix of the response.
LEMMA StreamIsPrefix == CutInv => StreamOK(stream)
<1> SUFFICES ASSUME CutInv PROVE StreamOK(stream) OBVIOUS
<1>1. script \in Seq(Lines) /\ terminated \in BOOLEAN /\ sent \in Nat /\ sent <= Len(Bytes)
      /\ closed \in BOOLEAN
  BY DEF CutInv
<1>2. CASE closed
  <2>1. stream = ParsePrefix(Len(script)) BY <1>1, <1>2, AllLines DEF CutInv
  <2>2. Len(script) \in Nat /\ Len(script) <= Len(script) BY <1>1
  <2> QED BY <1>1, <2>1, <2>2, PrefixOK
<1>3. CASE ~closed
  <2>1. stream = ParsePrefix(sent \div 3) BY <1>3 DEF CutInv
  <2>2. sent \div 3 \in Nat /\ sent \div 3 <= Len(script) BY <1>1, Arrived
  <2> QED BY <1>1, <2>1, <2>2, PrefixOK
<1> QED BY <1>1, <1>2, <1>3

\* The variables of both readers have their types: no complete line stays in a pending
\* buffer, tool calls are counted among the chunks, and streamLoop has returned if it
\* parsed an error event.
THEOREM TypeTheorem == Talk => []TypeOK
<1>1. CutInv => TypeOK
  <2> SUFFICES ASSUME CutInv PROVE TypeOK OBVIOUS
  <2>1. /\ script \in Seq(Lines) /\ terminated \in BOOLEAN /\ closed \in BOOLEAN
        /\ stopped \in BOOLEAN /\ sent \in Nat /\ sent <= Len(Bytes)
        /\ accPending = Span(3 * (sent \div 3), sent)
        /\ \A i \in DOMAIN streamPending : streamPending[i] # NL
    BY DEF CutInv
  <2>2. \A i \in DOMAIN accPending : accPending[i] # NL BY <2>1, RestHasNoNewline
  <2>3. sent \in 0..Len(Bytes)
    <3>1. Len(Bytes) \in Nat BY <2>1, BytesAre
    <3> QED BY <2>1, <3>1
  <2>4. /\ stream.chunkIndex \in Nat /\ stream.toolCallIndex \in 0..stream.chunkIndex
        /\ Len(stream.out) >= stream.chunkIndex
    <3>1. StreamOK(stream) BY StreamIsPrefix
    <3>2. stream.chunkIndex \in Nat /\ stream.toolCallIndex \in Nat /\ stream.out \in Seq(Chunks)
      BY <3>1 DEF StreamOK, StreamStates
    <3>3. Len(stream.out) \in Nat BY <3>2
    <3> QED BY <3>1, <3>2, <3>3 DEF StreamOK
  <2>5. stream.upstreamError # << >> => stopped BY DEF CutInv
  <2> QED BY <2>1, <2>2, <2>3, <2>4, <2>5 DEF TypeOK
<1> QED BY <1>1, TalkCuts, PTL

\* parseLine announces the assistant role with the first chunk that has content and
\* never again, and numbers tool calls from 0 without gaps, for any lines at all.
THEOREM RoleTheorem == Talk => []RoleOnce
<1>1. CutInv => RoleOnce
  <2> SUFFICES ASSUME CutInv, NEW i \in DOMAIN stream.out
               PROVE  /\ stream.out[i].kind # "finish" =>
                           (stream.out[i].role <=> OfKind("finish", i - 1) = 1 .. i - 1)
                      /\ stream.out[i].kind = "tool-call" =>
                           stream.out[i].text[1] = Cardinality(OfKind("tool-call", i - 1))
    BY DEF RoleOnce
  <2>1. StreamOK(stream) BY StreamIsPrefix
  <2>2. stream.out \in Seq(Chunks) BY <2>1 DEF StreamOK, StreamStates
  <2>3. i \in 1..Len(stream.out) BY <2>2
  <2>4. NumberedAt(stream.out, i) BY <2>1, <2>3 DEF StreamOK
  <2>5. \A kind, n : OfKind(kind, n) = KindIn(stream.out, kind, n) BY DEF OfKind, KindIn
  <2>6. OfKind("finish", i - 1) = 1 .. i - 1
          <=> \A j \in 1..(i - 1) : stream.out[j].kind = "finish"
    BY DEF OfKind
  <2> QED BY <2>4, <2>5, <2>6 DEF NumberedAt
<1> QED BY <1>1, TalkCuts, PTL

-----------------------------------------------------------------------------
\* The other reader.
AccStates ==
  [fullText : Seq(STRING), thinkingText : Seq(STRING), toolCalls : Seq(STRING),
   finishReason : Strings, sawFinish : BOOLEAN, usage : Usages, upstreamError : Seq(Int)]

\* What feed makes of a line that is not an error, field by field.
Fed(b, a, line) ==
  /\ b \in AccStates
  /\ b.fullText = IF line.type = "text-delta" THEN Appended(a.fullText, line.text) ELSE a.fullText
  /\ b.thinkingText = IF line.type = "reasoning-delta" THEN Appended(a.thinkingText, line.text)
                      ELSE a.thinkingText
  /\ b.toolCalls = IF line.type = "tool-call" THEN Append(a.toolCalls, line.text) ELSE a.toolCalls
  /\ b.upstreamError = a.upstreamError
  /\ IF line.type \in {"finish-step", "finish"}
     THEN /\ b.sawFinish = TRUE
          /\ b.finishReason = IF line.reason # "" THEN mapFinishReason(line.reason)
                              ELSE a.finishReason
          /\ b.usage = IF line.usage # << >> THEN line.usage ELSE a.usage
     ELSE /\ b.sawFinish = a.sawFinish /\ b.finishReason = a.finishReason /\ b.usage = a.usage

LEMMA AppendedType ==
  ASSUME NEW text \in Seq(STRING), NEW more \in STRING
  PROVE  Appended(text, more) \in Seq(STRING) /\ Append(text, more) \in Seq(STRING)
<1>1. Append(text, more) \in Seq(STRING) BY AppendProperties
<1> QED BY <1>1 DEF Appended

LEMMA FeedIs ==
  ASSUME NEW a \in AccStates, NEW line \in Lines, line.type # "error"
  PROVE  Fed(feed(a, line), a, line)
<1> DEFINE F == Seq(STRING)
           E == Seq(Int)
           b == feed(a, line)
           x == Appended(a.fullText, line.text)
           y == Appended(a.thinkingText, line.text)
           z == Append(a.toolCalls, line.text)
           f == IF line.reason # "" THEN mapFinishReason(line.reason) ELSE a.finishReason
           u == IF line.usage # << >> THEN line.usage ELSE a.usage
<1>1. x \in F /\ y \in F /\ z \in F
  <2>1. line.text \in STRING /\ a.fullText \in F /\ a.thinkingText \in F /\ a.toolCalls \in F
    BY DEF Lines, AccStates
  <2> QED BY <2>1, AppendedType
<1>2. f \in Strings
  <2>1. line.reason \in STRING BY DEF Lines
  <2>2. a.finishReason \in Strings BY DEF AccStates
  <2> QED BY <2>1, <2>2, ReasonType
<1>3. u \in Usages BY DEF Lines, AccStates
<1>4. AccStates = [fullText : F, thinkingText : F, toolCalls : F, finishReason : Strings,
                   sawFinish : BOOLEAN, usage : Usages, upstreamError : E]
  BY DEF AccStates
<1> HIDE DEF F, E, x, y, z, f, u, Strings, Usages
<1>5. CASE line.type = "text-delta"
  <2>1. b = [a EXCEPT !.fullText = x] BY <1>5 DEF feed, x
  <2> HIDE DEF b
  <2>2. /\ b \in AccStates /\ b.fullText = x /\ b.thinkingText = a.thinkingText
        /\ b.toolCalls = a.toolCalls /\ b.upstreamError = a.upstreamError
        /\ b.sawFinish = a.sawFinish /\ b.finishReason = a.finishReason /\ b.usage = a.usage
    BY <1>1, <1>4, <2>1
  <2>3. Fed(b, a, line) BY <1>5, <2>2 DEF Fed, x
  <2> QED BY <2>3 DEF b
<1>6. CASE line.type = "reasoning-delta"
  <2>1. b = [a EXCEPT !.thinkingText = y] BY <1>6 DEF feed, y
  <2> HIDE DEF b
  <2>2. /\ b \in AccStates /\ b.fullText = a.fullText /\ b.thinkingText = y
        /\ b.toolCalls = a.toolCalls /\ b.upstreamError = a.upstreamError
        /\ b.sawFinish = a.sawFinish /\ b.finishReason = a.finishReason /\ b.usage = a.usage
    BY <1>1, <1>4, <2>1
  <2>3. Fed(b, a, line) BY <1>6, <2>2 DEF Fed, y
  <2> QED BY <2>3 DEF b
<1>7. CASE line.type = "tool-call"
  <2>1. b = [a EXCEPT !.toolCalls = z] BY <1>7 DEF feed, z
  <2> HIDE DEF b
  <2>2. /\ b \in AccStates /\ b.fullText = a.fullText /\ b.thinkingText = a.thinkingText
        /\ b.toolCalls = z /\ b.upstreamError = a.upstreamError
        /\ b.sawFinish = a.sawFinish /\ b.finishReason = a.finishReason /\ b.usage = a.usage
    BY <1>1, <1>4, <2>1
  <2>3. Fed(b, a, line) BY <1>7, <2>2 DEF Fed, z
  <2> QED BY <2>3 DEF b
<1>8. CASE line.type \in {"finish-step", "finish"}
  <2>1. b = [a EXCEPT !.sawFinish = TRUE, !.finishReason = f, !.usage = u]
    BY <1>8 DEF feed, f, u
  <2> HIDE DEF b
  <2>2. /\ b \in AccStates /\ b.fullText = a.fullText /\ b.thinkingText = a.thinkingText
        /\ b.toolCalls = a.toolCalls /\ b.upstreamError = a.upstreamError
        /\ b.sawFinish = TRUE /\ b.finishReason = f /\ b.usage = u
    BY <1>2, <1>3, <1>4, <2>1
  <2>3. Fed(b, a, line) BY <1>8, <2>2 DEF Fed, f, u
  <2> QED BY <2>3 DEF b
<1>9. CASE line.type \notin {"text-delta", "reasoning-delta", "tool-call", "finish-step", "finish"}
  <2>1. b = a BY <1>9 DEF feed
  <2> HIDE DEF b
  <2>2. Fed(b, a, line) BY <1>9, <2>1 DEF Fed
  <2> QED BY <2>2 DEF b
<1> QED BY <1>5, <1>6, <1>7, <1>8, <1>9

LEMMA FeedError ==
  ASSUME NEW a \in AccStates, NEW line \in Lines, line.type = "error"
  PROVE  /\ feed(a, line) \in AccStates
         /\ feed(a, line).upstreamError = mapCCEventError(line)
<1> DEFINE F == Seq(STRING)
           E == Seq(Int)
           e == mapCCEventError(line)
<1>1. e \in E
  <2>1. mappedCCStatus(line.code) \in Int BY DEF mappedCCStatus, ccStatusMap
  <2> QED BY <2>1 DEF mapCCEventError
<1>2. AccStates = [fullText : F, thinkingText : F, toolCalls : F, finishReason : Strings,
                   sawFinish : BOOLEAN, usage : Usages, upstreamError : E]
  BY DEF AccStates
<1>3. feed(a, line) = [a EXCEPT !.upstreamError = e] BY DEF feed
<1> HIDE DEF F, E, e, Strings, Usages
<1>4. /\ feed(a, line) \in AccStates /\ feed(a, line).upstreamError = e BY <1>1, <1>2, <1>3
<1> QED BY <1>4 DEF e

LEMMA NewAccOK ==
  /\ newCCAccumulator \in AccStates /\ newCCAccumulator.fullText = << >>
  /\ newCCAccumulator.thinkingText = << >> /\ newCCAccumulator.toolCalls = << >>
  /\ newCCAccumulator.finishReason = "stop" /\ newCCAccumulator.usage = << >>
  /\ newCCAccumulator.upstreamError = << >>
<1> DEFINE F == Seq(STRING)
           E == Seq(Int)
<1>1. << >> \in F /\ << >> \in E /\ << >> \in Usages /\ "stop" \in Strings BY DEF Usages, Strings
<1>2. AccStates = [fullText : F, thinkingText : F, toolCalls : F, finishReason : Strings,
                   sawFinish : BOOLEAN, usage : Usages, upstreamError : E]
  BY DEF AccStates
<1> HIDE DEF F, E, Strings, Usages
<1> QED BY <1>1, <1>2 DEF newCCAccumulator
\* What the chunks of a kind among out carry.
TextsOf(kind, out) == Carry!Fold(kind, << >>, out)

LEMMA TextsMore ==
  ASSUME NEW kind, NEW out \in Seq(Chunks), NEW c \in Chunks
  PROVE  TextsOf(kind, Append(out, c)) = TextOp(kind, TextsOf(kind, out), c)
<1> HIDE DEF Chunks
<1> QED BY Carry!FoldAppend DEF TextsOf

LEMMA TextsNone ==
  ASSUME NEW kind, NEW out, DOMAIN out = {}
  PROVE  TextsOf(kind, out) = << >>
BY Carry!FoldEmpty DEF TextsOf

\* A line that adds a chunk with content changes nothing else.
AddsContent(t, s, kind, text) ==
  /\ t \in StreamStates
  /\ t.sawFinish = s.sawFinish /\ t.finishReason = s.finishReason /\ t.usage = s.usage
  /\ t.outputTokens = s.outputTokens /\ t.upstreamError = s.upstreamError
  /\ \E c \in Chunks : c.kind = kind /\ c.text = text /\ t.out = Append(s.out, c)

LEMMA ContentAdds ==
  ASSUME NEW s \in StreamStates, NEW line \in Lines,
         line.type \in {"text-delta", "reasoning-delta"}
  PROVE  AddsContent(streamContent(s, line), s, line.type, line.text)
<1> DEFINE c == makeChunk(line.type, line.text, s.chunkIndex = 0, "", <<0, 0, 0>>)
           t == streamContent(s, line)
           o == Append(s.out, c)
           i1 == s.chunkIndex + 1
           C == Seq(Chunks)
           E == Seq(Int)
<1>1. s.out \in Seq(Chunks) /\ i1 \in Nat BY DEF StreamStates
<1>2. ChunkIs(c, line.type, line.text, s.chunkIndex = 0, "", <<0, 0, 0>>)
  <2>1. line.type \in Kinds /\ line.text \in STRING BY DEF Lines, Kinds
  <2>2. line.text \in Carried BY <2>1 DEF Carried, Strings
  <2>3. << 0, 0, 0 >> \in Counts BY DEF Counts
  <2>4. "" \in Strings BY DEF Strings
  <2>5. (s.chunkIndex = 0) \in BOOLEAN BY Zenon
  <2> QED BY <2>1, <2>2, <2>3, <2>4, <2>5, ChunkType, Zenon
<1>3. t = [s EXCEPT !.chunkIndex = i1, !.out = o] BY DEF streamContent
<1> HIDE DEF c
<1>4. c \in Chunks /\ c.kind = line.type /\ c.text = line.text BY <1>2 DEF ChunkIs
<1>5. o \in C BY <1>1, <1>4, OneChunk
<1>6. StreamStates = [sawFinish : BOOLEAN, chunkIndex : Nat, toolCallIndex : Nat,
        finishReason : Strings, usage : Usages, outputTokens : Nat, upstreamError : E, out : C]
  BY DEF StreamStates
<1> HIDE DEF t, o, i1, C, E, Usages, Strings
<1>7. /\ t \in StreamStates
      /\ t.sawFinish = s.sawFinish /\ t.finishReason = s.finishReason /\ t.usage = s.usage
      /\ t.outputTokens = s.outputTokens /\ t.upstreamError = s.upstreamError
      /\ t.out = o
  BY <1>1, <1>3, <1>5, <1>6
<1>8. AddsContent(t, s, line.type, line.text) BY <1>4, <1>7 DEF AddsContent, o
<1> QED BY <1>8 DEF t

LEMMA ToolCallAdds ==
  ASSUME NEW s \in StreamStates, NEW line \in Lines
  PROVE  AddsContent(streamToolCall(s, line), s, "tool-call", <<s.toolCallIndex, line.text>>)
<1> DEFINE c == makeChunk("tool-call", <<s.toolCallIndex, line.text>>, s.chunkIndex = 0, "",
                          <<0, 0, 0>>)
           t == streamToolCall(s, line)
           o == Append(s.out, c)
           i1 == s.chunkIndex + 1
           j1 == s.toolCallIndex + 1
           C == Seq(Chunks)
           E == Seq(Int)
<1>1. s.out \in Seq(Chunks) /\ i1 \in Nat /\ j1 \in Nat BY DEF StreamStates
<1>2. ChunkIs(c, "tool-call", <<s.toolCallIndex, line.text>>, s.chunkIndex = 0, "", <<0, 0, 0>>)
  <2>1. line.text \in STRING /\ s.toolCallIndex \in Nat BY DEF Lines, StreamStates
  <2>2. <<s.toolCallIndex, line.text>> \in Carried BY <2>1 DEF Carried
  <2>3. << 0, 0, 0 >> \in Counts BY DEF Counts
  <2>4. "" \in Strings BY DEF Strings
  <2>5. (s.chunkIndex = 0) \in BOOLEAN BY Zenon
  <2>6. "tool-call" \in Kinds BY DEF Kinds
  <2> QED BY <2>2, <2>3, <2>4, <2>5, <2>6, ChunkType, Zenon
<1>3. t = [s EXCEPT !.chunkIndex = i1, !.toolCallIndex = j1, !.out = o] BY DEF streamToolCall
<1> HIDE DEF c
<1>4. c \in Chunks /\ c.kind = "tool-call" /\ c.text = <<s.toolCallIndex, line.text>>
  BY <1>2 DEF ChunkIs
<1>5. o \in C
  <2>1. c \in Chunks BY <1>4
  <2> QED BY <1>1, <2>1, OneChunk
<1>6. StreamStates = [sawFinish : BOOLEAN, chunkIndex : Nat, toolCallIndex : Nat,
        finishReason : Strings, usage : Usages, outputTokens : Nat, upstreamError : E, out : C]
  BY DEF StreamStates
<1> HIDE DEF t, o, i1, j1, C, E, Usages, Strings
<1>7. /\ t \in StreamStates
      /\ t.sawFinish = s.sawFinish /\ t.finishReason = s.finishReason /\ t.usage = s.usage
      /\ t.outputTokens = s.outputTokens /\ t.upstreamError = s.upstreamError
      /\ t.out = o
  BY <1>1, <1>3, <1>5, <1>6
<1>8. AddsContent(t, s, "tool-call", <<s.toolCallIndex, line.text>>)
  BY <1>4, <1>7, Zenon DEF AddsContent, o
<1> QED BY <1>8 DEF t

StepTaken(t, s, line) ==
  /\ t \in StreamStates /\ t.sawFinish = TRUE /\ t.out = s.out
  /\ t.outputTokens = s.outputTokens /\ t.upstreamError = s.upstreamError
  /\ t.finishReason = IF line.reason # "" THEN mapFinishReason(line.reason) ELSE s.finishReason
  /\ t.usage = IF line.usage # << >> THEN line.usage ELSE s.usage

LEMMA FinishStepTakes ==
  ASSUME NEW s \in StreamStates, NEW line \in Lines
  PROVE  StepTaken(streamFinishStep(s, line), s, line)
<1> DEFINE f == IF line.reason # "" THEN mapFinishReason(line.reason) ELSE s.finishReason
           u == IF line.usage # << >> THEN line.usage ELSE s.usage
           t == streamFinishStep(s, line)
           C == Seq(Chunks)
           E == Seq(Int)
<1>1. f \in Strings
  <2>1. line.reason \in STRING BY DEF Lines
  <2>2. s.finishReason \in Strings BY DEF StreamStates
  <2> QED BY <2>1, <2>2, ReasonType
<1>2. u \in Usages BY DEF StreamStates, Lines
<1>3. t = [s EXCEPT !.sawFinish = TRUE, !.finishReason = f, !.usage = u] BY DEF streamFinishStep
<1>4. StreamStates = [sawFinish : BOOLEAN, chunkIndex : Nat, toolCallIndex : Nat,
        finishReason : Strings, usage : Usages, outputTokens : Nat, upstreamError : E, out : C]
  BY DEF StreamStates
<1> HIDE DEF t, f, u, Strings, Usages, C, E
<1>5. /\ t \in StreamStates /\ t.sawFinish = TRUE /\ t.out = s.out
      /\ t.outputTokens = s.outputTokens /\ t.upstreamError = s.upstreamError
      /\ t.finishReason = f /\ t.usage = u
  BY <1>1, <1>2, <1>3, <1>4
<1>6. StepTaken(t, s, line) BY <1>5 DEF StepTaken, f, u
<1> QED BY <1>6 DEF t

LEMMA ErrorField ==
  ASSUME NEW s \in StreamStates, NEW e
  PROVE  [s EXCEPT !.upstreamError = e].upstreamError = e
BY DEF StreamStates

-----------------------------------------------------------------------------
\* The two readers side by side.
Seconds(ts) == [i \in DOMAIN ts |-> ts[i][2]]

LEMMA AppendIs ==
  ASSUME NEW S, NEW q \in Seq(S), NEW x \in S
  PROVE  /\ Append(q, x) \in Seq(S) /\ Len(Append(q, x)) = Len(q) + 1
         /\ (\A i \in 1..Len(q) : Append(q, x)[i] = q[i]) /\ Append(q, x)[Len(q) + 1] = x
BY AppendProperties

LEMMA SecondsMore ==
  ASSUME NEW ts \in Seq(Nat \X STRING), NEW n \in Nat, NEW x \in STRING
  PROVE  /\ Append(ts, <<n, x>>) \in Seq(Nat \X STRING)
         /\ Seconds(Append(ts, <<n, x>>)) = Append(Seconds(ts), x)
<1> DEFINE T == Nat \X STRING
           e == <<n, x>>
           us == Append(ts, e)
           m == Len(ts)
<1>1. e \in T /\ e[2] = x OBVIOUS
<1>2. ts \in Seq(T) /\ m \in Nat /\ DOMAIN ts = 1..m /\ \A i \in 1..m : ts[i] \in T OBVIOUS
<1>3. \A i \in 1..m : ts[i][2] \in STRING BY <1>2
<1> HIDE DEF T, e
<1>4. /\ us \in Seq(T) /\ Len(us) = m + 1 /\ (\A i \in 1..m : us[i] = ts[i]) /\ us[m + 1] = e
  BY <1>1, <1>2, AppendProperties
<1> HIDE DEF m, us
<1>5. DOMAIN us = 1..(m + 1) BY <1>4
<1> DEFINE v == Seconds(us)
           w == Append(Seconds(ts), x)
<1>6. v \in Seq(STRING) /\ Len(v) = m + 1 /\ \A i \in 1..(m + 1) : v[i] = us[i][2]
  <2>1. \A i \in 1..(m + 1) : us[i][2] \in STRING
    <3>1. \A i \in 1..(m + 1) : i \in 1..m \/ i = m + 1 BY <1>2
    <3> QED BY <1>1, <1>3, <1>4, <3>1
  <2> QED BY <1>2, <1>5, <2>1 DEF Seconds
<1>7. Seconds(ts) \in Seq(STRING) /\ Len(Seconds(ts)) = m /\ \A i \in 1..m : Seconds(ts)[i] = ts[i][2]
  <2>1. Seconds(ts) = [i \in 1..m |-> ts[i][2]] BY <1>2 DEF Seconds
  <2> QED BY <1>2, <1>3, <2>1
<1>8. w \in Seq(STRING) /\ Len(w) = m + 1 /\ (\A i \in 1..m : w[i] = ts[i][2]) /\ w[m + 1] = x
  <2>1. \A q \in Seq(STRING) :
          /\ Append(q, x) \in Seq(STRING) /\ Len(Append(q, x)) = Len(q) + 1
          /\ (\A i \in 1..Len(q) : Append(q, x)[i] = q[i]) /\ Append(q, x)[Len(q) + 1] = x
    BY AppendIs, Zenon
  <2> HIDE DEF v
  <2> QED BY <1>7, <2>1
<1>9. \A i \in 1..(m + 1) : v[i] = w[i]
  <2>1. \A i \in 1..(m + 1) : i \in 1..m \/ i = m + 1 BY <1>2
  <2> HIDE DEF us, v, w
  <2> QED BY <1>1, <1>4, <1>6, <1>8, <2>1
<1> HIDE DEF v, w, us
<1>10. v = w BY <1>2, <1>6, <1>8, <1>9, SeqEqual
<1> QED BY <1>4, <1>10 DEF v, w, us, e, T

\* What was said so far is the same.
Together(s, a) ==
  /\ TextsOf("text-delta", s.out) = a.fullText
  /\ TextsOf("reasoning-delta", s.out) = a.thinkingText
  /\ TextsOf("tool-call", s.out) \in Seq(Nat \X STRING)
  /\ Seconds(TextsOf("tool-call", s.out)) = a.toolCalls

\* How the reader's chunk and the accumulator's line keep them together.
LEMMA TogetherAdds ==
  ASSUME NEW s \in StreamStates, NEW a \in AccStates, NEW t, NEW b, NEW line \in Lines,
         Together(s, a), Fed(b, a, line),
         \/ line.type = "text-delta" /\ line.text # "" /\ AddsContent(t, s, line.type, line.text)
         \/ line.type = "reasoning-delta" /\ line.text # ""
            /\ AddsContent(t, s, line.type, line.text)
         \/ /\ line.type = "tool-call"
            /\ AddsContent(t, s, "tool-call", <<s.toolCallIndex, line.text>>)
  PROVE  Together(t, b)
<1> DEFINE x == IF line.type = "tool-call" THEN <<s.toolCallIndex, line.text>> ELSE line.text
<1>1. PICK c \in Chunks : c.kind = line.type /\ c.text = x /\ t.out = Append(s.out, c)
  BY DEF AddsContent
<1>2. s.out \in Seq(Chunks) /\ s.toolCallIndex \in Nat BY DEF StreamStates
<1>3. line.text \in STRING BY DEF Lines
<1>4. \A kind : TextsOf(kind, t.out) = IF line.type = kind THEN Append(TextsOf(kind, s.out), x)
                                       ELSE TextsOf(kind, s.out)
  <2> TAKE kind
  <2>1. TextsOf(kind, Append(s.out, c)) = TextOp(kind, TextsOf(kind, s.out), c)
    BY <1>2, TextsMore
  <2> HIDE DEF x
  <2> QED BY <1>1, <2>1 DEF TextOp
<1>5. CASE line.type = "text-delta"
  <2>1. x = line.text /\ line.text # "" BY <1>5
  <2>2. /\ b.fullText = Append(a.fullText, x) /\ b.thinkingText = a.thinkingText
        /\ b.toolCalls = a.toolCalls
    BY <1>5, <2>1 DEF Fed, Appended
  <2> HIDE DEF x
  <2> QED BY <1>4, <1>5, <2>2 DEF Together
<1>6. CASE line.type = "reasoning-delta"
  <2>1. x = line.text /\ line.text # "" BY <1>6
  <2>2. /\ b.fullText = a.fullText /\ b.thinkingText = Append(a.thinkingText, x)
        /\ b.toolCalls = a.toolCalls
    BY <1>6, <2>1 DEF Fed, Appended
  <2> HIDE DEF x
  <2> QED BY <1>4, <1>6, <2>2 DEF Together
<1>7. CASE line.type = "tool-call"
  <2>1. x = <<s.toolCallIndex, line.text>> BY <1>7
  <2>2. /\ b.fullText = a.fullText /\ b.thinkingText = a.thinkingText
        /\ b.toolCalls = Append(a.toolCalls, line.text)
    BY <1>7 DEF Fed
  <2>3. /\ TextsOf("text-delta", t.out) = TextsOf("text-delta", s.out)
        /\ TextsOf("reasoning-delta", t.out) = TextsOf("reasoning-delta", s.out)
        /\ TextsOf("tool-call", t.out) = Append(TextsOf("tool-call", s.out), x)
    <3> HIDE DEF x
    <3> QED BY <1>4, <1>7
  <2> DEFINE ts == TextsOf("tool-call", s.out)
  <2>4. ts \in Seq(Nat \X STRING) /\ Seconds(ts) = a.toolCalls BY DEF Together
  <2> HIDE DEF ts
  <2>5. /\ Append(ts, <<s.toolCallIndex, line.text>>) \in Seq(Nat \X STRING)
        /\ Seconds(Append(ts, <<s.toolCallIndex, line.text>>)) = Append(Seconds(ts), line.text)
    BY <1>2, <1>3, <2>4, SecondsMore
  <2>6. TextsOf("tool-call", t.out) = Append(ts, <<s.toolCallIndex, line.text>>)
    BY <2>1, <2>3 DEF ts
  <2>7. /\ TextsOf("tool-call", t.out) \in Seq(Nat \X STRING)
        /\ Seconds(TextsOf("tool-call", t.out)) = b.toolCalls
    BY <2>2, <2>4, <2>5, <2>6, Zenon
  <2>8. /\ TextsOf("text-delta", t.out) = b.fullText
        /\ TextsOf("reasoning-delta", t.out) = b.thinkingText
    BY <2>2, <2>3 DEF Together
  <2> QED BY <2>7, <2>8 DEF Together
<1> QED BY <1>5, <1>6, <1>7

\* Lines that say nothing.
LEMMA TogetherStays ==
  ASSUME NEW s, NEW a, NEW t, NEW b, Together(s, a), t.out = s.out,
         b.fullText = a.fullText, b.thinkingText = a.thinkingText, b.toolCalls = a.toolCalls
  PROVE  Together(t, b)
BY DEF Together

LEMMA TogetherFinishes ==
  ASSUME NEW s \in StreamStates, NEW a \in AccStates, NEW t, NEW b, NEW line \in Lines,
         Together(s, a), Fed(b, a, line), line.type = "finish",
         NEW c \in Chunks, c.kind = "finish", t.out = Append(s.out, c)
  PROVE  Together(t, b)
<1>1. s.out \in Seq(Chunks) BY DEF StreamStates
<1>2. \A kind : kind # "finish" => TextsOf(kind, t.out) = TextsOf(kind, s.out)
  <2> SUFFICES ASSUME NEW kind, kind # "finish" PROVE TextsOf(kind, t.out) = TextsOf(kind, s.out)
    OBVIOUS
  <2>1. TextsOf(kind, Append(s.out, c)) = TextOp(kind, TextsOf(kind, s.out), c)
    BY <1>1, TextsMore
  <2> QED BY <2>1 DEF TextOp
<1>3. b.fullText = a.fullText /\ b.thinkingText = a.thinkingText /\ b.toolCalls = a.toolCalls
  BY DEF Fed
<1> QED BY <1>2, <1>3 DEF Together

-----------------------------------------------------------------------------
\* Before the finish line: the same usage, and the reason of the last step, if any gave one.
StepAt(j) == script[j].type = "finish-step" /\ script[j].reason # ""

Before(s, a, k) ==
  /\ s.usage = a.usage
  /\ \A i \in 1..Len(s.out) : s.out[i].kind # "finish"
  /\ \/ (\A j \in 1..k : ~StepAt(j)) /\ s.finishReason = "" /\ a.finishReason = "stop"
     \/ \E j \in 1..k : /\ StepAt(j) /\ \A i \in 1..k : StepAt(i) => i <= j
                        /\ s.finishReason = mapFinishReason(script[j].reason)
                        /\ a.finishReason = s.finishReason

\* After it: one finish chunk, which says what the accumulator says.
After(s, a) ==
  /\ s.sawFinish = TRUE /\ a.sawFinish = TRUE
  /\ s.outputTokens = outputTokensOf(a.usage)
  /\ s.finishReason = "upstream_error" <=> a.finishReason = "upstream_error"
  /\ \E f \in 1..Len(s.out) :
       /\ KindIn(s.out, "finish", Len(s.out)) = {f}
       /\ s.out[f].finish = toOpenAIFinishReason(a.finishReason)
       /\ s.out[f].usage = openAIUsage(normalizeUsage(a.usage))

LEMMA UpTo ==
  \A k \in Nat : /\ \A j \in 1..(k + 1) : j \in 1..k \/ j = k + 1
                 /\ \A j \in 1..k : j \in 1..(k + 1) /\ j <= k + 1
                 /\ k + 1 \in 1..(k + 1) /\ \A j \in 1..(k + 1) : j <= k + 1
OBVIOUS

LEMMA MaxIs ==
  ASSUME NEW S, S \subseteq Int, NEW j \in S, \A i \in S : i <= j
  PROVE  Max(S) = j
<1>1. \A y \in S : j >= y OBVIOUS
<1>2. \A x \in S : (\A y \in S : x >= y) => x = j OBVIOUS
<1> QED BY <1>1, <1>2 DEF Max

LEMMA ScriptIs ==
  ASSUME script \in Seq(Lines)
  PROVE  /\ Len(script) \in Nat /\ DOMAIN script = 1..Len(script)
         /\ \A j \in DOMAIN script : script[j] \in Lines
<1> HIDE DEF Lines
<1> QED OBVIOUS

LEMMA EarlierLine ==
  ASSUME script \in Seq(Lines), NEW k \in Nat, k + 1 \in DOMAIN script, NEW j \in 1..k
  PROVE  script[j] \in Lines
<1>1. DOMAIN script = 1..Len(script) /\ Len(script) \in Nat BY ScriptIs
<1>2. j \in DOMAIN script BY <1>1
<1> QED BY <1>2, ScriptIs

OneMore(o, out, c) ==
  /\ Len(o) = Len(out) + 1 /\ Len(out) \in Nat
  /\ \A i \in 1..Len(out) : o[i] = out[i]
  /\ o[Len(out) + 1] = c

LEMMA ChunkAdded ==
  ASSUME NEW out \in Seq(Chunks), NEW c \in Chunks
  PROVE  OneMore(Append(out, c), out, c)
BY OneChunk DEF OneMore

LEMMA BeforeStays ==
  ASSUME NEW k \in Nat, NEW s, NEW a, NEW t, NEW b, Before(s, a, k), ~StepAt(k + 1),
         t.usage = s.usage, t.finishReason = s.finishReason,
         b.usage = a.usage, b.finishReason = a.finishReason,
         \A i \in 1..Len(t.out) : t.out[i].kind # "finish"
  PROVE  Before(t, b, k + 1)
<1>1. \A j \in 1..(k + 1) : j \in 1..k \/ j = k + 1 BY UpTo
<1>2. \A j \in 1..k : j \in 1..(k + 1) BY UpTo
<1>3. CASE (\A j \in 1..k : ~StepAt(j)) /\ s.finishReason = "" /\ a.finishReason = "stop"
  BY <1>1, <1>3 DEF Before
<1>4. CASE \E j \in 1..k : /\ StepAt(j) /\ \A i \in 1..k : StepAt(i) => i <= j
                           /\ s.finishReason = mapFinishReason(script[j].reason)
                           /\ a.finishReason = s.finishReason
  BY <1>1, <1>2, <1>4 DEF Before
<1> QED BY <1>3, <1>4 DEF Before

LEMMA BeforeStep ==
  ASSUME NEW k \in Nat, NEW s, NEW a, NEW t, NEW b, NEW line, line = script[k + 1],
         Before(s, a, k), line.type = "finish-step", StepTaken(t, s, line), Fed(b, a, line)
  PROVE  Before(t, b, k + 1)
<1>1. \A j \in 1..(k + 1) : j \in 1..k \/ j = k + 1 BY UpTo
<1>2. \A j \in 1..k : j \in 1..(k + 1) /\ j <= k + 1 BY UpTo
<1>3. /\ b.finishReason = IF line.reason # "" THEN mapFinishReason(line.reason)
                          ELSE a.finishReason
      /\ b.usage = IF line.usage # << >> THEN line.usage ELSE a.usage
  BY DEF Fed
<1>4. t.usage = b.usage BY <1>3 DEF Before, StepTaken
<1>5. \A i \in 1..Len(t.out) : t.out[i].kind # "finish" BY DEF Before, StepTaken
<1>6. CASE line.reason # ""
  <2>1. StepAt(k + 1) BY <1>6 DEF StepAt
  <2>2. /\ t.finishReason = mapFinishReason(script[k + 1].reason)
        /\ b.finishReason = t.finishReason
    BY <1>3, <1>6 DEF StepTaken
  <2>3. k + 1 \in 1..(k + 1) /\ \A i \in 1..(k + 1) : i <= k + 1 BY UpTo
  <2> QED BY <1>4, <1>5, <2>1, <2>2, <2>3 DEF Before
<1>7. CASE line.reason = ""
  <2>1. ~StepAt(k + 1) BY <1>7 DEF StepAt
  <2>2. t.finishReason = s.finishReason /\ b.finishReason = a.finishReason
    BY <1>3, <1>7 DEF StepTaken
  <2>3. CASE (\A j \in 1..k : ~StepAt(j)) /\ s.finishReason = "" /\ a.finishReason = "stop"
    BY <1>1, <1>4, <1>5, <2>1, <2>2, <2>3 DEF Before
  <2>4. CASE \E j \in 1..k : /\ StepAt(j) /\ \A i \in 1..k : StepAt(i) => i <= j
                             /\ s.finishReason = mapFinishReason(script[j].reason)
                             /\ a.finishReason = s.finishReason
    BY <1>1, <1>2, <1>4, <1>5, <2>1, <2>2, <2>4 DEF Before
  <2> QED BY <2>3, <2>4 DEF Before
<1> QED BY <1>6, <1>7

\* What Disciplined says of the finish line p.
FinishAt(p) ==
  /\ p \in DOMAIN script /\ Positions("finish") = {p}
  /\ \A j \in DOMAIN script : j > p => script[j].type \in {"junk", "error"}
  /\ LET f == mapFinishReason(script[p].reason)
     IN IF StepReasons = {} THEN f # "upstream_error"
        ELSE script[p].reason # "" => f = mapFinishReason(script[Max(StepReasons)].reason)

LEMMA LastStep ==
  ASSUME script \in Seq(Lines), NEW k \in Nat, FinishAt(k + 1)
  PROVE  /\ (\A j \in 1..k : ~StepAt(j)) =>
              mapFinishReason(script[k + 1].reason) # "upstream_error"
         /\ \A j \in 1..k : StepAt(j) /\ (\A i \in 1..k : StepAt(i) => i <= j) =>
              (script[k + 1].reason # "" =>
                 mapFinishReason(script[k + 1].reason) = mapFinishReason(script[j].reason))
<1>0. DOMAIN script = 1..Len(script) /\ Len(script) \in Nat BY ScriptIs
<1>1. DOMAIN script = 1..Len(script) /\ Len(script) \in Nat /\ k + 1 \in 1..Len(script)
  BY <1>0 DEF FinishAt
<1>2. script[k + 1].type = "finish" BY DEF FinishAt, Positions
<1>3. \A j \in DOMAIN script : StepAt(j) => j \in 1..k
  <2> SUFFICES ASSUME NEW j \in DOMAIN script, StepAt(j) PROVE j \in 1..k OBVIOUS
  <2>1. j # k + 1 BY <1>2 DEF StepAt
  <2>2. ~(j > k + 1) BY DEF FinishAt, StepAt
  <2> QED BY <1>1, <2>1, <2>2
<1>4. StepReasons = {j \in 1..k : StepAt(j)}
  <2>1. \A j \in 1..k : j \in DOMAIN script BY <1>1
  <2> QED BY <1>3, <2>1 DEF StepReasons, Positions, StepAt
<1>5. ASSUME \A j \in 1..k : ~StepAt(j)
      PROVE mapFinishReason(script[k + 1].reason) # "upstream_error"
  <2>1. StepReasons = {} BY <1>4, <1>5
  <2> QED BY <2>1 DEF FinishAt
<1>6. ASSUME NEW j \in 1..k, StepAt(j), \A i \in 1..k : StepAt(i) => i <= j,
             script[k + 1].reason # ""
      PROVE  mapFinishReason(script[k + 1].reason) = mapFinishReason(script[j].reason)
  <2>1. j \in StepReasons /\ \A i \in StepReasons : i <= j BY <1>4, <1>6
  <2>2. StepReasons \subseteq Int BY <1>4
  <2>3. Max(StepReasons) = j BY <2>1, <2>2, MaxIs
  <2> QED BY <1>6, <2>1, <2>3 DEF FinishAt
<1> QED BY <1>5, <1>6

LEMMA AfterFinish ==
  ASSUME script \in Seq(Lines), NEW k \in Nat, FinishAt(k + 1), script[k + 1] \in Lines,
         NEW s \in StreamStates, NEW a \in AccStates, NEW t, NEW b, Before(s, a, k),
         FinishedIs(t, s, script[k + 1]), Fed(b, a, script[k + 1]),
         ChunkIs(LastChunk(s, script[k + 1]), "finish", "", FALSE,
                 toOpenAIFinishReason(ReasonAt(s, script[k + 1])),
                 openAIUsage(UsageAt(s, script[k + 1])))
  PROVE  After(t, b)
<1> DEFINE line == script[k + 1]
           c == LastChunk(s, line)
           n == Len(s.out)
           o == Append(s.out, c)
<1>1. line.type = "finish" BY DEF FinishAt, Positions
<1>2. /\ b \in AccStates /\ b.sawFinish = TRUE
      /\ b.finishReason = IF line.reason # "" THEN mapFinishReason(line.reason)
                          ELSE a.finishReason
      /\ b.usage = IF line.usage # << >> THEN line.usage ELSE a.usage
  BY <1>1 DEF Fed
<1>3. /\ t.sawFinish = TRUE /\ t.outputTokens = outputTokensOf(UsageAt(s, line))
      /\ t.finishReason = s.finishReason /\ t.out = o
  BY DEF FinishedIs
<1>4. UsageAt(s, line) = normalizeUsage(b.usage) BY <1>2 DEF UsageAt, Before
<1>5. t.outputTokens = outputTokensOf(b.usage)
  <2>1. b.usage \in Usages BY <1>2 DEF AccStates
  <2> QED BY <1>3, <1>4, <2>1, UsageType
<1>6. /\ ReasonAt(s, line) = b.finishReason
      /\ s.finishReason = "upstream_error" <=> b.finishReason = "upstream_error"
  <2>1. CASE (\A j \in 1..k : ~StepAt(j)) /\ s.finishReason = "" /\ a.finishReason = "stop"
    <3>1. mapFinishReason(line.reason) # "upstream_error" BY <2>1, LastStep
    <3>2. line.reason = "" => mapFinishReason(line.reason) = "stop" BY NoReason
    <3>3. ReasonAt(s, line) = mapFinishReason(line.reason) BY <2>1 DEF ReasonAt
    <3>4. b.finishReason = mapFinishReason(line.reason) BY <1>2, <2>1, <3>2
    <3> QED BY <2>1, <3>1, <3>3, <3>4
  <2>2. CASE \E j \in 1..k : /\ StepAt(j) /\ \A i \in 1..k : StepAt(i) => i <= j
                             /\ s.finishReason = mapFinishReason(script[j].reason)
                             /\ a.finishReason = s.finishReason
    <3>1. PICK j \in 1..k : /\ StepAt(j) /\ \A i \in 1..k : StepAt(i) => i <= j
                            /\ s.finishReason = mapFinishReason(script[j].reason)
                            /\ a.finishReason = s.finishReason
      BY <2>2
    <3>2. line.reason # "" => mapFinishReason(line.reason) = s.finishReason
      BY <3>1, LastStep
    <3>3. s.finishReason # ""
      <4>2. k + 1 \in DOMAIN script BY DEF FinishAt
      <4>4. script[j] \in Lines BY <4>2, EarlierLine
      <4>5. script[j].reason \in STRING /\ script[j].reason # "" BY <3>1, <4>4 DEF Lines, StepAt
      <4> QED BY <3>1, <4>5, ReasonType
    <3>4. ReasonAt(s, line) = s.finishReason BY <3>3 DEF ReasonAt
    <3>5. b.finishReason = s.finishReason BY <1>2, <3>1, <3>2
    <3> QED BY <3>4, <3>5
  <2> QED BY <2>1, <2>2 DEF Before
<1>7. /\ c \in Chunks /\ c.kind = "finish" /\ c.finish = toOpenAIFinishReason(b.finishReason)
      /\ c.usage = openAIUsage(normalizeUsage(b.usage))
  BY <1>4, <1>6 DEF ChunkIs
<1>8. s.out \in Seq(Chunks) BY DEF StreamStates
<1> HIDE DEF c
<1>9. /\ Len(o) = n + 1 /\ n \in Nat
      /\ \A i \in 1..n : o[i] = s.out[i]
      /\ o[n + 1] = c
  <2>1. c \in Chunks BY <1>7
  <2>2. OneMore(o, s.out, c) BY <1>8, <2>1, ChunkAdded, Zenon
  <2> QED BY <2>2, Zenon DEF OneMore
<1> HIDE DEF o, n
<1>10. KindIn(o, "finish", n + 1) = {n + 1}
  <2>1. MoreOfKind(s.out, o, n, "finish") BY <1>9, KindMore, Zenon
  <2>2. KindIn(s.out, "finish", n) = {} BY DEF KindIn, Before, n
  <2> QED BY <1>7, <1>9, <2>1, <2>2 DEF MoreOfKind
<1>11. n + 1 \in 1..(n + 1) BY <1>9, UpTo
<1>12. \E f \in 1..Len(t.out) :
         /\ KindIn(t.out, "finish", Len(t.out)) = {f}
         /\ t.out[f].finish = toOpenAIFinishReason(b.finishReason)
         /\ t.out[f].usage = openAIUsage(normalizeUsage(b.usage))
  BY <1>3, <1>7, <1>9, <1>10, <1>11
<1> QED BY <1>2, <1>3, <1>5, <1>6, <1>12 DEF After

-----------------------------------------------------------------------------
\* The two readers after k lines without an error, of a response that finishes in line p.
Clean(s, a, k, p) ==
  /\ s \in StreamStates /\ a \in AccStates
  /\ s.upstreamError = << >> /\ a.upstreamError = << >>
  /\ Together(s, a)
  /\ k < p => Before(s, a, k)
  /\ k >= p => After(s, a)

\* A line with content, before the finish line.
LEMMA CleanContent ==
  ASSUME NEW k \in Nat, NEW p \in Nat, k + 1 < p, NEW line, line = script[k + 1],
         line \in Lines, NEW s, NEW a, Clean(s, a, k, p),
         line.type \in {"text-delta", "reasoning-delta", "tool-call"}
  PROVE  Clean(parseLine(s, line), feed(a, line), k + 1, p)
<1> DEFINE t == parseLine(s, line)
           b == feed(a, line)
<1>1. /\ s \in StreamStates /\ a \in AccStates
      /\ s.upstreamError = << >> /\ a.upstreamError = << >>
      /\ Together(s, a) /\ Before(s, a, k)
  BY DEF Clean
<1>2. Fed(b, a, line) BY <1>1, FeedIs
<1>3. ~StepAt(k + 1) BY DEF StepAt
<1>4. b.usage = a.usage /\ b.finishReason = a.finishReason BY <1>2 DEF Fed
<1>5. ASSUME line.type # "tool-call", line.text = ""
      PROVE  /\ t \in StreamStates /\ t.upstreamError = << >> /\ Together(t, b)
             /\ Before(t, b, k + 1)
  <2>1. t = s BY <1>5 DEF parseLine
  <2>2. /\ b.fullText = a.fullText /\ b.thinkingText = a.thinkingText
        /\ b.toolCalls = a.toolCalls
    BY <1>2, <1>5 DEF Fed, Appended
  <2> HIDE DEF t, b
  <2>3. Together(t, b) BY <1>1, <2>1, <2>2, TogetherStays
  <2>4. \A i \in 1..Len(t.out) : t.out[i].kind # "finish" BY <1>1, <2>1 DEF Before
  <2>5. Before(t, b, k + 1) BY <1>1, <1>3, <1>4, <2>1, <2>4, BeforeStays
  <2> QED BY <1>1, <2>1, <2>3, <2>5
<1>6. ASSUME line.type = "tool-call" \/ line.text # ""
      PROVE  /\ t \in StreamStates /\ t.upstreamError = << >> /\ Together(t, b)
             /\ Before(t, b, k + 1)
  <2> DEFINE x == IF line.type = "tool-call" THEN <<s.toolCallIndex, line.text>> ELSE line.text
  <2>1. AddsContent(t, s, line.type, x)
    <3>1. CASE line.type = "tool-call"
      <4>1. t = streamToolCall(s, line) /\ x = <<s.toolCallIndex, line.text>>
        BY <3>1 DEF parseLine
      <4>2. AddsContent(t, s, "tool-call", x) BY <1>1, <4>1, ToolCallAdds
      <4> QED BY <3>1, <4>2
    <3>2. CASE line.type # "tool-call"
      <4>1. line.type \in {"text-delta", "reasoning-delta"} /\ line.text # "" BY <1>6, <3>2
      <4>2. t = streamContent(s, line) BY <4>1 DEF parseLine
      <4>3. x = line.text BY <3>2
      <4> QED BY <1>1, <4>1, <4>2, <4>3, ContentAdds
    <3> QED BY <3>1, <3>2
  <2> HIDE DEF t, b
  <2>2. Together(t, b)
    <3>1. CASE line.type = "tool-call"
      <4>1. AddsContent(t, s, "tool-call", <<s.toolCallIndex, line.text>>) BY <2>1, <3>1
      <4> QED BY <1>1, <1>2, <3>1, <4>1, TogetherAdds
    <3>2. CASE line.type # "tool-call"
      <4>1. AddsContent(t, s, line.type, line.text) BY <2>1, <3>2
      <4> QED BY <1>1, <1>2, <1>6, <3>2, <4>1, TogetherAdds
    <3> QED BY <3>1, <3>2
  <2> HIDE DEF x
  <2>3. /\ t \in StreamStates /\ t.upstreamError = << >>
        /\ t.usage = s.usage /\ t.finishReason = s.finishReason
    BY <1>1, <2>1 DEF AddsContent
  <2>4. \A i \in 1..Len(t.out) : t.out[i].kind # "finish"
    <3>1. PICK c \in Chunks : c.kind = line.type /\ t.out = Append(s.out, c)
      BY <2>1 DEF AddsContent
    <3>2. s.out \in Seq(Chunks) BY <1>1 DEF StreamStates
    <3>3. OneMore(t.out, s.out, c) BY <3>1, <3>2, ChunkAdded
    <3>4. \A i \in 1..Len(s.out) : s.out[i].kind # "finish" BY <1>1 DEF Before
    <3>5. \A i \in 1..(Len(s.out) + 1) : i \in 1..Len(s.out) \/ i = Len(s.out) + 1
      BY <3>3, UpTo DEF OneMore
    <3>6. c.kind # "finish" BY <3>1
    <3> QED BY <3>3, <3>4, <3>5, <3>6 DEF OneMore
  <2>5. Before(t, b, k + 1) BY <1>1, <1>3, <1>4, <2>3, <2>4, BeforeStays
  <2> QED BY <2>2, <2>3, <2>5
<1> HIDE DEF t, b
<1>7. b \in AccStates /\ b.upstreamError = << >> BY <1>1, <1>2 DEF Fed
<1>8. ~(k + 1 >= p) OBVIOUS
<1>9. Clean(t, b, k + 1, p) BY <1>5, <1>6, <1>7, <1>8 DEF Clean
<1> QED BY <1>9 DEF t, b

LEMMA CleanStep ==
  ASSUME NEW k \in Nat, NEW p \in Nat, k + 1 < p, NEW line, line = script[k + 1],
         line \in Lines, NEW s, NEW a, Clean(s, a, k, p), line.type = "finish-step"
  PROVE  Clean(parseLine(s, line), feed(a, line), k + 1, p)
<1> DEFINE t == parseLine(s, line)
           b == feed(a, line)
<1>1. /\ s \in StreamStates /\ a \in AccStates
      /\ s.upstreamError = << >> /\ a.upstreamError = << >>
      /\ Together(s, a) /\ Before(s, a, k)
  BY DEF Clean
<1>2. Fed(b, a, line) BY <1>1, FeedIs
<1>3. StepTaken(t, s, line)
  <2>1. t = streamFinishStep(s, line) BY DEF parseLine
  <2> QED BY <1>1, <2>1, FinishStepTakes
<1> HIDE DEF t, b
<1>4. b \in AccStates /\ b.upstreamError = << >> BY <1>1, <1>2 DEF Fed
<1>5. /\ b.fullText = a.fullText /\ b.thinkingText = a.thinkingText
      /\ b.toolCalls = a.toolCalls
  BY <1>2 DEF Fed
<1>6. t \in StreamStates /\ t.upstreamError = << >> /\ t.out = s.out BY <1>1, <1>3 DEF StepTaken
<1>7. Together(t, b) BY <1>1, <1>5, <1>6, TogetherStays
<1>8. Before(t, b, k + 1) BY <1>1, <1>2, <1>3, BeforeStep
<1>9. ~(k + 1 >= p) OBVIOUS
<1>10. Clean(t, b, k + 1, p) BY <1>4, <1>6, <1>7, <1>8, <1>9 DEF Clean
<1> QED BY <1>10 DEF t, b

LEMMA CleanFinish ==
  ASSUME script \in Seq(Lines), NEW k \in Nat, FinishAt(k + 1), NEW line, line = script[k + 1],
         line \in Lines, NEW s, NEW a, Clean(s, a, k, k + 1)
  PROVE  Clean(parseLine(s, line), feed(a, line), k + 1, k + 1)
<1> DEFINE t == parseLine(s, line)
           b == feed(a, line)
<1>0. line.type = "finish" BY DEF FinishAt, Positions
<1>1. /\ s \in StreamStates /\ a \in AccStates
      /\ s.upstreamError = << >> /\ a.upstreamError = << >>
      /\ Together(s, a) /\ Before(s, a, k)
  BY DEF Clean
<1>2. Fed(b, a, line)
  <2>1. line.type # "error" BY <1>0
  <2> QED BY <1>1, <2>1, FeedIs
<1>3. FinishedIs(t, s, line)
  <2>1. t = streamFinish(s, line) BY <1>0 DEF parseLine
  <2> QED BY <1>1, <2>1, FinishFields
<1>4. ChunkIs(LastChunk(s, line), "finish", "", FALSE,
              toOpenAIFinishReason(ReasonAt(s, line)), openAIUsage(UsageAt(s, line)))
  BY <1>1, FinishFields
<1> HIDE DEF t, b
<1>5. b \in AccStates /\ b.upstreamError = << >> BY <1>1, <1>2 DEF Fed
<1>6. t \in StreamStates /\ t.upstreamError = << >> BY <1>1, <1>3 DEF FinishedIs, StateIs
<1>7. Together(t, b)
  <2>1. /\ LastChunk(s, line) \in Chunks /\ LastChunk(s, line).kind = "finish"
        /\ t.out = Append(s.out, LastChunk(s, line))
    BY <1>3, <1>4 DEF ChunkIs, FinishedIs
  <2> QED BY <1>0, <1>1, <1>2, <2>1, TogetherFinishes
<1>8. After(t, b) BY <1>1, <1>2, <1>3, <1>4, AfterFinish
<1>9. ~(k + 1 < k + 1) OBVIOUS
<1>10. Clean(t, b, k + 1, k + 1) BY <1>5, <1>6, <1>7, <1>8, <1>9 DEF Clean
<1> QED BY <1>10 DEF t, b

\* A line without an error keeps the readers together.
LEMMA CleanLine ==
  ASSUME script \in Seq(Lines), NEW k \in Nat, k < Len(script), NEW p, FinishAt(p),
         NEW line, line = script[k + 1], line.type # "error",
         NEW s, NEW a, Clean(s, a, k, p)
  PROVE  Clean(parseLine(s, line), feed(a, line), k + 1, p)
<1>1. DOMAIN script = 1..Len(script) /\ Len(script) \in Nat BY ScriptIs
<1>2. k + 1 \in DOMAIN script BY <1>1
<1>3. line \in Lines BY <1>2, ScriptIs
<1>4. p \in DOMAIN script BY DEF FinishAt
<1>5. p \in Nat BY <1>1, <1>4
<1>6. line.type = "finish" <=> k + 1 = p
  <2>1. Positions("finish") = {p} BY DEF FinishAt
  <2> QED BY <1>2, <1>4, <2>1 DEF Positions
<1>7. k + 1 > p => line.type = "junk" BY <1>2 DEF FinishAt
<1>8. CASE line.type \in {"text-delta", "reasoning-delta", "tool-call", "finish-step"}
  <2>1. k + 1 < p
    <3>1. k + 1 # p /\ ~(k + 1 > p) BY <1>6, <1>7, <1>8
    <3> QED BY <1>5, <3>1
  <2>2. CASE line.type = "finish-step" BY <1>3, <1>5, <2>1, <2>2, CleanStep
  <2>3. CASE line.type \in {"text-delta", "reasoning-delta", "tool-call"}
    BY <1>3, <1>5, <2>1, <2>3, CleanContent
  <2> QED BY <1>8, <2>2, <2>3
<1>9. CASE line.type = "finish"
  <2>1. p = k + 1 BY <1>6, <1>9
  <2> QED BY <1>3, <2>1, CleanFinish
<1>10. CASE line.type \notin {"text-delta", "reasoning-delta", "tool-call", "finish-step", "finish"}
  <2>1. parseLine(s, line) = s BY <1>10 DEF parseLine
  <2>2. feed(a, line) = a BY <1>10 DEF feed
  <2>3. k + 1 # p BY <1>6, <1>10
  <2>4. CASE k + 1 < p
    <3>1. k < p /\ ~(k + 1 >= p) BY <1>5, <2>4
    <3>2. ~StepAt(k + 1) BY <1>10 DEF StepAt
    <3>3. Before(s, a, k) BY <3>1 DEF Clean
    <3>4. \A i \in 1..Len(s.out) : s.out[i].kind # "finish" BY <3>3 DEF Before
    <3>5. Before(s, a, k + 1) BY <3>2, <3>3, <3>4, BeforeStays
    <3>6. Clean(s, a, k + 1, p) BY <3>1, <3>5 DEF Clean
    <3> QED BY <2>1, <2>2, <3>6
  <2>5. CASE k + 1 > p
    <3>1. k >= p /\ ~(k + 1 < p) BY <1>5, <2>5
    <3>2. Clean(s, a, k + 1, p) BY <3>1 DEF Clean
    <3> QED BY <2>1, <2>2, <3>2
  <2> QED BY <1>5, <2>3, <2>4, <2>5
<1> QED BY <1>8, <1>9, <1>10
\* The two readers after k lines.
Sides(s, a, k, p) ==
  /\ s \in StreamStates /\ a \in AccStates
  /\ \A q \in 1..k : script[q].type = "error" =>
       s.upstreamError = mapCCEventError(script[q]) /\ a.upstreamError = mapCCEventError(script[q])
  /\ (\A q \in 1..k : script[q].type # "error") => Clean(s, a, k, p)

LEMMA SidesStep ==
  ASSUME script \in Seq(Lines), NEW k \in Nat, k < Len(script), NEW p, FinishAt(p),
         \A i, j \in Positions("error") : i = j,
         NEW s, StreamOK(s), NEW a, Sides(s, a, k, p)
  PROVE  Sides(ParseOp(0, s, script[k + 1]), feed(a, script[k + 1]), k + 1, p)
<1> DEFINE line == script[k + 1]
           t == ParseOp(0, s, line)
           b == feed(a, line)
<1>1. DOMAIN script = 1..Len(script) /\ Len(script) \in Nat BY ScriptIs
<1>2. k + 1 \in DOMAIN script /\ \A q \in 1..k : q \in DOMAIN script /\ q # k + 1 BY <1>1
<1>3. line \in Lines BY <1>2, ScriptIs
<1>4. s \in StreamStates /\ a \in AccStates BY DEF Sides
<1>5. t \in StreamStates BY <1>3, LineOK DEF StreamOK
<1>6. line.type # "error" => Fed(b, a, line) BY <1>3, <1>4, FeedIs
<1>7. line.type = "error" => b \in AccStates /\ b.upstreamError = mapCCEventError(line)
  BY <1>3, <1>4, FeedError
<1>8. b \in AccStates BY <1>6, <1>7 DEF Fed
<1>9. \A q \in 1..(k + 1) : q \in 1..k \/ q = k + 1 BY UpTo
<1>10. \A q \in 1..k : q \in 1..(k + 1) BY UpTo
<1>11. k + 1 \in 1..(k + 1) BY UpTo
<1>12. CASE \E q \in 1..k : script[q].type = "error"
  <2>1. PICK q \in 1..k : script[q].type = "error" BY <1>12
  <2>2. q \in Positions("error") BY <1>2, <2>1 DEF Positions
  <2>3. line.type # "error"
    <3> SUFFICES ASSUME line.type = "error" PROVE FALSE OBVIOUS
    <3>1. k + 1 \in Positions("error") BY <1>2 DEF Positions
    <3> QED BY <1>2, <2>2, <3>1
  <2>4. /\ s.upstreamError = mapCCEventError(script[q])
        /\ a.upstreamError = mapCCEventError(script[q])
    BY <2>1 DEF Sides
  <2>5. s.upstreamError # << >> BY <2>4 DEF mapCCEventError
  <2>6. t = s BY <2>5 DEF ParseOp
  <2>7. b.upstreamError = a.upstreamError BY <1>6, <2>3 DEF Fed
  <2>8. \A i \in 1..(k + 1) : script[i].type = "error" => i = q
    BY <1>2, <1>9, <2>2, <2>3 DEF Positions
  <2> HIDE DEF t, b
  <2>9. \A i \in 1..(k + 1) : script[i].type = "error" =>
          t.upstreamError = mapCCEventError(script[i]) /\ b.upstreamError = mapCCEventError(script[i])
    BY <2>4, <2>6, <2>7, <2>8
  <2>10. Sides(t, b, k + 1, p) BY <1>5, <1>8, <1>10, <2>1, <2>9 DEF Sides
  <2> QED BY <2>10 DEF t, b
<1>13. CASE (\A q \in 1..k : script[q].type # "error") /\ line.type = "error"
  <2>1. Clean(s, a, k, p) BY <1>13 DEF Sides
  <2>2. ~(s.upstreamError # << >>) BY <2>1 DEF Clean
  <2>3. t = [s EXCEPT !.upstreamError = mapCCEventError(line)]
    BY <1>13, <2>2 DEF ParseOp, parseLine
  <2>4. t.upstreamError = mapCCEventError(line) BY <1>4, <2>3, ErrorField
  <2>5. b.upstreamError = mapCCEventError(line) BY <1>7, <1>13
  <2> HIDE DEF t, b
  <2>6. \A i \in 1..(k + 1) : script[i].type = "error" =>
          t.upstreamError = mapCCEventError(script[i]) /\ b.upstreamError = mapCCEventError(script[i])
    BY <1>9, <1>13, <2>4, <2>5
  <2>7. Sides(t, b, k + 1, p) BY <1>5, <1>8, <1>11, <1>13, <2>6 DEF Sides
  <2> QED BY <2>7 DEF t, b
<1>14. CASE (\A q \in 1..k : script[q].type # "error") /\ line.type # "error"
  <2>1. Clean(s, a, k, p) BY <1>14 DEF Sides
  <2>2. ~(s.upstreamError # << >>) BY <2>1 DEF Clean
  <2>3. t = parseLine(s, line) BY <2>2 DEF ParseOp
  <2>4. Clean(parseLine(s, line), b, k + 1, p) BY <1>14, <2>1, CleanLine
  <2>5. Clean(t, b, k + 1, p) BY <2>3, <2>4
  <2> HIDE DEF t, b
  <2>6. \A i \in 1..(k + 1) : script[i].type # "error" BY <1>9, <1>14
  <2>7. Sides(t, b, k + 1, p) BY <1>5, <1>8, <2>5, <2>6 DEF Sides
  <2> QED BY <2>7 DEF t, b
<1> QED BY <1>12, <1>13, <1>14

LEMMA SidesStart ==
  ASSUME script \in Seq(Lines), NEW p, FinishAt(p)
  PROVE  Sides(newCCStreamState, newCCAccumulator, 0, p)
<1> DEFINE s == newCCStreamState
           a == newCCAccumulator
<1>1. DOMAIN script = 1..Len(script) /\ Len(script) \in Nat BY ScriptIs
<1>2. p \in DOMAIN script BY DEF FinishAt
<1>3. p \in Nat /\ 0 < p BY <1>1, <1>2
<1>4. s \in StreamStates BY NewStreamOK DEF StreamOK
<1>5. Len(s.out) = 0 /\ DOMAIN s.out = {} /\ s.upstreamError = << >> /\ s.usage = << >>
      /\ s.finishReason = ""
  BY DEF newCCStreamState
<1>6. /\ a \in AccStates /\ a.fullText = << >> /\ a.thinkingText = << >> /\ a.toolCalls = << >>
      /\ a.finishReason = "stop" /\ a.usage = << >> /\ a.upstreamError = << >>
  BY NewAccOK
<1> HIDE DEF s, a
<1>7. \A kind : TextsOf(kind, s.out) = << >> BY <1>5, TextsNone
<1>8. Together(s, a)
  <2>1. Seconds(<< >>) = << >> /\ << >> \in Seq(Nat \X STRING) BY DEF Seconds
  <2> QED BY <1>6, <1>7, <2>1, Zenon DEF Together
<1>9. \A i \in 1..0 : FALSE OBVIOUS
<1>10. Before(s, a, 0) BY <1>5, <1>6, <1>9, Zenon DEF Before
<1>11. ~(0 >= p) BY <1>3
<1>12. Clean(s, a, 0, p) BY <1>4, <1>5, <1>6, <1>8, <1>10, <1>11, Zenon DEF Clean
<1>13. Sides(s, a, 0, p) BY <1>4, <1>6, <1>9, <1>12, Zenon DEF Sides
<1> QED BY <1>13 DEF s, a

LEMMA SidesAll ==
  ASSUME script \in Seq(Lines), NEW p, FinishAt(p), \A i, j \in Positions("error") : i = j
  PROVE  Sides(StreamReference, AccReference, Len(script), p)
<1> DEFINE S == {k \in Nat : k <= Len(script) => Sides(ParsePrefix(k), FeedPrefix(k), k, p)}
<1>0. Len(script) \in Nat BY ScriptIs
<1>1. 0 \in S BY NoLine, SidesStart
<1>2. ASSUME NEW k \in Nat, k \in S PROVE k + 1 \in S
  <2> SUFFICES ASSUME k + 1 <= Len(script)
               PROVE  Sides(ParsePrefix(k + 1), FeedPrefix(k + 1), k + 1, p)
    OBVIOUS
  <2>1. k < Len(script) /\ k <= Len(script) BY <1>0
  <2>2. Sides(ParsePrefix(k), FeedPrefix(k), k, p) BY <1>2, <2>1
  <2>3. StreamOK(ParsePrefix(k)) BY <2>1, PrefixOK
  <2>4. /\ ParsePrefix(k + 1) = ParseOp(0, ParsePrefix(k), script[k + 1])
        /\ FeedPrefix(k + 1) = feed(FeedPrefix(k), script[k + 1])
    BY <2>1, OneLine
  <2>5. Sides(ParseOp(0, ParsePrefix(k), script[k + 1]), feed(FeedPrefix(k), script[k + 1]), k + 1, p)
    BY <2>1, <2>2, <2>3, SidesStep
  <2> QED BY <2>4, <2>5
<1> HIDE DEF S
<1>3. \A k \in Nat : k \in S BY <1>1, <1>2, Parse!SetInduction
<1>4. Len(script) \in S BY <1>0, <1>3
<1>5. Sides(ParsePrefix(Len(script)), FeedPrefix(Len(script)), Len(script), p)
  BY <1>0, <1>4 DEF S
<1> QED BY <1>5, AllLines

\* What both readers have of a disciplined response that has arrived.
LEMMA BothDone ==
  ASSUME CutInv, closed, terminated, Disciplined
  PROVE  /\ script \in Seq(Lines)
         /\ \E p : FinishAt(p) /\ Sides(stream, acc, Len(script), p)
<1>1. script \in Seq(Lines) /\ stream = StreamReference BY DEF CutInv
<1>2. acc = AccReference BY CutsFollow DEF CutsDoNotMatter
<1>3. \A i, j \in Positions("error") : i = j BY DEF Disciplined
<1>4. PICK p \in DOMAIN script : FinishAt(p) BY DEF Disciplined, FinishAt
<1>5. Sides(StreamReference, AccReference, Len(script), p) BY <1>1, <1>3, <1>4, SidesAll
<1> QED BY <1>1, <1>2, <1>4, <1>5

\* At the end of a response without an error, its finish line has been read.
LEMMA BothClean ==
  ASSUME script \in Seq(Lines), NEW p, FinishAt(p), NEW s, NEW a, Sides(s, a, Len(script), p),
         Positions("error") = {}
  PROVE  Clean(s, a, Len(script), p) /\ After(s, a)
<1>1. DOMAIN script = 1..Len(script) /\ Len(script) \in Nat BY ScriptIs
<1>2. \A q \in 1..Len(script) : script[q].type # "error" BY <1>1 DEF Positions
<1>3. Clean(s, a, Len(script), p) BY <1>2 DEF Sides
<1>4. p \in 1..Len(script) BY <1>1 DEF FinishAt
<1>5. Len(script) >= p BY <1>1, <1>4
<1> QED BY <1>3, <1>5 DEF Clean

\* streamLoop and finishNonStream report a disciplined response under the same status,
\* however many lines it has and wherever it is cut.
THEOREM VerdictTheorem == Talk => []SameVerdict
<1>1. CutInv => SameVerdict
  <2> SUFFICES ASSUME CutInv, closed, terminated, Disciplined
               PROVE  streamVerdict(stream) = accumulatorVerdict(acc)
    BY DEF SameVerdict
  <2>1. script \in Seq(Lines) BY BothDone
  <2>2. PICK p : FinishAt(p) /\ Sides(stream, acc, Len(script), p) BY BothDone
  <2>3. CASE Positions("error") = {}
    <3>1. Clean(stream, acc, Len(script), p) /\ After(stream, acc) BY <2>1, <2>2, <2>3, BothClean
    <3>2. /\ stream.upstreamError = << >> /\ acc.upstreamError = << >>
          /\ stream.sawFinish = TRUE /\ acc.sawFinish = TRUE
          /\ stream.outputTokens = outputTokensOf(acc.usage)
          /\ stream.finishReason = "upstream_error" <=> acc.finishReason = "upstream_error"
      BY <3>1 DEF Clean, After
    <3> QED BY <3>2 DEF streamVerdict, accumulatorVerdict
  <2>4. CASE Positions("error") # {}
    <3>1. PICK q \in DOMAIN script : script[q].type = "error" BY <2>4 DEF Positions
    <3>2. q \in 1..Len(script) BY <2>1, ScriptIs
    <3>3. /\ stream.upstreamError = mapCCEventError(script[q])
          /\ acc.upstreamError = mapCCEventError(script[q])
      BY <2>2, <3>1, <3>2 DEF Sides
    <3>4. mapCCEventError(script[q]) # << >> BY DEF mapCCEventError
    <3> QED BY <3>3, <3>4 DEF streamVerdict, accumulatorVerdict
  <2> QED BY <2>3, <2>4
<1> QED BY <1>1, TalkCuts, PTL

\* The chunks parseLine makes of a disciplined response without an error add up to the
\* message build makes of it: text, reasoning, tool calls, finish reason and usage.
THEOREM MessageTheorem == Talk => []SameMessage
<1>1. CutInv => SameMessage
  <2> DEFINE b == build(acc)
             f == stream.out[Max(OfKind("finish", Len(stream.out)))]
  <2> SUFFICES ASSUME CutInv, closed, terminated, Disciplined, Positions("error") = {}
               PROVE  /\ Texts("text-delta") = b.text /\ Texts("reasoning-delta") = b.thinking
                      /\ ToolTexts = b.tools
                      /\ f.finish = b.finish /\ f.usage = b.usage
    BY DEF SameMessage
  <2>1. script \in Seq(Lines) BY BothDone
  <2>2. PICK p : FinishAt(p) /\ Sides(stream, acc, Len(script), p) BY BothDone
  <2>3. Clean(stream, acc, Len(script), p) /\ After(stream, acc) BY <2>1, <2>2, BothClean
  <2>4. \A kind : Texts(kind) = TextsOf(kind, stream.out) BY TextsIsFold DEF TextsOf
  <2>5. /\ Texts("text-delta") = acc.fullText /\ Texts("reasoning-delta") = acc.thinkingText
        /\ Seconds(Texts("tool-call")) = acc.toolCalls
    BY <2>3, <2>4 DEF Clean, Together
  <2>6. ToolTexts = acc.toolCalls BY <2>5 DEF ToolTexts, Seconds
  <2>7. PICK g \in 1..Len(stream.out) :
          /\ KindIn(stream.out, "finish", Len(stream.out)) = {g}
          /\ stream.out[g].finish = toOpenAIFinishReason(acc.finishReason)
          /\ stream.out[g].usage = openAIUsage(normalizeUsage(acc.usage))
    BY <2>3 DEF After
  <2>8. Max(OfKind("finish", Len(stream.out))) = g
    <3>1. OfKind("finish", Len(stream.out)) = {g} BY <2>7 DEF OfKind, KindIn
    <3>2. g \in Int OBVIOUS
    <3>3. Max({g}) = g BY <3>2, MaxIs
    <3> QED BY <3>1, <3>3
  <2>9. /\ b.text = acc.fullText /\ b.thinking = acc.thinkingText /\ b.tools = acc.toolCalls
        /\ b.finish = toOpenAIFinishReason(acc.finishReason)
        /\ b.usage = openAIUsage(normalizeUsage(acc.usage))
    BY DEF build
  <2> HIDE DEF b
  <2> QED BY <2>5, <2>6, <2>7, <2>8, <2>9
<1> QED BY <1>1, TalkCuts, PTL

-----------------------------------------------------------------------------
(* Which tool calls the readers have: those of the response, numbered.     *)

\* The first n calls of a stream, whose tokens are in S.
Tokens(ts, n, S) ==
  /\ ts \in Seq(Nat \X STRING) /\ Len(ts) = n
  /\ \A i \in 1..n : ts[i][1] = i - 1 /\ ts[i][2] \in S

TokensOK(s, S) == StreamOK(s) /\ Tokens(TextsOf("tool-call", s.out), s.toolCallIndex, S)

LEMMA TokensMore ==
  ASSUME NEW S, NEW n \in Nat, NEW ts, Tokens(ts, n, S), NEW x \in STRING, x \in S
  PROVE  Tokens(Append(ts, <<n, x>>), n + 1, S)
<1> DEFINE T == Nat \X STRING
           e == <<n, x>>
           us == Append(ts, e)
<1>1. e \in T /\ e[1] = n /\ e[2] = x OBVIOUS
<1>2. ts \in Seq(T) /\ Len(ts) = n /\ \A i \in 1..n : ts[i][1] = i - 1 /\ ts[i][2] \in S
  BY DEF Tokens
<1> HIDE DEF e
<1>3. us \in Seq(T) /\ Len(us) = n + 1 /\ (\A i \in 1..n : us[i] = ts[i]) /\ us[n + 1] = e
  BY <1>1, <1>2, AppendIs
<1> HIDE DEF us
<1>4. ASSUME NEW i \in 1..(n + 1) PROVE us[i][1] = i - 1 /\ us[i][2] \in S
  <2>1. CASE i \in 1..n BY <1>2, <1>3, <2>1
  <2>2. CASE i = n + 1
    <3>1. us[i] = e BY <1>3, <2>2
    <3>2. i - 1 = n BY <2>2
    <3> QED BY <1>1, <3>1, <3>2
  <2> QED BY <2>1, <2>2
<1> QED BY <1>3, <1>4 DEF Tokens, us, e

\* What a line does to the number of tool calls.
LEMMA ContentCounts ==
  ASSUME NEW s \in StreamStates, NEW line
  PROVE  streamContent(s, line).toolCallIndex = s.toolCallIndex
<1> DEFINE c == makeChunk(line.type, line.text, s.chunkIndex = 0, "", <<0, 0, 0>>)
           p == Append(s.out, c)
           i1 == s.chunkIndex + 1
           t == streamContent(s, line)
<1>1. t = [s EXCEPT !.chunkIndex = i1, !.out = p] BY DEF streamContent
<1> HIDE DEF p, i1, t
<1>2. t.toolCallIndex = s.toolCallIndex BY <1>1 DEF StreamStates
<1> QED BY <1>2 DEF t

LEMMA ToolCallCounts ==
  ASSUME NEW s \in StreamStates, NEW line
  PROVE  streamToolCall(s, line).toolCallIndex = s.toolCallIndex + 1
<1> DEFINE c == makeChunk("tool-call", <<s.toolCallIndex, line.text>>, s.chunkIndex = 0, "",
                          <<0, 0, 0>>)
           p == Append(s.out, c)
           i1 == s.chunkIndex + 1
           j1 == s.toolCallIndex + 1
           t == streamToolCall(s, line)
<1>1. t = [s EXCEPT !.chunkIndex = i1, !.toolCallIndex = j1, !.out = p] BY DEF streamToolCall
<1> HIDE DEF p, i1, j1, t
<1>2. t.toolCallIndex = j1 BY <1>1 DEF StreamStates
<1> QED BY <1>2 DEF t, j1

LEMMA OtherTexts ==
  ASSUME NEW out \in Seq(Chunks), NEW c \in Chunks, c.kind # "tool-call"
  PROVE  TextsOf("tool-call", Append(out, c)) = TextsOf("tool-call", out)
<1>1. TextsOf("tool-call", Append(out, c)) = TextOp("tool-call", TextsOf("tool-call", out), c)
  BY TextsMore
<1> QED BY <1>1 DEF TextOp

LEMMA SameTokens ==
  ASSUME NEW S, NEW s, TokensOK(s, S), NEW t, StreamOK(t), t.toolCallIndex = s.toolCallIndex,
         \/ t.out = s.out
         \/ \E c \in Chunks : c.kind # "tool-call" /\ t.out = Append(s.out, c)
  PROVE  TokensOK(t, S)
<1>1. s.out \in Seq(Chunks) BY DEF TokensOK, StreamOK, StreamStates
<1>2. TextsOf("tool-call", t.out) = TextsOf("tool-call", s.out) BY <1>1, OtherTexts
<1> QED BY <1>2 DEF TokensOK

LEMMA LineTokens ==
  ASSUME NEW S, NEW s, TokensOK(s, S), NEW line \in Lines, line.type = "tool-call" => line.text \in S
  PROVE  TokensOK(ParseOp(0, s, line), S)
<1>1. s \in StreamStates /\ StreamOK(s) BY DEF TokensOK, StreamOK
<1>2. PICK t : t = ParseOp(0, s, line) OBVIOUS
<1>3. StreamOK(t) BY <1>1, <1>2, LineOK
<1>4. CASE s.upstreamError # << >>
  <2>1. t = s BY <1>2, <1>4 DEF ParseOp
  <2> QED BY <1>2, <2>1
<1>5. CASE s.upstreamError = << >>
  <2>0. t = parseLine(s, line) BY <1>2, <1>5 DEF ParseOp
  <2>1. CASE line.type = "error"
    <3>1. t = [s EXCEPT !.upstreamError = mapCCEventError(line)] BY <2>0, <2>1 DEF parseLine
    <3>2. t.out = s.out /\ t.toolCallIndex = s.toolCallIndex BY <1>1, <3>1 DEF StreamStates
    <3> QED BY <1>2, <1>3, <3>2, SameTokens
  <2>2. CASE line.type \in {"text-delta", "reasoning-delta"} /\ line.text # ""
    <3>1. t = streamContent(s, line) BY <2>0, <2>2 DEF parseLine
    <3>2. AddsContent(t, s, line.type, line.text) BY <1>1, <2>2, <3>1, ContentAdds
    <3>3. t.toolCallIndex = s.toolCallIndex BY <1>1, <3>1, ContentCounts
    <3>4. \E c \in Chunks : c.kind # "tool-call" /\ t.out = Append(s.out, c)
      <4>1. line.type # "tool-call" BY <2>2
      <4> QED BY <3>2, <4>1 DEF AddsContent
    <3> QED BY <1>2, <1>3, <3>3, <3>4, SameTokens
  <2>3. CASE line.type = "tool-call"
    <3>1. t = streamToolCall(s, line) BY <2>0, <2>3 DEF parseLine
    <3>2. AddsContent(t, s, "tool-call", <<s.toolCallIndex, line.text>>) BY <1>1, <3>1, ToolCallAdds
    <3>3. t.toolCallIndex = s.toolCallIndex + 1 BY <1>1, <3>1, ToolCallCounts
    <3>4. PICK n, x, ts : n = s.toolCallIndex /\ x = line.text /\ ts = TextsOf("tool-call", s.out)
      OBVIOUS
    <3>5. n \in Nat /\ s.out \in Seq(Chunks) BY <1>1, <3>4 DEF StreamStates
    <3>6. x \in STRING /\ x \in S BY <2>3, <3>4 DEF Lines
    <3>7. Tokens(ts, n, S) BY <3>4 DEF TokensOK
    <3>8. Tokens(Append(ts, <<n, x>>), n + 1, S) BY <3>5, <3>6, <3>7, TokensMore
    <3>9. PICK c \in Chunks : c.kind = "tool-call" /\ c.text = <<n, x>> /\ t.out = Append(s.out, c)
      BY <3>2, <3>4 DEF AddsContent
    <3>10. TextsOf("tool-call", t.out) = TextOp("tool-call", ts, c) BY <3>4, <3>5, <3>9, TextsMore
    <3>11. TextsOf("tool-call", t.out) = Append(ts, <<n, x>>) BY <3>9, <3>10 DEF TextOp
    <3>12. Tokens(TextsOf("tool-call", t.out), t.toolCallIndex, S)
      BY <3>3, <3>4, <3>8, <3>11, Zenon
    <3> QED BY <1>2, <1>3, <3>12 DEF TokensOK
  <2>4. CASE line.type = "finish-step"
    <3>1. t = streamFinishStep(s, line) BY <2>0, <2>4 DEF parseLine
    <3>2. t.out = s.out BY <1>1, <3>1, FinishStepTakes DEF StepTaken
    <3>3. t.toolCallIndex = s.toolCallIndex BY <1>1, <3>1 DEF streamFinishStep, StreamStates
    <3> QED BY <1>2, <1>3, <3>2, <3>3, SameTokens
  <2>5. CASE line.type = "finish"
    <3>1. t = streamFinish(s, line) BY <2>0, <2>5 DEF parseLine
    <3>2. PICK c : c = LastChunk(s, line) OBVIOUS
    <3>3. t.out = Append(s.out, c) /\ t.toolCallIndex = s.toolCallIndex
      BY <1>1, <3>1, <3>2, FinishFields DEF FinishedIs, StateIs
    <3>4. c \in Chunks /\ c.kind = "finish" BY <1>1, <3>2, FinishFields DEF ChunkIs
    <3>5. c.kind # "tool-call" BY <3>4
    <3> QED BY <1>2, <1>3, <3>3, <3>4, <3>5, SameTokens
  <2>6. CASE /\ line.type \notin {"error", "tool-call", "finish-step", "finish"}
             /\ ~(line.type \in {"text-delta", "reasoning-delta"} /\ line.text # "")
    <3>1. t = s BY <2>0, <2>6 DEF parseLine
    <3> QED BY <1>2, <3>1
  <2> QED BY <2>1, <2>2, <2>3, <2>4, <2>5, <2>6
<1> QED BY <1>4, <1>5

\* The tool calls of a response have their tokens in S.
CallsIn(S) == \A j \in DOMAIN script : script[j].type = "tool-call" => script[j].text \in S

LEMMA PrefixTokens ==
  ASSUME script \in Seq(Lines), NEW S, CallsIn(S), NEW k \in Nat, k <= Len(script)
  PROVE  TokensOK(ParsePrefix(k), S)
<1> DEFINE P == {j \in Nat : j <= Len(script) => TokensOK(ParsePrefix(j), S)}
<1>0. Len(script) \in Nat /\ DOMAIN script = 1..Len(script) BY ScriptIs
<1>1. 0 \in P
  <2>1. PICK s : s = newCCStreamState OBVIOUS
  <2>2. StreamOK(s) /\ ParsePrefix(0) = s BY <2>1, NoLine, NewStreamOK
  <2>3. s.out = << >> /\ s.toolCallIndex = 0 BY <2>1 DEF newCCStreamState
  <2>4. TextsOf("tool-call", s.out) = << >> BY <2>3, TextsNone
  <2>5. Tokens(<< >>, 0, S) BY DEF Tokens
  <2>6. TokensOK(s, S) BY <2>2, <2>3, <2>4, <2>5 DEF TokensOK
  <2> QED BY <2>2, <2>6
<1>2. ASSUME NEW j \in Nat, j \in P PROVE j + 1 \in P
  <2> SUFFICES ASSUME j + 1 <= Len(script) PROVE TokensOK(ParsePrefix(j + 1), S) OBVIOUS
  <2>1. j < Len(script) /\ j <= Len(script) /\ j + 1 \in DOMAIN script BY <1>0
  <2>2. TokensOK(ParsePrefix(j), S) BY <1>2, <2>1
  <2>3. PICK line : line = script[j + 1] OBVIOUS
  <2>4. /\ ParsePrefix(j + 1) = ParseOp(0, ParsePrefix(j), line) /\ line \in Lines
    BY <2>1, <2>3, OneLine
  <2>5. line.type = "tool-call" => line.text \in S BY <2>1, <2>3 DEF CallsIn
  <2> QED BY <2>2, <2>4, <2>5, LineTokens
<1> HIDE DEF P
<1>3. \A j \in Nat : j \in P BY <1>1, <1>2, Parse!SetInduction
<1> QED BY <1>3 DEF P

LEMMA StreamTokens ==
  ASSUME CutInv, NEW S, CallsIn(S), NEW ts, ts = Texts("tool-call")
  PROVE  Tokens(ts, Len(ts), S)
<1>1. script \in Seq(Lines) /\ terminated \in BOOLEAN /\ sent \in Nat /\ sent <= Len(Bytes)
      /\ closed \in BOOLEAN
  BY DEF CutInv
<1>2. TokensOK(stream, S)
  <2>1. CASE closed
    <3>1. stream = ParsePrefix(Len(script)) BY <1>1, <2>1, AllLines DEF CutInv
    <3>2. Len(script) \in Nat /\ Len(script) <= Len(script) BY <1>1
    <3> QED BY <1>1, <3>1, <3>2, PrefixTokens
  <2>2. CASE ~closed
    <3>1. stream = ParsePrefix(sent \div 3) BY <2>2 DEF CutInv
    <3>2. sent \div 3 \in Nat /\ sent \div 3 <= Len(script) BY <1>1, Arrived
    <3> QED BY <1>1, <3>1, <3>2, PrefixTokens
  <2> QED BY <1>1, <2>1, <2>2
<1>3. ts = TextsOf("tool-call", stream.out) BY TextsIsFold DEF TextsOf
<1>4. Tokens(ts, stream.toolCallIndex, S) BY <1>2, <1>3 DEF TokensOK
<1> QED BY <1>4 DEF Tokens

\* A collected response's calls.
GatheredOK(a, S) == a \in AccStates /\ \A i \in 1..Len(a.toolCalls) : a.toolCalls[i] \in S

LEMMA FeedTokens ==
  ASSUME NEW S, NEW a, GatheredOK(a, S), NEW line \in Lines, line.type = "tool-call" => line.text \in S
  PROVE  GatheredOK(feed(a, line), S)
<1>1. a \in AccStates BY DEF GatheredOK
<1>2. PICK b : b = feed(a, line) OBVIOUS
<1>3. PICK q, x : q = a.toolCalls /\ x = line.text OBVIOUS
<1>4. q \in Seq(STRING) /\ x \in STRING BY <1>1, <1>3 DEF AccStates, Lines
<1>5. \A i \in 1..Len(q) : q[i] \in S BY <1>3 DEF GatheredOK
<1>6. CASE line.type = "error"
  <2>1. b = [a EXCEPT !.upstreamError = mapCCEventError(line)] BY <1>2, <1>6 DEF feed
  <2>2. b.toolCalls = q BY <1>1, <1>3, <2>1 DEF AccStates
  <2>3. b \in AccStates BY <1>1, <1>2, <1>6, FeedError
  <2> QED BY <1>2, <1>5, <2>2, <2>3 DEF GatheredOK
<1>7. CASE line.type # "error"
  <2>1. Fed(b, a, line) BY <1>1, <1>2, <1>7, FeedIs
  <2>2. b \in AccStates /\ b.toolCalls = IF line.type = "tool-call" THEN Append(q, x) ELSE q
    BY <1>3, <2>1 DEF Fed
  <2>3. ASSUME line.type = "tool-call" PROVE \A i \in 1..Len(b.toolCalls) : b.toolCalls[i] \in S
    <3>1. x \in S BY <1>3, <2>3
    <3>2. PICK r : r = Append(q, x) OBVIOUS
    <3>3. Len(r) = Len(q) + 1 /\ (\A i \in 1..Len(q) : r[i] = q[i]) /\ r[Len(q) + 1] = x
      BY <1>4, <3>2, AppendIs
    <3>4. PICK n : n = Len(q) OBVIOUS
    <3>5. n \in Nat BY <1>4, <3>4
    <3>6. \A i \in 1..(n + 1) : i \in 1..n \/ i = n + 1 BY <3>5
    <3>7. \A i \in 1..(n + 1) : r[i] \in S BY <1>5, <3>1, <3>3, <3>4, <3>6
    <3> QED BY <2>2, <2>3, <3>2, <3>3, <3>4, <3>7
  <2>4. \A i \in 1..Len(b.toolCalls) : b.toolCalls[i] \in S BY <1>5, <2>2, <2>3
  <2> QED BY <1>2, <2>2, <2>4 DEF GatheredOK
<1> QED BY <1>6, <1>7

LEMMA FeedPrefixTokens ==
  ASSUME script \in Seq(Lines), NEW S, CallsIn(S), NEW k \in Nat, k <= Len(script)
  PROVE  GatheredOK(FeedPrefix(k), S)
<1> DEFINE P == {j \in Nat : j <= Len(script) => GatheredOK(FeedPrefix(j), S)}
<1>0. Len(script) \in Nat /\ DOMAIN script = 1..Len(script) BY ScriptIs
<1>1. 0 \in P
  <2>1. PICK a : a = newCCAccumulator OBVIOUS
  <2>2. FeedPrefix(0) = a /\ a \in AccStates /\ a.toolCalls = << >> BY <2>1, NoLine, NewAccOK
  <2>3. Len(a.toolCalls) = 0 BY <2>2
  <2>4. GatheredOK(a, S) BY <2>2, <2>3 DEF GatheredOK
  <2> QED BY <2>2, <2>4
<1>2. ASSUME NEW j \in Nat, j \in P PROVE j + 1 \in P
  <2> SUFFICES ASSUME j + 1 <= Len(script) PROVE GatheredOK(FeedPrefix(j + 1), S) OBVIOUS
  <2>1. j < Len(script) /\ j <= Len(script) /\ j + 1 \in DOMAIN script BY <1>0
  <2>2. GatheredOK(FeedPrefix(j), S) BY <1>2, <2>1
  <2>3. PICK line : line = script[j + 1] OBVIOUS
  <2>4. FeedPrefix(j + 1) = feed(FeedPrefix(j), line) /\ line \in Lines BY <2>1, <2>3, OneLine
  <2>5. line.type = "tool-call" => line.text \in S BY <2>1, <2>3 DEF CallsIn
  <2> QED BY <2>2, <2>4, <2>5, FeedTokens
<1> HIDE DEF P
<1>3. \A j \in Nat : j \in P BY <1>1, <1>2, Parse!SetInduction
<1> QED BY <1>3 DEF P

LEMMA CollectedTokens ==
  ASSUME CutInv, NEW S, CallsIn(S)
  PROVE  GatheredOK(acc, S)
<1>1. /\ script \in Seq(Lines) /\ terminated \in BOOLEAN /\ sent \in Nat /\ sent <= Len(Bytes)
      /\ acc = FeedPrefix(sent \div 3)
  BY DEF CutInv
<1>2. sent \div 3 \in Nat /\ sent \div 3 <= Len(script) BY <1>1, Arrived
<1> QED BY <1>1, <1>2, FeedPrefixTokens

=============================================================================
