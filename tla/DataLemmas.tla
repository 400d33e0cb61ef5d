---------------------------- MODULE DataLemmas ----------------------------
(***************************************************************************)
(* Facts about numbers and sequences that the other proofs share. A fact   *)
(* about every number of a recursive function is proved from the least     *)
(* number that fails it.                                                   *)
(***************************************************************************)
EXTENDS Integers, Sequences, SequencesExt, SequenceTheorems, WellFoundedInduction, TLAPS

LEMMA LeastIn ==
  ASSUME NEW S \in SUBSET Nat, S # {}
  PROVE  \E m \in S : \A k \in S : m <= k
<1>1. PICK x \in S : \A y \in S : ~ (<<y, x>> \in OpToRel(<, Nat))
  BY NatLessThanWellFounded, WFMin
<1>2. \A y \in Nat, z \in Nat : y < z => <<y, z>> \in OpToRel(<, Nat)
  BY DEF OpToRel
<1>3. ASSUME NEW y \in S PROVE x <= y
  <2>1. x \in Nat /\ y \in Nat
    OBVIOUS
  <2>2. ~ (y < x)
    BY <1>1, <1>2, <2>1
  <2> QED BY <2>1, <2>2
<1> QED BY <1>3

LEMMA GreatestIn ==
  ASSUME NEW S \in SUBSET Nat, S # {}, NEW b \in Nat, \A k \in S : k <= b
  PROVE  \E m \in S : \A k \in S : k <= m
<1> DEFINE T == {b - k : k \in S}
<1>1. T \in SUBSET Nat /\ T # {}
  <2>1. \A k \in S : k \in Nat /\ b - k \in Nat
    OBVIOUS
  <2> QED BY <2>1
<1>2. PICK t \in T : \A u \in T : t <= u
  BY <1>1, LeastIn
<1>3. PICK m \in S : t = b - m
  OBVIOUS
<1>4. ASSUME NEW k \in S PROVE k <= m
  <2>1. t <= b - k
    BY <1>2
  <2> QED BY <1>3, <2>1
<1> QED BY <1>4

LEMMA PartType ==
  ASSUME NEW S, NEW s \in Seq(S), NEW m \in 1 .. Len(s) + 1, NEW n \in 0 .. Len(s)
  PROVE  SubSeq(s, m, n) \in Seq(S)
BY SubSeqProperties

LEMMA ReverseType ==
  ASSUME NEW S, NEW s \in Seq(S)
  PROVE  Reverse(s) \in Seq(S)
<1> DEFINE r == [i \in 1 .. Len(s) |-> s[(Len(s) - i) + 1]]
<1>1. \A i \in 1 .. Len(s) : r[i] \in S
  OBVIOUS
<1>2. r \in [1 .. Len(s) -> S]
  BY <1>1
<1> QED BY <1>2 DEF Reverse

LEMMA Concat ==
  ASSUME NEW S
  PROVE  \A a \in Seq(S), b \in Seq(S) :
           /\ a \o b \in Seq(S) /\ Len(a \o b) = Len(a) + Len(b)
           /\ \A i \in 1 .. Len(a) : (a \o b)[i] = a[i]
           /\ \A i \in 1 .. Len(b) : (a \o b)[Len(a) + i] = b[i]
<1> SUFFICES ASSUME NEW a \in Seq(S), NEW b \in Seq(S)
             PROVE  /\ a \o b \in Seq(S) /\ Len(a \o b) = Len(a) + Len(b)
                    /\ \A i \in 1 .. Len(a) : (a \o b)[i] = a[i]
                    /\ \A i \in 1 .. Len(b) : (a \o b)[Len(a) + i] = b[i]
  OBVIOUS
<1> QED BY ConcatProperties

Associates(S) ==
  \A a \in Seq(S), b \in Seq(S), c \in Seq(S) : (a \o b) \o c = a \o (b \o c)

LEMMA Associative == ASSUME NEW S PROVE Associates(S)
BY ConcatAssociative DEF Associates

(* The middle of three. *)
LEMMA Middle ==
  ASSUME NEW S, NEW a \in Seq(S), NEW v \in Seq(S), NEW r \in Seq(S)
  PROVE  SubSeq(a \o (v \o r), Len(a) + 1, Len(a) + Len(v)) = v
<1> DEFINE p == a \o (v \o r)
           m == Len(a) + 1
           n == Len(a) + Len(v)
<1>1. Len(a) \in Nat /\ Len(v) \in Nat /\ Len(r) \in Nat
  OBVIOUS
<1>2. v \o r \in Seq(S) /\ Len(v \o r) = Len(v) + Len(r)
  BY Concat
<1>3. p \in Seq(S) /\ Len(p) = Len(a) + Len(v) + Len(r)
  BY <1>1, <1>2, Concat
<1>4. \A i \in 1 .. Len(v) : p[Len(a) + i] = v[i]
  <2> TAKE i \in 1 .. Len(v)
  <2>1. i \in 1 .. Len(v \o r)
    BY <1>1, <1>2
  <2>2. p[Len(a) + i] = (v \o r)[i]
    BY <1>2, <2>1, Concat
  <2>3. (v \o r)[i] = v[i]
    BY Concat
  <2> QED BY <2>2, <2>3
<1> HIDE DEF p
<1>5. m \in Int /\ n \in Int /\ \A i \in m .. n : p[i] \in S
  BY <1>1, <1>3
<1> DEFINE sub == SubSeq(p, m, n)
<1>6. sub \in Seq(S) /\ Len(sub) = Len(v) /\ \A i \in 1 .. Len(v) : sub[i] = p[Len(a) + i]
  <2> HIDE DEF m, n
  <2>1. /\ sub \in Seq(S)
        /\ Len(sub) = IF m <= n THEN n - m + 1 ELSE 0
        /\ \A i \in 1 .. n - m + 1 : sub[i] = p[m + i - 1]
    BY <1>5, SubSeqProperties
  <2>2. \A i \in 1 .. Len(v) : m + i - 1 = Len(a) + i
    BY <1>1 DEF m
  <2>3. n - m + 1 = Len(v) /\ (m <= n <=> Len(v) # 0)
    BY <1>1 DEF m, n
  <2> QED BY <1>1, <2>1, <2>2, <2>3
<1> HIDE DEF sub
<1>7. sub = v
  BY <1>4, <1>6, SeqEqual
<1> QED BY <1>7 DEF sub, m, n, p

LEMMA PrefixElements ==
  ASSUME NEW S, NEW s \in Seq(S), NEW m \in 0 .. Len(s)
  PROVE  /\ SubSeq(s, 1, m) \in Seq(S) /\ Len(SubSeq(s, 1, m)) = m
         /\ \A i \in 1 .. m : SubSeq(s, 1, m)[i] = s[i]
BY SubSeqProperties

(* What is cut behind the first of two. *)
LEMMA PrefixOfTwo ==
  ASSUME NEW S, NEW a \in Seq(S), NEW b \in Seq(S), NEW m \in 0 .. Len(b)
  PROVE  SubSeq(a \o b, 1, Len(a) + m) = a \o SubSeq(b, 1, m)
<1> DEFINE p    == a \o b
           q    == SubSeq(b, 1, m)
           left == SubSeq(p, 1, Len(a) + m)
           right == a \o q
<1>1. Len(a) \in Nat /\ Len(b) \in Nat /\ m \in Nat /\ m <= Len(b)
  OBVIOUS
<1>2. q \in Seq(S) /\ Len(q) = m /\ \A i \in 1 .. m : q[i] = b[i]
  BY PrefixElements
<1>3. /\ p \in Seq(S) /\ Len(p) = Len(a) + Len(b)
      /\ \A i \in 1 .. Len(a) : p[i] = a[i]
      /\ \A i \in 1 .. Len(b) : p[Len(a) + i] = b[i]
  BY Concat
<1> HIDE DEF p, q
<1>4. Len(a) + m \in 0 .. Len(p)
  BY <1>1, <1>3
<1>5. /\ left \in Seq(S) /\ Len(left) = Len(a) + m
      /\ \A i \in 1 .. Len(a) + m : left[i] = p[i]
  <2> DEFINE n == Len(a) + m
  <2>1. n \in 0 .. Len(p)
    BY <1>4
  <2> HIDE DEF n
  <2>2. /\ SubSeq(p, 1, n) \in Seq(S) /\ Len(SubSeq(p, 1, n)) = n
        /\ \A i \in 1 .. n : SubSeq(p, 1, n)[i] = p[i]
    BY <1>3, <2>1, PrefixElements
  <2> QED BY <2>2, Zenon DEF n
<1>6. /\ right \in Seq(S) /\ Len(right) = Len(a) + Len(q)
      /\ \A i \in 1 .. Len(a) : right[i] = a[i]
      /\ \A i \in 1 .. Len(q) : right[Len(a) + i] = q[i]
  <2>1. \A y \in Seq(S) : /\ a \o y \in Seq(S) /\ Len(a \o y) = Len(a) + Len(y)
                          /\ \A i \in 1 .. Len(a) : (a \o y)[i] = a[i]
                          /\ \A i \in 1 .. Len(y) : (a \o y)[Len(a) + i] = y[i]
    BY Concat
  <2> QED BY <1>2, <2>1, Zenon
<1> HIDE DEF left, right
<1>7. ASSUME NEW i \in 1 .. Len(a) + m PROVE left[i] = right[i]
  <2>1. CASE i \in 1 .. Len(a)
    BY <1>3, <1>5, <1>6, <2>1
  <2>2. CASE i \notin 1 .. Len(a)
    <3>1. PICK j \in 1 .. m : i = Len(a) + j
      <4>1. i - Len(a) \in 1 .. m /\ i = Len(a) + (i - Len(a))
        BY <1>1, <2>2
      <4> QED BY <4>1
    <3>2. j \in 1 .. Len(b) /\ j \in 1 .. Len(q)
      BY <1>1, <1>2
    <3> QED BY <1>2, <1>3, <1>5, <1>6, <3>1, <3>2
  <2> QED BY <2>1, <2>2
<1>8. Len(left) = Len(right)
  BY <1>2, <1>5, <1>6
<1>9. left = right
  BY <1>5, <1>6, <1>7, <1>8, SeqEqual
<1> QED BY <1>9, Zenon DEF left, right, p, q

(* One of three, element by element. *)
LEMMA Between ==
  ASSUME NEW S, NEW a \in Seq(S), NEW f \in Seq(S), NEW r \in Seq(S)
  PROVE  /\ (a \o f) \o r \in Seq(S) /\ Len((a \o f) \o r) = Len(a) + Len(f) + Len(r)
         /\ \A i \in 1 .. Len(f) : ((a \o f) \o r)[Len(a) + i] = f[i]
<1> DEFINE af == a \o f
<1>1. af \in Seq(S) /\ Len(af) = Len(a) + Len(f)
  BY ConcatProperties
<1>2. \A i \in 1 .. Len(f) : af[Len(a) + i] = f[i]
  BY Concat
<1>3. \A i \in 1 .. Len(f) : Len(a) + i \in 1 .. Len(a) + Len(f)
  OBVIOUS
<1> HIDE DEF af
<1>4. af \o r \in Seq(S) /\ Len(af \o r) = Len(af) + Len(r)
  BY <1>1, ConcatProperties
<1>5. \A i \in 1 .. Len(af) : (af \o r)[i] = af[i]
  BY <1>1, Concat
<1>6. \A i \in 1 .. Len(f) : (af \o r)[Len(a) + i] = f[i]
  BY <1>1, <1>2, <1>3, <1>5
<1> QED BY <1>1, <1>4, <1>6 DEF af

(* A field of a head and a value, between others. *)
LEMMA FieldAmong ==
  ASSUME NEW S, NEW a \in Seq(S), NEW head \in Seq(S), NEW v \in Seq(S), NEW r \in Seq(S)
  PROVE  LET p == (a \o (head \o v)) \o r
         IN /\ p \in Seq(S) /\ Len(p) = Len(a) + Len(head) + Len(v) + Len(r)
            /\ \A i \in 1 .. Len(head) : p[Len(a) + i] = head[i]
            /\ SubSeq(p, Len(a) + Len(head) + 1, Len(a) + Len(head) + Len(v)) = v
<1> DEFINE p == (a \o (head \o v)) \o r
<1>1. Len(a) \in Nat /\ Len(v) \in Nat /\ Len(r) \in Nat /\ Len(head) \in Nat
  OBVIOUS
<1>2. head \o v \in Seq(S) /\ Len(head \o v) = Len(head) + Len(v)
  BY ConcatProperties
<1>3. \A i \in 1 .. Len(head) : (head \o v)[i] = head[i]
  BY Concat
<1>4. \A f \in Seq(S) : (a \o f) \o r \in Seq(S)
  BY Between
<1>5. \A f \in Seq(S) : Len((a \o f) \o r) = Len(a) + Len(f) + Len(r)
  BY Between
<1>6. \A f \in Seq(S) : \A i \in 1 .. Len(f) : ((a \o f) \o r)[Len(a) + i] = f[i]
  BY Between
<1>7. p \in Seq(S) /\ Len(p) = Len(a) + Len(head \o v) + Len(r)
  BY <1>2, <1>4, <1>5, Zenon
<1>8. \A i \in 1 .. Len(head \o v) : p[Len(a) + i] = (head \o v)[i]
  BY <1>2, <1>6, Zenon
<1>9. \A ah \in Seq(S) : SubSeq(ah \o (v \o r), Len(ah) + 1, Len(ah) + Len(v)) = v
  BY Middle
<1>10. a \o head \in Seq(S) /\ Len(a \o head) = Len(a) + Len(head)
  BY ConcatProperties
<1>11. SubSeq((a \o head) \o (v \o r), Len(a \o head) + 1, Len(a \o head) + Len(v)) = v
  BY <1>9, <1>10, Zenon
<1> HIDE DEF p
<1>12. (a \o (head \o v)) \o r = (a \o head) \o (v \o r)
  <2>1. \A x \in Seq(S), y \in Seq(S), z \in Seq(S) : (x \o y) \o z = x \o (y \o z)
    BY ConcatAssociative
  <2>2. (a \o head) \o v = a \o (head \o v)
    BY <2>1, Zenon
  <2>3. ((a \o head) \o v) \o r = (a \o head) \o (v \o r)
    BY <1>10, <2>1, Zenon
  <2> QED BY <2>2, <2>3, Zenon
<1>13. Len(p) = Len(a) + Len(head) + Len(v) + Len(r)
  <2>1. Len(p) = Len(a) + (Len(head) + Len(v)) + Len(r)
    BY <1>2, <1>7, Zenon
  <2> QED BY <1>1, <2>1
<1>14. \A i \in 1 .. Len(head) : i \in 1 .. Len(head) + Len(v)
  BY <1>1
<1>15. \A i \in 1 .. Len(head) : p[Len(a) + i] = head[i]
  BY <1>2, <1>3, <1>8, <1>14, Zenon
<1>16. SubSeq(p, Len(a) + Len(head) + 1, Len(a) + Len(head) + Len(v)) = v
  BY <1>10, <1>11, <1>12, Zenon DEF p
<1> QED BY <1>7, <1>13, <1>15, <1>16, Zenon DEF p

LEMMA FieldBetween ==
  ASSUME NEW S, NEW a \in Seq(S), NEW t \in S, NEW n \in S, NEW v \in Seq(S), NEW r \in Seq(S)
  PROVE  LET p == (a \o (<<t, n>> \o v)) \o r
         IN /\ p \in Seq(S) /\ Len(p) = Len(a) + 2 + Len(v) + Len(r)
            /\ p[Len(a) + 1] = t /\ p[Len(a) + 2] = n
            /\ SubSeq(p, Len(a) + 3, Len(a) + 2 + Len(v)) = v
<1> DEFINE head == <<t, n>>
           P(h) == (a \o (h \o v)) \o r
           Typed(h)  == P(h) \in Seq(S)
           Long(h)   == Len(P(h)) = Len(a) + Len(h) + Len(v) + Len(r)
           Starts(h) == \A i \in 1 .. Len(h) : P(h)[Len(a) + i] = h[i]
           Holds(h)  == SubSeq(P(h), Len(a) + Len(h) + 1, Len(a) + Len(h) + Len(v)) = v
<1>1. head \in Seq(S) /\ Len(head) = 2 /\ head[1] = t /\ head[2] = n
  OBVIOUS
<1>2. ASSUME NEW h \in Seq(S) PROVE Typed(h) /\ Long(h) /\ Starts(h) /\ Holds(h)
  BY FieldAmong
<1> HIDE DEF Typed, Long, Starts, Holds
<1>3. Typed(head) /\ Long(head) /\ Starts(head) /\ Holds(head)
  BY <1>1, <1>2, Zenon
<1>4. 1 \in 1 .. 2 /\ 2 \in 1 .. 2 /\ Len(a) + 2 + 1 = Len(a) + 3
  OBVIOUS
<1> HIDE DEF head, P
<1>5. Len(P(head)) = Len(a) + 2 + Len(v) + Len(r)
  BY <1>1, <1>3, Zenon DEF Long
<1>6. P(head)[Len(a) + 1] = t /\ P(head)[Len(a) + 2] = n
  BY <1>1, <1>3, <1>4, Zenon DEF Starts
<1>7. SubSeq(P(head), Len(a) + 3, Len(a) + 2 + Len(v)) = v
  BY <1>1, <1>3, <1>4, Zenon DEF Holds
<1>8. P(head) \in Seq(S)
  BY <1>3, Zenon DEF Typed
<1> QED BY <1>5, <1>6, <1>7, <1>8, Zenon DEF P, head

-----------------------------------------------------------------------------
(* What a left-to-right parser collects: at i it takes head[i] and goes on at *)
(* next[i], which is further on, until it stops.                              *)
GoesOn(n, stop, next) == \A i \in 1 .. n : i \notin stop => next[i] \in i + 1 .. n

ParsesFrom(g, k, n, stop, head, next) ==
  g = [i \in k .. n |-> IF i \in stop THEN <<>> ELSE head[i] \o g[next[i]]]

LEMMA ParserExists ==
  ASSUME NEW n \in Nat, NEW stop, NEW head, NEW next, GoesOn(n, stop, next)
  PROVE  \E g : ParsesFrom(g, 1, n, stop, head, next)
<1> DEFINE Lacking == {m \in Nat : m <= n /\ ~ \E g : ParsesFrom(g, n + 1 - m, n, stop, head, next)}
<1>1. ASSUME Lacking # {} PROVE FALSE
  <2>1. PICK m \in Lacking : \A k \in Lacking : m <= k
    BY <1>1, LeastIn
  <2>2. CASE m = 0
    <3> DEFINE h == [i \in n + 1 .. n |-> <<>>]
    <3>1. n + 1 .. n = {}
      OBVIOUS
    <3>2. ParsesFrom(h, n + 1, n, stop, head, next)
      BY <3>1 DEF ParsesFrom
    <3> QED BY <2>2, <3>2
  <2>3. CASE m # 0
    <3> DEFINE k == n + 1 - m
    <3>1. k \in 1 .. n /\ m - 1 \in Nat /\ m - 1 <= n /\ n + 1 - (m - 1) = k + 1
      BY <2>3
    <3>2. m - 1 \notin Lacking
      BY <2>1, <3>1
    <3>3. PICK g : ParsesFrom(g, k + 1, n, stop, head, next)
      BY <3>1, <3>2
    <3> DEFINE h == [i \in k .. n |->
                       IF i = k THEN IF k \in stop THEN <<>> ELSE head[k] \o g[next[k]] ELSE g[i]]
    <3> HIDE DEF k
    <3>4. ASSUME NEW i \in k .. n
          PROVE  h[i] = IF i \in stop THEN <<>> ELSE head[i] \o h[next[i]]
      <4>1. i \in 1 .. n /\ (i # k => i \in k + 1 .. n)
        BY <3>1
      <4>2. i \notin stop => next[i] \in k .. n /\ next[i] # k
        BY <3>1, <4>1 DEF GoesOn
      <4>3. i # k => g[i] = IF i \in stop THEN <<>> ELSE head[i] \o g[next[i]]
        BY <3>3, <4>1 DEF ParsesFrom
      <4>4. i \notin stop => h[next[i]] = g[next[i]]
        BY <4>2
      <4> QED BY <4>3, <4>4
    <3>5. ParsesFrom(h, k, n, stop, head, next)
      BY <3>4 DEF ParsesFrom
    <3> QED BY <3>5 DEF k
  <2> QED BY <2>2, <2>3
<1>2. n \notin Lacking /\ n + 1 - n = 1
  BY <1>1
<1> QED BY <1>2

LEMMA ParserType ==
  ASSUME NEW n \in Nat, NEW stop, NEW head, NEW next, NEW g, NEW S,
         GoesOn(n, stop, next), ParsesFrom(g, 1, n, stop, head, next),
         \A i \in 1 .. n : i \notin stop => head[i] \in Seq(S)
  PROVE  \A i \in 1 .. n : g[i] \in Seq(S)
<1> DEFINE Untyped == {m \in Nat : m < n /\ g[n - m] \notin Seq(S)}
<1>1. ASSUME Untyped # {} PROVE FALSE
  <2>1. PICK m \in Untyped : \A k \in Untyped : m <= k
    BY <1>1, LeastIn
  <2> DEFINE i == n - m
  <2>2. i \in 1 .. n /\ n - i = m
    OBVIOUS
  <2>3. g[i] \notin Seq(S)
    OBVIOUS
  <2> HIDE DEF i
  <2>4. g[i] = IF i \in stop THEN <<>> ELSE head[i] \o g[next[i]]
    BY <2>2 DEF ParsesFrom
  <2>5. i \notin stop
    BY <2>3, <2>4
  <2>6. next[i] \in i + 1 .. n
    BY <2>2, <2>5 DEF GoesOn
  <2> DEFINE later == n - next[i]
  <2>7. later \in Nat /\ later < n /\ later < m /\ n - later = next[i]
    BY <2>2, <2>6
  <2> HIDE DEF later
  <2>8. later \notin Untyped
    BY <2>1, <2>7
  <2>9. g[next[i]] \in Seq(S)
    BY <2>7, <2>8
  <2> QED BY <2>2, <2>3, <2>4, <2>5, <2>9, ConcatProperties
<1>2. ASSUME NEW i \in 1 .. n PROVE g[i] \in Seq(S)
  <2>1. n - i \in Nat /\ n - i < n /\ n - (n - i) = i
    OBVIOUS
  <2>2. n - i \notin Untyped
    BY <1>1
  <2> QED BY <2>1, <2>2
<1> QED BY <1>2

-----------------------------------------------------------------------------
(* The parts of a sequence of sequences, joined one after the other. *)
Joins(g, n, part) ==
  g = [k \in 0 .. n |-> IF k = 0 THEN <<>> ELSE g[k - 1] \o part[k]]

LEMMA JoinExists ==
  ASSUME NEW n \in Nat, NEW part
  PROVE  \E g : Joins(g, n, part)
<1> DEFINE Lacking == {m \in Nat : ~ \E g : Joins(g, m, part)}
<1>1. ASSUME Lacking # {} PROVE FALSE
  <2>1. PICK m \in Lacking : \A k \in Lacking : m <= k
    BY <1>1, LeastIn
  <2>2. CASE m = 0
    <3> DEFINE g == [k \in 0 .. 0 |-> <<>>]
    <3>1. Joins(g, 0, part)
      BY DEF Joins
    <3> QED BY <2>2, <3>1
  <2>3. CASE m # 0
    <3>1. m - 1 \in Nat /\ m - 1 \notin Lacking
      BY <2>1, <2>3
    <3>2. PICK g : Joins(g, m - 1, part)
      BY <3>1
    <3> DEFINE h == [k \in 0 .. m |-> IF k = m THEN g[m - 1] \o part[m] ELSE g[k]]
    <3>3. ASSUME NEW k \in 0 .. m
          PROVE  h[k] = IF k = 0 THEN <<>> ELSE h[k - 1] \o part[k]
      <4>1. CASE k = m
        BY <2>3, <4>1
      <4>2. CASE k # m
        <5>1. k \in 0 .. m - 1 /\ (k # 0 => h[k - 1] = g[k - 1]) /\ h[k] = g[k]
          BY <4>2
        <5>2. g[k] = IF k = 0 THEN <<>> ELSE g[k - 1] \o part[k]
          BY <3>2, <5>1 DEF Joins
        <5> QED BY <5>1, <5>2
      <4> QED BY <4>1, <4>2
    <3>4. Joins(h, m, part)
      BY <3>3 DEF Joins
    <3> QED BY <3>4
  <2> QED BY <2>2, <2>3
<1> QED BY <1>1

LEMMA JoinSteps ==
  ASSUME NEW n \in Nat, NEW part, NEW g, Joins(g, n, part)
  PROVE  g[0] = <<>> /\ \A k \in 1 .. n : g[k] = g[k - 1] \o part[k]
BY DEF Joins

LEMMA JoinType ==
  ASSUME NEW n \in Nat, NEW part, NEW g, Joins(g, n, part),
         NEW S, \A k \in 1 .. n : part[k] \in Seq(S)
  PROVE  \A k \in 0 .. n : g[k] \in Seq(S)
<1> DEFINE Untyped == {k \in Nat : k <= n /\ g[k] \notin Seq(S)}
<1>1. g[0] = <<>> /\ \A k \in 1 .. n : g[k] = g[k - 1] \o part[k]
  BY JoinSteps
<1>2. ASSUME Untyped # {} PROVE FALSE
  <2>1. PICK m \in Nat : m \in Untyped /\ \A k \in Untyped : m <= k
    BY <1>2, LeastIn
  <2>2. m <= n /\ g[m] \notin Seq(S)
    BY <2>1
  <2>3. m # 0
    <3>1. g[0] \in Seq(S)
      BY <1>1
    <3> QED BY <2>2, <3>1
  <2>4. m - 1 \in Nat /\ m \in 1 .. n /\ m - 1 <= n
    BY <2>2, <2>3
  <2>5. m - 1 \notin Untyped
    BY <2>1, <2>4
  <2>6. g[m - 1] \in Seq(S) /\ part[m] \in Seq(S) /\ g[m] = g[m - 1] \o part[m]
    BY <1>1, <2>4, <2>5
  <2>7. g[m] \in Seq(S)
    BY <2>6, ConcatProperties
  <2> QED BY <2>2, <2>7
<1>3. \A k \in 0 .. n : k \in Nat /\ k <= n
  OBVIOUS
<1> QED BY <1>2, <1>3

(* What is joined first stays in front. *)
Grows(g, n, S) ==
  \A m \in 0 .. n : \A k \in m .. n : \E r \in Seq(S) : g[k] = g[m] \o r

LEMMA JoinPrefix ==
  ASSUME NEW n \in Nat, NEW part, NEW g, Joins(g, n, part),
         NEW S, \A k \in 1 .. n : part[k] \in Seq(S)
  PROVE  Grows(g, n, S)
<1> USE DEF Grows
<1> TAKE m \in 0 .. n
<1>1. \A k \in 0 .. n : g[k] \in Seq(S)
  BY JoinType
<1>2. \A k \in 1 .. n : g[k] = g[k - 1] \o part[k]
  BY JoinSteps
<1> DEFINE In(k) == \E r \in Seq(S) : g[k] = g[m] \o r
           Without == {k \in Nat : k \in m .. n /\ ~ In(k)}
<1>3. ASSUME Without # {} PROVE FALSE
  <2>1. PICK k \in Nat : k \in Without /\ \A j \in Without : k <= j
    BY <1>3, LeastIn
  <2>2. k \in m .. n /\ ~ In(k)
    BY <2>1
  <2>3. k # m
    <3>1. g[m] = g[m] \o <<>> /\ <<>> \in Seq(S)
      BY <1>1, ConcatEmptySeq
    <3>2. In(m)
      BY <3>1
    <3> QED BY <2>2, <3>2
  <2>4. k - 1 \in Nat /\ k - 1 \in m .. n /\ k \in 1 .. n
    BY <2>2, <2>3
  <2>5. k - 1 \notin Without
    <3> HIDE DEF Without
    <3> QED BY <2>1, <2>4
  <2>6. PICK r \in Seq(S) : g[k - 1] = g[m] \o r
    BY <2>4, <2>5
  <2>7. part[k] \in Seq(S) /\ g[m] \in Seq(S) /\ g[k] = g[k - 1] \o part[k]
    BY <1>1, <1>2, <2>4
  <2>8. g[k] = g[m] \o (r \o part[k])
    <3>1. \A a \in Seq(S), b \in Seq(S), c \in Seq(S) : (a \o b) \o c = a \o (b \o c)
      BY ConcatAssociative
    <3>2. (g[m] \o r) \o part[k] = g[m] \o (r \o part[k])
      BY <2>7, <3>1, Zenon
    <3> QED BY <2>6, <2>7, <3>2, Zenon
  <2>9. r \o part[k] \in Seq(S)
    BY <2>7, ConcatProperties
  <2> QED BY <2>2, <2>8, <2>9
<1>4. \A k \in m .. n : k \in Nat
  OBVIOUS
<1> QED BY <1>3, <1>4

(* What is joined of two sequences of parts is joined of each. *)
Follow(r, p, m, q, n, S) ==
  /\ \A k \in 1 .. m : p[k] \in Seq(S) /\ r[k] = p[k]
  /\ \A k \in 1 .. n : q[k] \in Seq(S) /\ r[m + k] = q[k]

IsConcat(x, a, b) == x = a \o b

LEMMA JoinOfTwo ==
  ASSUME NEW S, NEW m \in Nat, NEW n \in Nat, NEW p, NEW q, NEW r, NEW f, NEW g, NEW h,
         Joins(f, m, p), Joins(g, n, q), Joins(h, m + n, r),
         Follow(r, p, m, q, n, S)
  PROVE  IsConcat(h[m + n], f[m], g[n])
<1> USE DEF Follow, IsConcat
<1>1. f[0] = <<>> /\ \A k \in 1 .. m : f[k] = f[k - 1] \o p[k]
  BY JoinSteps
<1>2. g[0] = <<>> /\ \A k \in 1 .. n : g[k] = g[k - 1] \o q[k]
  BY JoinSteps
<1>3. h[0] = <<>> /\ \A k \in 1 .. m + n : h[k] = h[k - 1] \o r[k]
  <2> DEFINE l == m + n
  <2>1. l \in Nat
    OBVIOUS
  <2> HIDE DEF l
  <2> QED BY <2>1, JoinSteps, Zenon DEF l
<1>4. \A k \in 0 .. m : f[k] \in Seq(S)
  BY JoinType
<1>5. \A k \in 0 .. n : g[k] \in Seq(S)
  BY JoinType
<1>6. \A k \in 0 .. m : h[k] = f[k]
  <2> DEFINE Differs == {k \in Nat : k <= m /\ h[k] # f[k]}
  <2>1. ASSUME Differs # {} PROVE FALSE
    <3>1. PICK k \in Nat : k \in Differs /\ \A j \in Differs : k <= j
      BY <2>1, LeastIn
    <3>2. k <= m /\ h[k] # f[k] /\ k # 0
      BY <1>1, <1>3, <3>1
    <3>3. k - 1 \in Nat /\ k - 1 <= m /\ k \in 1 .. m /\ k \in 1 .. m + n
      BY <3>2
    <3>4. k - 1 \notin Differs
      <4> HIDE DEF Differs
      <4> QED BY <3>1, <3>3
    <3>5. h[k - 1] = f[k - 1]
      BY <3>3, <3>4
    <3> QED BY <1>1, <1>3, <3>2, <3>3, <3>5
  <2> QED BY <2>1
<1>7. ASSUME NEW k \in 0 .. n PROVE h[m + k] = f[m] \o g[k]
  <2> DEFINE Differs == {j \in Nat : j <= n /\ h[m + j] # f[m] \o g[j]}
  <2>1. ASSUME Differs # {} PROVE FALSE
    <3>1. PICK j \in Nat : j \in Differs /\ \A i \in Differs : j <= i
      BY <2>1, LeastIn
    <3>2. j <= n /\ h[m + j] # f[m] \o g[j]
      BY <3>1
    <3>3. j # 0
      <4>1. f[m] \o <<>> = f[m] /\ m \in 0 .. m
        BY <1>4, ConcatEmptySeq
      <4>2. h[m + 0] = f[m] \o g[0]
        BY <1>2, <1>6, <4>1
      <4> QED BY <3>2, <4>2
    <3>4. j - 1 \in Nat /\ j - 1 <= n /\ j - 1 \in 0 .. n /\ j \in 1 .. n /\ m + j \in 1 .. m + n
          /\ m + (j - 1) = (m + j) - 1
      BY <3>2, <3>3
    <3>5. j - 1 \notin Differs
      <4> HIDE DEF Differs
      <4> QED BY <3>1, <3>4
    <3>6. h[m + j] = (f[m] \o g[j - 1]) \o q[j]
      BY <1>3, <3>4, <3>5
    <3>7. f[m] \in Seq(S) /\ g[j - 1] \in Seq(S) /\ q[j] \in Seq(S)
      BY <1>4, <1>5, <3>4
    <3>8. \A a \in Seq(S), b \in Seq(S), c \in Seq(S) : (a \o b) \o c = a \o (b \o c)
      BY ConcatAssociative
    <3>9. (f[m] \o g[j - 1]) \o q[j] = f[m] \o (g[j - 1] \o q[j])
      BY <3>7, <3>8, Zenon
    <3> QED BY <1>2, <3>2, <3>4, <3>6, <3>9
  <2>2. k \in Nat /\ k <= n
    OBVIOUS
  <2> QED BY <2>1, <2>2
<1> QED
  <2>1. n \in 0 .. n
    OBVIOUS
  <2> QED BY <1>7, <2>1
=============================================================================
