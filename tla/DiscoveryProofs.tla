-------------------------- MODULE DiscoveryProofs --------------------------
(***************************************************************************)
(* Proofs about the packets of a discovery and what becomes of them, for   *)
(* any number of callers and devices, any datagrams and any times.         *)
(***************************************************************************)
EXTENDS UbntDiscovery, DataLemmas, FiniteSetTheorems

-----------------------------------------------------------------------------
(* UbntPacket. A packet of bytes yields entries whose values are bytes.        *)
EntryKeys == {<<tag[2]>> : tag \in Tags} \cup ({"json", "str"} \X Nat)
Entry == [key : EntryKeys, value : Bytes]

LEMMA BytesAreNumbers == ASSUME NEW b \in Byte PROVE b \in Nat /\ b <= 255
BY DEF Byte

LEMMA FirstType ==
  ASSUME NEW S, NEW s \in Seq(S), NEW cap \in Nat
  PROVE  First(s, cap) \in Seq(S)
<1> DEFINE n == IF Len(s) > cap THEN cap ELSE Len(s)
<1>1. n \in 0 .. Len(s)
  OBVIOUS
<1> QED BY <1>1, PartType DEF First

LEMMA CutType == ASSUME NEW v \in Bytes PROVE Cut(v) \in Bytes
<1> DEFINE n == IF Len(v) > MaxValue THEN MaxValue ELSE Len(v)
<1>1. n \in 0 .. Len(v) /\ Len(v) \in Nat
  BY PacketAssumption DEF Bytes
<1> QED BY <1>1, PartType DEF Cut, Bytes

(* There is a last byte that is not zero, or none. *)
LEMMA StrippedType == ASSUME NEW v \in Bytes PROVE Stripped(v) \in Bytes
<1> DEFINE Ends(n) == /\ n > 0 => v[n] # 0
                      /\ \A m \in n + 1 .. Len(v) : v[m] = 0
           Filled == {n \in 1 .. Len(v) : v[n] # 0}
<1>1. \E n \in 0 .. Len(v) : Ends(n)
  <2>1. CASE Filled = {}
    <3>1. Ends(0)
      BY <2>1
    <3> QED BY <3>1 DEF Bytes
  <2>2. CASE Filled # {}
    <3>1. Filled \in SUBSET Nat /\ Len(v) \in Nat /\ \A k \in Filled : k <= Len(v)
      BY DEF Bytes
    <3> HIDE DEF Filled
    <3>2. PICK n \in Filled : \A k \in Filled : k <= n
      BY <2>2, <3>1, GreatestIn
    <3>3. n \in 1 .. Len(v) /\ v[n] # 0
      BY <3>1 DEF Filled
    <3>4. ASSUME NEW m \in n + 1 .. Len(v) PROVE v[m] = 0
      <4>1. m \in 1 .. Len(v) /\ ~ (m <= n)
        BY <3>1, <3>3
      <4> QED BY <3>2, <4>1 DEF Filled
    <3> QED BY <3>1, <3>3, <3>4
  <2> QED BY <2>1, <2>2
<1> DEFINE n == CHOOSE n \in 0 .. Len(v) : Ends(n)
<1>2. n \in 0 .. Len(v)
  BY <1>1
<1>3. Stripped(v) = SubSeq(v, 1, n)
  BY DEF Stripped
<1> HIDE DEF n
<1>4. Len(v) \in Nat /\ 1 \in 1 .. Len(v) + 1
  BY DEF Bytes
<1> QED BY <1>2, <1>3, <1>4, PartType DEF Bytes

LEMMA OneEntry ==
  ASSUME NEW k \in EntryKeys, NEW v \in Bytes
  PROVE  <<[key |-> k, value |-> v]>> \in Seq(Entry)
BY DEF Entry

LEMMA EntryOfType ==
  ASSUME NEW t \in Nat, NEW v \in Bytes
  PROVE  EntryOf(t, v) \in Seq(Entry)
<1>1. CASE HasName(t)
  <2> DEFINE name == (CHOOSE tag \in Tags : tag[1] = t)[2]
  <2>1. <<name>> \in EntryKeys
    <3>1. (CHOOSE tag \in Tags : tag[1] = t) \in Tags
      BY <1>1 DEF HasName
    <3> QED BY <3>1 DEF EntryKeys
  <2>2. \A w \in Bytes : <<[key |-> <<name>>, value |-> w]>> \in Seq(Entry)
    BY <2>1, OneEntry
  <2>3. NamedEntry(t, v) \in Seq(Entry)
    <3>1. v \in Bytes /\ Reverse(v) \in Bytes /\ Stripped(v) \in Bytes
      BY ReverseType, StrippedType DEF Bytes
    <3> QED BY <2>2, <3>1 DEF NamedEntry
  <2> QED BY <1>1, <2>3 DEF EntryOf
<1>2. CASE ~HasName(t)
  <2> DEFINE prefix == IF v[1] \in {123, 91} THEN "json" ELSE "str"
  <2>1. <<prefix, t>> \in EntryKeys
    BY DEF EntryKeys
  <2>2. <<[key |-> <<prefix, t>>, value |-> Cut(v)]>> \in Seq(Entry)
    BY <2>1, CutType, OneEntry
  <2>3. OtherEntry(t, v) \in Seq(Entry)
    BY <2>2 DEF OtherEntry
  <2> QED BY <1>2, <2>3 DEF EntryOf
<1> QED BY <1>1, <1>2

(* The entries from each byte on. *)
ParseOf(g, p) ==
  \A i \in 1 .. Len(p) + 1 :
    /\ g[i] \in Seq(Entry)
    /\ g[i] = IF i + 1 > Len(p) \/ i + 1 + p[i + 1] > Len(p) THEN <<>>
              ELSE EntryOf(p[i], SubSeq(p, i + 2, i + 1 + p[i + 1])) \o g[i + 2 + p[i + 1]]

LEMMA FieldsAre == ASSUME NEW p \in Bytes PROVE \E g : ParseOf(g, p) /\ Fields(p) = g[1]
<1> DEFINE n    == Len(p) + 1
           Ends(i) == i + 1 > Len(p) \/ i + 1 + p[i + 1] > Len(p)
           stop == {i \in 1 .. n : Ends(i)}
           head == [i \in 1 .. n |-> EntryOf(p[i], SubSeq(p, i + 2, i + 1 + p[i + 1]))]
           next == [i \in 1 .. n |-> i + 2 + p[i + 1]]
           Is(g) == g = [i \in 1 .. n |->
                           IF Ends(i) THEN <<>>
                           ELSE EntryOf(p[i], SubSeq(p, i + 2, i + 1 + p[i + 1]))
                                \o g[i + 2 + p[i + 1]]]
<1>1. n \in Nat /\ Len(p) \in Nat
  BY DEF Bytes
<1>2. ASSUME NEW i \in 1 .. n, ~ Ends(i)
      PROVE  /\ p[i] \in Nat /\ p[i + 1] \in Nat
             /\ i + 2 \in 1 .. Len(p) + 1 /\ i + 1 + p[i + 1] \in 0 .. Len(p)
             /\ next[i] \in i + 1 .. n
  <2>1. i \in 1 .. Len(p) /\ i + 1 \in 1 .. Len(p)
    BY <1>1, <1>2
  <2>2. p[i] \in Byte /\ p[i + 1] \in Byte
    BY <2>1 DEF Bytes
  <2>3. p[i] \in Nat /\ p[i + 1] \in Nat
    BY <2>2, BytesAreNumbers
  <2> QED BY <1>1, <1>2, <2>1, <2>3
<1>3. GoesOn(n, stop, next)
  BY <1>2 DEF GoesOn
<1>4. \A g : ParsesFrom(g, 1, n, stop, head, next) <=> Is(g)
  <2> TAKE g
  <2>1. \A i \in 1 .. n :
          (IF i \in stop THEN <<>> ELSE head[i] \o g[next[i]])
            = IF Ends(i) THEN <<>>
              ELSE EntryOf(p[i], SubSeq(p, i + 2, i + 1 + p[i + 1])) \o g[i + 2 + p[i + 1]]
    OBVIOUS
  <2> QED BY <2>1 DEF ParsesFrom
<1>5. \A i \in 1 .. n : i \notin stop => head[i] \in Seq(Entry)
  <2> TAKE i \in 1 .. n
  <2> HAVE i \notin stop
  <2>1. SubSeq(p, i + 2, i + 1 + p[i + 1]) \in Bytes
    BY <1>2, PartType DEF Bytes
  <2> QED BY <1>2, <2>1, EntryOfType
<1> DEFINE fields == CHOOSE g : Is(g)
<1>6. Is(fields)
  BY <1>1, <1>3, <1>4, ParserExists
<1>7. ParsesFrom(fields, 1, n, stop, head, next)
  BY <1>4, <1>6
<1>8. Fields(p) = fields[1]
  BY DEF Fields
<1> HIDE DEF n, stop, head, next, fields
<1>9. \A i \in 1 .. n : fields[i] \in Seq(Entry)
  BY <1>1, <1>3, <1>5, <1>7, ParserType
<1> HIDE DEF Is
<1>10. Is(fields)
  BY <1>6
<1>11. ParseOf(fields, p)
  BY <1>9, <1>10 DEF ParseOf, Is, n
<1> QED BY <1>8, <1>11

LEMMA FieldsType == ASSUME NEW p \in Bytes PROVE Fields(p) \in Seq(Entry)
<1>1. PICK g : ParseOf(g, p) /\ Fields(p) = g[1]
  BY FieldsAre
<1>2. 1 \in 1 .. Len(p) + 1
  BY DEF Bytes
<1> QED BY <1>1, <1>2 DEF ParseOf

(* A run ends: with the last byte up to which all are printable. *)
LEMMA EndOfRunIs ==
  ASSUME NEW p \in Bytes, NEW i \in 1 .. Len(p), isprint(p[i])
  PROVE  EndOfRun(p, i) \in i .. Len(p)
<1> DEFINE Ends(m) == /\ \A k \in i .. m : isprint(p[k])
                      /\ m = Len(p) \/ ~isprint(p[m + 1])
           In == {m \in i .. Len(p) : \A k \in i .. m : isprint(p[k])}
<1>1. Len(p) \in Nat /\ i \in Nat /\ i <= Len(p) /\ i \in In
  BY DEF Bytes
<1>2. In \in SUBSET Nat /\ In # {} /\ \A m \in In : m <= Len(p)
  BY <1>1
<1>3. PICK m \in In : \A k \in In : k <= m
  <2> HIDE DEF In
  <2> QED BY <1>1, <1>2, GreatestIn
<1>4. Ends(m)
  <2>1. ASSUME m # Len(p), isprint(p[m + 1]) PROVE FALSE
    <3>1. m + 1 \in In
      BY <1>1, <1>3, <2>1
    <3> HIDE DEF In
    <3> QED BY <1>2, <1>3, <3>1
  <2> QED BY <1>3, <2>1
<1> HIDE DEF Ends
<1>5. m \in i .. Len(p)
  BY <1>3
<1>6. EndOfRun(p, i) = CHOOSE x \in i .. Len(p) : Ends(x)
  BY DEF EndOfRun, Ends
<1> QED BY <1>4, <1>5, <1>6

LEMMA RunsType == ASSUME NEW p \in Bytes PROVE Runs(p) \in Seq(Bytes)
<1> DEFINE n    == Len(p) + 1
           Run(i) == IF BeginsRun(p, i) THEN <<Cut(SubSeq(p, i, EndOfRun(p, i)))>> ELSE <<>>
           stop == {i \in 1 .. n : i > Len(p)}
           head == [i \in 1 .. n |-> Run(i)]
           next == [i \in 1 .. n |-> i + 1]
           Is(g) == g = [i \in 1 .. n |-> IF i > Len(p) THEN <<>> ELSE Run(i) \o g[i + 1]]
<1>1. n \in Nat /\ Len(p) \in Nat
  BY DEF Bytes
<1>2. GoesOn(n, stop, next)
  BY <1>1 DEF GoesOn
<1>3. \A g : ParsesFrom(g, 1, n, stop, head, next) <=> Is(g)
  <2> HIDE DEF Run
  <2> TAKE g
  <2>1. \A i \in 1 .. n : (IF i \in stop THEN <<>> ELSE head[i] \o g[next[i]])
                            = IF i > Len(p) THEN <<>> ELSE Run(i) \o g[i + 1]
    OBVIOUS
  <2> QED BY <2>1 DEF ParsesFrom
<1>4. ASSUME NEW i \in 1 .. n, i \notin stop PROVE head[i] \in Seq(Bytes)
  <2>1. i \in 1 .. Len(p)
    BY <1>1, <1>4
  <2>2. CASE BeginsRun(p, i)
    <3>1. isprint(p[i])
      BY <2>1, <2>2 DEF BeginsRun, MinRun
    <3>2. EndOfRun(p, i) \in i .. Len(p)
      BY <2>1, <3>1, EndOfRunIs
    <3>3. i \in 1 .. Len(p) + 1 /\ EndOfRun(p, i) \in 0 .. Len(p)
      BY <1>1, <2>1, <3>2
    <3>4. SubSeq(p, i, EndOfRun(p, i)) \in Bytes
      BY <3>3, PartType DEF Bytes
    <3>5. Cut(SubSeq(p, i, EndOfRun(p, i))) \in Bytes
      BY <3>4, CutType
    <3> QED BY <2>2, <3>5
  <2>3. CASE ~ BeginsRun(p, i)
    BY <2>3
  <2> QED BY <2>2, <2>3
<1> DEFINE runs == CHOOSE g : Is(g)
<1>5. Is(runs)
  BY <1>1, <1>2, <1>3, ParserExists
<1>6. ParsesFrom(runs, 1, n, stop, head, next)
  BY <1>3, <1>5
<1>7. Runs(p) = runs[1]
  BY DEF Runs
<1> HIDE DEF n, stop, head, next, runs
<1>8. \A i \in 1 .. n : runs[i] \in Seq(Bytes)
  BY <1>1, <1>2, <1>4, <1>6, ParserType
<1>9. 1 \in 1 .. n
  BY <1>1 DEF n
<1> QED BY <1>7, <1>8, <1>9

LEMMA PrintableRunsType == ASSUME NEW p \in Bytes PROVE PrintableRuns(p) \in Seq(Entry)
<1> DEFINE runs == Runs(p)
           Is(n) == [key |-> <<"str", n>>, value |-> runs[n]]
<1>1. runs \in Seq(Bytes) /\ Len(runs) \in Nat /\ DOMAIN runs = 1 .. Len(runs)
  BY RunsType
<1> HIDE DEF runs
<1>2. ASSUME NEW n \in 1 .. Len(runs) PROVE Is(n) \in Entry
  <2>1. <<"str", n>> \in EntryKeys
    BY <1>1 DEF EntryKeys
  <2>2. runs[n] \in Bytes
    BY <1>1
  <2> QED BY <2>1, <2>2 DEF Entry
<1> HIDE DEF Is
<1>3. [n \in 1 .. Len(runs) |-> Is(n)] \in Seq(Entry)
  BY <1>1, <1>2
<1> QED BY <1>1, <1>3 DEF PrintableRuns, runs, Is

(* Whatever arrives, it is read as entries whose values are bytes. *)
LEMMA RecvType ==
  ASSUME NEW d \in Bytes, NEW cap \in Nat
  PROVE  ubnt_discover_recv(d, cap) \in Seq(Entry)
<1> DEFINE p == First(d, MaxPacket)
<1>1. p \in Bytes
  BY FirstType, PacketAssumption DEF Bytes
<1> HIDE DEF p
<1>2. First(Fields(p), cap) \in Seq(Entry) /\ First(PrintableRuns(p), cap) \in Seq(Entry)
  BY <1>1, FieldsType, PrintableRunsType, FirstType
<1>3. parse_tlv(p, cap) \in Seq(Entry)
  BY <1>2 DEF parse_tlv
<1>4. <<>> \in Seq(Entry)
  OBVIOUS
<1> QED BY <1>3, <1>4 DEF ubnt_discover_recv, p

LEMMA SentIs ==
  ASSUME NEW f \in Sent
  PROVE  f.tag \in Byte /\ Len(f.value) \in Byte /\ f.value \in Seq(Byte) /\ f.value \in Bytes
<1>1. f.tag \in Byte /\ f.value \in Seq(Byte) /\ Len(f.value) <= 255 /\ f.value \in Bytes
  BY DEF Sent, Bytes
<1>2. Len(f.value) \in Nat
  BY <1>1
<1>3. \A n \in Nat : n <= 255 => n \in Byte
  BY DEF Byte
<1> QED BY <1>1, <1>2, <1>3

(* The bytes of a field. *)
Part(f) == <<f.tag, Len(f.value)>> \o f.value

LEMMA PartIs ==
  ASSUME NEW f \in Sent
  PROVE  Part(f) \in Seq(Byte) /\ Len(Part(f)) = 2 + Len(f.value) /\ Len(f.value) \in Nat
<1>1. f.tag \in Byte /\ Len(f.value) \in Byte /\ f.value \in Seq(Byte)
  BY SentIs
<1>2. <<>> \in Seq(Byte)
  OBVIOUS
<1>3. \A t \in Byte, n \in Byte : <<t, n>> \in Seq(Byte) /\ Len(<<t, n>>) = 2
  OBVIOUS
<1>4. \A head \in Seq(Byte), v \in Seq(Byte) :
        head \o v \in Seq(Byte) /\ Len(head \o v) = Len(head) + Len(v)
  BY ConcatProperties
<1>5. <<f.tag, Len(f.value)>> \in Seq(Byte) /\ Len(<<f.tag, Len(f.value)>>) = 2
  BY <1>1, <1>3, Zenon
<1>6. Part(f) \in Seq(Byte) /\ Len(Part(f)) = 2 + Len(f.value)
  BY <1>1, <1>4, <1>5, Zenon DEF Part
<1> QED BY <1>1, <1>6

LEMMA EncodedIs ==
  ASSUME NEW fields \in Seq(Sent)
  PROVE  LET E == Encoded(fields)
         IN /\ E[0] = <<>> /\ \A k \in 0 .. Len(fields) : E[k] \in Seq(Byte)
            /\ \A k \in 1 .. Len(fields) : E[k] = E[k - 1] \o Part(fields[k])
            /\ Grows(E, Len(fields), Byte)
<1> DEFINE n    == Len(fields)
           part == [k \in 1 .. n |-> Part(fields[k])]
           Is(g) == g = [k \in 0 .. n |->
                           IF k = 0 THEN <<>>
                           ELSE g[k - 1] \o (<<fields[k].tag, Len(fields[k].value)>>
                                             \o fields[k].value)]
           E    == Encoded(fields)
<1>1. n \in Nat /\ \A k \in 1 .. n : fields[k] \in Sent
  OBVIOUS
<1>2. \A k \in 1 .. n : part[k] = Part(fields[k]) /\ part[k] \in Seq(Byte)
  BY <1>1, PartIs
<1>3. ASSUME NEW g PROVE Joins(g, n, part) <=> Is(g)
  <2>1. \A k \in 0 .. n :
          (IF k = 0 THEN <<>> ELSE g[k - 1] \o part[k])
            = IF k = 0 THEN <<>>
              ELSE g[k - 1] \o (<<fields[k].tag, Len(fields[k].value)>> \o fields[k].value)
    <3> TAKE k \in 0 .. n
    <3>1. k # 0 => k \in 1 .. n
      BY <1>1
    <3>2. k # 0 => part[k] = <<fields[k].tag, Len(fields[k].value)>> \o fields[k].value
      BY <1>2, <3>1, Zenon DEF Part
    <3> HIDE DEF part
    <3> QED BY <3>2, Zenon
  <2> HIDE DEF part, n
  <2> QED BY <2>1, Zenon DEF Joins
<1>4. E = CHOOSE g : Is(g)
  BY DEF Encoded
<1> HIDE DEF n, part, Is, E
<1>5. \E g : Joins(g, n, part)
  BY <1>1, JoinExists
<1>6. Joins(E, n, part)
  BY <1>3, <1>4, <1>5
<1>7. \A k \in 1 .. n : part[k] \in Seq(Byte)
  BY <1>2
<1>8. E[0] = <<>> /\ \A k \in 1 .. n : E[k] = E[k - 1] \o part[k]
  BY <1>1, <1>6, JoinSteps
<1>9. \A k \in 0 .. n : E[k] \in Seq(Byte)
  BY <1>1, <1>6, <1>7, JoinType
<1>10. Grows(E, n, Byte)
  BY <1>1, <1>6, <1>7, JoinPrefix
<1>11. \A k \in 1 .. n : E[k] = E[k - 1] \o Part(fields[k])
  BY <1>2, <1>8, Zenon
<1> QED BY <1>8, <1>9, <1>10, <1>11, Zenon DEF n, E

LEMMA MeaningIs ==
  ASSUME NEW fields \in Seq(Sent)
  PROVE  LET M == Meaning(fields)
         IN /\ M[0] = <<>> /\ \A k \in 0 .. Len(fields) : M[k] \in Seq(Entry)
            /\ \A k \in 1 .. Len(fields) :
                 /\ M[k] = M[k - 1] \o EntryOf(fields[k].tag, fields[k].value)
                 /\ EntryOf(fields[k].tag, fields[k].value) \in Seq(Entry)
<1> DEFINE n    == Len(fields)
           part == [k \in 1 .. n |-> EntryOf(fields[k].tag, fields[k].value)]
           Is(g) == g = [k \in 0 .. n |->
                           IF k = 0 THEN <<>>
                           ELSE g[k - 1] \o EntryOf(fields[k].tag, fields[k].value)]
           M    == Meaning(fields)
<1>1. n \in Nat /\ \A k \in 1 .. n : fields[k] \in Sent
  OBVIOUS
<1>2. ASSUME NEW k \in 1 .. n
      PROVE  /\ part[k] = EntryOf(fields[k].tag, fields[k].value)
             /\ EntryOf(fields[k].tag, fields[k].value) \in Seq(Entry)
  <2>1. fields[k].tag \in Byte /\ fields[k].value \in Bytes
    BY <1>1, SentIs
  <2>2. fields[k].tag \in Nat
    BY <2>1, BytesAreNumbers
  <2> QED BY <2>1, <2>2, EntryOfType
<1>3. ASSUME NEW g PROVE Joins(g, n, part) <=> Is(g)
  <2>1. \A k \in 0 .. n :
          (IF k = 0 THEN <<>> ELSE g[k - 1] \o part[k])
            = IF k = 0 THEN <<>> ELSE g[k - 1] \o EntryOf(fields[k].tag, fields[k].value)
    <3> TAKE k \in 0 .. n
    <3>1. k # 0 => k \in 1 .. n
      BY <1>1
    <3> HIDE DEF part
    <3> QED BY <1>2, <3>1, Zenon
  <2> HIDE DEF part, n
  <2> QED BY <2>1, Zenon DEF Joins
<1>4. M = CHOOSE g : Is(g)
  BY DEF Meaning
<1> HIDE DEF n, part, Is, M
<1>5. \E g : Joins(g, n, part)
  BY <1>1, JoinExists
<1>6. Joins(M, n, part)
  BY <1>3, <1>4, <1>5
<1>7. \A k \in 1 .. n : part[k] \in Seq(Entry)
  BY <1>2
<1>8. M[0] = <<>> /\ \A k \in 1 .. n : M[k] = M[k - 1] \o part[k]
  BY <1>1, <1>6, JoinSteps
<1>9. \A k \in 0 .. n : M[k] \in Seq(Entry)
  BY <1>1, <1>6, <1>7, JoinType
<1> QED BY <1>2, <1>8, <1>9, Zenon DEF n, M

(* The parse of a packet goes over the field that stands at a byte to the next. *)
LEMMA ParseStep ==
  ASSUME NEW a \in Seq(Byte), NEW f \in Sent, NEW r \in Seq(Byte),
         NEW g, ParseOf(g, (a \o Part(f)) \o r)
  PROVE  LET next == Len(a) + Len(Part(f)) + 1
         IN /\ g[Len(a) + 1] = EntryOf(f.tag, f.value) \o g[next]
            /\ g[next] \in Seq(Entry)
<1> DEFINE Packet(t, n, v) == (a \o (<<t, n>> \o v)) \o r
           Long(q, v)      == Len(q) = Len(a) + 2 + Len(v) + Len(r)
           Starts(q, t, n) == q[Len(a) + 1] = t /\ q[Len(a) + 2] = n
           Holds(q, v)     == SubSeq(q, Len(a) + 3, Len(a) + 2 + Len(v)) = v
           p    == Packet(f.tag, Len(f.value), f.value)
           i    == Len(a) + 1
           next == Len(a) + Len(Part(f)) + 1
<1>1. /\ f.tag \in Byte /\ Len(f.value) \in Byte /\ Len(f.value) \in Nat
      /\ f.value \in Seq(Byte)
  BY SentIs, BytesAreNumbers
<1>2. ASSUME NEW t \in Byte, NEW n \in Byte, NEW v \in Seq(Byte)
      PROVE  LET q == Packet(t, n, v) IN Long(q, v) /\ Starts(q, t, n) /\ Holds(q, v)
  BY FieldBetween
<1> HIDE DEF Packet, Long, Starts, Holds
<1>3. Long(p, f.value) /\ Starts(p, f.tag, Len(f.value)) /\ Holds(p, f.value)
  BY <1>1, <1>2, Zenon
<1>4. ParseOf(g, p)
  BY Zenon DEF Packet, Part
<1> HIDE DEF p
<1>5. Len(a) \in Nat /\ Len(r) \in Nat /\ Len(Part(f)) = 2 + Len(f.value)
  BY PartIs
<1>6. /\ i \in 1 .. Len(p) + 1 /\ next \in 1 .. Len(p) + 1
      /\ i + 1 = Len(a) + 2 /\ i + 2 = Len(a) + 3
      /\ i + 1 + Len(f.value) = Len(a) + 2 + Len(f.value) /\ i + 2 + Len(f.value) = next
      /\ ~ (i + 1 > Len(p)) /\ ~ (i + 1 + Len(f.value) > Len(p))
  <2> DEFINE la == Len(a)
             lr == Len(r)
             lv == Len(f.value)
             lp == Len(p)
  <2>1. lp = la + 2 + lv + lr
    BY <1>3 DEF Long
  <2>2. lv \in Nat
    BY <1>1
  <2>3. next = la + (2 + lv) + 1
    BY <1>5, Zenon
  <2>4. la \in Nat /\ lr \in Nat /\ i = la + 1
    OBVIOUS
  <2> HIDE DEF i, next, la, lr, lv, lp
  <2>5. /\ i \in 1 .. lp + 1 /\ next \in 1 .. lp + 1
        /\ i + 1 = la + 2 /\ i + 2 = la + 3
        /\ i + 1 + lv = la + 2 + lv /\ i + 2 + lv = next
        /\ ~ (i + 1 > lp) /\ ~ (i + 1 + lv > lp)
    BY <2>1, <2>2, <2>3, <2>4
  <2> QED BY <2>5, Zenon DEF la, lv, lp
<1> HIDE DEF i, next
<1>7. /\ g[i] = IF i + 1 > Len(p) \/ i + 1 + p[i + 1] > Len(p) THEN <<>>
                ELSE EntryOf(p[i], SubSeq(p, i + 2, i + 1 + p[i + 1])) \o g[i + 2 + p[i + 1]]
      /\ g[next] \in Seq(Entry)
  BY <1>4, <1>6, Zenon DEF ParseOf
<1>8. p[i + 1] = Len(f.value) /\ p[i] = f.tag
  BY <1>3, <1>6, Zenon DEF i, Starts
<1>9. SubSeq(p, i + 2, i + 1 + p[i + 1]) = f.value /\ i + 2 + p[i + 1] = next
      /\ ~ (i + 1 + p[i + 1] > Len(p))
  BY <1>3, <1>6, <1>8, Zenon DEF Holds
<1>10. g[i] = EntryOf(f.tag, f.value) \o g[next]
  BY <1>6, <1>7, <1>8, <1>9, Zenon
<1> QED BY <1>7, <1>10, Zenon DEF i, next

(* A packet of whole fields and an unfinished one means its whole fields. *)
LEMMA ParseReaches ==
  ASSUME NEW fields \in Seq(Sent), NEW last \in 0 .. Len(fields), NEW rest \in Seq(Byte),
         Unfinished(rest)
  PROVE  Fields(Encoded(fields)[last] \o rest) = Meaning(fields)[last]
<1> DEFINE E == Encoded(fields)
           M == Meaning(fields)
           p == E[last] \o rest
<1>1. /\ E[0] = <<>> /\ \A k \in 0 .. Len(fields) : E[k] \in Seq(Byte)
      /\ \A k \in 1 .. Len(fields) : E[k] = E[k - 1] \o Part(fields[k])
  BY EncodedIs, Zenon
<1>2. Grows(E, Len(fields), Byte)
  BY EncodedIs, Zenon
<1>3. /\ M[0] = <<>> /\ \A k \in 0 .. Len(fields) : M[k] \in Seq(Entry)
      /\ \A k \in 1 .. Len(fields) :
           /\ M[k] = M[k - 1] \o EntryOf(fields[k].tag, fields[k].value)
           /\ EntryOf(fields[k].tag, fields[k].value) \in Seq(Entry)
  BY MeaningIs, Zenon
<1> HIDE DEF E, M
<1>4. p = E[last] \o rest
  OBVIOUS
<1> HIDE DEF p
<1>5. Len(fields) \in Nat /\ last \in Nat /\ E[last] \in Seq(Byte)
  BY <1>1
<1>6. /\ p \in Bytes /\ Len(p) = Len(E[last]) + Len(rest)
      /\ \A i \in 1 .. Len(rest) : p[Len(E[last]) + i] = rest[i]
  <2>1. \A e \in Seq(Byte) :
          /\ e \o rest \in Seq(Byte) /\ Len(e \o rest) = Len(e) + Len(rest)
          /\ \A i \in 1 .. Len(rest) : (e \o rest)[Len(e) + i] = rest[i]
    BY Concat
  <2>2. /\ p \in Seq(Byte) /\ Len(p) = Len(E[last]) + Len(rest)
        /\ \A i \in 1 .. Len(rest) : p[Len(E[last]) + i] = rest[i]
    BY <1>5, <2>1, Zenon DEF p
  <2> QED BY <2>2, Zenon DEF Bytes
<1>7. PICK g : ParseOf(g, p) /\ Fields(p) = g[1]
  BY <1>6, FieldsAre
<1> DEFINE Reached(k) == g[1] = M[k] \o g[Len(E[k]) + 1] /\ g[Len(E[k]) + 1] \in Seq(Entry)
           Missed == {k \in Nat : k <= last /\ ~ Reached(k)}
<1>8. ASSUME Missed # {} PROVE FALSE
  <2>1. PICK k \in Nat : k \in Missed /\ \A j \in Missed : k <= j
    BY <1>8, LeastIn
  <2>2. k <= last /\ ~ Reached(k)
    BY <2>1
  <2>3. CASE k = 0
    <3>1. Len(E[0]) + 1 = 1 /\ 1 \in 1 .. Len(p) + 1
      BY <1>1, <1>6 DEF Bytes
    <3>2. g[1] \in Seq(Entry)
      BY <1>7, <3>1 DEF ParseOf
    <3>3. \A s \in Seq(Entry) : s = <<>> \o s
      BY ConcatEmptySeq
    <3>4. Reached(0)
      BY <1>3, <3>1, <3>2, <3>3, Zenon
    <3> QED BY <2>2, <2>3, <3>4
  <2>4. CASE k # 0
    <3>1. k - 1 \in Nat /\ k - 1 <= last /\ k \in 1 .. Len(fields) /\ k \in 0 .. Len(fields)
          /\ k - 1 \in 0 .. Len(fields) /\ last \in k .. Len(fields)
      BY <2>2, <2>4
    <3>2. k - 1 \notin Missed
      <4> HIDE DEF Missed
      <4> QED BY <2>1, <3>1
    <3>3. Reached(k - 1)
      BY <3>1, <3>2
    <3> DEFINE a == E[k - 1]
               f == fields[k]
               e == EntryOf(f.tag, f.value)
    <3>4. f \in Sent
      BY <3>1
    <3>5. PICK r1 \in Seq(Byte) : E[last] = E[k] \o r1
      BY <1>2, <3>1 DEF Grows
    <3>6. E[k] \in Seq(Byte) /\ a \in Seq(Byte) /\ E[k] = a \o Part(f)
      BY <1>1, <3>1
    <3>7. /\ M[k] = M[k - 1] \o e /\ e \in Seq(Entry)
          /\ M[k - 1] \in Seq(Entry) /\ M[k] \in Seq(Entry)
      BY <1>3, <3>1
    <3> HIDE DEF a, f, e
    <3>8. p = E[k] \o (r1 \o rest) /\ r1 \o rest \in Seq(Byte)
      <4>1. \A x \in Seq(Byte), y \in Seq(Byte), z \in Seq(Byte) : (x \o y) \o z = x \o (y \o z)
        BY ConcatAssociative
      <4>2. r1 \o rest \in Seq(Byte)
        BY ConcatProperties
      <4>3. (E[k] \o r1) \o rest = E[k] \o (r1 \o rest)
        BY <3>6, <4>1, Zenon
      <4> QED BY <1>4, <3>5, <4>2, <4>3, Zenon
    <3>9. p = (a \o Part(f)) \o (r1 \o rest)
      BY <3>6, <3>8, Zenon
    <3> DEFINE next == Len(a) + Len(Part(f)) + 1
    <3>10. /\ g[Len(a) + 1] = EntryOf(f.tag, f.value) \o g[next]
           /\ g[next] \in Seq(Entry)
      <4>1. ParseOf(g, (a \o Part(f)) \o (r1 \o rest))
        BY <1>7, <3>9, Zenon
      <4>2. ASSUME NEW b \in Seq(Byte), NEW s \in Sent, NEW r \in Seq(Byte),
                   ParseOf(g, (b \o Part(s)) \o r)
            PROVE  /\ g[Len(b) + 1] = EntryOf(s.tag, s.value) \o g[Len(b) + Len(Part(s)) + 1]
                   /\ g[Len(b) + Len(Part(s)) + 1] \in Seq(Entry)
        BY <4>2, ParseStep, Zenon
      <4> QED BY <3>4, <3>6, <3>8, <4>1, <4>2, Zenon
    <3>11. next = Len(E[k]) + 1
      <4>1. Part(f) \in Seq(Byte)
        BY <3>4, PartIs
      <4>2. \A x \in Seq(Byte), y \in Seq(Byte) : Len(x \o y) = Len(x) + Len(y)
        BY ConcatProperties
      <4> QED BY <3>6, <4>1, <4>2, Zenon
    <3> HIDE DEF next
    <3>12. g[1] = M[k - 1] \o (e \o g[next])
      BY <3>3, <3>10, Zenon DEF a, e
    <3>13. g[1] = (M[k - 1] \o e) \o g[next]
      <4>1. \A x \in Seq(Entry), y \in Seq(Entry), z \in Seq(Entry) :
              (x \o y) \o z = x \o (y \o z)
        BY ConcatAssociative
      <4> QED BY <3>7, <3>10, <3>12, <4>1, Zenon
    <3>14. Reached(k)
      BY <3>7, <3>10, <3>11, <3>13, Zenon
    <3> QED BY <2>2, <3>14
  <2> QED BY <2>3, <2>4
<1> HIDE DEF Reached
<1>9. Reached(last)
  <2>1. last \in Nat /\ last <= last
    BY <1>5
  <2> QED BY <1>8, <2>1
<1> DEFINE i == Len(E[last]) + 1
<1>10. Len(E[last]) \in Nat /\ Len(rest) \in Nat /\ i + 1 = Len(E[last]) + 2
       /\ i \in 1 .. Len(p) + 1
  BY <1>5, <1>6
<1> HIDE DEF i
<1>11. i + 1 > Len(p) \/ i + 1 + p[i + 1] > Len(p)
  <2>1. CASE Len(rest) < 2
    BY <1>6, <1>10, <2>1
  <2>2. CASE ~ (Len(rest) < 2)
    <3>1. rest[2] > Len(rest) - 2 /\ 2 \in 1 .. Len(rest)
      BY <1>10, <2>2 DEF Unfinished
    <3>2. rest[2] \in Nat
      BY <3>1, BytesAreNumbers
    <3>3. p[Len(E[last]) + 2] = rest[2]
      BY <1>6, <3>1
    <3> QED BY <1>6, <1>10, <3>1, <3>2, <3>3
  <2> QED BY <2>1, <2>2
<1>12. g[i] = <<>>
  BY <1>7, <1>10, <1>11, Zenon DEF ParseOf
<1>13. M[last] \in Seq(Entry)
  BY <1>3
<1>14. \A s \in Seq(Entry) : s \o <<>> = s
  BY ConcatEmptySeq
<1>15. g[1] = M[last]
  BY <1>9, <1>12, <1>13, <1>14, Zenon DEF i, Reached
<1> QED BY <1>7, <1>15, Zenon DEF M, E, p

(* What the receiver takes of a datagram that goes on behind its buffer. *)
LEMMA FirstOfTwo ==
  ASSUME NEW a \in Seq(Byte), NEW b \in Seq(Byte), NEW cap \in Nat, Len(a) <= cap
  PROVE  First(a \o b, cap) = a \o First(b, cap - Len(a))
<1> DEFINE m == IF Len(b) > cap - Len(a) THEN cap - Len(a) ELSE Len(b)
           n == IF Len(a \o b) > cap THEN cap ELSE Len(a \o b)
<1>1. Len(a \o b) = Len(a) + Len(b)
  BY ConcatProperties
<1>2. Len(a) \in Nat /\ Len(b) \in Nat
  OBVIOUS
<1>3. m \in 0 .. Len(b) /\ n = Len(a) + m
  <2>1. \A l \in Nat : l = Len(a) + Len(b) => (IF l > cap THEN cap ELSE l) = Len(a) + m
    BY <1>2
  <2>2. Len(a) + Len(b) \in Nat /\ m \in 0 .. Len(b)
    BY <1>2
  <2> HIDE DEF m
  <2> QED BY <1>1, <2>1, <2>2, Zenon
<1>4. First(b, cap - Len(a)) = SubSeq(b, 1, m)
  BY Zenon DEF First
<1>5. First(a \o b, cap) = SubSeq(a \o b, 1, n)
  BY Zenon DEF First
<1> HIDE DEF m, n
<1>6. SubSeq(a \o b, 1, Len(a) + m) = a \o SubSeq(b, 1, m)
  BY <1>3, PrefixOfTwo
<1> QED BY <1>3, <1>4, <1>5, <1>6, Zenon

LEMMA FirstIs ==
  ASSUME NEW s \in Seq(Byte), NEW cap \in Nat
  PROVE  /\ First(s, cap) \in Seq(Byte)
         /\ Len(First(s, cap)) = IF Len(s) > cap THEN cap ELSE Len(s)
         /\ \A i \in 1 .. Len(First(s, cap)) : First(s, cap)[i] = s[i]
<1> DEFINE m == IF Len(s) > cap THEN cap ELSE Len(s)
<1>1. m \in 0 .. Len(s) /\ First(s, cap) = SubSeq(s, 1, m)
  BY DEF First
<1> HIDE DEF m
<1>2. /\ SubSeq(s, 1, m) \in Seq(Byte) /\ Len(SubSeq(s, 1, m)) = m
      /\ \A i \in 1 .. m : SubSeq(s, 1, m)[i] = s[i]
  BY <1>1, PrefixElements
<1> QED BY <1>1, <1>2, Zenon DEF m

(* An unfinished field stays one when it is cut, ... *)
LEMMA StaysUnfinished ==
  ASSUME NEW tail \in Seq(Byte), Unfinished(tail), NEW cap \in Nat
  PROVE  Unfinished(First(tail, cap)) /\ First(tail, cap) \in Seq(Byte)
<1> DEFINE rest == First(tail, cap)
<1>1. /\ rest \in Seq(Byte) /\ Len(rest) = IF Len(tail) > cap THEN cap ELSE Len(tail)
      /\ \A i \in 1 .. Len(rest) : rest[i] = tail[i]
  BY FirstIs
<1> HIDE DEF rest
<1>2. Len(rest) \in Nat /\ Len(tail) \in Nat /\ Len(rest) <= Len(tail)
  BY <1>1
<1>3. CASE Len(rest) < 2
  BY <1>1, <1>3, Zenon DEF Unfinished, rest
<1>4. CASE ~ (Len(rest) < 2)
  <2>1. 2 \in 1 .. Len(rest) /\ 2 \in 1 .. Len(tail) /\ ~ (Len(tail) < 2)
    BY <1>2, <1>4
  <2>2. rest[2] = tail[2] /\ tail[2] > Len(tail) - 2 /\ tail[2] \in Byte
    BY <1>1, <2>1 DEF Unfinished
  <2>3. tail[2] \in Nat
    BY <2>2, BytesAreNumbers
  <2>4. rest[2] > Len(rest) - 2
    BY <1>2, <2>2, <2>3
  <2> QED BY <1>1, <2>4, Zenon DEF Unfinished, rest
<1> QED BY <1>3, <1>4

(* ... and a field that is cut becomes one. *)
LEMMA BecomesUnfinished ==
  ASSUME NEW f \in Sent, NEW r \in Seq(Byte), NEW cap \in Nat, cap < Len(Part(f))
  PROVE  /\ Unfinished(First(Part(f) \o r, cap)) /\ First(Part(f) \o r, cap) \in Seq(Byte)
         /\ Part(f) \o r \in Seq(Byte)
<1> DEFINE s    == Part(f) \o r
           rest == First(s, cap)
           head == <<f.tag, Len(f.value)>>
           lv   == Len(f.value)
<1>1. f.tag \in Byte /\ lv \in Byte /\ lv \in Nat /\ f.value \in Seq(Byte)
  BY SentIs, BytesAreNumbers
<1>2. Part(f) \in Seq(Byte) /\ Len(Part(f)) = 2 + lv
  BY PartIs
<1>3. /\ \A x \in Seq(Byte), y \in Seq(Byte) : x \o y \in Seq(Byte)
      /\ \A x \in Seq(Byte), y \in Seq(Byte) : Len(x \o y) = Len(x) + Len(y)
      /\ \A x \in Seq(Byte), y \in Seq(Byte) : \A i \in 1 .. Len(x) : (x \o y)[i] = x[i]
  BY Concat
<1>4. s \in Seq(Byte) /\ Len(s) = Len(Part(f)) + Len(r)
  BY <1>2, <1>3, Zenon
<1>5. s[2] = lv
  <2>1. \A t \in Byte, n \in Byte : /\ <<t, n>> \in Seq(Byte) /\ 2 \in 1 .. Len(<<t, n>>)
                                   /\ <<t, n>>[2] = n
    OBVIOUS
  <2>2. head \in Seq(Byte) /\ 2 \in 1 .. Len(head) /\ head[2] = lv
    BY <1>1, <2>1, Zenon
  <2>3. Part(f) = head \o f.value
    BY Zenon DEF Part
  <2> HIDE DEF head
  <2>4. Part(f)[2] = lv
    <3>1. (head \o f.value)[2] = head[2]
      BY <1>1, <1>3, <2>2, Zenon
    <3> QED BY <2>2, <2>3, <3>1, Zenon
  <2>5. 2 \in 1 .. 2 + lv
    BY <1>1
  <2> HIDE DEF lv
  <2> QED BY <1>2, <1>3, <2>4, <2>5, Zenon
<1> HIDE DEF s, rest, head
<1>6. /\ rest \in Seq(Byte) /\ Len(rest) = IF Len(s) > cap THEN cap ELSE Len(s)
      /\ \A i \in 1 .. Len(rest) : rest[i] = s[i]
  BY <1>4, FirstIs DEF rest
<1> HIDE DEF lv
<1> DEFINE ls == Len(s)
           lr == Len(r)
<1>7. cap < 2 + lv /\ lr \in Nat /\ ls = 2 + lv + lr
  <2>1. cap < 2 + lv
    BY <1>2, Zenon
  <2>2. Len(s) = 2 + lv + Len(r)
    BY <1>2, <1>4, Zenon
  <2> QED BY <2>1, <2>2
<1> HIDE DEF ls, lr
<1>8. ls > cap
  BY <1>1, <1>7
<1>9. Len(rest) = cap
  BY <1>6, <1>8, Zenon DEF ls
<1>10. Unfinished(rest)
  <2>1. CASE cap < 2
    BY <1>9, <2>1, Zenon DEF Unfinished
  <2>2. CASE ~ (cap < 2)
    <3>1. 2 \in 1 .. cap
      BY <2>2
    <3>2. rest[2] = lv
      BY <1>5, <1>6, <1>9, <3>1, Zenon
    <3>3. lv > cap - 2
      BY <1>1, <1>7
    <3> QED BY <1>9, <3>2, <3>3, Zenon DEF Unfinished
  <2> QED BY <2>1, <2>2
<1> QED BY <1>4, <1>6, <1>10, Zenon DEF rest, s

(* The theorem for UbntPacket: a datagram of fields and an unfinished one means *)
(* its fields, as many as reach the receiver whole and as there is room for,   *)
(* whatever the sizes, the bytes and the room are (parse_tlv, 164-259, and     *)
(* ubnt_discover_recv, 303-323).                                               *)
THEOREM PacketsMeanTheirFields ==
  ASSUME NEW fields \in Seq(Sent), NEW tail \in Bytes, NEW cap \in Nat
  PROVE  PacketMeansItsFields(fields, tail, cap)
<1> SUFFICES ASSUME Unfinished(tail), cap > 0 PROVE PacketMeansItsFields(fields, tail, cap)
  BY Zenon DEF PacketMeansItsFields
<1> DEFINE n == Len(fields)
           E == Encoded(fields)
           whole == {k \in 0 .. n : Len(E[k]) <= MaxPacket}
           last  == CHOOSE k \in whole : \A m \in whole : m <= k
           datagram == E[n] \o tail
           p == First(datagram, MaxPacket)
<1>1. /\ E[0] = <<>> /\ \A k \in 0 .. n : E[k] \in Seq(Byte)
      /\ \A k \in 1 .. n : E[k] = E[k - 1] \o Part(fields[k])
      /\ Grows(E, n, Byte)
  BY EncodedIs, Zenon
<1>2. n \in Nat /\ MaxPacket \in Nat /\ tail \in Seq(Byte)
  BY PacketAssumption DEF Bytes
<1> HIDE DEF n, E
<1>3. last \in whole /\ \A m \in whole : m <= last
  <2>1. whole \in SUBSET Nat /\ \A k \in whole : k <= n
    BY <1>2
  <2>2. Len(<<>>) = 0 /\ 0 <= MaxPacket /\ 0 \in 0 .. n
    BY <1>2
  <2>3. 0 \in whole
    BY <1>1, <2>2, Zenon
  <2> HIDE DEF whole
  <2>4. \E k \in whole : \A m \in whole : m <= k
    BY <1>2, <2>1, <2>3, GreatestIn
  <2> QED BY <2>4, Zenon
<1> HIDE DEF last
<1>4. last \in 0 .. n /\ last \in Nat /\ Len(E[last]) <= MaxPacket /\ E[last] \in Seq(Byte)
  BY <1>1, <1>3
<1> DEFINE room == MaxPacket - Len(E[last])
<1>5. room \in Nat
  <2>1. Len(E[last]) \in Nat
    BY <1>4
  <2> QED BY <1>2, <1>4, <2>1
<1>6. ASSUME NEW b \in Seq(Byte) PROVE First(E[last] \o b, MaxPacket) = E[last] \o First(b, room)
  BY <1>2, <1>4, FirstOfTwo
<1> HIDE DEF whole
<1>7. \E rest \in Seq(Byte) : Unfinished(rest) /\ p = E[last] \o rest
  <2>1. CASE last = n
    <3>1. Unfinished(First(tail, room)) /\ First(tail, room) \in Seq(Byte)
      BY <1>2, <1>5, StaysUnfinished
    <3>2. p = E[last] \o First(tail, room)
      BY <1>2, <1>6, <2>1, Zenon
    <3> QED BY <3>1, <3>2, Zenon
  <2>2. CASE last # n
    <3> DEFINE k == last + 1
               f == fields[k]
    <3>1. k \in 1 .. n /\ k \in 0 .. n /\ k - 1 = last /\ ~ (k <= last) /\ n \in k .. n
      BY <1>2, <1>4, <2>2
    <3>2. f \in Sent
      BY <3>1 DEF n
    <3>3. k \notin whole
      BY <1>3, <3>1
    <3> HIDE DEF k
    <3>4. E[k] = E[last] \o Part(f) /\ E[k] \in Seq(Byte)
      BY <1>1, <3>1
    <3> HIDE DEF f
    <3>5. ~ (Len(E[k]) <= MaxPacket)
      BY <3>1, <3>3, Zenon DEF whole
    <3>6. PICK r \in Seq(Byte) : E[n] = E[k] \o r
      BY <1>1, <3>1 DEF Grows
    <3>7. Part(f) \in Seq(Byte)
      BY <3>2, PartIs
    <3>8. room < Len(Part(f))
      <4>1. \A x \in Seq(Byte), y \in Seq(Byte) : Len(x \o y) = Len(x) + Len(y)
        BY ConcatProperties
      <4>2. Len(E[k]) = Len(E[last]) + Len(Part(f))
        BY <1>4, <3>4, <3>7, <4>1, Zenon
      <4>3. Len(E[last]) \in Nat /\ Len(Part(f)) \in Nat
        BY <1>4, <3>7
      <4> DEFINE le == Len(E[last])
                 lp == Len(Part(f))
      <4>4. ~ (le + lp <= MaxPacket)
        BY <3>5, <4>2, Zenon
      <4>5. le \in Nat /\ lp \in Nat /\ room = MaxPacket - le
        BY <4>3
      <4> HIDE DEF le, lp, room
      <4>6. room < lp
        BY <1>2, <4>4, <4>5
      <4> QED BY <4>6, Zenon DEF lp
    <3> HIDE DEF room
    <3>9. r \o tail \in Seq(Byte)
      BY <1>2, ConcatProperties
    <3>10. datagram = E[last] \o (Part(f) \o (r \o tail))
      <4>1. \A x \in Seq(Byte), y \in Seq(Byte), z \in Seq(Byte) : (x \o y) \o z = x \o (y \o z)
        BY ConcatAssociative
      <4>2. (E[k] \o r) \o tail = E[k] \o (r \o tail)
        BY <1>2, <3>4, <4>1, Zenon
      <4>3. (E[last] \o Part(f)) \o (r \o tail) = E[last] \o (Part(f) \o (r \o tail))
        BY <1>4, <3>7, <3>9, <4>1, Zenon
      <4> QED BY <3>4, <3>6, <4>2, <4>3, Zenon
    <3>11. ASSUME NEW s \in Seq(Byte)
           PROVE  /\ Unfinished(First(Part(f) \o s, room))
                  /\ First(Part(f) \o s, room) \in Seq(Byte)
                  /\ Part(f) \o s \in Seq(Byte)
      BY <1>5, <3>2, <3>8, BecomesUnfinished
    <3> DEFINE b == Part(f) \o (r \o tail)
    <3>12. /\ Unfinished(First(b, room)) /\ First(b, room) \in Seq(Byte) /\ b \in Seq(Byte)
      BY <3>9, <3>11, Zenon
    <3> HIDE DEF b
    <3>13. p = E[last] \o First(b, room)
      <4>1. datagram = E[last] \o b
        BY <3>10, Zenon DEF b
      <4> QED BY <1>6, <3>12, <4>1, Zenon
    <3> QED BY <3>12, <3>13, Zenon
  <2> QED BY <2>1, <2>2
<1>8. PICK rest \in Seq(Byte) : Unfinished(rest) /\ p = E[last] \o rest
  BY <1>7, Zenon
<1> HIDE DEF p
<1>9. Fields(p) = Meaning(fields)[last]
  <2>1. ASSUME NEW m \in 0 .. Len(fields)
        PROVE  Fields(Encoded(fields)[m] \o rest) = Meaning(fields)[m]
    BY <1>8, ParseReaches
  <2> QED BY <1>4, <1>8, <2>1, Zenon DEF E, n
<1> DEFINE entries == First(Meaning(fields)[last], cap)
<1>10. ubnt_discover_recv(datagram, cap)
         = IF entries = <<>> THEN First(PrintableRuns(p), cap) ELSE entries
  <2>1. cap # 0
    OBVIOUS
  <2>2. ubnt_discover_recv(datagram, cap) = parse_tlv(p, cap)
    BY <2>1, Zenon DEF ubnt_discover_recv, p
  <2> QED BY <1>9, <2>2, Zenon DEF parse_tlv
<1> QED BY <1>10, Zenon DEF PacketMeansItsFields, p, last, whole, E, n

-----------------------------------------------------------------------------
(* LearnAll is the last value of a function that learns one entry at a time. *)
Learned(g, device, entries, m) ==
  g = [n \in 0 .. m |-> IF n = 0 THEN device ELSE Learn(g[n - 1], entries[n])]

LEMMA LearnedExists ==
  ASSUME NEW device, NEW entries, NEW N \in Nat
  PROVE  \E g : Learned(g, device, entries, N)
<1> DEFINE Lacking == {m \in Nat : ~ \E g : Learned(g, device, entries, m)}
<1> SUFFICES ASSUME Lacking # {} PROVE FALSE
  OBVIOUS
<1>1. PICK m \in Lacking : \A k \in Lacking : m <= k
  BY LeastIn
<1>2. CASE m = 0
  <2> DEFINE g == [n \in 0 .. 0 |-> device]
  <2>1. Learned(g, device, entries, 0)
    BY DEF Learned
  <2> QED BY <1>2, <2>1
<1>3. CASE m # 0
  <2>1. m - 1 \in Nat /\ m - 1 \notin Lacking
    BY <1>1, <1>3
  <2>2. PICK g : Learned(g, device, entries, m - 1)
    BY <2>1
  <2> DEFINE h == [n \in 0 .. m |-> IF n = m THEN Learn(g[m - 1], entries[m]) ELSE g[n]]
  <2>3. \A n \in 0 .. m : h[n] = IF n = 0 THEN device ELSE Learn(h[n - 1], entries[n])
    BY <1>3, <2>2 DEF Learned
  <2>4. Learned(h, device, entries, m)
    BY <2>3 DEF Learned
  <2> QED BY <2>4
<1> QED BY <1>2, <1>3

LEMMA LearnAllIs ==
  ASSUME NEW device, NEW entries, Len(entries) \in Nat
  PROVE  \E g : /\ Learned(g, device, entries, Len(entries))
                /\ LearnAll(device, entries) = g[Len(entries)]
<1>1. \E g : Learned(g, device, entries, Len(entries))
  BY LearnedExists
<1> QED BY <1>1 DEF LearnAll, Learned

(* A field that is known stays as it is. *)
Extends(later, device) ==
  \A f \in DOMAIN device : f \in DOMAIN later /\ later[f] = device[f]

LEMMA LearnAllExtends ==
  ASSUME NEW device, NEW entries, Len(entries) \in Nat
  PROVE  Extends(LearnAll(device, entries), device)
<1>1. PICK g : /\ Learned(g, device, entries, Len(entries))
               /\ LearnAll(device, entries) = g[Len(entries)]
  BY LearnAllIs
<1> DEFINE Lost == {n \in Nat : n <= Len(entries) /\ ~ Extends(g[n], device)}
<1>2. ASSUME Lost # {} PROVE FALSE
  <2>1. PICK n \in Lost : \A k \in Lost : n <= k
    BY <1>2, LeastIn
  <2>2. n # 0
    BY <1>1, <2>1 DEF Learned, Extends
  <2>3. n - 1 \in Nat /\ Extends(g[n - 1], device)
    BY <2>1, <2>2
  <2>4. g[n] = Learn(g[n - 1], entries[n])
    BY <1>1, <2>2 DEF Learned
  <2>5. Extends(g[n], device)
    BY <2>3, <2>4 DEF Extends, Learn
  <2> QED BY <2>1, <2>5
<1> QED BY <1>1, <1>2

(* UbntDiscovery. What is known of a device stays bytes. *)
Typed(device) == \A f \in DOMAIN device : device[f] \in Bytes

LEMMA SaysType == ASSUME NEW e \in Entry PROVE Typed(Says(e))
<1>1. e.value \in Bytes
  BY DEF Entry
<1>2. e.value \in DOMAIN JsonFields => Typed(JsonFields[e.value])
  BY DiscoveryAssumption DEF Typed
<1>3. Typed(Empty)
  BY DEF Typed, Empty
<1>4. Typed([f \in {Field[e.key[1]]} |-> e.value])
  BY <1>1 DEF Typed
<1>5. Typed([f \in LooksLike(e.value) |-> e.value])
  BY <1>1 DEF Typed
<1> QED BY <1>2, <1>3, <1>4, <1>5 DEF Says

LEMMA LearnAllType ==
  ASSUME NEW device, Typed(device), NEW entries \in Seq(Entry)
  PROVE  Typed(LearnAll(device, entries))
<1>1. PICK g : /\ Learned(g, device, entries, Len(entries))
               /\ LearnAll(device, entries) = g[Len(entries)]
  BY LearnAllIs
<1> DEFINE Untyped == {n \in Nat : n <= Len(entries) /\ ~ Typed(g[n])}
<1>2. ASSUME Untyped # {} PROVE FALSE
  <2>1. PICK n \in Untyped : \A k \in Untyped : n <= k
    BY <1>2, LeastIn
  <2>2. n # 0
    BY <1>1, <2>1 DEF Learned
  <2>3. n - 1 \in Nat /\ Typed(g[n - 1])
    BY <2>1, <2>2
  <2>4. g[n] = Learn(g[n - 1], entries[n])
    BY <1>1, <2>2 DEF Learned
  <2>5. Typed(Says(entries[n]))
    BY <2>2, SaysType
  <2>6. Typed(g[n])
    BY <2>3, <2>4, <2>5 DEF Typed, Learn
  <2> QED BY <2>1, <2>6
<1> QED BY <1>1, <1>2

DeviceList(devs) ==
  /\ DOMAIN devs \subseteq Hosts
  /\ IsFiniteSet(DOMAIN devs) /\ Cardinality(DOMAIN devs) <= MaxDevices
  /\ \A ip \in DOMAIN devs : Typed(devs[ip])

LEMMA EmptyList == DeviceList(Empty)
<1>1. DOMAIN Empty = {}
  BY DEF Empty
<1> QED BY <1>1, FS_EmptySet, DiscoveryAssumption DEF DeviceList

LEMMA MergeType ==
  ASSUME NEW devs, DeviceList(devs), NEW ip \in Hosts, NEW entries \in Seq(Entry)
  PROVE  DeviceList(Merge(devs, ip, entries))
<1> DEFINE new == Merge(devs, ip, entries)
<1> SUFFICES ASSUME new = With(devs, ip, entries),
                    ip \in DOMAIN devs \/ Cardinality(DOMAIN devs) < MaxDevices
             PROVE  DeviceList(new)
  BY DEF Merge
<1>1. DOMAIN new = DOMAIN devs \cup {ip}
  BY DEF With
<1>2. IsFiniteSet(DOMAIN new) /\ Cardinality(DOMAIN new) <= MaxDevices
  <2>1. CASE ip \in DOMAIN devs
    <3>1. DOMAIN new = DOMAIN devs
      BY <1>1, <2>1
    <3> QED BY <3>1 DEF DeviceList
  <2>2. CASE ip \notin DOMAIN devs
    <3>1. Cardinality(DOMAIN devs) \in Nat
      BY FS_CardinalityType DEF DeviceList
    <3>2. IsFiniteSet(DOMAIN new) /\ Cardinality(DOMAIN new) = Cardinality(DOMAIN devs) + 1
      BY <1>1, <2>2, FS_AddElement DEF DeviceList
    <3> QED BY <2>2, <3>1, <3>2, DiscoveryAssumption
  <2> QED BY <2>1, <2>2
<1>3. ASSUME NEW i \in DOMAIN new PROVE Typed(new[i])
  <2>1. CASE i # ip
    BY <1>1, <2>1 DEF With, DeviceList
  <2>2. CASE i = ip
    <3> DEFINE known == IF ip \in DOMAIN devs THEN devs[ip] ELSE Empty
    <3>1. Typed(known)
      BY DEF DeviceList, Typed, Empty
    <3>2. new[i] = LearnAll(known, entries)
      BY <1>1, <2>2 DEF With
    <3> QED BY <3>1, <3>2, LearnAllType
  <2> QED BY <2>1, <2>2
<1> QED BY <1>1, <1>2, <1>3 DEF DeviceList

LEMMA MergeExtends ==
  ASSUME NEW devs, NEW ip, NEW entries, Len(entries) \in Nat
  PROVE  /\ DOMAIN devs \subseteq DOMAIN Merge(devs, ip, entries)
         /\ DOMAIN Merge(devs, ip, entries) \subseteq DOMAIN devs \cup {ip}
         /\ \A i \in DOMAIN devs : Extends(Merge(devs, ip, entries)[i], devs[i])
<1>1. \A d : Extends(d, d)
  BY DEF Extends
<1>2. \A d : Extends(LearnAll(d, entries), d)
  BY LearnAllExtends
<1> QED BY <1>1, <1>2 DEF Merge, With

-----------------------------------------------------------------------------
(* The lists of devices are finite, short and of bytes, and no time is later   *)
(* than now.                                                                   *)
DiscoveryShape ==
  /\ DiscoveryTypeOK
  /\ DOMAIN devices = Callers /\ \A c \in Callers : DeviceList(devices[c])
  /\ DOMAIN answer = Callers
  /\ \A c \in Callers : entered[c] <= clock
  /\ \A ip \in Hosts : heard[ip] <= clock

LEMMA DiscoveryInitShape == DiscoveryInit => DiscoveryShape
<1> SUFFICES ASSUME DiscoveryInit PROVE DiscoveryShape
  OBVIOUS
<1>1. 0 \in 0 .. MaxClock
  BY DiscoveryAssumption
<1>2. \A c \in Callers : DeviceList(devices[c])
  BY EmptyList DEF DiscoveryInit
<1>3. DiscoveryTypeOK
  <2>1. \A c \in Callers : /\ DOMAIN devices[c] \subseteq Hosts
                           /\ Cardinality(DOMAIN devices[c]) <= MaxDevices
                           /\ \A ip \in DOMAIN devices[c] : Typed(devices[c][ip])
    BY <1>2 DEF DeviceList
  <2> QED BY <1>1, <2>1 DEF DiscoveryInit, DiscoveryTypeOK, Typed
<1> QED BY <1>1, <1>2, <1>3 DEF DiscoveryInit, DiscoveryShape

(* The part of the type that is about the devices follows from their lists.    *)
LEMMA ListsAreTyped ==
  ASSUME \A c \in Callers : DeviceList(devices[c])
  PROVE  \A c \in Callers :
           /\ DOMAIN devices[c] \subseteq Hosts
           /\ Cardinality(DOMAIN devices[c]) <= MaxDevices
           /\ \A ip \in DOMAIN devices[c] : \A f \in DOMAIN devices[c][ip] :
                devices[c][ip][f] \in Bytes
BY DEF DeviceList, Typed

LEMMA HearShape ==
  ASSUME DiscoveryShape, NEW c \in Callers, NEW ip \in Hosts, NEW d \in Datagrams, Hear(c, ip, d)
  PROVE  DiscoveryShape'
<1> DEFINE entries == ubnt_discover_recv(d, Entries)
<1>1. entries \in Seq(Entry)
  BY RecvType, DiscoveryAssumption DEF Entries
<1> HIDE DEF entries
<1>2. devices' = [devices EXCEPT ![c] = Merge(@, ip, entries)]
  BY DEF Hear, entries
<1>3. DeviceList(Merge(devices[c], ip, entries))
  BY <1>1, MergeType DEF DiscoveryShape
<1>4. DOMAIN devices' = Callers /\ \A b \in Callers : DeviceList(devices'[b])
  BY <1>2, <1>3 DEF DiscoveryShape
<1>5. /\ heard' = [heard EXCEPT ![ip] = clock]
      /\ UNCHANGED <<clock, at, entered, answer, cache_buf, cached, cache_time, changed,
                     overlapped, wild>>
  BY DEF Hear
<1>6. DiscoveryTypeOK'
  BY <1>4, <1>5, ListsAreTyped DEF DiscoveryShape, DiscoveryTypeOK, DeviceList, Typed
<1> QED BY <1>4, <1>5, <1>6 DEF DiscoveryShape, DiscoveryTypeOK

LEMMA DiscoveryStepShape == DiscoveryShape /\ [DiscoveryNext]_discoveryVars => DiscoveryShape'
<1> SUFFICES ASSUME DiscoveryShape, [DiscoveryNext]_discoveryVars PROVE DiscoveryShape'
  OBVIOUS
<1>1. ASSUME NEW c \in Callers, Enter(c) PROVE DiscoveryShape'
  <2>1. DOMAIN devices' = Callers /\ \A b \in Callers : DeviceList(devices'[b])
    BY <1>1, EmptyList DEF DiscoveryShape, Enter
  <2>2. DiscoveryTypeOK'
    BY <1>1, <2>1 DEF DiscoveryShape, DiscoveryTypeOK, DeviceList, Typed, Enter
  <2> QED BY <1>1, <2>1, <2>2 DEF DiscoveryShape, DiscoveryTypeOK, Enter
<1>2. ASSUME NEW c \in Callers, Copy(c) PROVE DiscoveryShape'
  BY <1>2 DEF DiscoveryShape, DiscoveryTypeOK, Copy
<1>3. ASSUME NEW c \in Callers, NEW ip \in Hosts, NEW d \in Datagrams, Hear(c, ip, d)
      PROVE  DiscoveryShape'
  BY <1>3, HearShape
<1>4. ASSUME NEW c \in Callers, WindowEnds(c) PROVE DiscoveryShape'
  BY <1>4 DEF DiscoveryShape, DiscoveryTypeOK, WindowEnds
<1>5. ASSUME NEW c \in Callers, FreeOld(c) PROVE DiscoveryShape'
  BY <1>5 DEF DiscoveryShape, DiscoveryTypeOK, FreeOld
<1>6. ASSUME NEW c \in Callers, Store(c) PROVE DiscoveryShape'
  BY <1>6 DEF DiscoveryShape, DiscoveryTypeOK, Store
<1>7. CASE DiscoveryTick
  BY <1>7, DiscoveryAssumption DEF DiscoveryShape, DiscoveryTypeOK, DiscoveryTick
<1>8. CASE UNCHANGED discoveryVars
  BY <1>8 DEF DiscoveryShape, DiscoveryTypeOK, discoveryVars
<1> QED BY <1>1, <1>2, <1>3, <1>4, <1>5, <1>6, <1>7, <1>8 DEF DiscoveryNext

(* The devices a discovery knows have their room and hold bytes, whatever      *)
(* datagrams arrive (ubnt_discover.c 164-259, 2199-2313).                      *)
THEOREM DiscoveryIsTyped == DiscoverySpec => []DiscoveryTypeOK
<1>1. DiscoveryShape => DiscoveryTypeOK
  BY DEF DiscoveryShape
<1> QED BY DiscoveryInitShape, DiscoveryStepShape, <1>1, PTL DEF DiscoverySpec

(* No reply of a window changes what an earlier one said (2206-2268).          *)
THEOREM FieldsStay == DiscoverySpec => KnownFieldsStay
<1> DEFINE Stays == \A c \in Callers :
                      at[c] = "probe" /\ at'[c] = "probe" =>
                        \A ip \in DOMAIN devices[c] :
                          \A f \in DOMAIN devices[c][ip] :
                            /\ ip \in DOMAIN devices'[c]
                            /\ f \in DOMAIN devices'[c][ip]
                            /\ devices'[c][ip][f] = devices[c][ip][f]
<1>1. DiscoveryShape /\ [DiscoveryNext]_discoveryVars => [Stays]_discoveryVars
  <2> SUFFICES ASSUME DiscoveryShape, DiscoveryNext, NEW c \in Callers,
                      at[c] = "probe", at'[c] = "probe",
                      NEW ip \in DOMAIN devices[c]
               PROVE  ip \in DOMAIN devices'[c] /\ Extends(devices'[c][ip], devices[c][ip])
    BY DEF Extends
  <2>1. \A d : Extends(d, d)
    BY DEF Extends
  <2>2. ASSUME NEW b \in Callers, NEW h \in Hosts, NEW d \in Datagrams, Hear(b, h, d)
        PROVE  ip \in DOMAIN devices'[c] /\ Extends(devices'[c][ip], devices[c][ip])
    <3> DEFINE entries == ubnt_discover_recv(d, Entries)
    <3>1. Len(entries) \in Nat
      BY RecvType, DiscoveryAssumption DEF Entries
    <3> HIDE DEF entries
    <3>2. devices' = [devices EXCEPT ![b] = Merge(@, h, entries)]
      BY <2>2 DEF Hear, entries
    <3> QED BY <2>1, <3>1, <3>2, MergeExtends DEF DiscoveryShape
  <2>3. ASSUME NEW b \in Callers, Enter(b) \/ Copy(b) \/ WindowEnds(b) \/ FreeOld(b) \/ Store(b)
        PROVE  devices'[c] = devices[c]
    BY <2>3 DEF DiscoveryShape, Enter, Copy, WindowEnds, FreeOld, Store
  <2>4. DiscoveryTick => devices'[c] = devices[c]
    BY DEF DiscoveryTick
  <2> QED BY <2>1, <2>2, <2>3, <2>4 DEF DiscoveryNext
<1> QED BY DiscoveryInitShape, DiscoveryStepShape, <1>1, PTL DEF DiscoverySpec, KnownFieldsStay

-----------------------------------------------------------------------------
(* As long as calls do not overlap. At most one is under way; only a call      *)
(* that is about to store leaves freed memory behind; a hit is still one; what *)
(* a caller collected replied since it began, and what is remembered since the *)
(* time it is dated with.                                                      *)
OneAtATime == \A c \in Callers, d \in Callers : at[c] # "out" /\ at[d] # "out" => c = d

BufferIsLive ==
  /\ ~wild
  /\ cache_buf = "freed" => \E c \in Callers : at[c] = "store"
  /\ \A c \in Callers :
       at[c] = "copy" => /\ cache_buf = "live" /\ c \notin changed
                         /\ entered[c] - cache_time < g_ubnt_cache_ttl_s

RepliedSince(c, ip) ==
  heard[ip] >= entered[c] \/ heard[ip] > entered[c] - g_ubnt_cache_ttl_s

RepliesAreRecent ==
  /\ cache_buf = "live" => \A ip \in DOMAIN cached : ip \in Hosts /\ heard[ip] >= cache_time
  /\ \A c \in Callers :
       /\ at[c] \in {"probe", "free", "store"} =>
            \A ip \in DOMAIN devices[c] : heard[ip] >= entered[c]
       /\ at[c] = "out" /\ answer[c] # Nothing =>
            \A ip \in DOMAIN answer[c] : ip \in Hosts /\ RepliedSince(c, ip)
       /\ at[c] \in {"free", "store"} => answer[c] = devices[c]

RecentInv == ~overlapped => OneAtATime /\ BufferIsLive /\ RepliesAreRecent

LEMMA RecentInit == DiscoveryInit => RecentInv
BY DEF DiscoveryInit, RecentInv, OneAtATime, BufferIsLive, RepliesAreRecent, Empty

(* A reply is heard no earlier than any that was heard before. *)
LEMMA HeardGrows ==
  ASSUME DiscoveryShape, DiscoveryShape', NEW h \in Hosts, heard' = [heard EXCEPT ![h] = clock]
  PROVE  /\ \A ip \in Hosts : heard'[ip] >= heard[ip] /\ heard[ip] \in Int /\ heard'[ip] \in Int
         /\ heard'[h] = clock /\ clock \in Int
BY DiscoveryAssumption DEF DiscoveryShape, DiscoveryTypeOK

LEMMA RecentStep ==
  DiscoveryShape /\ DiscoveryShape' /\ RecentInv /\ [DiscoveryNext]_discoveryVars => RecentInv'
<1> SUFFICES ASSUME DiscoveryShape, DiscoveryShape', RecentInv,
                    [DiscoveryNext]_discoveryVars, ~overlapped'
             PROVE  OneAtATime' /\ BufferIsLive' /\ RepliesAreRecent'
  BY DEF RecentInv
<1>1. ~overlapped
  BY DEF DiscoveryNext, discoveryVars, Enter, Copy, Hear, WindowEnds, FreeOld, Store, DiscoveryTick
<1>2. OneAtATime /\ BufferIsLive /\ RepliesAreRecent
  BY <1>1 DEF RecentInv
<1>3. /\ clock \in Int /\ cache_time \in Int /\ g_ubnt_cache_ttl_s \in Int
      /\ at \in [Callers -> {"out", "copy", "probe", "free", "store"}]
      /\ \A c \in Callers : entered[c] \in Int /\ entered[c] <= clock
      /\ \A ip \in Hosts : heard[ip] \in Int /\ heard[ip] <= clock
      /\ DOMAIN entered = Callers /\ DOMAIN answer = Callers /\ DOMAIN devices = Callers
      /\ \A c \in Callers : DOMAIN devices[c] \subseteq Hosts
  BY DiscoveryAssumption DEF DiscoveryShape, DiscoveryTypeOK
<1>4. ASSUME NEW c \in Callers, Enter(c) PROVE OneAtATime' /\ BufferIsLive' /\ RepliesAreRecent'
  <2>1. \A d \in Callers \ {c} : at[d] = "out"
    BY <1>1, <1>4 DEF Enter
  <2>2. cache_buf # "freed"
    BY <1>2, <1>4, <2>1 DEF BufferIsLive, Enter
  <2>3. cache_buf \in {"none", "live", "freed"}
    BY DEF DiscoveryShape, DiscoveryTypeOK
  <2>4. OneAtATime'
    BY <1>3, <1>4, <2>1 DEF OneAtATime, Enter
  <2>5. BufferIsLive'
    BY <1>2, <1>3, <1>4, <2>1, <2>2, <2>3 DEF BufferIsLive, Enter, Usable
  <2>6. RepliesAreRecent'
    <3>1. devices'[c] = Empty /\ DOMAIN devices'[c] = {}
      BY <1>3, <1>4 DEF Enter, Empty
    <3> QED BY <1>2, <1>3, <1>4, <2>1, <3>1 DEF RepliesAreRecent, RepliedSince, Enter
  <2> QED BY <2>4, <2>5, <2>6
<1>5. ASSUME NEW c \in Callers, Copy(c) PROVE OneAtATime' /\ BufferIsLive' /\ RepliesAreRecent'
  <2>1. OneAtATime' /\ BufferIsLive'
    BY <1>2, <1>3, <1>5 DEF OneAtATime, BufferIsLive, Copy
  <2>2. \A ip \in DOMAIN cached : ip \in Hosts /\ RepliedSince(c, ip)
    BY <1>2, <1>3, <1>5 DEF BufferIsLive, RepliesAreRecent, RepliedSince, Copy
  <2>3. RepliesAreRecent'
    BY <1>2, <1>3, <1>5, <2>2 DEF RepliesAreRecent, RepliedSince, Copy
  <2> QED BY <2>1, <2>3
<1>6. ASSUME NEW c \in Callers, NEW h \in Hosts, NEW d \in Datagrams, Hear(c, h, d)
      PROVE  OneAtATime' /\ BufferIsLive' /\ RepliesAreRecent'
  <2> DEFINE entries == ubnt_discover_recv(d, Entries)
  <2>1. Len(entries) \in Nat
    BY RecvType, DiscoveryAssumption DEF Entries
  <2> HIDE DEF entries
  <2>2. /\ devices' = [devices EXCEPT ![c] = Merge(@, h, entries)]
        /\ heard' = [heard EXCEPT ![h] = clock]
    BY <1>6 DEF Hear, entries
  <2>3. OneAtATime' /\ BufferIsLive'
    BY <1>2, <1>6 DEF OneAtATime, BufferIsLive, Hear
  <2>4. DOMAIN devices'[c] \subseteq DOMAIN devices[c] \cup {h}
    BY <1>3, <2>1, <2>2, MergeExtends
  <2>5. /\ \A ip \in Hosts : heard'[ip] >= heard[ip] /\ heard'[ip] \in Int
        /\ heard'[h] = clock
    BY <2>2, HeardGrows
  <2>6. UNCHANGED <<at, entered, answer, cache_buf, cached, cache_time>> /\ at[c] = "probe"
    BY <1>6 DEF Hear
  <2>7. \A ip \in DOMAIN devices'[c] : heard'[ip] >= entered[c]
    BY <1>2, <1>3, <2>4, <2>5, <2>6 DEF RepliesAreRecent
  <2>8. \A b \in Callers \ {c} : devices'[b] = devices[b] /\ at[b] = "out"
    BY <1>2, <1>3, <2>2, <2>6 DEF OneAtATime
  <2>9. \A ip \in DOMAIN cached : cache_buf = "live" => ip \in Hosts /\ heard'[ip] >= cache_time
    BY <1>2, <1>3, <2>5 DEF RepliesAreRecent
  <2>10. \A b \in Callers :
           at[b] = "out" /\ answer[b] # Nothing =>
             \A ip \in DOMAIN answer[b] : ip \in Hosts /\ RepliedSince(b, ip)'
    BY <1>2, <1>3, <2>5, <2>6 DEF RepliesAreRecent, RepliedSince
  <2>11. RepliesAreRecent'
    BY <2>6, <2>7, <2>8, <2>9, <2>10 DEF RepliesAreRecent
  <2> QED BY <2>3, <2>11
<1>7. ASSUME NEW c \in Callers, WindowEnds(c)
      PROVE  OneAtATime' /\ BufferIsLive' /\ RepliesAreRecent'
  <2>1. OneAtATime' /\ BufferIsLive'
    BY <1>2, <1>3, <1>7 DEF OneAtATime, BufferIsLive, WindowEnds
  <2>2. RepliesAreRecent'
    BY <1>2, <1>3, <1>7 DEF RepliesAreRecent, RepliedSince, WindowEnds
  <2> QED BY <2>1, <2>2
<1>8. ASSUME NEW c \in Callers, FreeOld(c) PROVE OneAtATime' /\ BufferIsLive' /\ RepliesAreRecent'
  <2>1. OneAtATime'
    BY <1>2, <1>3, <1>8 DEF OneAtATime, FreeOld
  <2>2. \A b \in Callers \ {c} : at[b] = "out"
    BY <1>2, <1>3, <1>8 DEF OneAtATime, FreeOld
  <2>3. cache_buf # "freed"
    BY <1>2, <1>8, <2>2 DEF BufferIsLive, FreeOld
  <2>4. BufferIsLive'
    BY <1>2, <1>3, <1>8, <2>2, <2>3 DEF BufferIsLive, FreeOld
  <2>5. RepliesAreRecent'
    BY <1>2, <1>3, <1>8 DEF RepliesAreRecent, RepliedSince, FreeOld
  <2> QED BY <2>1, <2>4, <2>5
<1>9. ASSUME NEW c \in Callers, Store(c) PROVE OneAtATime' /\ BufferIsLive' /\ RepliesAreRecent'
  <2>1. OneAtATime'
    BY <1>2, <1>3, <1>9 DEF OneAtATime, Store
  <2>2. \A b \in Callers \ {c} : at[b] = "out"
    BY <1>2, <1>3, <1>9 DEF OneAtATime, Store
  <2>3. BufferIsLive'
    BY <1>2, <1>3, <1>9, <2>2 DEF BufferIsLive, Store
  <2>4. RepliesAreRecent'
    BY <1>2, <1>3, <1>9, <2>2 DEF RepliesAreRecent, RepliedSince, Store
  <2> QED BY <2>1, <2>3, <2>4
<1>10. CASE DiscoveryTick
  BY <1>2, <1>3, <1>10 DEF OneAtATime, BufferIsLive, RepliesAreRecent, RepliedSince, DiscoveryTick
<1>11. CASE UNCHANGED discoveryVars
  BY <1>2, <1>11 DEF OneAtATime, BufferIsLive, RepliesAreRecent, RepliedSince, discoveryVars
<1> QED BY <1>4, <1>5, <1>6, <1>7, <1>8, <1>9, <1>10, <1>11 DEF DiscoveryNext

(* One call at a time, a remembered answer is whole and of devices that        *)
(* replied recently (2065-2100, 2351-2360), for any number of callers, window  *)
(* and time to live.                                                           *)
THEOREM RepliesRemembered == DiscoverySpec => []RemembersRecentReplies
<1>1. RecentInv => RemembersRecentReplies
  BY DEF RecentInv, BufferIsLive, RepliesAreRecent, RepliedSince, RemembersRecentReplies
<1> QED
  BY DiscoveryInitShape, DiscoveryStepShape, RecentInit, RecentStep, <1>1, PTL DEF DiscoverySpec
=============================================================================
