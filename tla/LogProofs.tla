----------------------------- MODULE LogProofs -----------------------------
(***************************************************************************)
(* Proofs about the log, for a ring and lines of any size: what /log shows *)
(* are the last lines pushed, the ring implements LineLog, and what is     *)
(* written to stderr is in the lines.                                      *)
(***************************************************************************)
EXTENDS LogCapture, DataLemmas

(* What is pushed: the reader's lines and those of plugin_log_trace. *)
Storable == {Trace} \cup UNION {[1 .. n -> {"a"}] : n \in 0 .. LineMax}

-----------------------------------------------------------------------------
(* Slots of the ring, counted backwards from the head. *)
SlotAt(h, k) == IF k <= h THEN h - k ELSE h - k + g_log_buf_lines

LEMMA Modulo ==
  ASSUME NEW n \in Nat \ {0}, NEW x \in 0 .. 2 * n - 1
  PROVE  x % n = IF x < n THEN x ELSE x - n
OBVIOUS

LEMMA StartSlot ==
  ASSUME NEW k \in 0 .. g_log_buf_lines, head \in 0 .. g_log_buf_lines - 1
  PROVE  Start(k) = SlotAt(head, k)
<1> DEFINE L == g_log_buf_lines
           x == head - k + L
<1>1. L \in Nat \ {0}
  BY LogAssumption
<1>2. x \in 0 .. 2 * L - 1
  BY <1>1
<1>3. x % L = IF x < L THEN x ELSE x - L
  <2> HIDE DEF x, L
  <2> QED BY <1>1, <1>2, Modulo
<1>4. (IF x < L THEN x ELSE x - L) = SlotAt(head, k)
  BY <1>1 DEF SlotAt
<1> QED BY <1>3, <1>4 DEF Start

LEMMA NextSlot ==
  ASSUME NEW k \in 0 .. g_log_buf_lines, NEW n \in 1 .. k,
         head \in 0 .. g_log_buf_lines - 1
  PROVE  (Start(k) + n - 1) % g_log_buf_lines = SlotAt(head, k - n + 1)
<1> DEFINE L == g_log_buf_lines
           x == SlotAt(head, k) + n - 1
<1>1. L \in Nat \ {0}
  BY LogAssumption
<1>2. x \in 0 .. 2 * L - 1
  BY <1>1 DEF SlotAt
<1>3. x % L = IF x < L THEN x ELSE x - L
  BY <1>1, <1>2, Modulo
<1>4. (IF x < L THEN x ELSE x - L) = SlotAt(head, k - n + 1)
  BY <1>1 DEF SlotAt
<1> QED BY <1>3, <1>4, StartSlot

-----------------------------------------------------------------------------
(* While there is memory, the slots behind the head hold the last lines.       *)
RingHolds ==
  /\ count = IF Len(pushed) < g_log_buf_lines THEN Len(pushed) ELSE g_log_buf_lines
  /\ \A k \in 1 .. count : ring[SlotAt(head, k)] = pushed[Len(pushed) - k + 1]

RingInv ==
  IF captured
  THEN /\ ring \in [0 .. g_log_buf_lines - 1 -> Storable]
       /\ RingHolds
       /\ pushing # <<>> => pushing[2] = TRUE
  ELSE ring = Freed

LogInv ==
  /\ head \in 0 .. g_log_buf_lines - 1 /\ count \in 0 .. g_log_buf_lines
  /\ pushed \in Seq(Storable)
  /\ line \in Seq({"a"}) /\ Len(line) <= LineMax
  /\ pushing = <<>> \/ pushing \in Storable \X BOOLEAN
  /\ captured \in BOOLEAN
  /\ RingInv

LEMMA CapturedHasRing == ASSUME LogInv PROVE captured <=> ring # Freed
<1>1. ASSUME ring \in [0 .. g_log_buf_lines - 1 -> Storable] PROVE ring # Freed
  <2>1. 0 \in DOMAIN ring
    BY <1>1, LogAssumption
  <2>2. 0 \notin DOMAIN <<>>
    OBVIOUS
  <2> QED BY <2>1, <2>2 DEF Freed
<1> QED BY <1>1 DEF LogInv, RingInv

LEMMA LineIsStorable == ASSUME LogInv PROVE line \in Storable
<1>1. line \in [1 .. Len(line) -> {"a"}] /\ Len(line) \in 0 .. LineMax
  BY LogAssumption DEF LogInv
<1> QED BY <1>1 DEF Storable

(* A push with a slot. *)
LEMMA PushHolds ==
  ASSUME LogInv, captured, NEW l \in Storable, Push(l, TRUE)
  PROVE  /\ head' \in 0 .. g_log_buf_lines - 1 /\ count' \in 0 .. g_log_buf_lines
         /\ ring' \in [0 .. g_log_buf_lines - 1 -> Storable]
         /\ RingHolds'
<1> DEFINE L == g_log_buf_lines
<1>1. /\ L \in Nat \ {0} /\ head \in 0 .. L - 1 /\ count \in 0 .. L
      /\ ring \in [0 .. L - 1 -> Storable] /\ RingHolds /\ Len(pushed) \in Nat
  BY LogAssumption DEF LogInv, RingInv
<1>2. /\ pushed' = Append(pushed, l)
      /\ ring' = [ring EXCEPT ![head] = l]
      /\ head' = (head + 1) % L
      /\ count' = IF count < L THEN count + 1 ELSE count
  BY CapturedHasRing DEF Push
<1>3. head' = IF head + 1 < L THEN head + 1 ELSE 0
  <2> DEFINE x == head + 1
  <2>1. x \in 0 .. 2 * L - 1
    BY <1>1
  <2>2. x % L = IF x < L THEN x ELSE x - L
    <3> HIDE DEF x, L
    <3> QED BY <1>1, <2>1, Modulo
  <2> QED BY <1>1, <1>2, <2>2
<1>4. Len(pushed') = Len(pushed) + 1 /\ pushed'[Len(pushed) + 1] = l
  BY <1>2, AppendProperties DEF LogInv
<1>5. \A i \in 1 .. Len(pushed) : pushed'[i] = pushed[i]
  BY <1>2, AppendProperties DEF LogInv
<1>6. ASSUME NEW k \in 1 .. count' PROVE ring'[SlotAt(head', k)] = pushed'[Len(pushed') - k + 1]
  <2>1. CASE k = 1
    <3>1. SlotAt(head', k) = head
      BY <1>1, <1>3, <2>1 DEF SlotAt
    <3> QED BY <1>1, <1>2, <1>4, <2>1, <3>1
  <2>2. CASE k > 1
    <3>1. k - 1 \in 1 .. count /\ k - 1 < L
      BY <1>1, <1>2, <2>2
    <3>2. SlotAt(head', k) = SlotAt(head, k - 1) /\ SlotAt(head, k - 1) \in 0 .. L - 1
      BY <1>1, <1>3, <3>1 DEF SlotAt
    <3>3. SlotAt(head, k - 1) # head
      BY <1>1, <3>1 DEF SlotAt
    <3>4. ring'[SlotAt(head', k)] = ring[SlotAt(head, k - 1)]
      BY <1>1, <1>2, <3>2, <3>3
    <3>5. ring[SlotAt(head, k - 1)] = pushed[Len(pushed) - (k - 1) + 1]
      BY <1>1, <3>1 DEF RingHolds
    <3>6. /\ Len(pushed) - (k - 1) + 1 \in 1 .. Len(pushed)
          /\ Len(pushed') - k + 1 = Len(pushed) - (k - 1) + 1
      BY <1>1, <1>4, <3>1 DEF RingHolds
    <3> QED BY <1>5, <3>4, <3>5, <3>6
  <2>3. count' \in Nat
    BY <1>1, <1>2
  <2> QED BY <2>1, <2>2, <2>3
<1>7. count' = IF Len(pushed') < L THEN Len(pushed') ELSE L
  BY <1>1, <1>2, <1>4 DEF RingHolds
<1> QED BY <1>1, <1>2, <1>3, <1>6, <1>7 DEF RingHolds

(* Any push: with a slot in freed memory it stores nothing the ring shows. *)
LEMMA PushInv ==
  ASSUME LogInv, NEW l \in Storable, NEW slot \in BOOLEAN, Push(l, slot),
         captured => slot = TRUE, captured' = captured, line' = line, pushing' = <<>>
  PROVE  LogInv'
<1>1. pushed' \in Seq(Storable)
  BY AppendProperties DEF LogInv, Push
<1>2. CASE captured
  BY <1>1, <1>2, PushHolds DEF LogInv, RingInv
<1>3. CASE ~captured
  <2>1. ring = Freed /\ ring' = Freed
    BY <1>3 DEF LogInv, RingInv, Push
  <2>2. head' \in 0 .. g_log_buf_lines - 1 /\ count' \in 0 .. g_log_buf_lines
    BY LogAssumption DEF LogInv, Push
  <2> QED BY <1>1, <1>3, <2>1, <2>2 DEF LogInv, RingInv
<1> QED BY <1>2, <1>3 DEF LogInv

LEMMA LogInitInv == LogInit => LogInv
<1> SUFFICES ASSUME LogInit PROVE LogInv
  OBVIOUS
<1> USE LogAssumption DEF LogInit
<1>1. <<>> \in Storable
  <2>1. <<>> \in [1 .. 0 -> {"a"}]
    OBVIOUS
  <2> QED BY <2>1 DEF Storable
<1>2. ring \in [0 .. g_log_buf_lines - 1 -> Storable]
  BY <1>1
<1>3. RingHolds
  BY DEF RingHolds
<1> QED BY <1>2, <1>3 DEF LogInv, RingInv

LEMMA LogStepInv == LogInv /\ [LogNext]_logVars => LogInv'
<1> SUFFICES ASSUME LogInv, [LogNext]_logVars PROVE LogInv'
  OBVIOUS
<1>1. ASSUME UNCHANGED <<ring, head, count, line, pushing, captured, pushed>>
      PROVE  LogInv'
  BY <1>1 DEF LogInv, RingInv, RingHolds
<1>2. ASSUME NEW c \in Chars, Write(c) PROVE LogInv'
  BY <1>1, <1>2 DEF Write
<1>3. ASSUME NEW n \in 1 .. ReadMax, Read(n) PROVE LogInv'
  BY <1>1, <1>3 DEF Read
<1>4. CASE Scan
  <2>1. /\ line' \in Seq({"a"}) /\ Len(line') <= LineMax
        /\ pushing' = <<>> \/ pushing' = <<line, ring # Freed>>
    <3>1. line \in Seq({"a"}) /\ Len(line) <= LineMax
      BY DEF LogInv
    <3>2. CASE line' = <<>> /\ pushing' = <<line, ring # Freed>>
      BY <3>2, LogAssumption
    <3>3. CASE line' = line /\ pushing' = pushing
      BY <1>4, <3>1, <3>3 DEF Scan
    <3>4. CASE line' = Append(line, "a") /\ pushing' = pushing /\ Len(line) < LineMax
      <4>1. Append(line, "a") \in Seq({"a"}) /\ Len(Append(line, "a")) = Len(line) + 1
        BY <3>1, AppendProperties
      <4> QED BY <1>4, <3>1, <3>4, <4>1, LogAssumption DEF Scan
    <3> QED BY <1>4, <3>2, <3>3, <3>4 DEF Scan
  <2>2. pushing' = <<>> \/ pushing' = <<line, captured>>
    BY <2>1, CapturedHasRing DEF LogInv
  <2>3. /\ pushing' = <<>> \/ pushing' \in Storable \X BOOLEAN
        /\ captured /\ pushing' # <<>> => pushing'[2] = TRUE
    BY <2>2, LineIsStorable DEF LogInv
  <2> QED BY <1>4, <2>1, <2>3 DEF Scan, LogInv, RingInv, RingHolds
<1>5. CASE StoreLine
  <2>1. /\ pushing[1] \in Storable /\ pushing[2] \in BOOLEAN
        /\ captured => pushing[2] = TRUE
    BY <1>5 DEF StoreLine, LogInv, RingInv
  <2> QED BY <1>5, <2>1, PushInv DEF StoreLine
<1>6. CASE plugin_log_trace
  <2>1. Trace \in Storable
    BY DEF Storable
  <2>2. Push(Trace, captured)
    BY <1>6, CapturedHasRing DEF plugin_log_trace, Push, LogInv
  <2>3. captured \in BOOLEAN
    BY DEF LogInv
  <2> QED BY <1>6, <2>1, <2>2, <2>3, PushInv DEF plugin_log_trace
<1>7. CASE stop_stderr_capture
  BY <1>7 DEF stop_stderr_capture, LogInv, RingInv
<1>8. CASE EndReader
  <2>1. <<>> \in Seq({"a"}) /\ Len(<<>>) <= LineMax
    BY LogAssumption
  <2>2. pushing' = <<>> \/ pushing' \in Storable \X BOOLEAN
    BY <1>8, LineIsStorable DEF EndReader
  <2> QED BY <1>8, <2>1, <2>2 DEF EndReader, LogInv, RingInv
<1>9. CASE UNCHANGED logVars
  BY <1>1, <1>9 DEF logVars
<1> QED
  BY <1>2, <1>3, <1>4, <1>5, <1>6, <1>7, <1>8, <1>9 DEF LogNext

-----------------------------------------------------------------------------
(* What /log shows, for any number of lines. *)
ShownLines(k) == [n \in 1 .. k |->
               IF ring = Freed THEN <<>> ELSE ring[(Start(k) + n - 1) % g_log_buf_lines]]

LEMMA LastLines ==
  ASSUME LogInv, captured, NEW k \in 0 .. count
  PROVE  /\ ShownLines(k) = SubSeq(pushed, Len(pushed) - k + 1, Len(pushed))
         /\ ShownLines(k) \in Seq(Storable) /\ Len(ShownLines(k)) = k
         /\ \A n \in 1 .. k : ShownLines(k)[n] = pushed[Len(pushed) - k + n]
<1> DEFINE last == SubSeq(pushed, Len(pushed) - k + 1, Len(pushed))
<1>1. /\ ring # Freed /\ count \in 0 .. g_log_buf_lines /\ Len(pushed) \in Nat
      /\ count <= Len(pushed) /\ head \in 0 .. g_log_buf_lines - 1
      /\ k \in 0 .. g_log_buf_lines
  <2>1. /\ ring # Freed /\ count \in 0 .. g_log_buf_lines /\ Len(pushed) \in Nat
        /\ head \in 0 .. g_log_buf_lines - 1 /\ g_log_buf_lines \in Nat
    BY CapturedHasRing, LogAssumption DEF LogInv
  <2>2. count = IF Len(pushed) < g_log_buf_lines THEN Len(pushed) ELSE g_log_buf_lines
    BY DEF LogInv, RingInv, RingHolds
  <2> QED BY <2>1, <2>2
<1>2. ASSUME NEW n \in 1 .. k PROVE ShownLines(k)[n] = pushed[Len(pushed) - k + n]
  <2>1. ShownLines(k)[n] = ring[SlotAt(head, k - n + 1)]
    BY <1>1, <1>2, NextSlot DEF ShownLines
  <2>2. ring[SlotAt(head, k - n + 1)] = pushed[Len(pushed) - (k - n + 1) + 1]
    BY <1>1, <1>2 DEF LogInv, RingInv, RingHolds
  <2>3. Len(pushed) - (k - n + 1) + 1 = Len(pushed) - k + n
    BY <1>1, <1>2
  <2> QED BY <2>1, <2>2, <2>3
<1>3. \A i \in Len(pushed) - k + 1 .. Len(pushed) : pushed[i] \in Storable
  BY <1>1, ElementOfSeq DEF LogInv
<1>4. /\ last \in Seq(Storable) /\ Len(last) = k
      /\ \A n \in 1 .. k : last[n] = pushed[Len(pushed) - k + n]
  BY <1>1, <1>3, SubSeqProperties
<1>5. ShownLines(k) \in [1 .. k -> Storable]
  BY <1>1, <1>2, <1>3 DEF ShownLines
<1>6. ShownLines(k) \in Seq(Storable) /\ Len(ShownLines(k)) = k
  BY <1>5
<1>7. ShownLines(k) = last
  BY <1>2, <1>4, <1>6, SeqEqual
<1> QED BY <1>2, <1>6, <1>7

(* Whatever a client asks for, it sees the last lines pushed, as many as there *)
(* are and as it asked for (5439-5454, 5545-5584).                             *)
THEOREM ShowsLast == LogSpec => []LogShowsLast
<1>1. LogInv => LogShowsLast
  <2> SUFFICES ASSUME LogInv, ring # Freed,
                      NEW lines \in 0 .. g_log_buf_lines + 1, NEW minutes \in 0 .. 2
               PROVE  LET shown == h_log(lines, minutes)
                      IN /\ shown = SubSeq(pushed, Len(pushed) - Len(shown) + 1, Len(pushed))
                         /\ \/ Len(shown) = Len(pushed)
                            \/ Len(shown) = g_log_buf_lines
                            \/ lines > 0 /\ Len(shown) = lines
                            \/ minutes > 0 /\ Len(shown) = minutes * PerMinute
    BY DEF LogShowsLast
  <2> DEFINE asked == IF lines <= 0 \/ lines > g_log_buf_lines THEN g_log_buf_lines ELSE lines
             rate  == minutes * PerMinute
             most  == IF minutes > 0 /\ rate < asked THEN rate ELSE asked
             avail == IF most < count THEN most ELSE count
  <2>1. h_log(lines, minutes) = ShownLines(avail)
    BY DEF h_log, ShownLines
  <2>2. rate \in Nat
    BY LogAssumption
  <2>3. captured /\ count \in Nat
        /\ count = IF Len(pushed) < g_log_buf_lines THEN Len(pushed) ELSE g_log_buf_lines
    BY CapturedHasRing, LogAssumption DEF LogInv, RingInv, RingHolds
  <2>4. /\ avail \in 0 .. count
        /\ \/ avail = Len(pushed)
           \/ avail = g_log_buf_lines
           \/ lines > 0 /\ avail = lines
           \/ minutes > 0 /\ avail = rate
    <3> HIDE DEF rate
    <3> QED BY <2>2, <2>3, LogAssumption
  <2> HIDE DEF avail
  <2> QED BY <2>1, <2>3, <2>4, LastLines
<1> QED BY LogInitInv, LogStepInv, <1>1, PTL DEF LogSpec

-----------------------------------------------------------------------------
(* The refinement. What LineLog keeps, h_log(0, 0), is all that is in the ring: *)
(* the end of what was pushed.                                                 *)
IsEnd(k, p, c) ==
  /\ k \in Seq(Storable) /\ Len(k) = c
  /\ \A n \in 1 .. c : k[n] = p[Len(p) - c + n]

AtMost(c, n, room) == c = IF n < room THEN n ELSE room

LEMMA EndOfMore ==
  ASSUME NEW L \in Nat \ {0}, NEW p \in Seq(Storable), NEW l \in Storable,
         NEW k, NEW kk, NEW c, NEW d,
         AtMost(c, Len(p), L), AtMost(d, Len(p) + 1, L),
         IsEnd(k, p, c), IsEnd(kk, Append(p, l), d)
  PROVE  LET more == Append(k, l)
         IN kk = SubSeq(more, IF Len(more) > L THEN Len(more) - L + 1 ELSE 1, Len(more))
<1> DEFINE more == Append(k, l)
           pp == Append(p, l)
           from == IF Len(more) > L THEN Len(more) - L + 1 ELSE 1
           last == SubSeq(more, from, Len(more))
<1>1. /\ Len(p) \in Nat /\ c \in Nat /\ d \in Nat /\ c <= Len(p) /\ d <= Len(p) + 1
      /\ (c < L /\ d = c + 1) \/ (c = L /\ d = L)
  <2>1. Len(p) \in Nat
    OBVIOUS
  <2> QED BY <2>1 DEF AtMost
<1>2. /\ Len(pp) = Len(p) + 1 /\ pp[Len(p) + 1] = l
      /\ \A i \in 1 .. Len(p) : pp[i] = p[i]
  BY AppendProperties
<1>3. /\ more \in Seq(Storable) /\ Len(more) = c + 1 /\ more[c + 1] = l
      /\ \A n \in 1 .. c : more[n] = k[n]
  <2>1. k \in Seq(Storable) /\ Len(k) = c
    BY DEF IsEnd
  <2>2. /\ more \in Seq(Storable) /\ Len(more) = Len(k) + 1 /\ more[Len(k) + 1] = l
        /\ \A n \in 1 .. Len(k) : more[n] = k[n]
    BY <2>1, AppendProperties
  <2> QED BY <2>1, <2>2
<1> HIDE DEF more, pp
<1>4. from = c + 2 - d
  BY <1>1, <1>3
<1> HIDE DEF from
<1>5. /\ last \in Seq(Storable) /\ Len(last) = d
      /\ \A n \in 1 .. d : last[n] = more[c + 2 - d + n - 1]
  <2>1. \A i \in from .. Len(more) : more[i] \in Storable
    BY <1>1, <1>3, <1>4, ElementOfSeq
  <2>2. from \in Int /\ Len(more) \in Int
    BY <1>1, <1>3, <1>4
  <2>3. /\ last \in Seq(Storable)
        /\ Len(last) = IF from <= Len(more) THEN Len(more) - from + 1 ELSE 0
        /\ \A n \in 1 .. Len(more) - from + 1 : last[n] = more[from + n - 1]
    BY <2>1, <2>2, SubSeqProperties
  <2>4. Len(more) - from + 1 = d
    BY <1>1, <1>3, <1>4
  <2> QED BY <1>1, <1>3, <1>4, <2>3, <2>4
<1>6. \A n \in 1 .. d : kk[n] = pp[Len(p) + 1 - d + n]
  <2>1. \A n \in 1 .. d : kk[n] = pp[Len(pp) - d + n]
    BY DEF IsEnd, pp
  <2> SUFFICES ASSUME NEW n \in 1 .. d PROVE Len(pp) - d + n = Len(p) + 1 - d + n
    BY <2>1
  <2> QED BY <1>1, <1>2
<1>7. ASSUME NEW n \in 1 .. d PROVE last[n] = kk[n]
  <2>1. CASE n = d
    <3>1. c + 2 - d + n - 1 = c + 1 /\ Len(p) + 1 - d + n = Len(p) + 1
      BY <1>1, <2>1
    <3> QED BY <1>2, <1>3, <1>5, <1>6, <3>1
  <2>2. CASE n < d
    <3>1. /\ c + 2 - d + n - 1 \in 1 .. c
          /\ Len(p) - c + (c + 2 - d + n - 1) = Len(p) + 1 - d + n
          /\ Len(p) + 1 - d + n \in 1 .. Len(p)
      BY <1>1, <2>2
    <3>2. k[c + 2 - d + n - 1] = p[Len(p) + 1 - d + n]
      BY <3>1 DEF IsEnd
    <3> QED BY <1>2, <1>3, <1>5, <1>6, <3>1, <3>2
  <2>3. n = d \/ n < d
    BY <1>1
  <2> QED BY <2>1, <2>2, <2>3
<1>8. kk \in Seq(Storable) /\ Len(kk) = d
  BY DEF IsEnd
<1>9. kk = last
  BY <1>5, <1>7, <1>8, SeqEqual
<1> QED BY <1>9 DEF from, more

Kept == h_log(0, 0)

KeptIsLast == captured => IsEnd(Kept, pushed, count)

KeptNow == Kept = ShownLines(count) /\ KeptIsLast

LEMMA KeptIsShown == LogInv => KeptNow
<1> SUFFICES ASSUME LogInv PROVE Kept = ShownLines(count) /\ KeptIsLast
  BY DEF KeptNow
<1>1. /\ g_log_buf_lines \in Nat \ {0} /\ count \in 0 .. g_log_buf_lines
      /\ count \in 0 .. count
      /\ (IF g_log_buf_lines < count THEN g_log_buf_lines ELSE count) = count
  BY LogAssumption DEF LogInv
<1>2. Kept = ShownLines(count)
  BY <1>1 DEF Kept, h_log, ShownLines
<1>3. CASE captured
  <2>1. /\ ShownLines(count) \in Seq(Storable) /\ Len(ShownLines(count)) = count
        /\ \A n \in 1 .. count : ShownLines(count)[n] = pushed[Len(pushed) - count + n]
    BY <1>1, <1>3, LastLines
  <2> QED BY <1>2, <2>1 DEF KeptIsLast, IsEnd
<1> QED BY <1>2, <1>3 DEF KeptIsLast

LEMMA KeptNext == LogInv' => KeptNow'
BY KeptIsShown, PTL

LEMMA LineIsAdded ==
  ASSUME LogInv, LogInv', captured, captured', NEW l \in Storable, pushed' = Append(pushed, l)
  PROVE  Bounded!Add
<1> DEFINE L == g_log_buf_lines
<1>1. /\ L \in Nat \ {0} /\ pushed \in Seq(Storable)
      /\ count = IF Len(pushed) < L THEN Len(pushed) ELSE L
      /\ count' = IF Len(pushed') < L THEN Len(pushed') ELSE L
  BY LogAssumption DEF LogInv, RingInv, RingHolds
<1>2. Len(pushed') = Len(pushed) + 1
  BY <1>1, AppendProperties
<1>3. AtMost(count, Len(pushed), L) /\ AtMost(count', Len(pushed) + 1, L)
  BY <1>1, <1>2 DEF AtMost
<1>4. IsEnd(Kept, pushed, count) /\ IsEnd(Kept', Append(pushed, l), count')
  BY KeptIsShown, KeptNext DEF KeptNow, KeptIsLast
<1> HIDE DEF L
<1>5. LET more == Append(Kept, l)
      IN Kept' = SubSeq(more, IF Len(more) > L THEN Len(more) - L + 1 ELSE 1, Len(more))
  BY <1>1, <1>3, <1>4, EndOfMore
<1>6. Kept' = Bounded!LastOf(Append(Kept, l), L)
  BY <1>5 DEF Bounded!LastOf
<1> QED BY <1>6 DEF Bounded!Add, Kept, Storable, L

(* Once the memory is freed, a line is added without its text or not at all. *)
LEMMA BlankIsAdded ==
  ASSUME LogInv, LogInv', ~captured, ~captured',
         count' = IF count < g_log_buf_lines THEN count + 1 ELSE count
  PROVE  Bounded!Add \/ Kept' = Kept
<1> DEFINE L == g_log_buf_lines
<1>1. L \in Nat \ {0} /\ count \in 0 .. L /\ count' \in 0 .. L
  BY LogAssumption DEF LogInv
<1>2. Kept = [n \in 1 .. count |-> <<>>]
  BY KeptIsShown DEF KeptNow, ShownLines, LogInv, RingInv
<1>3. Kept' = [n \in 1 .. count' |-> <<>>]
  <2>1. ring' = Freed
    BY DEF LogInv, RingInv
  <2> QED BY <2>1, KeptNext DEF KeptNow, ShownLines
<1>4. CASE count = L
  BY <1>1, <1>2, <1>3, <1>4
<1>5. CASE count < L
  <2> DEFINE kept == Kept
             more == Append(kept, <<>>)
  <2>1. <<>> \in Storable
    <3>1. <<>> \in [1 .. 0 -> {"a"}]
      OBVIOUS
    <3> QED BY <3>1, LogAssumption DEF Storable
  <2>2. kept \in Seq({<<>>}) /\ Len(kept) = count /\ \A n \in 1 .. count : kept[n] = <<>>
    BY <1>1, <1>2
  <2>3. kept' \in Seq({<<>>}) /\ Len(kept') = count + 1
        /\ \A n \in 1 .. count + 1 : kept'[n] = <<>>
    BY <1>1, <1>3, <1>5
  <2> HIDE DEF kept
  <2>4. more \in Seq({<<>>}) /\ Len(more) = count + 1
        /\ \A n \in 1 .. count + 1 : more[n] = <<>>
    BY <1>1, <2>2, AppendProperties
  <2>5. kept' = more
    BY <2>3, <2>4, SeqEqual
  <2> HIDE DEF more
  <2>6. SubSeq(more, 1, Len(more)) = more
    BY <2>4, SubSeqFull
  <2>7. ~ Len(more) > L
    BY <1>1, <1>5, <2>4
  <2>8. kept' = Bounded!LastOf(Append(kept, <<>>), L)
    BY <2>5, <2>6, <2>7 DEF Bounded!LastOf, more
  <2> QED BY <2>1, <2>8 DEF Bounded!Add, kept, Kept, Storable
<1> QED BY <1>1, <1>4, <1>5

LEMMA PushIsAdd ==
  ASSUME LogInv, LogInv', NEW l \in Storable, NEW slot \in BOOLEAN, Push(l, slot),
         captured => slot = TRUE, captured' = captured
  PROVE  Bounded!Add \/ Kept' = Kept
<1>1. CASE captured
  BY <1>1, LineIsAdded DEF Push
<1>2. CASE ~captured /\ slot
  <2>1. count' = IF count < g_log_buf_lines THEN count + 1 ELSE count
    BY <1>2 DEF Push
  <2> QED BY <1>2, <2>1, BlankIsAdded
<1>3. CASE ~slot
  BY <1>3 DEF Push, Kept, h_log, Start
<1> QED BY <1>1, <1>2, <1>3

(* The ring keeps what a bounded log of so many lines keeps, through wrapping, *)
(* pushes of several threads and the stop (5439-5454, 5545-5584).               *)
THEOREM RingIsLineLog == LogSpec => ImplementsLineLog
<1>1. LogInit => Bounded!Begin
  BY LogAssumption DEF LogInit, Bounded!Begin, h_log
<1>2. LogInv /\ LogInv' /\ [LogNext]_logVars => [Bounded!Add \/ Bounded!Blank]_(h_log(0, 0))
  <2> SUFFICES ASSUME LogInv, LogInv', [LogNext]_logVars
               PROVE  Bounded!Add \/ Bounded!Blank \/ Kept' = Kept
    BY DEF Kept
  <2>1. ASSUME UNCHANGED <<ring, head, count>> PROVE Kept' = Kept
    BY <2>1 DEF Kept, h_log, Start
  <2>2. CASE StoreLine
    <3>1. /\ pushing[1] \in Storable /\ pushing[2] \in BOOLEAN
          /\ captured => pushing[2] = TRUE
      BY <2>2 DEF StoreLine, LogInv, RingInv
    <3> QED BY <2>2, <3>1, PushIsAdd DEF StoreLine
  <2>3. CASE plugin_log_trace
    <3>1. Push(Trace, captured)
      BY <2>3, CapturedHasRing DEF plugin_log_trace, Push, LogInv
    <3>2. Trace \in Storable /\ captured \in BOOLEAN
      BY DEF Storable, LogInv
    <3> QED BY <2>3, <3>1, <3>2, PushIsAdd DEF plugin_log_trace
  <2>4. CASE stop_stderr_capture
    <3>1. Kept = ShownLines(count) /\ Kept' = ShownLines(count)'
      BY KeptIsShown, KeptNext DEF KeptNow
    <3>2. DOMAIN Kept = 1 .. count
      BY <3>1 DEF ShownLines
    <3>3. Kept' = [n \in 1 .. count |-> <<>>]
      BY <2>4, <3>1 DEF stop_stderr_capture, ShownLines
    <3> QED BY <3>2, <3>3 DEF Bounded!Blank, Kept
  <2>5. ASSUME NEW c \in Chars, Write(c) PROVE Kept' = Kept
    BY <2>1, <2>5 DEF Write
  <2>6. ASSUME NEW n \in 1 .. ReadMax, Read(n) PROVE Kept' = Kept
    BY <2>1, <2>6 DEF Read
  <2>7. CASE Scan
    BY <2>1, <2>7 DEF Scan
  <2>8. CASE EndReader
    BY <2>1, <2>8 DEF EndReader
  <2>9. CASE UNCHANGED logVars
    BY <2>1, <2>9 DEF logVars
  <2> QED
    BY <2>2, <2>3, <2>4, <2>5, <2>6, <2>7, <2>8, <2>9 DEF LogNext
<1> QED
  BY LogInitInv, LogStepInv, <1>1, <1>2, PTL DEF LogSpec, ImplementsLineLog, Bounded!Spec

-----------------------------------------------------------------------------
(* What is joined of parts. *)
IsJoined(S) ==
  /\ Joined(<<>>) = <<>>
  /\ \A x \in Seq(S) : Joined(<<x>>) = x
  /\ \A p \in Seq(Seq(S)) : Joined(p) \in Seq(S)
  /\ \A p \in Seq(Seq(S)), q \in Seq(Seq(S)) : Joined(p \o q) = Joined(p) \o Joined(q)

LEMMA JoinedExists ==
  ASSUME NEW p, Len(p) \in Nat
  PROVE  \E g : Joins(g, Len(p), p) /\ Joined(p) = g[Len(p)]
<1> DEFINE Is(g) == g = [n \in 0 .. Len(p) |-> IF n = 0 THEN <<>> ELSE g[n - 1] \o p[n]]
           joined == CHOOSE g : Is(g)
<1>1. \E g : Is(g)
  BY JoinExists DEF Joins
<1>2. Is(joined)
  BY <1>1
<1>3. Joined(p) = joined[Len(p)]
  BY DEF Joined
<1> HIDE DEF joined
<1> QED BY <1>2, <1>3 DEF Joins

LEMMA JoinedOfTwo ==
  ASSUME NEW S, NEW p, NEW q, NEW r, NEW m \in Nat, NEW n \in Nat,
         Len(p) = m, Len(q) = n, Len(r) = m + n, Follow(r, p, m, q, n, S)
  PROVE  IsConcat(Joined(r), Joined(p), Joined(q))
<1>1. PICK f : Joins(f, m, p) /\ Joined(p) = f[m]
  BY JoinedExists
<1>2. PICK g : Joins(g, n, q) /\ Joined(q) = g[n]
  BY JoinedExists
<1>3. PICK h : Joins(h, m + n, r) /\ Joined(r) = h[m + n]
  <2>1. m + n \in Nat
    OBVIOUS
  <2> QED BY <2>1, JoinedExists
<1>4. IsConcat(h[m + n], f[m], g[n])
  <2>1. Joins(f, m, p) /\ Joins(g, n, q) /\ Joins(h, m + n, r)
    BY <1>1, <1>2, <1>3
  <2> QED BY <2>1, JoinOfTwo, Zenon
<1> QED BY <1>1, <1>2, <1>3, <1>4 DEF IsConcat

LEMMA JoinedParts == ASSUME NEW S PROVE IsJoined(S)
<1>1. \A p : Len(p) \in Nat => \E g : Joins(g, Len(p), p) /\ Joined(p) = g[Len(p)]
  BY JoinedExists
<1>2. ASSUME NEW p \in Seq(Seq(S)) PROVE Joined(p) \in Seq(S)
  <2>1. Len(p) \in Nat /\ Len(p) \in 0 .. Len(p) /\ \A k \in 1 .. Len(p) : p[k] \in Seq(S)
    OBVIOUS
  <2>2. PICK g : Joins(g, Len(p), p) /\ Joined(p) = g[Len(p)]
    BY <1>1, <2>1
  <2> QED BY <2>1, <2>2, JoinType
<1>3. ASSUME NEW p \in Seq(Seq(S)), NEW q \in Seq(Seq(S))
      PROVE  Joined(p \o q) = Joined(p) \o Joined(q)
  <2> DEFINE r == p \o q
             m == Len(p)
             n == Len(q)
  <2>1. m \in Nat /\ n \in Nat /\ r \in Seq(Seq(S)) /\ Len(r) = m + n
    BY ConcatProperties
  <2>2. \A k \in 1 .. m : p[k] \in Seq(S) /\ r[k] = p[k]
    BY Concat
  <2>3. Follow(r, p, m, q, n, S)
    <3>1. \A k \in 1 .. n : q[k] \in Seq(S) /\ r[m + k] = q[k]
      BY Concat
    <3> QED BY <2>2, <3>1 DEF Follow
  <2> HIDE DEF r, m, n
  <2>4. Len(p) = m /\ Len(q) = n
    BY DEF m, n
  <2>5. IsConcat(Joined(r), Joined(p), Joined(q))
    BY <2>1, <2>3, <2>4, JoinedOfTwo, Zenon
  <2> QED BY <2>5, Zenon DEF r, IsConcat
<1>4. Joined(<<>>) = <<>>
  <2>1. PICK g : Joins(g, 0, <<>>) /\ Joined(<<>>) = g[0]
    BY <1>1
  <2> QED BY <2>1 DEF Joins
<1>5. ASSUME NEW x \in Seq(S) PROVE Joined(<<x>>) = x
  <2> DEFINE p == <<x>>
  <2>1. Len(p) = 1 /\ p[1] = x /\ Len(p) \in Nat
    OBVIOUS
  <2> HIDE DEF p
  <2>2. PICK g : Joins(g, 1, p) /\ Joined(p) = g[1]
    BY <1>1, <2>1, Zenon
  <2>3. g[0] = <<>> /\ g[1] = g[0] \o p[1]
    BY <2>2 DEF Joins
  <2>4. <<>> \o x = x
    BY ConcatEmptySeq
  <2> QED BY <2>1, <2>2, <2>3, <2>4, Zenon DEF p
<1> QED BY <1>2, <1>3, <1>4, <1>5 DEF IsJoined

(* A part for each element. *)
PartsBy(part, s) == [n \in DOMAIN s |-> part[s[n]]]

LEMMA PartsOfTwo ==
  ASSUME NEW S, NEW T, NEW part, \A x \in S : part[x] \in T,
         NEW s \in Seq(S), NEW t \in Seq(S)
  PROVE  /\ PartsBy(part, s) \in Seq(T)
         /\ IsConcat(PartsBy(part, s \o t), PartsBy(part, s), PartsBy(part, t))
<1> DEFINE P(u) == PartsBy(part, u)
<1>1. ASSUME NEW u \in Seq(S)
      PROVE  P(u) \in Seq(T) /\ Len(P(u)) = Len(u) /\ \A n \in 1 .. Len(u) : P(u)[n] = part[u[n]]
  <2>1. \A n \in 1 .. Len(u) : u[n] \in S
    OBVIOUS
  <2> QED BY <2>1 DEF PartsBy
<1> DEFINE st == s \o t
           l  == P(st)
           r  == P(s) \o P(t)
<1>2. /\ st \in Seq(S) /\ Len(st) = Len(s) + Len(t)
      /\ \A i \in 1 .. Len(s) : st[i] = s[i]
      /\ \A i \in 1 .. Len(t) : st[Len(s) + i] = t[i]
  BY Concat
<1>3. P(s) \in Seq(T) /\ P(t) \in Seq(T) /\ Len(P(s)) = Len(s) /\ Len(P(t)) = Len(t)
  BY <1>1
<1>4. l \in Seq(T) /\ Len(l) = Len(st) /\ \A n \in 1 .. Len(st) : l[n] = part[st[n]]
  <2> HIDE DEF st, P
  <2> QED BY <1>1, <1>2
<1> HIDE DEF l
<1>5. /\ \A n \in 1 .. Len(s) : P(s)[n] = part[s[n]]
      /\ \A n \in 1 .. Len(t) : P(t)[n] = part[t[n]]
  BY <1>1
<1> HIDE DEF P, st
<1>6. /\ r \in Seq(T) /\ Len(r) = Len(P(s)) + Len(P(t))
      /\ \A i \in 1 .. Len(P(s)) : r[i] = P(s)[i]
      /\ \A i \in 1 .. Len(P(t)) : r[Len(P(s)) + i] = P(t)[i]
  <2>1. \A a \in Seq(T), b \in Seq(T) :
          /\ a \o b \in Seq(T) /\ Len(a \o b) = Len(a) + Len(b)
          /\ \A i \in 1 .. Len(a) : (a \o b)[i] = a[i]
          /\ \A i \in 1 .. Len(b) : (a \o b)[Len(a) + i] = b[i]
    BY Concat
  <2> DEFINE a == P(s)
             b == P(t)
  <2>2. a \in Seq(T) /\ b \in Seq(T)
    BY <1>3
  <2> HIDE DEF a, b
  <2>3. /\ a \o b \in Seq(T) /\ Len(a \o b) = Len(a) + Len(b)
        /\ \A i \in 1 .. Len(a) : (a \o b)[i] = a[i]
        /\ \A i \in 1 .. Len(b) : (a \o b)[Len(a) + i] = b[i]
    BY <2>1, <2>2, Zenon
  <2> QED BY <2>3, Zenon DEF a, b
<1> HIDE DEF r
<1>7. ASSUME NEW n \in 1 .. Len(st) PROVE l[n] = r[n]
  <2>1. CASE n \in 1 .. Len(s)
    <3>1. l[n] = part[s[n]]
      BY <1>2, <1>4, <2>1
    <3> QED BY <1>3, <1>5, <1>6, <2>1, <3>1
  <2>2. CASE n \notin 1 .. Len(s)
    <3>1. PICK i \in 1 .. Len(t) : n = Len(s) + i
      <4>1. n - Len(s) \in 1 .. Len(t) /\ n = Len(s) + (n - Len(s))
        BY <1>2, <2>2
      <4> QED BY <4>1
    <3>2. l[n] = part[t[i]]
      BY <1>2, <1>4, <3>1
    <3> QED BY <1>3, <1>5, <1>6, <3>1, <3>2
  <2> QED BY <2>1, <2>2
<1>8. l = r
  BY <1>2, <1>3, <1>4, <1>6, <1>7, SeqEqual
<1> QED BY <1>3, <1>8, Zenon DEF l, r, P, st, IsConcat

(* A text with a part for each element, and how it grows. *)
TextBy(part, s) == Joined(PartsBy(part, s))

IsTextBy(part, S, T) ==
  /\ TextBy(part, <<>>) = <<>>
  /\ \A x \in S : TextBy(part, <<x>>) = part[x]
  /\ \A s \in Seq(S) : TextBy(part, s) \in Seq(T)
  /\ \A s \in Seq(S), t \in Seq(S) : TextBy(part, s \o t) = TextBy(part, s) \o TextBy(part, t)

LEMMA TextByParts ==
  ASSUME NEW S, NEW T, NEW part, \A x \in S : part[x] \in Seq(T)
  PROVE  IsTextBy(part, S, T)
<1> DEFINE P(s) == PartsBy(part, s)
<1>1. IsJoined(T)
  BY JoinedParts
<1>2. \A s \in Seq(S) : P(s) \in Seq(Seq(T))
  BY PartsOfTwo
<1>3. ASSUME NEW s \in Seq(S), NEW t \in Seq(S) PROVE IsConcat(P(s \o t), P(s), P(t))
  <2> DEFINE U == Seq(T)
  <2>1. \A x \in S : part[x] \in U
    OBVIOUS
  <2> HIDE DEF U
  <2> QED BY <2>1, PartsOfTwo, Zenon
<1>4. P(<<>>) = <<>>
  BY DEF PartsBy
<1>5. ASSUME NEW x \in S PROVE P(<<x>>) = <<part[x]>>
  BY DEF PartsBy
<1>6. \A s : TextBy(part, s) = Joined(P(s))
  BY DEF TextBy
<1> HIDE DEF P
<1>7. TextBy(part, <<>>) = <<>>
  BY <1>1, <1>4, <1>6, Zenon DEF IsJoined
<1>8. ASSUME NEW x \in S PROVE TextBy(part, <<x>>) = part[x]
  <2>1. Joined(<<part[x]>>) = part[x]
    BY <1>1 DEF IsJoined
  <2> QED BY <1>5, <1>6, <2>1, Zenon
<1>9. \A s \in Seq(S) : TextBy(part, s) \in Seq(T)
  BY <1>1, <1>2, <1>6, Zenon DEF IsJoined
<1>10. \A s \in Seq(S), t \in Seq(S) : TextBy(part, s \o t) = TextBy(part, s) \o TextBy(part, t)
  <2>1. \A p \in Seq(Seq(T)), q \in Seq(Seq(T)) : Joined(p \o q) = Joined(p) \o Joined(q)
    BY <1>1 DEF IsJoined
  <2> SUFFICES ASSUME NEW s \in Seq(S), NEW t \in Seq(S)
               PROVE  TextBy(part, s \o t) = TextBy(part, s) \o TextBy(part, t)
    OBVIOUS
  <2>2. Joined(P(s) \o P(t)) = Joined(P(s)) \o Joined(P(t))
    BY <1>2, <2>1, Zenon
  <2>3. P(s \o t) = P(s) \o P(t)
    BY <1>3 DEF IsConcat
  <2>4. /\ TextBy(part, s) = Joined(P(s)) /\ TextBy(part, t) = Joined(P(t))
        /\ TextBy(part, s \o t) = Joined(P(s \o t))
    BY <1>6
  <2> QED BY <2>2, <2>3, <2>4
<1> QED BY <1>7, <1>8, <1>9, <1>10, Zenon DEF IsTextBy

(* What was written, without carriage returns, and what the reader's lines say. *)
WithoutReturn(c) == IF c = "r" THEN <<>> ELSE <<c>>
Said(l)  == IF l = Trace THEN <<>> ELSE Append(l, "n")

TextGrows ==
  /\ WithoutReturns(<<>>) = <<>>
  /\ \A c \in Chars : WithoutReturns(<<c>>) = WithoutReturn(c)
  /\ \A s \in Seq(Chars) : WithoutReturns(s) \in Seq(Chars)
  /\ \A s \in Seq(Chars), t \in Seq(Chars) :
       WithoutReturns(s \o t) = WithoutReturns(s) \o WithoutReturns(t)

LinesGrow ==
  /\ \A l \in Storable : ReadersText(<<l>>) = Said(l)
  /\ \A s \in Seq(Storable) : ReadersText(s) \in Seq(Chars)
  /\ \A s \in Seq(Storable), t \in Seq(Storable) :
       ReadersText(s \o t) = ReadersText(s) \o ReadersText(t)

LEMMA TextIs == TextGrows
<1> DEFINE part == [c \in Chars |-> WithoutReturn(c)]
<1>1. \A c \in Chars : part[c] = WithoutReturn(c) /\ part[c] \in Seq(Chars)
  BY DEF WithoutReturn
<1>2. IsTextBy(part, Chars, Chars)
  <2> HIDE DEF part
  <2> QED BY <1>1, TextByParts
<1>3. ASSUME NEW s \in Seq(Chars) PROVE WithoutReturns(s) = TextBy(part, s)
  <2>1. \A n \in DOMAIN s : s[n] \in Chars
    OBVIOUS
  <2>2. [n \in DOMAIN s |-> IF s[n] = "r" THEN <<>> ELSE <<s[n]>>] = [n \in DOMAIN s |-> part[s[n]]]
    BY <1>1, <2>1 DEF WithoutReturn
  <2> QED BY <2>2 DEF WithoutReturns, TextBy, PartsBy
<1>4. /\ <<>> \in Seq(Chars) /\ \A c \in Chars : <<c>> \in Seq(Chars)
      /\ \A s \in Seq(Chars), t \in Seq(Chars) : s \o t \in Seq(Chars)
  BY ConcatProperties
<1> HIDE DEF part
<1> QED BY <1>1, <1>2, <1>3, <1>4, Zenon DEF IsTextBy, TextGrows

LEMMA LinesAre == LinesGrow
<1> DEFINE part == [l \in Storable |-> Said(l)]
<1>1. \A l \in Storable : part[l] = Said(l) /\ part[l] \in Seq(Chars)
  <2>1. ASSUME NEW l \in Storable, l # Trace PROVE l \in Seq({"a"})
    BY <2>1, LogAssumption DEF Storable
  <2>2. ASSUME NEW l \in Seq({"a"}) PROVE Append(l, "n") \in Seq(Chars)
    <3>1. l \in Seq(Chars)
      BY DEF Chars
    <3>2. "n" \in Chars
      BY DEF Chars
    <3> QED BY <3>1, <3>2, AppendProperties
  <2> QED BY <2>1, <2>2 DEF Said
<1>2. IsTextBy(part, Storable, Chars)
  <2> HIDE DEF part
  <2> QED BY <1>1, TextByParts
<1>3. ASSUME NEW s \in Seq(Storable) PROVE ReadersText(s) = TextBy(part, s)
  <2>1. \A n \in DOMAIN s : s[n] \in Storable
    OBVIOUS
  <2>2. [n \in DOMAIN s |-> IF s[n] = Trace THEN <<>> ELSE Append(s[n], "n")]
          = [n \in DOMAIN s |-> part[s[n]]]
    BY <1>1, <2>1 DEF Said
  <2> QED BY <2>2 DEF ReadersText, TextBy, PartsBy
<1>4. /\ \A l \in Storable : <<l>> \in Seq(Storable)
      /\ \A s \in Seq(Storable), t \in Seq(Storable) : s \o t \in Seq(Storable)
  BY ConcatProperties
<1> HIDE DEF part
<1> QED BY <1>1, <1>2, <1>3, <1>4, Zenon DEF IsTextBy, LinesGrow

-----------------------------------------------------------------------------
(* Nothing written is lost: what was written is what the lines say, the line   *)
(* begun and what is still to be looked at.                                    *)
Taken == IF pushing = <<>> THEN <<>> ELSE <<pushing[1]>>

Before  == ReadersText(pushed \o Taken)
ToCome  == WithoutReturns(inbuf \o pipe)
AllThere == WithoutReturns(written) = (Before \o line) \o ToCome

TextTyped ==
  /\ written \in Seq(Chars) /\ inbuf \in Seq(Chars) /\ pipe \in Seq(Chars)
  /\ pushing # <<>> => pushing[1] \in Seq({"a"})

NoLongLine == ~HasLongLine(WithoutReturns(written))

TextInv == TextTyped /\ (captured /\ NoLongLine => AllThere)

LEMMA NothingLostIs == TextInv => NothingWrittenIsLost
BY DEF TextInv, NoLongLine, NothingWrittenIsLost, AllThere, Before, ToCome, Taken

(* The texts that the invariant joins, and their types. *)
TextsTyped ==
  /\ line \in Seq(Chars) /\ Taken \in Seq(Storable) /\ pushed \o Taken \in Seq(Storable)
  /\ Before \in Seq(Chars) /\ inbuf \o pipe \in Seq(Chars) /\ ToCome \in Seq(Chars)
  /\ Before \o line \in Seq(Chars) /\ WithoutReturns(written) \in Seq(Chars)

LEMMA TextsAreTyped == ASSUME LogInv, TextTyped PROVE TextsTyped
<1>1. line \in Seq(Chars) /\ pushed \in Seq(Storable)
  BY DEF LogInv, Chars
<1>2. Taken \in Seq(Storable)
  BY DEF LogInv, Taken
<1>3. pushed \o Taken \in Seq(Storable)
  BY <1>1, <1>2, ConcatProperties
<1>4. inbuf \o pipe \in Seq(Chars)
  BY ConcatProperties DEF TextTyped
<1>5. Before \in Seq(Chars)
  BY <1>3, LinesAre DEF Before, LinesGrow
<1>6. ToCome \in Seq(Chars) /\ WithoutReturns(written) \in Seq(Chars)
  BY <1>4, TextIs DEF ToCome, TextGrows, TextTyped
<1>7. Before \o line \in Seq(Chars)
  BY <1>1, <1>5, ConcatProperties
<1> QED BY <1>1, <1>2, <1>3, <1>4, <1>5, <1>6, <1>7 DEF TextsTyped

(* A long line stays in a text that goes on. *)
LEMMA LongLineStays ==
  ASSUME NEW a \in Seq(Chars), NEW b \in Seq(Chars), HasLongLine(a)
  PROVE  HasLongLine(a \o b)
<1>1. LineMax \in Nat /\ Len(a) \in Nat /\ Len(b) \in Nat
  BY LogAssumption
<1>2. PICK n \in 0 .. Len(a) - LineMax - 1 : SubSeq(a, n + 1, n + LineMax + 1) = LongLine
  BY DEF HasLongLine
<1>3. Len(a \o b) = Len(a) + Len(b)
  BY ConcatProperties
<1> DEFINE from == n + 1
           to == n + LineMax + 1
           ab == a \o b
<1>4. from \in 1 .. Len(a) /\ to \in 1 .. Len(a)
  BY <1>1
<1>5. SubSeq(ab, from, to) = SubSeq(a, from, to)
  <2> HIDE DEF from, to
  <2> QED BY <1>4, SubSeqOfConcat1
<1>6. n \in 0 .. Len(ab) - LineMax - 1
  BY <1>1, <1>3
<1> HIDE DEF ab
<1> QED BY <1>2, <1>5, <1>6, Zenon DEF HasLongLine, ab

(* A full line and one character more is a long line. *)
LEMMA FullLineIsLong ==
  ASSUME NEW b \in Seq(Chars), NEW l \in Seq({"a"}), Len(l) = LineMax, NEW r \in Seq(Chars)
  PROVE  HasLongLine((b \o l) \o (<<"a">> \o r))
<1> DEFINE v == Append(l, "a")
           t == (b \o l) \o (<<"a">> \o r)
<1>1. LineMax \in Nat
  BY LogAssumption
<1>2. v \in Seq({"a"}) /\ Len(v) = LineMax + 1
  BY <1>1, AppendProperties
<1>3. v = LongLine
  <2>1. LongLine \in Seq({"a"}) /\ Len(LongLine) = LineMax + 1
    BY <1>1 DEF LongLine
  <2>2. \A i \in 1 .. LineMax + 1 : LongLine[i] = "a"
    BY <1>1 DEF LongLine
  <2>3. \A i \in 1 .. LineMax + 1 : v[i] \in {"a"}
    <3> HIDE DEF v
    <3> QED BY <1>2
  <2> HIDE DEF v
  <2> QED BY <1>2, <2>1, <2>2, <2>3, SeqEqual
<1>4. v \in Seq(Chars) /\ l \in Seq(Chars) /\ <<"a">> \in Seq(Chars)
  BY <1>2 DEF Chars
<1>5. v = l \o <<"a">>
  BY AppendIsConcat
<1>6. t = b \o (v \o r)
  <2>1. \A x \in Seq(Chars), y \in Seq(Chars), z \in Seq(Chars) : (x \o y) \o z = x \o (y \o z)
    <3>1. Associates(Chars)
      BY Associative
    <3> QED BY <3>1 DEF Associates
  <2> DEFINE one == <<"a">>
  <2>2. one \in Seq(Chars)
    BY <1>4
  <2> HIDE DEF one
  <2>3. one \o r \in Seq(Chars)
    BY <2>2, ConcatProperties
  <2>4. (b \o l) \o (one \o r) = b \o (l \o (one \o r))
    BY <1>4, <2>1, <2>3, Zenon
  <2>5. (l \o one) \o r = l \o (one \o r)
    BY <1>4, <2>1, <2>2, Zenon
  <2> QED BY <1>5, <2>4, <2>5, Zenon DEF one
<1> HIDE DEF v, t
<1>7. SubSeq(t, Len(b) + 1, Len(b) + Len(v)) = v
  BY <1>4, <1>6, Middle
<1>8. Len(t) = Len(b) + Len(v) + Len(r)
  <2>1. v \o r \in Seq(Chars) /\ Len(v \o r) = Len(v) + Len(r)
    BY <1>4, Concat
  <2> DEFINE vr == v \o r
  <2>2. vr \in Seq(Chars)
    BY <2>1
  <2> HIDE DEF vr
  <2>3. Len(b \o vr) = Len(b) + Len(vr)
    BY <2>2, Concat
  <2>4. Len(t) = Len(b) + (Len(v) + Len(r))
    BY <1>6, <2>1, <2>3, Zenon DEF vr
  <2> QED BY <1>4, <2>4
<1>9. HasLongLine(t)
  <2>1. Len(b) \in Nat /\ Len(r) \in Nat
    OBVIOUS
  <2>2. Len(b) \in 0 .. Len(t) - LineMax - 1 /\ Len(b) + LineMax + 1 = Len(b) + Len(v)
    BY <1>1, <1>2, <1>8, <2>1
  <2>3. SubSeq(t, Len(b) + 1, Len(b) + LineMax + 1) = LongLine
    BY <1>3, <1>7, <2>2
  <2> QED BY <2>2, <2>3 DEF HasLongLine
<1> QED BY <1>9 DEF t

(* Texts one behind the other, regrouped. *)
Regroup(a, b, c, d) == (a \o (b \o c)) \o d = (a \o b) \o (c \o d)

LEMMA Regrouped ==
  ASSUME NEW S, NEW a \in Seq(S), NEW b \in Seq(S), NEW c \in Seq(S), NEW d \in Seq(S)
  PROVE  Regroup(a, b, c, d)
<1>1. Associates(S)
  BY Associative
<1>2. a \o b \in Seq(S) /\ b \o c \in Seq(S) /\ c \o d \in Seq(S)
  BY ConcatProperties
<1>3. ((a \o b) \o c) \o d = (a \o b) \o (c \o d)
  <2> DEFINE ab == a \o b
  <2>1. ab \in Seq(S)
    BY <1>2
  <2> HIDE DEF ab
  <2>2. (ab \o c) \o d = ab \o (c \o d)
    BY <1>1, <2>1, Zenon DEF Associates
  <2> QED BY <2>2 DEF ab
<1>4. (a \o b) \o c = a \o (b \o c)
  BY <1>1, Zenon DEF Associates
<1> QED BY <1>3, <1>4, Zenon DEF Regroup

(* The reader's step over a character takes it from what is to come. *)
LEMMA FirstToCome ==
  ASSUME TextTyped, inbuf # <<>>, NEW rest, rest = WithoutReturns(Tail(inbuf) \o pipe)
  PROVE  /\ Head(inbuf) \in Chars /\ Tail(inbuf) \in Seq(Chars) /\ rest \in Seq(Chars)
         /\ IsConcat(ToCome, WithoutReturn(Head(inbuf)), rest)
<1> DEFINE h == Head(inbuf)
           t == Tail(inbuf)
           one == <<h>>
<1>1. inbuf \in Seq(Chars) /\ pipe \in Seq(Chars)
  BY DEF TextTyped
<1>2. h \in Chars /\ t \in Seq(Chars) /\ one \in Seq(Chars) /\ inbuf = one \o t
  BY <1>1, HeadTailProperties
<1>3. t \o pipe \in Seq(Chars)
  BY <1>1, <1>2, ConcatProperties
<1>4. WithoutReturns(one) = WithoutReturn(h)
  BY <1>2, TextIs DEF TextGrows
<1> HIDE DEF h, t, one
<1>5. inbuf \o pipe = one \o (t \o pipe)
  <2>1. Associates(Chars)
    BY Associative
  <2>2. (one \o t) \o pipe = one \o (t \o pipe)
    BY <1>1, <1>2, <2>1, Zenon DEF Associates
  <2> QED BY <1>2, <2>2, Zenon
<1>6. ToCome = WithoutReturn(h) \o WithoutReturns(t \o pipe)
  <2>1. \A s \in Seq(Chars), u \in Seq(Chars) :
          WithoutReturns(s \o u) = WithoutReturns(s) \o WithoutReturns(u)
    BY TextIs DEF TextGrows
  <2>2. WithoutReturns(one \o (t \o pipe)) = WithoutReturns(one) \o WithoutReturns(t \o pipe)
    BY <1>2, <1>3, <2>1, Zenon
  <2> QED BY <1>4, <1>5, <2>2, Zenon DEF ToCome
<1>7. rest \in Seq(Chars)
  BY <1>3, TextIs DEF TextGrows, t
<1> QED BY <1>2, <1>6, <1>7, Zenon DEF IsConcat, h, t

(* Without a line pushed, what the lines say is what the lines pushed say. *)
BeforeNow ==
  /\ ReadersText(pushed) \in Seq(Chars)
  /\ pushing = <<>> => Before = ReadersText(pushed)
  /\ pushing # <<>> => IsConcat(Before, ReadersText(pushed), Said(pushing[1]))

LEMMA BeforeIs == LogInv => BeforeNow
<1> SUFFICES ASSUME LogInv PROVE BeforeNow
  OBVIOUS
<1>1. pushed \in Seq(Storable) /\ (pushing # <<>> => pushing[1] \in Storable)
  BY DEF LogInv
<1>2. ReadersText(pushed) \in Seq(Chars)
  BY <1>1, LinesAre DEF LinesGrow
<1>3. pushing = <<>> => Before = ReadersText(pushed)
  <2>1. pushed \o <<>> = pushed
    BY <1>1, ConcatEmptySeq
  <2> QED BY <2>1 DEF Before, Taken
<1>4. ASSUME pushing # <<>> PROVE IsConcat(Before, ReadersText(pushed), Said(pushing[1]))
  <2> DEFINE l == pushing[1]
             one == <<l>>
  <2>1. l \in Storable /\ one \in Seq(Storable)
    BY <1>1, <1>4
  <2>2. Taken = one
    BY <1>4 DEF Taken
  <2> HIDE DEF l, one
  <2>3. ReadersText(pushed \o one) = ReadersText(pushed) \o ReadersText(one)
    BY <1>1, <2>1, LinesAre, Zenon DEF LinesGrow
  <2>4. ReadersText(one) = Said(l)
    BY <2>1, LinesAre DEF LinesGrow, one
  <2> QED BY <2>2, <2>3, <2>4, Zenon DEF Before, IsConcat, l
<1> QED BY <1>2, <1>3, <1>4 DEF BeforeNow

LEMMA BeforeNext == LogInv' => BeforeNow'
BY BeforeIs, PTL

LEMMA WriteText ==
  ASSUME LogInv, TextInv, NEW c \in Chars, Write(c)
  PROVE  TextInv'
<1> DEFINE one == <<c>>
           w == WithoutReturns(written)
           e == WithoutReturns(one)
           front == Before \o line
<1>1. one \in Seq(Chars)
  OBVIOUS
<1>2. /\ written \in Seq(Chars) /\ inbuf \in Seq(Chars) /\ pipe \in Seq(Chars)
      /\ w \in Seq(Chars) /\ front \in Seq(Chars) /\ ToCome \in Seq(Chars)
      /\ inbuf \o pipe \in Seq(Chars)
  BY TextsAreTyped DEF TextsTyped, TextInv, TextTyped
<1>3. e \in Seq(Chars)
  BY <1>1, TextIs DEF TextGrows
<1>4. written' = written \o one /\ pipe' = pipe \o one
  BY <1>2, AppendIsConcat DEF Write
<1>5. UNCHANGED <<inbuf, line, pushing, captured, pushed>>
  BY DEF Write
<1>6. (front)' = front /\ (line)' = line
  BY <1>5 DEF Before, Taken
<1> DEFINE in2 == inbuf \o pipe
<1>7. in2 \in Seq(Chars)
  BY <1>2
<1> HIDE DEF one, in2
<1>8. \A s \in Seq(Chars), t \in Seq(Chars) :
        WithoutReturns(s \o t) = WithoutReturns(s) \o WithoutReturns(t)
  BY TextIs DEF TextGrows
<1>9. WithoutReturns(written') = w \o e
  BY <1>1, <1>2, <1>4, <1>8, Zenon
<1>10. ToCome' = ToCome \o e
  <2>1. Associates(Chars)
    BY Associative
  <2>2. inbuf \o (pipe \o one) = in2 \o one
    <3>1. inbuf \in Seq(Chars) /\ pipe \in Seq(Chars)
      BY <1>2
    <3> QED BY <1>1, <2>1, <3>1, Zenon DEF Associates, in2
  <2>3. WithoutReturns(in2 \o one) = WithoutReturns(in2) \o WithoutReturns(one)
    BY <1>1, <1>7, <1>8, Zenon
  <2>4. ToCome' = WithoutReturns(inbuf \o (pipe \o one))
    BY <1>4, <1>5 DEF ToCome
  <2> QED BY <2>2, <2>3, <2>4, Zenon DEF ToCome, in2
<1>11. TextTyped'
  <2>1. written \o one \in Seq(Chars) /\ pipe \o one \in Seq(Chars)
    BY <1>1, <1>2, ConcatProperties
  <2> QED BY <1>2, <1>4, <1>5, <2>1 DEF TextTyped, TextInv
<1>12. AllThere' = (w \o e = front \o (ToCome \o e))
  BY <1>6, <1>9, <1>10, Zenon DEF AllThere
<1>13. ASSUME captured, ~HasLongLine(w \o e) PROVE w \o e = front \o (ToCome \o e)
  <2> HIDE DEF w, e, front
  <2>1. ~HasLongLine(w)
    BY <1>2, <1>3, <1>13, LongLineStays
  <2>2. AllThere
    BY <1>13, <2>1 DEF TextInv, NoLongLine, w
  <2>3. w = front \o ToCome
    BY <2>2, Zenon DEF AllThere, w, front
  <2>4. Associates(Chars)
    BY Associative
  <2>5. (front \o ToCome) \o e = front \o (ToCome \o e)
    <3>1. front \in Seq(Chars) /\ ToCome \in Seq(Chars)
      BY <1>2
    <3> QED BY <1>3, <2>4, <3>1, Zenon DEF Associates
  <2> QED BY <2>3, <2>5, Zenon
<1>14. NoLongLine' = ~HasLongLine(w \o e)
  BY <1>9 DEF NoLongLine, HasLongLine, LongLine
<1>15. captured' = captured
  BY <1>5
<1> QED BY <1>11, <1>12, <1>13, <1>14, <1>15 DEF TextInv

(* What stays there if only the reader's lines and what is to come change. *)
LEMMA StillThere ==
  ASSUME TextInv, TextTyped', UNCHANGED <<captured, written>>,
         AllThere => AllThere'
  PROVE  TextInv'
BY DEF TextInv, NoLongLine, HasLongLine, LongLine

LEMMA ReadText ==
  ASSUME LogInv, TextInv, NEW n \in 1 .. ReadMax, Read(n)
  PROVE  TextInv'
<1> DEFINE a == SubSeq(pipe, 1, n)
           b == SubSeq(pipe, n + 1, Len(pipe))
<1>1. /\ inbuf = <<>> /\ inbuf' = a /\ pipe' = b /\ pipe \in Seq(Chars) /\ n \in 1 .. Len(pipe)
      /\ UNCHANGED <<line, pushing, captured, written, pushed>>
  <2>1. ReadMax \in Nat
    BY LogAssumption
  <2> QED BY <2>1 DEF Read, TextInv, TextTyped
<1>2. a \in Seq(Chars) /\ b \in Seq(Chars)
  <2>1. Len(pipe) \in Nat
    BY <1>1
  <2> QED BY <1>1, <2>1, SubSeqProperties
<1>3. a \o b = pipe
  <2>1. Len(pipe) \in Nat
    BY <1>1
  <2>2. a \o b = SubSeq(pipe, 1, Len(pipe))
    BY <1>1, <2>1, ConcatAdjacentSubSeq
  <2> QED BY <1>1, <2>2, SubSeqFull
<1>4. <<>> \o pipe = pipe
  BY <1>1, ConcatEmptySeq
<1> HIDE DEF a, b
<1>5. ToCome' = ToCome
  <2>1. (inbuf \o pipe)' = inbuf \o pipe
    BY <1>1, <1>3, <1>4
  <2> QED BY <2>1 DEF ToCome, WithoutReturns, Joined
<1>6. AllThere' = AllThere
  BY <1>1, <1>5 DEF AllThere, Before, Taken
<1>7. TextTyped'
  BY <1>1, <1>2 DEF TextTyped, TextInv
<1> QED BY <1>1, <1>6, <1>7, StillThere

LEMMA ScanText ==
  ASSUME LogInv, LogInv', TextInv, Scan
  PROVE  TextInv'
<1> DEFINE h    == Head(inbuf)
           rest == WithoutReturns(Tail(inbuf) \o pipe)
           said == ReadersText(pushed)
           w    == WithoutReturns(written)
<1>1. /\ inbuf # <<>> /\ pushing = <<>> /\ inbuf' = Tail(inbuf)
      /\ UNCHANGED <<pipe, captured, written, pushed>>
  BY DEF Scan
<1>2. TextTyped /\ line \in Seq({"a"}) /\ line \in Seq(Chars)
  BY DEF TextInv, LogInv, Chars
<1>3. /\ h \in Chars /\ Tail(inbuf) \in Seq(Chars) /\ rest \in Seq(Chars)
      /\ IsConcat(ToCome, WithoutReturn(h), rest)
  BY <1>1, <1>2, FirstToCome
<1>4. ToCome' = rest
  BY <1>1 DEF ToCome
<1>5. said \in Seq(Chars) /\ Before = said
  BY <1>1, BeforeIs DEF BeforeNow
<1>6. (ReadersText(pushed))' = said
  BY <1>1
<1>7. BeforeNow'
  BY BeforeNext
<1>8. TextTyped'
  BY <1>1, <1>2, <1>3 DEF TextTyped, Scan
<1>9. WithoutReturns(written)' = w
  BY <1>1
<1>10. /\ AllThere = (w = (said \o line) \o ToCome)
       /\ AllThere' = (w = (Before' \o line') \o rest)
  BY <1>4, <1>5, <1>9 DEF AllThere
<1> HIDE DEF h, rest, said, w
<1>11. CASE h = "r" /\ UNCHANGED <<line, pushing>>
  <2>1. ToCome = rest
    <3>1. <<>> \o rest = rest
      BY <1>3, ConcatEmptySeq
    <3> QED BY <1>3, <1>11, <3>1 DEF IsConcat, WithoutReturn
  <2>2. Before' = said
    BY <1>1, <1>6, <1>7, <1>11 DEF BeforeNow, said
  <2>3. AllThere' = AllThere
    BY <1>10, <1>11, <2>1, <2>2
  <2> QED BY <1>1, <1>8, <2>3, StillThere
<1>12. CASE h = "n" /\ pushing' = <<line, ring # Freed>> /\ line' = <<>>
  <2> DEFINE end == <<"n">>
  <2>1. Before' = said \o (line \o end)
    <3>1. pushing' # <<>> /\ pushing'[1] = line
      BY <1>12
    <3>2. Said(line) = Append(line, "n")
      BY <1>2 DEF Said, Trace
    <3>3. Append(line, "n") = line \o end
      BY <1>2, AppendIsConcat DEF Chars
    <3> QED BY <1>6, <1>7, <3>1, <3>2, <3>3 DEF BeforeNow, IsConcat, said
  <2>2. ToCome = end \o rest
    BY <1>3, <1>12 DEF IsConcat, WithoutReturn
  <2>3. end \in Seq(Chars)
    BY DEF Chars
  <2> HIDE DEF end
  <2>4. (said \o (line \o end)) \o rest = (said \o line) \o (end \o rest)
    <3>1. Regroup(said, line, end, rest)
      BY <1>2, <1>3, <1>5, <2>3, Regrouped, Zenon
    <3> QED BY <3>1, Zenon DEF Regroup
  <2>5. Before' \o line' = Before'
    <3>1. line \o end \in Seq(Chars)
      BY <1>2, <2>3, ConcatProperties
    <3>2. said \o (line \o end) \in Seq(Chars)
      BY <1>5, <3>1, ConcatProperties
    <3>3. (said \o (line \o end)) \o <<>> = said \o (line \o end)
      BY <3>2, ConcatEmptySeq
    <3> QED BY <1>12, <2>1, <3>3
  <2>6. AllThere' = AllThere
    BY <1>10, <2>1, <2>2, <2>4, <2>5
  <2> QED BY <1>1, <1>8, <2>6, StillThere
<1>13. CASE h = "a" /\ Len(line) = LineMax
  <2>1. ToCome = <<"a">> \o rest
    BY <1>3, <1>13 DEF IsConcat, WithoutReturn
  <2>2. HasLongLine((said \o line) \o (<<"a">> \o rest))
    BY <1>2, <1>3, <1>5, <1>13, FullLineIsLong
  <2>3. AllThere => ~NoLongLine
    BY <1>10, <2>1, <2>2 DEF NoLongLine, w
  <2>4. ~(captured /\ NoLongLine)
    BY <2>3 DEF TextInv
  <2>5. ~(captured /\ NoLongLine)'
    BY <1>1, <2>4 DEF NoLongLine, HasLongLine, LongLine
  <2> QED BY <1>8, <2>5 DEF TextInv
<1>14. CASE h = "a" /\ line' = Append(line, "a") /\ pushing' = pushing
  <2> DEFINE one == <<"a">>
  <2>1. Before' = said
    BY <1>1, <1>6, <1>7, <1>14 DEF BeforeNow, said
  <2>2. line' = line \o one
    BY <1>2, <1>14, AppendIsConcat DEF Chars
  <2>3. ToCome = one \o rest
    BY <1>3, <1>14 DEF IsConcat, WithoutReturn
  <2>4. one \in Seq(Chars)
    BY DEF Chars
  <2> HIDE DEF one
  <2>5. (said \o (line \o one)) \o rest = (said \o line) \o (one \o rest)
    <3>1. Regroup(said, line, one, rest)
      BY <1>2, <1>3, <1>5, <2>4, Regrouped, Zenon
    <3> QED BY <3>1, Zenon DEF Regroup
  <2>6. AllThere' = AllThere
    BY <1>10, <2>1, <2>2, <2>3, <2>5
  <2> QED BY <1>1, <1>8, <2>6, StillThere
<1> QED BY <1>11, <1>12, <1>13, <1>14 DEF Scan, h

(* A push of the reader's line or of another's. *)
LEMMA PushText ==
  ASSUME LogInv, LogInv', TextInv, NEW l \in Storable, pushed' = Append(pushed, l),
         pushing' = <<>>, pushing # <<>> => l = pushing[1], pushing = <<>> => l = Trace,
         UNCHANGED <<pipe, inbuf, line, captured, written>>
  PROVE  TextInv'
<1> DEFINE one == <<l>>
<1>1. pushed \in Seq(Storable) /\ one \in Seq(Storable)
  BY DEF LogInv
<1>2. pushed' = pushed \o one
  BY <1>1, AppendIsConcat
<1> HIDE DEF one
<1>3. ReadersText(pushed \o one) = ReadersText(pushed) \o Said(l)
  <2>1. ReadersText(pushed \o one) = ReadersText(pushed) \o ReadersText(one)
    BY <1>1, LinesAre, Zenon DEF LinesGrow
  <2>2. ReadersText(one) = Said(l)
    BY LinesAre DEF LinesGrow, one
  <2> QED BY <2>1, <2>2
<1>4. BeforeNow /\ BeforeNow'
  BY BeforeIs, BeforeNext
<1>5. (ReadersText(pushed))' = ReadersText(pushed) \o Said(l)
  BY <1>2, <1>3
<1>6. Before' = ReadersText(pushed) \o Said(l)
  BY <1>4, <1>5 DEF BeforeNow
<1>7. Before = ReadersText(pushed) \o Said(l)
  <2>1. CASE pushing # <<>>
    BY <1>4, <2>1 DEF BeforeNow, IsConcat
  <2>2. CASE pushing = <<>>
    <3>1. Said(l) = <<>>
      BY <2>2 DEF Said
    <3> QED BY <1>4, <2>2, <3>1, ConcatEmptySeq DEF BeforeNow
  <2> QED BY <2>1, <2>2
<1>8. AllThere' = AllThere
  BY <1>6, <1>7 DEF AllThere, ToCome
<1>9. TextTyped'
  BY DEF TextInv, TextTyped
<1> QED BY <1>8, <1>9, StillThere

LEMMA TextInit == LogInit => TextInv
<1> SUFFICES ASSUME LogInit PROVE TextInv
  OBVIOUS
<1>1. TextTyped
  BY DEF LogInit, TextTyped
<1>2. BeforeNow /\ WithoutReturns(<<>>) = <<>>
  BY LogInitInv, BeforeIs, TextIs DEF TextGrows
<1>3. ReadersText(<<>>) = <<>>
  BY JoinedParts DEF IsJoined, ReadersText
<1>4. AllThere
  BY <1>2, <1>3, ConcatEmptySeq DEF LogInit, AllThere, BeforeNow, ToCome
<1> QED BY <1>1, <1>4 DEF TextInv

LEMMA TextStep == LogInv /\ LogInv' /\ TextInv /\ [LogNext]_logVars => TextInv'
<1> SUFFICES ASSUME LogInv, LogInv', TextInv, [LogNext]_logVars PROVE TextInv'
  OBVIOUS
<1>1. ASSUME NEW c \in Chars, Write(c) PROVE TextInv'
  BY <1>1, WriteText
<1>2. ASSUME NEW n \in 1 .. ReadMax, Read(n) PROVE TextInv'
  BY <1>2, ReadText
<1>3. CASE Scan
  BY <1>3, ScanText
<1>4. CASE StoreLine
  <2>1. pushing # <<>> /\ pushing[1] \in Storable /\ pushed' = Append(pushed, pushing[1])
    BY <1>4 DEF StoreLine, Push, LogInv
  <2> QED BY <1>4, <2>1, PushText DEF StoreLine
<1>5. CASE plugin_log_trace
  <2>1. Trace \in Storable /\ pushed' = Append(pushed, Trace)
    BY <1>5 DEF plugin_log_trace, Push, Storable
  <2> QED BY <1>5, <2>1, PushText DEF plugin_log_trace
<1>6. CASE stop_stderr_capture
  BY <1>6 DEF stop_stderr_capture, TextInv, TextTyped
<1>7. CASE EndReader
  <2>1. pushing' # <<>> => pushing'[1] \in Seq({"a"})
    BY <1>7 DEF EndReader, LogInv
  <2> QED BY <1>7, <2>1 DEF EndReader, TextInv, TextTyped
<1>8. CASE UNCHANGED logVars
  <2>1. AllThere' = AllThere /\ TextTyped'
    BY <1>8 DEF logVars, AllThere, Before, Taken, ToCome, TextInv, TextTyped
  <2> QED BY <1>8, <2>1, StillThere DEF logVars
<1> QED BY <1>1, <1>2, <1>3, <1>4, <1>5, <1>6, <1>7, <1>8 DEF LogNext

(* As long as no line is longer than a slot, what was written to stderr is in  *)
(* the reader's lines, in order and complete, however reads cut it up and      *)
(* whatever other threads push in between (5482-5508).                         *)
THEOREM NothingIsLost == LogSpec => []NothingWrittenIsLost
BY LogInitInv, LogStepInv, TextInit, TextStep, NothingLostIs, PTL DEF LogSpec

-----------------------------------------------------------------------------
(* What of its type the other invariants do not say: a read brings no more     *)
(* than it asked for.                                                          *)
ReadsFit ==
  /\ Len(inbuf) <= ReadMax
  /\ reader \in {"run", "last", "gone"} /\ stray \in BOOLEAN
  /\ traces \in 0 .. MaxTraces

LEMMA ReadsFitStep ==
  LogInv /\ TextInv /\ ReadsFit /\ [LogNext]_logVars => ReadsFit'
<1> SUFFICES ASSUME LogInv, TextInv, ReadsFit, [LogNext]_logVars PROVE ReadsFit'
  OBVIOUS
<1> USE LogAssumption
<1>0. /\ Len(inbuf) <= ReadMax
      /\ reader \in {"run", "last", "gone"} /\ stray \in BOOLEAN
      /\ traces \in 0 .. MaxTraces
      /\ inbuf \in Seq(Chars) /\ pipe \in Seq(Chars)
  BY DEF ReadsFit, TextInv, TextTyped
<1>1. ASSUME NEW c \in Chars, Write(c) PROVE ReadsFit'
  BY <1>0, <1>1 DEF Write, ReadsFit
<1>2. ASSUME NEW n \in 1 .. ReadMax, Read(n) PROVE ReadsFit'
  <2>1. n \in Nat /\ n <= ReadMax /\ Len(SubSeq(pipe, 1, n)) = n
    BY <1>0, <1>2 DEF Read
  <2> QED BY <1>0, <1>2, <2>1 DEF Read, ReadsFit
<1>3. CASE Scan
  <2>1. Len(Tail(inbuf)) <= ReadMax
    BY <1>0, <1>3 DEF Scan
  <2> QED BY <1>0, <1>3, <2>1 DEF Scan, ReadsFit
<1>4. CASE StoreLine
  BY <1>0, <1>4 DEF StoreLine, ReadsFit
<1>5. CASE plugin_log_trace
  BY <1>0, <1>5 DEF plugin_log_trace, ReadsFit
<1>6. CASE stop_stderr_capture
  BY <1>0, <1>6 DEF stop_stderr_capture, ReadsFit
<1>7. CASE EndReader
  BY <1>0, <1>7 DEF EndReader, ReadsFit
<1>8. CASE UNCHANGED logVars
  BY <1>0, <1>8 DEF logVars, ReadsFit
<1> QED BY <1>1, <1>2, <1>3, <1>4, <1>5, <1>6, <1>7, <1>8 DEF LogNext

(* The ring, the reads and the lines keep to their sizes (5439-5508).          *)
THEOREM LogIsTyped == LogSpec => []LogTypeOK
<1>1. LogInit => ReadsFit
  <2> SUFFICES ASSUME LogInit PROVE ReadsFit
    OBVIOUS
  <2>1. Len(<<>>) <= ReadMax /\ 0 \in 0 .. MaxTraces
    BY LogAssumption
  <2> QED BY <2>1 DEF LogInit, ReadsFit
<1>2. LogInv /\ TextInv /\ ReadsFit => LogTypeOK
  <2>1. ASSUME LogInv PROVE ring = Freed \/ DOMAIN ring = 0 .. g_log_buf_lines - 1
    BY <2>1 DEF LogInv, RingInv
  <2> QED BY <2>1 DEF LogInv, TextInv, TextTyped, ReadsFit, LogTypeOK
<1> QED
  BY LogInitInv, LogStepInv, TextInit, TextStep, ReadsFitStep, <1>1, <1>2, PTL DEF LogSpec
=============================================================================
