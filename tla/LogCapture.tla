----------------------------- MODULE LogCapture -----------------------------
(***************************************************************************)
(* The plugin's log: stderr goes through a pipe to a thread that cuts it   *)
(* into lines, forwards them and keeps the last ones in a ring for /log.   *)
(* Discovery pushes lines of its own. Characters are "a", a newline "n"    *)
(* and a carriage return "r".                                              *)
(***************************************************************************)
EXTENDS Integers, Sequences

CONSTANTS
  g_log_buf_lines,
  LineMax,      \* LOG_LINE_MAX - 1: characters of a line
  ReadMax,      \* bytes that one read takes
  PerMinute,    \* 30: lines that /log takes for a minute
  MaxWritten,   \* bound: characters written to stderr
  MaxTraces     \* bound: lines pushed by plugin_log_trace

ASSUME LogAssumption ==
  /\ g_log_buf_lines \in Nat \ {0}
  /\ LineMax \in Nat \ {0} /\ ReadMax \in Nat \ {0} /\ PerMinute \in Nat
  /\ MaxWritten \in Nat /\ MaxTraces \in Nat

Freed == <<>>  \* no memory
Trace == <<"t">>

VARIABLES
  ring,      \* g_log_buf_data: a line in each slot, or Freed
  head,      \* g_log_head
  count,     \* g_log_count
  pipe,      \* characters on their way
  inbuf,     \* characters read and not looked at
  line,      \* the line begun
  reader,    \* "run", "last" (a read that the stop found waiting) or "gone"
  pushing,   \* the reader's line and whether it found a slot, while it has g_log_lock
  captured,  \* stderr is the pipe
  written,   \* history: all that was written while stderr was the pipe
  pushed,    \* history: all lines pushed
  traces,    \* history: how many of them by plugin_log_trace
  stray      \* a line was stored in freed memory

logVars == <<ring, head, count, pipe, inbuf, line, reader, pushing, captured, written,
             pushed, traces, stray>>

-----------------------------------------------------------------------------
(* One too few for a ring that has wrapped. *)
BadStart(avail) == (head - avail + g_log_buf_lines - 1) % g_log_buf_lines

Start(avail) == (head - avail + g_log_buf_lines) % g_log_buf_lines

(* What /log shows for ?lines= and ?minutes= (0 for none). *)
h_log(lines, minutes) ==
  LET asked  == IF lines <= 0 \/ lines > g_log_buf_lines THEN g_log_buf_lines ELSE lines
      most   == IF minutes > 0 /\ minutes * PerMinute < asked THEN minutes * PerMinute ELSE asked
      avail  == IF most < count THEN most ELSE count
  IN [n \in 1 .. avail |->
        IF ring = Freed THEN <<>> ELSE ring[(Start(avail) + n - 1) % g_log_buf_lines]]

Chars == {"a", "n", "r"}

LogTypeOK ==
  /\ ring = Freed \/ DOMAIN ring = 0 .. g_log_buf_lines - 1
  /\ head \in 0 .. g_log_buf_lines - 1
  /\ count \in 0 .. g_log_buf_lines
  /\ pipe \in Seq(Chars) /\ inbuf \in Seq(Chars) /\ Len(inbuf) <= ReadMax
  /\ line \in Seq({"a"}) /\ Len(line) <= LineMax
  /\ reader \in {"run", "last", "gone"}
  /\ captured \in BOOLEAN /\ stray \in BOOLEAN
  /\ traces \in 0 .. MaxTraces

LogInit ==
  /\ ring = [i \in 0 .. g_log_buf_lines - 1 |-> <<>>]
  /\ head = 0 /\ count = 0
  /\ pipe = <<>> /\ inbuf = <<>> /\ line = <<>>
  /\ reader = "run"
  /\ pushing = <<>>
  /\ captured = TRUE
  /\ written = <<>> /\ pushed = <<>> /\ traces = 0
  /\ stray = FALSE

(* The oldest line makes no way for the next but one. *)
BadPush(l, slot) ==
  /\ pushed' = Append(pushed, l)
  /\ IF ~slot THEN UNCHANGED <<ring, head, count>>
     ELSE /\ ring' = IF ring = Freed THEN Freed ELSE [ring EXCEPT ![head] = l]
          /\ head' = IF count < g_log_buf_lines THEN (head + 1) % g_log_buf_lines ELSE head
          /\ count' = IF count < g_log_buf_lines THEN count + 1 ELSE count

(* ringbuf_push with the lock, and a slot if there was memory when it got it. *)
Push(l, slot) ==
  /\ pushed' = Append(pushed, l)
  /\ IF ~slot THEN UNCHANGED <<ring, head, count>>
     ELSE /\ ring' = IF ring = Freed THEN Freed ELSE [ring EXCEPT ![head] = l]
          /\ head' = (head + 1) % g_log_buf_lines
          /\ count' = IF count < g_log_buf_lines THEN count + 1 ELSE count

Write(c) ==
  /\ captured
  /\ Len(written) < MaxWritten
  /\ pipe' = Append(pipe, c)
  /\ written' = Append(written, c)
  /\ UNCHANGED <<ring, head, count, inbuf, line, reader, pushing, captured, pushed, traces, stray>>

(* A read that waits when stderr is given back may still return characters. *)
Read(n) ==
  /\ reader = "run"
  /\ reader' = IF captured THEN "run" ELSE "last"
  /\ inbuf = <<>> /\ pushing = <<>>
  /\ n <= Len(pipe)
  /\ inbuf' = SubSeq(pipe, 1, n)
  /\ pipe' = SubSeq(pipe, n + 1, Len(pipe))
  /\ UNCHANGED <<ring, head, count, line, pushing, captured, written, pushed, traces, stray>>

(* A line is full one character too early. *)
BadScan ==
  /\ inbuf # <<>> /\ pushing = <<>>
  /\ inbuf' = Tail(inbuf)
  /\ \/ Head(inbuf) = "r" /\ UNCHANGED <<line, pushing>>
     \/ /\ Head(inbuf) = "n" \/ (Head(inbuf) = "a" /\ Len(line) = LineMax - 1)
        /\ pushing' = <<line, ring # Freed>>
        /\ line' = <<>>
     \/ /\ Head(inbuf) = "a" /\ Len(line) < LineMax - 1
        /\ line' = Append(line, "a")
        /\ UNCHANGED pushing
  /\ UNCHANGED <<ring, head, count, pipe, reader, captured, written, pushed, traces, stray>>

(* A newline ends a line, and so does the character that finds it full; that *)
(* character is lost.                                                        *)
Scan ==
  /\ inbuf # <<>> /\ pushing = <<>>
  /\ inbuf' = Tail(inbuf)
  /\ \/ Head(inbuf) = "r" /\ UNCHANGED <<line, pushing>>
     \/ /\ Head(inbuf) = "n" \/ (Head(inbuf) = "a" /\ Len(line) = LineMax)
        /\ pushing' = <<line, ring # Freed>>
        /\ line' = <<>>
     \/ /\ Head(inbuf) = "a" /\ Len(line) < LineMax
        /\ line' = Append(line, "a")
        /\ UNCHANGED pushing
  /\ UNCHANGED <<ring, head, count, pipe, reader, captured, written, pushed, traces, stray>>

(* Nothing keeps stop_stderr_capture from freeing the slot in between. *)
StoreLine ==
  /\ pushing # <<>>
  /\ Push(pushing[1], pushing[2])
  /\ pushing' = <<>>
  /\ stray' = (stray \/ (ring = Freed /\ pushing[2]))
  /\ UNCHANGED <<pipe, inbuf, line, reader, captured, written, traces>>

plugin_log_trace ==
  /\ pushing = <<>>
  /\ traces < MaxTraces
  /\ traces' = traces + 1
  /\ Push(Trace, ring # Freed)
  /\ UNCHANGED <<pipe, inbuf, line, reader, pushing, captured, written, stray>>

(* Stderr is what it was; the pipe has no writer and no reader any more. *)
stop_stderr_capture ==
  /\ captured
  /\ captured' = FALSE
  /\ ring' = Freed
  /\ UNCHANGED <<head, count, pipe, inbuf, line, reader, pushing, written, pushed, traces, stray>>

(* The flag is down or the pipe has ended for the reader, which still pushes *)
(* the line begun. What else was in the pipe is not read.                    *)
EndReader ==
  /\ reader # "gone"
  /\ ~captured
  /\ inbuf = <<>> /\ pushing = <<>>
  /\ reader' = "gone"
  /\ pushing' = IF line = <<>> THEN <<>> ELSE <<line, FALSE>>
  /\ line' = <<>>
  /\ UNCHANGED <<ring, head, count, pipe, inbuf, captured, written, pushed, traces, stray>>

LogNext ==
  \/ \E c \in Chars : Write(c)
  \/ \E n \in 1 .. ReadMax : Read(n)
  \/ Scan
  \/ StoreLine
  \/ plugin_log_trace
  \/ stop_stderr_capture
  \/ EndReader

LogSpec == LogInit /\ [][LogNext]_logVars

-----------------------------------------------------------------------------
(* Whatever a client asks for, /log shows the last lines pushed, as many as it *)
(* asked for and as there are, in order (5439-5454, 5545-5584).                *)
LogShowsLast ==
  ring # Freed =>
    \A lines \in 0 .. g_log_buf_lines + 1, minutes \in 0 .. 2 :
      LET shown == h_log(lines, minutes)
      IN /\ shown = SubSeq(pushed, Len(pushed) - Len(shown) + 1, Len(pushed))
         /\ \/ Len(shown) = Len(pushed)
            \/ Len(shown) = g_log_buf_lines
            \/ lines > 0 /\ Len(shown) = lines
            \/ minutes > 0 /\ Len(shown) = minutes * PerMinute

(* The parts of a sequence, one behind the other.                              *)
Joined(parts) ==
  LET joined[n \in 0 .. Len(parts)] == IF n = 0 THEN <<>> ELSE joined[n - 1] \o parts[n]
  IN joined[Len(parts)]

WithoutReturns(s) == Joined([n \in DOMAIN s |-> IF s[n] = "r" THEN <<>> ELSE <<s[n]>>])
ReadersText(ls)   == Joined([n \in DOMAIN ls |-> IF ls[n] = Trace THEN <<>> ELSE Append(ls[n], "n")])
LongLine          == [n \in 1 .. LineMax + 1 |-> "a"]
HasLongLine(text) == \E n \in 0 .. Len(text) - LineMax - 1 : SubSeq(text, n + 1, n + LineMax + 1) = LongLine

(* As long as no line is longer than a slot, what was written to stderr is in  *)
(* the lines that the reader pushes, in order and complete, however reads cut  *)
(* it up and whatever other threads push in between (5482-5508).               *)
NothingWrittenIsLost ==
  captured /\ ~HasLongLine(WithoutReturns(written)) =>
    WithoutReturns(written) =
      ReadersText(pushed \o (IF pushing = <<>> THEN <<>> ELSE <<pushing[1]>>))
        \o line \o WithoutReturns(inbuf \o pipe)

(* The ring implements the bounded log.                                        *)
Bounded == INSTANCE LineLog WITH
  kept <- h_log(0, 0), Room <- g_log_buf_lines,
  Lines <- {Trace} \cup UNION {[1 .. n -> {"a"}] : n \in 0 .. LineMax}

ImplementsLineLog == Bounded!Spec
=============================================================================
