----------------------------- MODULE UbntPacket -----------------------------
(***************************************************************************)
(* What is read out of a reply to a discovery probe (ubnt_discover.c).     *)
(*                                                                         *)
(* A packet is the sequence of its bytes: fields of a tag, a length of one *)
(* byte and as many bytes. An entry's value keeps its bytes; hexadecimal   *)
(* and dotted text stand for them one to one. Its key is <<name>>, or a    *)
(* prefix and a number for what has no name.                               *)
(***************************************************************************)
EXTENDS ByteStrings, SequencesExt

CONSTANTS
  MaxValue,  \* UBNT_MAX_VALUE_LEN - 1
  MaxPacket  \* bytes that recvfrom is ready to take

ASSUME PacketAssumption == MaxValue \in Nat \ {0} /\ MaxPacket \in Nat \ {0}

MinRun == 3  \* UBNT_MIN_PRINTABLE_RUN

isprint(c) == c \in 32 .. 126
IsText(c)  == isprint(c) \/ c \in {9, 10, 13}

(* The tags that have a name, and how their value is read. *)
Tags == {<<1, "hwaddr", "mac">>, <<2, "ipv4", "ipv4">>, <<11, "hostname", "str">>,
         <<12, "product", "str">>, <<13, "fwversion", "str">>, <<42, "essid", "str">>,
         <<64, "uptime", "u32">>, <<65, "system_status", "u32">>}

HasName(t) == \E tag \in Tags : tag[1] = t

Cut(v) == SubSeq(v, 1, IF Len(v) > MaxValue THEN MaxValue ELSE Len(v))

(* Without the zeros at its end. *)
Stripped(v) ==
  SubSeq(v, 1, CHOOSE n \in 0 .. Len(v) :
                 /\ n > 0 => v[n] # 0
                 /\ \A m \in n + 1 .. Len(v) : v[m] = 0)

NamedEntry(t, v) ==
  LET tag  == CHOOSE tag \in Tags : tag[1] = t
      name == tag[2]
      how  == tag[3]
  IN CASE how = "mac"  /\ Len(v) = 6 -> <<[key |-> <<name>>, value |-> v]>>
       [] how = "ipv4" /\ Len(v) = 4 -> <<[key |-> <<name>>, value |-> v]>>
       [] how = "u32"  /\ Len(v) = 4 -> <<[key |-> <<name>>, value |-> Reverse(v)]>>
       [] how = "str"  /\ Len(v) \in 1 .. MaxValue /\ \A n \in DOMAIN Stripped(v) : isprint(Stripped(v)[n])
            -> <<[key |-> <<name>>, value |-> Stripped(v)]>>
       [] OTHER -> <<>>

(* A value under an unknown tag is kept when it is text. *)
OtherEntry(t, v) ==
  IF v # <<>> /\ \A n \in DOMAIN v : IsText(v[n])
  THEN <<[key |-> <<IF v[1] \in {123, 91} THEN "json" ELSE "str", t>>, value |-> Cut(v)]>>
  ELSE <<>>

EntryOf(t, v) == IF HasName(t) THEN NamedEntry(t, v) ELSE OtherEntry(t, v)

(* The last resort: runs of three printable bytes and more, numbered. *)
BeginsRun(p, i) ==
  /\ i + MinRun - 1 <= Len(p)
  /\ \A m \in i .. i + MinRun - 1 : isprint(p[m])
  /\ i = 1 \/ ~isprint(p[i - 1])

EndOfRun(p, i) ==
  CHOOSE m \in i .. Len(p) : /\ \A k \in i .. m : isprint(p[k])
                             /\ m = Len(p) \/ ~isprint(p[m + 1])

(* runs[i]: those from byte i on. *)
Runs(p) ==
  LET runs[i \in 1 .. Len(p) + 1] ==
        IF i > Len(p) THEN <<>>
        ELSE (IF BeginsRun(p, i) THEN <<Cut(SubSeq(p, i, EndOfRun(p, i)))>> ELSE <<>>)
             \o runs[i + 1]
  IN runs[1]

PrintableRuns(p) ==
  LET runs == Runs(p) IN [n \in DOMAIN runs |-> [key |-> <<"str", n>>, value |-> runs[n]]]

First(s, cap) == SubSeq(s, 1, IF Len(s) > cap THEN cap ELSE Len(s))

(* A field that ends behind the packet is taken as far as the packet goes. *)
BadFields(p) ==
  LET fields[i \in 1 .. Len(p) + 257] ==
        IF i + 1 > Len(p) THEN <<>>
        ELSE EntryOf(p[i], SubSeq(p, i + 2, IF i + 1 + p[i + 1] > Len(p) THEN Len(p)
                                            ELSE i + 1 + p[i + 1]))
             \o fields[i + 2 + p[i + 1]]
  IN fields[1]

(* fields[i]: the entries from byte i on; a field that ends behind the packet *)
(* ends the parse.                                                            *)
Fields(p) ==
  LET fields[i \in 1 .. Len(p) + 1] ==
        IF i + 1 > Len(p) \/ i + 1 + p[i + 1] > Len(p) THEN <<>>
        ELSE EntryOf(p[i], SubSeq(p, i + 2, i + 1 + p[i + 1])) \o fields[i + 2 + p[i + 1]]
  IN fields[1]

parse_tlv(p, cap) ==
  LET entries == First(Fields(p), cap)
  IN IF entries = <<>> THEN First(PrintableRuns(p), cap) ELSE entries

(* An empty datagram is a reply, but one that says nothing; a longer one than *)
(* the buffer is cut, wherever its fields end.                                *)
ubnt_discover_recv(datagram, cap) ==
  IF cap = 0 THEN <<>> ELSE parse_tlv(First(datagram, MaxPacket), cap)

-----------------------------------------------------------------------------
(* Fields as a device means to send them, and the bytes and the meaning of the *)
(* first n.                                                                    *)
Sent == [tag : Byte, value : {v \in Bytes : Len(v) <= 255}]

Encoded(fields) ==
  LET bytes[n \in 0 .. Len(fields)] ==
        IF n = 0 THEN <<>>
        ELSE bytes[n - 1] \o (<<fields[n].tag, Len(fields[n].value)>> \o fields[n].value)
  IN bytes

Meaning(fields) ==
  LET entries[n \in 0 .. Len(fields)] ==
        IF n = 0 THEN <<>> ELSE entries[n - 1] \o EntryOf(fields[n].tag, fields[n].value)
  IN entries

Unfinished(tail) == Len(tail) < 2 \/ tail[2] > Len(tail) - 2

(* A datagram of fields and an unfinished one means its fields, as many as     *)
(* reach the receiver whole and as there is room for; only a datagram without  *)
(* a field that means anything is searched for text (164-259, 303-323).        *)
PacketMeansItsFields(fields, tail, cap) ==
  LET datagram == Encoded(fields)[Len(fields)] \o tail
      whole    == {n \in 0 .. Len(fields) : Len(Encoded(fields)[n]) <= MaxPacket}
      last     == CHOOSE n \in whole : \A m \in whole : m <= n
      entries  == First(Meaning(fields)[last], cap)
  IN Unfinished(tail) /\ cap > 0 =>
       ubnt_discover_recv(datagram, cap) =
         IF entries = <<>> THEN First(PrintableRuns(First(datagram, MaxPacket)), cap) ELSE entries
=============================================================================
