----------------------------- MODULE AllowList -----------------------------
(***************************************************************************)
(* The client allow-list of httpd.c: what a Net entry is parsed to, and    *)
(* which clients it lets in.                                               *)
(*                                                                         *)
(* An address is the sequence of its bytes, 4 of them or 16. The text of   *)
(* an entry is a record: form "pair" (an IPv4 address and a mask), "slash" *)
(* (address/len, where len is what atoi makes of it), "single" or          *)
(* "garbage".                                                              *)
(***************************************************************************)
EXTENDS ByteStrings, FiniteSetsExt

Address == {a \in Bytes : Len(a) \in {4, 16}}

NetEntry == [form : {"pair"}, addr : Address, mask : Address]
            \cup [form : {"slash"}, addr : Address, len : Int]
            \cup [form : {"single"}, addr : Address]
            \cup [form : {"garbage"}]

Bit(a, n) == (a[n \div 8 + 1] \div 2 ^ (7 - (n % 8))) % 2

IsV4(a) == Len(a) = 4

(* IPv4 addresses live in IPv6 as ::ffff:a.b.c.d. *)
Mapped(a) == IF IsV4(a) THEN [i \in 1 .. 10 |-> 0] \o <<255, 255>> \o a ELSE a

LeadingOnes(mask) ==
  Max({n \in 0 .. 32 : \A i \in 0 .. n - 1 : Bit(mask, i) = 1})

(* The bits of its address that an entry compares, as its text says. *)
LengthOf(s) == CASE s.form = "pair" -> LeadingOnes(s.mask)
                 [] s.form = "slash" -> s.len
                 [] s.form = "single" -> 8 * Len(s.addr)

(* An entry that cannot be parsed is reported and otherwise ignored. A pair *)
(* is of IPv4 addresses only.                                               *)
Parses(s) == s.form # "garbage" /\ (s.form = "pair" => IsV4(s.addr))

parse_cidr(s) ==
  [addr |-> Mapped(s.addr),
   prefix |-> LengthOf(s) + (IF IsV4(s.addr) THEN 96 ELSE 0)]

(* The order of the list does not matter, nor does an entry that is there twice. *)
http_allow_cidr(allowed, s) ==
  IF Parses(s) THEN allowed \cup {parse_cidr(s)} ELSE allowed

(* One call for each of the entries, on an empty list. *)
AllowAll(entries) == {parse_cidr(s) : s \in {e \in entries : Parses(e)}}

(* The bits behind the last whole byte are forgotten. *)
Badaddr_prefix_match(a, b, prefix, past) ==
  prefix <= 0 \/ \A i \in 1 .. (IF prefix > 135 THEN 16 ELSE prefix \div 8) : a[i] = b[i]

(* A prefix above 128 that is no multiple of eight compares the byte behind *)
(* both addresses: past is how that comparison happens to come out.         *)
addr_prefix_match(a, b, prefix, past) ==
  LET whole == IF prefix > 135 THEN 16 ELSE prefix \div 8
      rest  == prefix % 8
  IN \/ prefix <= 0
     \/ /\ \A i \in 1 .. whole : a[i] = b[i]
        /\ \/ rest = 0
           \/ whole = 16 /\ past
           \/ /\ whole < 16
              /\ a[whole + 1] \div 2 ^ (8 - rest) = b[whole + 1] \div 2 ^ (8 - rest)

http_is_client_allowed(allowed, client, past) ==
  \/ allowed = {}
  \/ \E e \in allowed : addr_prefix_match(Mapped(client), e.addr, e.prefix, past)

(* The IPv4 address that an IPv6 one stands for. *)
Native(a) ==
  IF Len(a) = 16 /\ Mapped(SubSeq(a, 13, 16)) = a THEN SubSeq(a, 13, 16) ELSE a

(* What an entry means: its address and the client's share the bits it names, *)
(* where both are of the entry's family.                                      *)
InBlock(s, client) ==
  LET c == IF IsV4(s.addr) THEN Native(client) ELSE Mapped(client)
  IN /\ Len(c) = Len(s.addr)
     /\ \A n \in 0 .. LengthOf(s) - 1 : Bit(c, n) = Bit(s.addr, n)

(* The length is one that addresses of the entry's family can have. *)
WellFormed(s) == Parses(s) => LengthOf(s) \in 0 .. 8 * Len(s.addr)

=============================================================================
