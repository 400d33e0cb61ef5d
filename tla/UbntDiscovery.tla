--------------------------- MODULE UbntDiscovery ---------------------------
(***************************************************************************)
(* Looking for UBNT devices (ubnt_discover_output): probe, collect the     *)
(* replies of one window, remember the answer. Handlers and the fetch      *)
(* worker call it, each in a thread of its own; the remembered answer is   *)
(* static data and no lock guards it.                                      *)
(*                                                                         *)
(* Probes and replies may be lost: a caller hears any replies, or none. A  *)
(* window is as long as the threads are slow, at least WindowSeconds.      *)
(***************************************************************************)
EXTENDS UbntPacket, TLC, FiniteSets

CONSTANTS
  Callers,
  Hosts,          \* addresses that reply
  Datagrams,      \* what they send
  JsonFields,     \* what a JSON value holds under the keys asked for
  g_ubnt_cache_ttl_s,
  WindowSeconds,  \* whole seconds of g_ubnt_probe_window_ms
  MaxDevices,     \* size of devices[]
  MaxClock        \* bound: the clock stops here

ASSUME DiscoveryAssumption ==
  /\ Datagrams \subseteq Bytes
  /\ \A v \in DOMAIN JsonFields : \A f \in DOMAIN JsonFields[v] : JsonFields[v][f] \in Bytes
  /\ g_ubnt_cache_ttl_s \in Int  \* any number is accepted
  /\ WindowSeconds \in Nat
  /\ MaxDevices \in Nat /\ MaxClock \in Nat

Entries == 64  \* size of kv[]

VARIABLES
  clock,
  at,         \* where each caller is
  entered,    \* its nowt
  devices,    \* its devices[]: address |-> fields known, as a function
  answer,     \* what its last call returned
  cache_buf,  \* "none", "live" or "freed"
  cached,     \* the devices in it
  cache_time,
  changed,    \* history: callers whose hit was freed or replaced since
  heard,      \* history: when each address last replied
  overlapped, \* history: two calls have been under way at a time
  wild        \* freed memory was used, or more copied than there was room

discoveryVars == <<clock, at, entered, devices, answer, cache_buf, cached, cache_time,
                   changed, heard, overlapped, wild>>

Empty   == [f \in {} |-> <<>>]
Nothing == [failed |-> TRUE]  \* -1

-----------------------------------------------------------------------------
Has(v, part) == \E n \in 1 .. Len(v) - Len(part) + 1 : SubSeq(v, n, n + Len(part) - 1) = part

(* What an unnamed text looks like: a host name has a dash or a dot, a product *)
(* "ER" or "EdgeRouter", a firmware version a v and a digit.                   *)
LooksLike(v) ==
  {f \in {"hostname", "product", "firmware"} :
     CASE f = "hostname" -> Len(v) >= 3 /\ ~Has(v, <<32>>) /\ (Has(v, <<45>>) \/ Has(v, <<46>>))
       [] f = "product"  -> Has(v, <<69, 82>>) \/ Has(v, <<69, 100, 103, 101, 82, 111, 117, 116, 101, 114>>)
       [] f = "firmware" -> Has(v, <<118>>) /\ \E d \in 48 .. 57 : Has(v, <<d>>)}

Field == [hostname |-> "hostname", hwaddr |-> "hw", product |-> "product",
          uptime |-> "uptime", essid |-> "essid", fwversion |-> "firmware"]

(* The fields an entry would fill. The keys mode, firmware and ipv4_N, which the *)
(* code looks for too, are never the key of an entry.                            *)
Says(e) ==
  CASE e.key[1] \in DOMAIN Field -> [f \in {Field[e.key[1]]} |-> e.value]
    [] e.key[1] = "json"         -> IF e.value \in DOMAIN JsonFields THEN JsonFields[e.value] ELSE Empty
    [] e.key[1] = "str"          -> [f \in LooksLike(e.value) |-> e.value]
    [] OTHER                     -> Empty

(* Later values replace earlier ones. *)
BadLearn(device, e) ==
  [f \in DOMAIN device \cup DOMAIN Says(e) |->
     IF f \in DOMAIN Says(e) THEN Says(e)[f] ELSE device[f]]

(* A field that is known stays. *)
Learn(device, e) ==
  [f \in DOMAIN device \cup DOMAIN Says(e) |->
     IF f \in DOMAIN device THEN device[f] ELSE Says(e)[f]]

LearnAll(device, entries) ==
  LET known[n \in 0 .. Len(entries)] ==
        IF n = 0 THEN device ELSE Learn(known[n - 1], entries[n])
  IN known[Len(entries)]

(* The devices with what the entries say of ip, which may be new. *)
With(devs, ip, entries) ==
  [i \in DOMAIN devs \cup {ip} |->
     IF i # ip THEN devs[i]
     ELSE LearnAll(IF ip \in DOMAIN devs THEN devs[ip] ELSE Empty, entries)]

(* One device more than there is room for. *)
BadMerge(devs, ip, entries) ==
  IF ip \in DOMAIN devs \/ Cardinality(DOMAIN devs) <= MaxDevices
  THEN With(devs, ip, entries) ELSE devs

Merge(devs, ip, entries) ==
  IF ip \in DOMAIN devs \/ Cardinality(DOMAIN devs) < MaxDevices
  THEN With(devs, ip, entries) ELSE devs

-----------------------------------------------------------------------------
DiscoveryTypeOK ==
  /\ clock \in 0 .. MaxClock
  /\ at \in [Callers -> {"out", "copy", "probe", "free", "store"}]
  /\ entered \in [Callers -> 0 .. MaxClock]
  /\ \A c \in Callers :
       /\ DOMAIN devices[c] \subseteq Hosts
       /\ Cardinality(DOMAIN devices[c]) <= MaxDevices
       /\ \A ip \in DOMAIN devices[c] : \A f \in DOMAIN devices[c][ip] :
            devices[c][ip][f] \in Bytes
  /\ cache_buf \in {"none", "live", "freed"}
  /\ cache_time \in 0 .. MaxClock
  /\ changed \subseteq Callers
  /\ heard \in [Hosts -> 0 .. MaxClock]
  /\ overlapped \in BOOLEAN /\ wild \in BOOLEAN

DiscoveryInit ==
  /\ clock = 0
  /\ at = [c \in Callers |-> "out"]
  /\ entered = [c \in Callers |-> 0]
  /\ devices = [c \in Callers |-> Empty]
  /\ answer = [c \in Callers |-> Nothing]
  /\ cache_buf = "none"
  /\ cached = Empty
  /\ cache_time = 0
  /\ changed = {}
  /\ heard = [ip \in Hosts |-> 0]
  /\ overlapped = FALSE
  /\ wild = FALSE

Usable == cache_buf # "none" /\ clock - cache_time < g_ubnt_cache_ttl_s

(* Reads the time and the static variables, and on a hit makes room. *)
Enter(c) ==
  /\ at[c] = "out"
  /\ entered' = [entered EXCEPT ![c] = clock]
  /\ at' = [at EXCEPT ![c] = IF Usable THEN "copy" ELSE "probe"]
  /\ devices' = [devices EXCEPT ![c] = Empty]
  /\ changed' = changed \ {c}
  /\ overlapped' = (overlapped \/ \E d \in Callers \ {c} : at[d] # "out")
  /\ UNCHANGED <<clock, answer, cache_buf, cached, cache_time, heard, wild>>

(* Copies what cache_buf points to by now. *)
Copy(c) ==
  /\ at[c] = "copy"
  /\ at' = [at EXCEPT ![c] = "out"]
  /\ answer' = [answer EXCEPT ![c] = cached]
  /\ wild' = (wild \/ cache_buf # "live" \/ c \in changed)
  /\ UNCHANGED <<clock, entered, devices, cache_buf, cached, cache_time, changed, heard, overlapped>>

Hear(c, ip, datagram) ==
  /\ at[c] = "probe"
  /\ datagram # <<>>
  /\ devices' = [devices EXCEPT ![c] = Merge(@, ip, ubnt_discover_recv(datagram, Entries))]
  /\ heard' = [heard EXCEPT ![ip] = clock]
  /\ UNCHANGED <<clock, at, entered, answer, cache_buf, cached, cache_time, changed, overlapped, wild>>

(* No device, no answer, and what is remembered stays. Without a socket there *)
(* is no window.                                                              *)
WindowEnds(c) ==
  /\ at[c] = "probe"
  /\ clock >= entered[c] + WindowSeconds \/ devices[c] = Empty
  /\ at' = [at EXCEPT ![c] = IF devices[c] = Empty THEN "out" ELSE "free"]
  /\ answer' = [answer EXCEPT ![c] = IF devices[c] = Empty THEN Nothing ELSE devices[c]]
  /\ UNCHANGED <<clock, entered, devices, cache_buf, cached, cache_time, changed, heard, overlapped, wild>>

FreeOld(c) ==
  /\ at[c] = "free"
  /\ at' = [at EXCEPT ![c] = "store"]
  /\ cache_buf' = IF cache_buf = "live" THEN "freed" ELSE cache_buf
  /\ wild' = (wild \/ cache_buf = "freed")
  /\ changed' = changed \cup {d \in Callers : at[d] = "copy"}
  /\ UNCHANGED <<clock, entered, devices, answer, cached, cache_time, heard, overlapped>>

(* The age of what is remembered counts from when it is stored. *)
BadStore(c) ==
  /\ at[c] = "store"
  /\ at' = [at EXCEPT ![c] = "out"]
  /\ cache_buf' = "live"
  /\ cached' = devices[c]
  /\ cache_time' = clock
  /\ changed' = changed \cup {d \in Callers : at[d] = "copy"}
  /\ UNCHANGED <<clock, entered, devices, answer, heard, overlapped, wild>>

(* The age counts from the beginning of the call. *)
Store(c) ==
  /\ at[c] = "store"
  /\ at' = [at EXCEPT ![c] = "out"]
  /\ cache_buf' = "live"
  /\ cached' = devices[c]
  /\ cache_time' = entered[c]
  /\ changed' = changed \cup {d \in Callers : at[d] = "copy"}
  /\ UNCHANGED <<clock, entered, devices, answer, heard, overlapped, wild>>

DiscoveryTick ==
  /\ clock < MaxClock
  /\ clock' = clock + 1
  /\ UNCHANGED <<at, entered, devices, answer, cache_buf, cached, cache_time, changed,
                 heard, overlapped, wild>>

DiscoveryNext ==
  \/ \E c \in Callers :
       \/ Enter(c) \/ Copy(c) \/ WindowEnds(c) \/ FreeOld(c) \/ Store(c)
       \/ \E ip \in Hosts, d \in Datagrams : Hear(c, ip, d)
  \/ DiscoveryTick

DiscoverySpec == DiscoveryInit /\ [][DiscoveryNext]_discoveryVars

-----------------------------------------------------------------------------
(* Without overlapping calls no freed memory is used, and every device of an  *)
(* answer, remembered or not, replied during the call or less than the        *)
(* cache's time to live before it (2068-2100, 2351-2355). Nothing keeps a handler and the    *)
(* fetch worker from overlapping: then both may fail.                         *)
RemembersRecentReplies ==
  ~overlapped =>
    /\ ~wild
    /\ \A c \in Callers :
         at[c] = "out" /\ answer[c] # Nothing =>
           \A ip \in DOMAIN answer[c] :
             heard[ip] >= entered[c] \/ heard[ip] > entered[c] - g_ubnt_cache_ttl_s

(* What is known of a device does not change while a window lasts, whatever   *)
(* it sends and in whichever order (2206-2268): several replies of a device   *)
(* cannot mix two values of a field.                                          *)
KnownFieldsStay ==
  [][\A c \in Callers :
       at[c] = "probe" /\ at'[c] = "probe" =>
         \A ip \in DOMAIN devices[c] :
           \A f \in DOMAIN devices[c][ip] :
             /\ ip \in DOMAIN devices'[c]
             /\ f \in DOMAIN devices'[c][ip]
             /\ devices'[c][ip][f] = devices[c][ip][f]]_discoveryVars
=============================================================================
