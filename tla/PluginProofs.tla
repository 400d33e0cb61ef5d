---------------------------- MODULE PluginProofs ----------------------------
(***************************************************************************)
(* Proofs about the composition of the smaller parts, and about those that *)
(* have no module of proofs of their own: configuration and allow-list,    *)
(* metrics, lifecycle, node names and link counts.                         *)
(***************************************************************************)
EXTENDS Plugin, DiscoveryProofs, CacheProofs, LogProofs

-----------------------------------------------------------------------------
(* PluginConfig, for any values, any environment and any number of lines of   *)
(* olsrd.conf.                                                                *)
LEMMA KnownSettings ==
  /\ Tracked \subseteq Params /\ Params \subseteq Settings
  /\ "fetch_log_queue" \in Params \ Tracked /\ "fetch_log_force" \in Params
  /\ DOMAIN Default = Settings
<1>1. Params \subseteq Settings /\ DOMAIN Default = Settings
  BY DEF Settings, Default
<1>2. Tracked \subseteq Params
  BY DEF Params
<1>3. {"fetch_log_queue", "fetch_log_force"} \subseteq Params
  BY DEF Params
<1>4. "fetch_log_queue" \notin Tracked
  BY DEF Tracked
<1> QED BY <1>1, <1>2, <1>3, <1>4

(* The flags are those of tracked settings; a tracked setting that was given   *)
(* has its flag and the value given, and nothing changes both after the load.  *)
ConfigInv ==
  /\ DOMAIN val = Settings /\ DOMAIN isSet = Settings /\ DOMAIN given = Settings
  /\ \A s \in Settings : isSet[s] => s \in Tracked
  /\ \A s \in Tracked : given[s] # <<>> => isSet[s] /\ val[s] = given[s][1]
  /\ ForceLogsQueue

LEMMA ConfigInitInv == ConfigInit => ConfigInv
<1> SUFFICES ASSUME ConfigInit PROVE ConfigInv
  OBVIOUS
<1>1. stage = "load" /\ val = Default /\ isSet = [s \in Settings |-> FALSE]
      /\ given = [s \in Settings |-> <<>>]
  BY DEF ConfigInit
<1>2. Tracked \subseteq Settings
  BY KnownSettings
<1>3. ForceLogsQueue
  BY <1>1 DEF ForceLogsQueue
<1>4. DOMAIN val = Settings /\ DOMAIN isSet = Settings /\ DOMAIN given = Settings
  BY <1>1, KnownSettings
<1> QED BY <1>1, <1>2, <1>3, <1>4 DEF ConfigInv

LEMMA SetParamKeeps ==
  ASSUME ConfigInv, NEW s \in Params, NEW v, SetParam(s, v)
  PROVE  ConfigInv'
<1>1. s \in Settings /\ Tracked \subseteq Settings
  BY KnownSettings
<1>2. /\ val' = [val EXCEPT ![s] = v] /\ given' = [given EXCEPT ![s] = <<v>>]
      /\ isSet' = [isSet EXCEPT ![s] = @ \/ s \in Tracked]
      /\ stage' = "load"
  BY DEF SetParam
<1>3. DOMAIN val' = Settings /\ DOMAIN isSet' = Settings /\ DOMAIN given' = Settings
  BY <1>2 DEF ConfigInv
<1>4. ASSUME NEW u \in Settings, isSet'[u] PROVE u \in Tracked
  BY <1>1, <1>2, <1>4 DEF ConfigInv
<1>5. ASSUME NEW u \in Tracked, given'[u] # <<>> PROVE isSet'[u] /\ val'[u] = given'[u][1]
  <2>1. CASE u = s
    BY <1>1, <1>2, <2>1 DEF ConfigInv
  <2>2. CASE u # s
    <3>1. given'[u] = given[u] /\ val'[u] = val[u] /\ isSet'[u] = isSet[u]
      BY <1>1, <1>2, <2>2 DEF ConfigInv
    <3> QED BY <1>5, <3>1 DEF ConfigInv
  <2> QED BY <2>1, <2>2
<1>6. ForceLogsQueue'
  BY <1>2 DEF ForceLogsQueue
<1> QED BY <1>3, <1>4, <1>5, <1>6 DEF ConfigInv

LEMMA ReadEnvironmentKeeps == ASSUME ConfigInv, ReadEnvironment PROVE ConfigInv'
<1>1. ~isSet["fetch_log_queue"]
  BY KnownSettings DEF ConfigInv
<1>2. /\ val' = [s \in Settings |->
                  IF s = "fetch_log_queue" /\ ~isSet["fetch_log_queue"]
                     /\ FromEnv("fetch_log_force") # 0
                  THEN 1 ELSE FromEnv(s)]
      /\ UNCHANGED <<isSet, given>>
  BY DEF ReadEnvironment
<1>3. DOMAIN val' = Settings
  BY <1>2
<1>4. ASSUME NEW s \in Tracked, given[s] # <<>> PROVE isSet[s] /\ val'[s] = given[s][1]
  <2>1. isSet[s] /\ val[s] = given[s][1]
    BY <1>4 DEF ConfigInv
  <2>2. FromEnv(s) = val[s]
    BY <2>1 DEF FromEnv, Overrides
  <2>3. s \in Settings /\ s # "fetch_log_queue"
    BY KnownSettings
  <2> QED BY <1>2, <2>1, <2>2, <2>3
<1>5. ForceLogsQueue'
  <2>1. val'["fetch_log_force"] = FromEnv("fetch_log_force")
    BY <1>2, KnownSettings
  <2>2. FromEnv("fetch_log_force") # 0 => val'["fetch_log_queue"] = 1
    BY <1>1, <1>2, KnownSettings
  <2> QED BY <2>1, <2>2 DEF ForceLogsQueue
<1> QED BY <1>2, <1>3, <1>4, <1>5 DEF ConfigInv

LEMMA ConfigStepInv == ConfigInv /\ [ConfigNext]_configVars => ConfigInv'
<1> SUFFICES ASSUME ConfigInv, [ConfigNext]_configVars PROVE ConfigInv'
  OBVIOUS
<1>1. ASSUME NEW s \in focus \cap Params, NEW v \in Values[s], SetParam(s, v)
      PROVE  ConfigInv'
  BY <1>1, SetParamKeeps
<1>2. ASSUME NEW n \in Nets, SetNetParam(n) PROVE ConfigInv'
  BY <1>2 DEF SetNetParam, ConfigInv, ForceLogsQueue
<1>3. CASE ReadEnvironment
  BY <1>3, ReadEnvironmentKeeps
<1>4. CASE UNCHANGED configVars
  BY <1>4 DEF configVars, ConfigInv, ForceLogsQueue
<1> QED BY <1>1, <1>2, <1>3, <1>4 DEF ConfigNext

(* A setting whose PlParam is remembered keeps the last value it was given,    *)
(* whatever the environment says (4926-4961, 5030-5215).                       *)
THEOREM TrackedWin == ConfigSpec => []TrackedParamWins
<1>1. ConfigInv => TrackedParamWins
  BY DEF ConfigInv, TrackedParamWins
<1> QED BY ConfigInitInv, ConfigStepInv, <1>1, PTL DEF ConfigSpec

(* Forcing the log turns the queue's log on, because nothing ever sets the     *)
(* flag that would skip it (5205-5209).                                        *)
THEOREM ForceIsHeeded == ConfigSpec => []ForceLogsQueue
<1>1. ConfigInv => ForceLogsQueue
  BY DEF ConfigInv
<1> QED BY ConfigInitInv, ConfigStepInv, <1>1, PTL DEF ConfigSpec

-----------------------------------------------------------------------------
(* AllowList. The bits of a byte from the highest on. *)
BitOf(x, k) == (x \div 2 ^ (7 - k)) % 2
Top(x, r)   == x \div 2 ^ (8 - r)

LEMMA NextBit ==
  ASSUME NEW x \in 0 .. 255, NEW k \in 0 .. 7
  PROVE  Top(x, k + 1) = 2 * Top(x, k) + BitOf(x, k) /\ Top(x, k) \in Nat /\ BitOf(x, k) \in 0 .. 1
<1>1. /\ 2 ^ 0 = 1 /\ 2 ^ 1 = 2 /\ 2 ^ 2 = 4 /\ 2 ^ 3 = 8 /\ 2 ^ 4 = 16 /\ 2 ^ 5 = 32
      /\ 2 ^ 6 = 64 /\ 2 ^ 7 = 128 /\ 2 ^ 8 = 256
  OBVIOUS
<1>2. CASE k = 0
  BY <1>1, <1>2 DEF BitOf, Top
<1>3. CASE k = 1
  BY <1>1, <1>3 DEF BitOf, Top
<1>4. CASE k = 2
  BY <1>1, <1>4 DEF BitOf, Top
<1>5. CASE k = 3
  BY <1>1, <1>5 DEF BitOf, Top
<1>6. CASE k = 4
  BY <1>1, <1>6 DEF BitOf, Top
<1>7. CASE k = 5
  BY <1>1, <1>7 DEF BitOf, Top
<1>8. CASE k = 6
  BY <1>1, <1>8 DEF BitOf, Top
<1>9. CASE k = 7
  BY <1>1, <1>9 DEF BitOf, Top
<1> QED BY <1>2, <1>3, <1>4, <1>5, <1>6, <1>7, <1>8, <1>9

LEMMA TopBits ==
  ASSUME NEW x \in 0 .. 255, NEW y \in 0 .. 255
  PROVE  \A r \in 0 .. 8 :
           Top(x, r) = Top(y, r) <=> \A k \in 0 .. r - 1 : BitOf(x, k) = BitOf(y, k)
<1> DEFINE Same(r) == Top(x, r) = Top(y, r) <=> \A k \in 0 .. r - 1 : BitOf(x, k) = BitOf(y, k)
           Bad == {r \in Nat : r <= 8 /\ ~ Same(r)}
<1>1. Top(x, 0) = 0 /\ Top(y, 0) = 0
  <2>1. 2 ^ (8 - 0) = 256
    OBVIOUS
  <2> QED BY <2>1 DEF Top
<1>2. ASSUME NEW k \in 0 .. 7, Same(k) PROVE Same(k + 1)
  <2>1. /\ Top(x, k + 1) = 2 * Top(x, k) + BitOf(x, k)
        /\ Top(x, k) \in Nat /\ BitOf(x, k) \in 0 .. 1
        /\ Top(y, k + 1) = 2 * Top(y, k) + BitOf(y, k)
        /\ Top(y, k) \in Nat /\ BitOf(y, k) \in 0 .. 1
    BY NextBit
  <2>2. Top(x, k + 1) = Top(y, k + 1) <=> Top(x, k) = Top(y, k) /\ BitOf(x, k) = BitOf(y, k)
    BY <2>1
  <2>3. \A j \in Int : j \in 0 .. k + 1 - 1 <=> j \in 0 .. k - 1 \/ j = k
    OBVIOUS
  <2> QED BY <1>2, <2>2, <2>3
<1>3. ASSUME Bad # {} PROVE FALSE
  <2>1. PICK r \in Nat : r \in Bad /\ \A s \in Bad : r <= s
    BY <1>3, LeastIn
  <2>2. r <= 8 /\ ~ Same(r)
    BY <2>1
  <2>3. r # 0
    BY <1>1, <2>2
  <2>4. r - 1 \in 0 .. 7 /\ r - 1 \in Nat /\ r - 1 <= 8 /\ r = (r - 1) + 1
    BY <2>2, <2>3
  <2>5. r - 1 \notin Bad
    <3> HIDE DEF Bad
    <3> QED BY <2>1, <2>4
  <2> HIDE DEF Same
  <2>6. Same(r - 1)
    BY <2>4, <2>5
  <2>7. Same((r - 1) + 1)
    BY <1>2, <2>4, <2>6
  <2> QED BY <2>2, <2>4, <2>7
<1> HIDE DEF Same
<1>4. \A r \in 0 .. 8 : Same(r)
  BY <1>3
<1> QED BY <1>4 DEF Same

(* A byte and a bit in it. *)
LEMMA BitPlaces ==
  /\ \A n \in Nat : /\ n \div 8 \in Nat /\ n % 8 \in 0 .. 7
                    /\ n = 8 * (n \div 8) + (n % 8)
  /\ \A w \in Nat, k \in 0 .. 7 : (8 * w + k) \div 8 = w /\ (8 * w + k) % 8 = k
OBVIOUS

LEMMA SameTop ==
  ASSUME NEW a, NEW b, NEW P \in 0 .. 128, NEW past \in BOOLEAN,
         \A i \in 1 .. 16 : a[i] \in 0 .. 255 /\ b[i] \in 0 .. 255
  PROVE  addr_prefix_match(a, b, P, past) <=> \A n \in 0 .. P - 1 : Bit(a, n) = Bit(b, n)
<1> DEFINE w == P \div 8
           r == P % 8
<1>1. /\ w \in 0 .. 16 /\ r \in 0 .. 7 /\ P = 8 * w + r /\ (w = 16 => r = 0)
      /\ P \in Nat /\ ~ (P > 135)
  OBVIOUS
<1>2. \A n \in Nat : /\ Bit(a, n) = BitOf(a[n \div 8 + 1], n % 8)
                     /\ Bit(b, n) = BitOf(b[n \div 8 + 1], n % 8)
  BY DEF Bit, BitOf
<1>3. addr_prefix_match(a, b, P, past)
        <=> \/ P = 0
            \/ /\ \A i \in 1 .. w : a[i] = b[i]
               /\ r = 0 \/ (w < 16 /\ Top(a[w + 1], r) = Top(b[w + 1], r))
  BY <1>1 DEF addr_prefix_match, Top
<1> HIDE DEF w, r
<1>4. ASSUME NEW i \in 1 .. 16, NEW k \in 0 .. 7, Bit(a, 8 * (i - 1) + k) = Bit(b, 8 * (i - 1) + k)
      PROVE  BitOf(a[i], k) = BitOf(b[i], k)
  <2>1. i - 1 \in Nat /\ (i - 1) + 1 = i /\ 8 * (i - 1) + k \in Nat
    OBVIOUS
  <2>2. (8 * (i - 1) + k) \div 8 = i - 1 /\ (8 * (i - 1) + k) % 8 = k
    BY <2>1, BitPlaces
  <2> QED BY <1>2, <1>4, <2>1, <2>2
<1>5. ASSUME \A n \in 0 .. P - 1 : Bit(a, n) = Bit(b, n)
      PROVE  /\ \A i \in 1 .. w : a[i] = b[i]
             /\ r = 0 \/ (w < 16 /\ Top(a[w + 1], r) = Top(b[w + 1], r))
  <2>1. ASSUME NEW i \in 1 .. w PROVE a[i] = b[i]
    <3>1. \A k \in 0 .. 7 : i \in 1 .. 16 /\ 8 * (i - 1) + k \in 0 .. P - 1
      BY <1>1
    <3>2. \A k \in 0 .. 8 - 1 : BitOf(a[i], k) = BitOf(b[i], k)
      BY <1>4, <1>5, <3>1
    <3>3. a[i] \in 0 .. 255 /\ b[i] \in 0 .. 255 /\ 8 \in 0 .. 8
      BY <3>1
    <3>4. Top(a[i], 8) = Top(b[i], 8)
      BY <3>2, <3>3, TopBits
    <3>5. 2 ^ (8 - 8) = 1
      OBVIOUS
    <3>6. Top(a[i], 8) = a[i] /\ Top(b[i], 8) = b[i]
      BY <3>3, <3>5 DEF Top
    <3> QED BY <3>4, <3>6, Zenon
  <2>2. ASSUME r # 0 PROVE w < 16 /\ Top(a[w + 1], r) = Top(b[w + 1], r)
    <3>1. w < 16 /\ w + 1 \in 1 .. 16 /\ r \in 0 .. 8 /\ (w + 1) - 1 = w
      BY <1>1, <2>2
    <3>2. \A k \in 0 .. r - 1 : k \in 0 .. 7 /\ 8 * w + k \in 0 .. P - 1
      BY <1>1
    <3>3. \A k \in 0 .. r - 1 : BitOf(a[w + 1], k) = BitOf(b[w + 1], k)
      BY <1>4, <1>5, <3>1, <3>2
    <3> QED BY <3>1, <3>3, TopBits
  <2> QED BY <2>1, <2>2
<1>6. ASSUME \A i \in 1 .. w : a[i] = b[i],
             r = 0 \/ (w < 16 /\ Top(a[w + 1], r) = Top(b[w + 1], r)),
             NEW n \in 0 .. P - 1
      PROVE  Bit(a, n) = Bit(b, n)
  <2> DEFINE i == n \div 8
             k == n % 8
  <2>1. n \in Nat /\ i \in Nat /\ k \in 0 .. 7 /\ n = 8 * i + k
    BY <1>1, BitPlaces
  <2>2. Bit(a, n) = BitOf(a[i + 1], k) /\ Bit(b, n) = BitOf(b[i + 1], k)
    BY <1>2, <2>1
  <2> HIDE DEF i, k
  <2>3. CASE i < w
    BY <1>1, <1>6, <2>1, <2>2, <2>3
  <2>4. CASE ~ (i < w)
    <3>1. i = w /\ k < r /\ r # 0
      BY <1>1, <2>1, <2>4
    <3>2. i + 1 \in 1 .. 16 /\ r \in 0 .. 8 /\ k \in 0 .. r - 1
      BY <1>1, <1>6, <2>1, <3>1
    <3>3. Top(a[i + 1], r) = Top(b[i + 1], r)
      BY <1>6, <3>1
    <3>4. BitOf(a[i + 1], k) = BitOf(b[i + 1], k)
      BY <3>2, <3>3, TopBits
    <3> QED BY <2>2, <3>4
  <2> QED BY <2>3, <2>4
<1>7. P = 0 => \A n \in 0 .. P - 1 : Bit(a, n) = Bit(b, n)
  OBVIOUS
<1> QED BY <1>3, <1>5, <1>6, <1>7
LEMMA ElementType == ASSUME NEW S, NEW s \in Seq(S) PROVE \A i \in 1 .. Len(s) : s[i] \in S
OBVIOUS

(* The bytes of an address in its IPv6 form. *)
LEMMA MappedIs ==
  ASSUME NEW a \in Bytes, Len(a) = 4
  PROVE  /\ Mapped(a) \in Bytes /\ Len(Mapped(a)) = 16
         /\ \A i \in 1 .. 10 : Mapped(a)[i] = 0
         /\ Mapped(a)[11] = 255 /\ Mapped(a)[12] = 255
         /\ \A j \in 1 .. 4 : Mapped(a)[12 + j] = a[j]
<1> DEFINE zeros == [i \in 1 .. 10 |-> 0]
           ones  == <<255, 255>>
           front == zeros \o ones
           m     == front \o a
<1>1. a \in Seq(Byte)
  BY DEF Bytes
<1>2. zeros \in Seq(Byte) /\ Len(zeros) = 10 /\ \A i \in 1 .. 10 : zeros[i] = 0
  BY DEF Byte
<1>3. ones \in Seq(Byte) /\ Len(ones) = 2 /\ ones[1] = 255 /\ ones[2] = 255
  BY DEF Byte
<1>4. \A x \in Seq(Byte), y \in Seq(Byte) :
        /\ x \o y \in Seq(Byte) /\ Len(x \o y) = Len(x) + Len(y)
        /\ \A i \in 1 .. Len(x) : (x \o y)[i] = x[i]
        /\ \A i \in 1 .. Len(y) : (x \o y)[Len(x) + i] = y[i]
  BY Concat
<1> HIDE DEF zeros, ones
<1>5. /\ front \in Seq(Byte) /\ Len(front) = Len(zeros) + Len(ones)
      /\ \A i \in 1 .. Len(zeros) : front[i] = zeros[i]
      /\ \A i \in 1 .. Len(ones) : front[Len(zeros) + i] = ones[i]
  <2>1. zeros \in Seq(Byte) /\ ones \in Seq(Byte)
    BY <1>2, <1>3
  <2> QED BY <1>4, <2>1, Zenon
<1> HIDE DEF front
<1>6. /\ m \in Seq(Byte) /\ Len(m) = Len(front) + Len(a)
      /\ \A i \in 1 .. Len(front) : m[i] = front[i]
      /\ \A i \in 1 .. Len(a) : m[Len(front) + i] = a[i]
  BY <1>1, <1>4, <1>5, Zenon
<1> HIDE DEF m
<1>7. /\ Len(front) = 12 /\ Len(m) = 16
      /\ \A i \in 1 .. 10 : front[i] = 0
      /\ front[11] = 255 /\ front[12] = 255
  BY <1>2, <1>3, <1>5, <1>6
<1>8. /\ \A i \in 1 .. 10 : m[i] = 0
      /\ m[11] = 255 /\ m[12] = 255
      /\ \A j \in 1 .. 4 : m[12 + j] = a[j]
  BY <1>6, <1>7
<1>9. Mapped(a) = m
  BY Zenon DEF Mapped, IsV4, m, front, zeros, ones
<1> QED BY <1>6, <1>7, <1>8, <1>9, Zenon DEF Bytes

(* What Mapped makes of any address, and what is left of a mapped one. *)
LEMMA MappedType ==
  ASSUME NEW a \in Address
  PROVE  /\ Mapped(a) \in Bytes /\ Len(Mapped(a)) = 16
         /\ \A i \in 1 .. 16 : Mapped(a)[i] \in 0 .. 255
<1>1. a \in Bytes /\ Len(a) \in {4, 16}
  BY DEF Address
<1>2. Mapped(a) \in Bytes /\ Len(Mapped(a)) = 16
  <2>1. CASE Len(a) = 4
    BY <1>1, <2>1, MappedIs
  <2>2. CASE Len(a) = 16
    BY <1>1, <2>2 DEF Mapped, IsV4
  <2> QED BY <1>1, <2>1, <2>2
<1> DEFINE m == Mapped(a)
<1>3. m \in Bytes /\ Len(m) = 16
  BY <1>2
<1> HIDE DEF m
<1>4. \A i \in 1 .. 16 : m[i] \in 0 .. 255
  <2>1. m \in Seq(Byte)
    BY <1>3 DEF Bytes
  <2>2. \A i \in 1 .. 16 : m[i] \in Byte
    BY <1>3, <2>1, ElementType
  <2> QED BY <2>2 DEF Byte
<1> QED BY <1>3, <1>4 DEF m

(* The bits of the IPv4 part. *)
LEMMA MappedBits ==
  ASSUME NEW a \in Bytes, Len(a) = 4, NEW n \in 0 .. 31
  PROVE  Bit(Mapped(a), 96 + n) = Bit(a, n)
<1>1. n \div 8 + 1 \in 1 .. 4 /\ (96 + n) \div 8 + 1 = 12 + (n \div 8 + 1) /\ (96 + n) % 8 = n % 8
  OBVIOUS
<1>2. Mapped(a)[12 + (n \div 8 + 1)] = a[n \div 8 + 1]
  BY <1>1, MappedIs
<1> QED BY <1>1, <1>2, Zenon DEF Bit

LEMMA SameFront ==
  ASSUME NEW a \in Bytes, Len(a) = 4, NEW b \in Bytes, Len(b) = 4, NEW n \in 0 .. 95
  PROVE  Bit(Mapped(a), n) = Bit(Mapped(b), n)
<1>1. n \div 8 + 1 \in 1 .. 12
  OBVIOUS
<1>2. \A i \in 1 .. 12 : Mapped(a)[i] = Mapped(b)[i]
  <2>1. \A i \in 1 .. 12 : i \in 1 .. 10 \/ i = 11 \/ i = 12
    OBVIOUS
  <2> QED BY <2>1, MappedIs
<1> QED BY <1>1, <1>2, Zenon DEF Bit

(* The first twelve bytes decide whether an address is one of IPv4. *)
LEMMA NativeIs ==
  ASSUME NEW c \in Address
  PROVE  /\ Native(c) \in Address
         /\ Len(Native(c)) = 4 <=> \E v \in Bytes : Len(v) = 4 /\ Mapped(v) = Mapped(c)
         /\ Len(Native(c)) = 4 => Mapped(Native(c)) = Mapped(c)
<1>1. c \in Bytes /\ Len(c) \in {4, 16}
  BY DEF Address
<1>2. CASE Len(c) = 4
  <2>1. Native(c) = c
    BY <1>2 DEF Native
  <2> QED BY <1>1, <1>2, <2>1
<1>3. CASE Len(c) = 16
  <2> DEFINE v == SubSeq(c, 13, 16)
  <2>1. v \in Bytes /\ Len(v) = 4 /\ \A j \in 1 .. 4 : v[j] = c[12 + j]
    <3>1. \A i \in 13 .. 16 : c[i] \in Byte
      <4>1. c \in Seq(Byte)
        BY <1>1 DEF Bytes
      <4>2. \A i \in 13 .. 16 : i \in 1 .. 16
        OBVIOUS
      <4> QED BY <1>3, <4>1, <4>2, ElementType
    <3>2. 13 \in Int /\ 16 \in Int /\ 13 <= 16 /\ 16 - 13 + 1 = 4
      OBVIOUS
    <3>3. /\ SubSeq(c, 13, 16) \in Seq(Byte)
          /\ Len(SubSeq(c, 13, 16)) = 4
          /\ \A i \in 1 .. 4 : SubSeq(c, 13, 16)[i] = c[13 + i - 1]
      BY <3>1, <3>2, SubSeqProperties
    <3>4. \A i \in 1 .. 4 : 13 + i - 1 = 12 + i
      OBVIOUS
    <3> QED BY <3>3, <3>4 DEF Bytes
  <2>2. Native(c) = IF Mapped(v) = c THEN v ELSE c
    BY <1>3 DEF Native
  <2>3. Mapped(c) = c
    BY <1>3 DEF Mapped, IsV4
  <2> HIDE DEF v
  <2>4. ASSUME NEW u \in Bytes, Len(u) = 4, Mapped(u) = c PROVE u = v
    <3>1. \A j \in 1 .. 4 : c[12 + j] = u[j]
      BY <2>4, MappedIs
    <3>2. \A j \in 1 .. 4 : v[j] = u[j]
      BY <2>1, <3>1
    <3>3. u \in Seq(Byte) /\ v \in Seq(Byte) /\ Len(u) = Len(v)
      BY <2>1, <2>4 DEF Bytes
    <3> QED BY <2>1, <3>2, <3>3, SeqEqual
  <2>5. CASE Mapped(v) = c
    <3>1. v \in Address
      BY <2>1 DEF Address
    <3> QED BY <2>1, <2>2, <2>3, <2>5, <3>1, Zenon
  <2>6. CASE Mapped(v) # c
    <3>1. Native(c) = c /\ Len(c) # 4
      BY <1>3, <2>2, <2>6
    <3>2. ~ \E u \in Bytes : Len(u) = 4 /\ Mapped(u) = Mapped(c)
      BY <2>3, <2>4, <2>6
    <3> QED BY <3>1, <3>2
  <2> QED BY <2>5, <2>6
<1> QED BY <1>1, <1>2, <1>3

(* The comparison of the code tells whether the client is in the entry's block. *)
LEMMA MatchIsBlock ==
  ASSUME NEW s \in NetEntry, Parses(s), WellFormed(s), NEW c \in Address, NEW past \in BOOLEAN
  PROVE  addr_prefix_match(Mapped(c), parse_cidr(s).addr, parse_cidr(s).prefix, past)
           <=> InBlock(s, c)
<1> DEFINE bits == LengthOf(s)
           b == Mapped(s.addr)
           a == Mapped(c)
<1>1. s.addr \in Address /\ s.addr \in Bytes /\ Len(s.addr) \in {4, 16}
  BY DEF NetEntry, Parses, Address
<1>2. bits \in 0 .. 8 * Len(s.addr)
  BY DEF WellFormed
<1>3. parse_cidr(s).addr = b /\ parse_cidr(s).prefix = bits + (IF IsV4(s.addr) THEN 96 ELSE 0)
  BY DEF parse_cidr
<1>4. \A i \in 1 .. 16 : a[i] \in 0 .. 255 /\ b[i] \in 0 .. 255
  BY <1>1, MappedType
<1>5. c \in Bytes /\ Len(c) \in {4, 16}
  BY DEF Address
<1> HIDE DEF bits
<1>6. CASE Len(s.addr) = 16
  <2>1. parse_cidr(s).prefix = bits /\ bits \in 0 .. 128
    BY <1>2, <1>3, <1>6 DEF IsV4
  <2>2. b = s.addr /\ Len(a) = Len(s.addr)
    BY <1>6, MappedType DEF Mapped, IsV4
  <2>3. InBlock(s, c) <=> \A n \in 0 .. bits - 1 : Bit(a, n) = Bit(b, n)
    BY <1>6, <2>2 DEF InBlock, IsV4, bits
  <2> HIDE DEF a, b
  <2>4. addr_prefix_match(a, b, bits, past) <=> \A n \in 0 .. bits - 1 : Bit(a, n) = Bit(b, n)
    BY <1>4, <2>1, SameTop
  <2> QED BY <1>3, <2>1, <2>3, <2>4, Zenon DEF a
<1>7. CASE Len(s.addr) = 4
  <2> DEFINE P == bits + 96
             v == Native(c)
  <2>1. parse_cidr(s).prefix = P /\ bits \in 0 .. 32 /\ P \in 0 .. 128
    BY <1>2, <1>3, <1>7 DEF IsV4
  <2>2. InBlock(s, c) <=> Len(v) = 4 /\ \A n \in 0 .. bits - 1 : Bit(v, n) = Bit(s.addr, n)
    BY <1>7 DEF InBlock, IsV4, bits
  <2>3. /\ v \in Address
        /\ Len(v) = 4 <=> \E u \in Bytes : Len(u) = 4 /\ Mapped(u) = a
        /\ Len(v) = 4 => Mapped(v) = a
    BY NativeIs
  <2> DEFINE Agree == \A n \in 0 .. P - 1 : Bit(a, n) = Bit(b, n)
  <2>4. addr_prefix_match(a, b, P, past) <=> Agree
    <3> HIDE DEF a, b, P
    <3> QED BY <1>4, <2>1, SameTop
  <2>5. CASE Len(v) = 4
    <3>1. v \in Bytes /\ Mapped(v) = a
      BY <2>3, <2>5 DEF Address
    <3>2. \A n \in 0 .. 95 : Bit(a, n) = Bit(b, n)
      BY <1>1, <1>7, <2>5, <3>1, SameFront
    <3>3. \A n \in 0 .. 31 : Bit(a, 96 + n) = Bit(v, n) /\ Bit(b, 96 + n) = Bit(s.addr, n)
      BY <1>1, <1>7, <2>5, <3>1, MappedBits
    <3> HIDE DEF a, b, v
    <3>4. Agree <=> \A n \in 0 .. bits - 1 : Bit(v, n) = Bit(s.addr, n)
      <4>1. ASSUME Agree, NEW n \in 0 .. bits - 1 PROVE Bit(v, n) = Bit(s.addr, n)
        <5>1. n \in 0 .. 31 /\ 96 + n \in 0 .. P - 1
          BY <2>1
        <5> HIDE DEF P
        <5> QED BY <3>3, <4>1, <5>1
      <4>2. ASSUME \A n \in 0 .. bits - 1 : Bit(v, n) = Bit(s.addr, n), NEW n \in 0 .. P - 1
            PROVE  Bit(a, n) = Bit(b, n)
        <5>1. n \in 0 .. 95 \/ (n - 96 \in 0 .. bits - 1 /\ n - 96 \in 0 .. 31 /\ 96 + (n - 96) = n)
          BY <2>1
        <5>2. ASSUME NEW k \in 0 .. bits - 1, k \in 0 .. 31 PROVE Bit(a, 96 + k) = Bit(b, 96 + k)
          BY <3>3, <4>2, <5>2
        <5>3. CASE n \in 0 .. 95
          BY <3>2, <5>3
        <5>4. CASE n \notin 0 .. 95
          <6>1. Bit(a, 96 + (n - 96)) = Bit(b, 96 + (n - 96))
            BY <5>1, <5>2, <5>4
          <6> QED BY <5>1, <5>4, <6>1
        <5> QED BY <5>3, <5>4
      <4> QED BY <4>1, <4>2
    <3> QED BY <1>3, <2>1, <2>2, <2>4, <2>5, <3>4, Zenon DEF a, v
  <2>6. CASE Len(v) # 4
    <3>1. ASSUME Agree PROVE FALSE
      <4>1. Len(c) = 16 /\ a = c
        <5>1. Len(c) # 4
          BY <1>5, <2>3, <2>6
        <5> QED BY <1>5, <5>1 DEF Mapped, IsV4
      <4>2. addr_prefix_match(a, b, 96, past)
        <5>1. \A n \in 0 .. 96 - 1 : n \in 0 .. P - 1
          BY <2>1
        <5>2. \A n \in 0 .. 96 - 1 : Bit(a, n) = Bit(b, n)
          BY <3>1, <5>1
        <5>3. 96 \in 0 .. 128
          OBVIOUS
        <5> HIDE DEF a, b
        <5> QED BY <1>4, <5>2, <5>3, SameTop
      <4>3. \A i \in 1 .. 12 : a[i] = b[i]
        <5>1. 96 \div 8 = 12 /\ 96 % 8 = 0 /\ ~ (96 > 135) /\ ~ (96 <= 0)
          OBVIOUS
        <5> QED BY <4>2, <5>1 DEF addr_prefix_match
      <4> DEFINE u == SubSeq(c, 13, 16)
      <4>4. u \in Bytes /\ Len(u) = 4 /\ \A j \in 1 .. 4 : u[j] = c[12 + j]
        <5>1. \A i \in 13 .. 16 : c[i] \in Byte
          <6>1. c \in Seq(Byte)
            BY <1>5 DEF Bytes
          <6>2. \A i \in 13 .. 16 : i \in 1 .. 16
            OBVIOUS
          <6> QED BY <4>1, <6>1, <6>2, ElementType
        <5>2. /\ SubSeq(c, 13, 16) \in Seq(Byte)
              /\ Len(SubSeq(c, 13, 16)) = 4
              /\ \A i \in 1 .. 4 : SubSeq(c, 13, 16)[i] = c[13 + i - 1]
          BY <5>1, SubSeqProperties
        <5>3. \A i \in 1 .. 4 : 13 + i - 1 = 12 + i
          OBVIOUS
        <5> QED BY <5>2, <5>3 DEF Bytes
      <4> HIDE DEF u
      <4>5. ASSUME NEW i \in 1 .. 16 PROVE Mapped(u)[i] = c[i]
        <5>1. CASE i \in 1 .. 12
          <6>1. a[i] = b[i] /\ (i \in 1 .. 10 \/ i = 11 \/ i = 12)
            BY <4>3, <5>1
          <6>2. b[i] = Mapped(u)[i]
            BY <1>1, <1>7, <4>4, <6>1, MappedIs
          <6> QED BY <4>1, <6>1, <6>2
        <5>2. CASE i \notin 1 .. 12
          <6>1. i - 12 \in 1 .. 4 /\ 12 + (i - 12) = i
            BY <5>2
          <6>2. Mapped(u)[12 + (i - 12)] = u[i - 12] /\ u[i - 12] = c[12 + (i - 12)]
            BY <4>4, <6>1, MappedIs
          <6> QED BY <6>1, <6>2
        <5> QED BY <5>1, <5>2
      <4> DEFINE m == Mapped(u)
      <4>6. m \in Seq(Byte) /\ Len(m) = Len(c) /\ Len(m) = 16 /\ c \in Seq(Byte)
        BY <1>5, <4>1, <4>4, MappedIs DEF Bytes
      <4>7. \A i \in 1 .. Len(m) : m[i] = c[i]
        BY <4>5, <4>6
      <4> HIDE DEF m
      <4>8. m = c
        BY <4>6, <4>7, SeqEqual
      <4>9. Mapped(u) = a
        BY <4>1, <4>8 DEF m
      <4> QED BY <2>3, <2>6, <4>4, <4>9, Zenon
    <3> QED BY <1>3, <2>1, <2>2, <2>4, <2>6, <3>1, Zenon
  <2> QED BY <2>5, <2>6
<1> QED BY <1>1, <1>6, <1>7
(* PluginConfig. The list holds what the entries that count are parsed to. *)
LEMMA ListMeansEntries ==
  ASSUME NEW source \in SUBSET NetEntry, \A n \in source : WellFormed(n),
         NEW c \in Address, NEW past \in BOOLEAN
  PROVE  http_is_client_allowed(AllowAll(source), c, past)
           <=> LET good == {n \in source : Parses(n)}
               IN good = {} \/ \E n \in good : InBlock(n, c)
<1> DEFINE good == {n \in source : Parses(n)}
           list == AllowAll(source)
           Match(e) == addr_prefix_match(Mapped(c), e.addr, e.prefix, past)
<1>1. list = {parse_cidr(n) : n \in good}
  BY DEF AllowAll
<1>2. list = {} <=> good = {}
  BY <1>1
<1>3. ASSUME NEW n \in good PROVE Match(parse_cidr(n)) <=> InBlock(n, c)
  BY MatchIsBlock
<1>4. http_is_client_allowed(list, c, past) <=> list = {} \/ \E e \in list : Match(e)
  BY DEF http_is_client_allowed
<1> HIDE DEF list, Match, good
<1>5. (\E e \in list : Match(e)) <=> \E n \in good : InBlock(n, c)
  BY <1>1, <1>3
<1> QED BY <1>2, <1>4, <1>5 DEF list, good

NetsInv ==
  /\ stage \in {"load", "running"}
  /\ nets \in Seq(Nets)
  /\ \A i \in DOMAIN envNet : envNet[i] \in Nets
  /\ allowed = IF stage = "running" /\ envNet # <<>> THEN EnvAllowed ELSE AllowAll(Range(nets))

LEMMA NetsInit == ConfigInit => NetsInv
<1> SUFFICES ASSUME ConfigInit PROVE NetsInv
  OBVIOUS
<1>1. stage = "load" /\ nets = <<>> /\ allowed = {}
  BY DEF ConfigInit
<1>2. \A i \in DOMAIN envNet : envNet[i] \in Nets
  BY DEF ConfigInit
<1>3. AllowAll(Range(<<>>)) = {}
  BY DEF AllowAll, Range
<1> QED BY <1>1, <1>2, <1>3 DEF NetsInv

LEMMA NetsStep == NetsInv /\ [ConfigNext]_configVars => NetsInv'
<1> SUFFICES ASSUME NetsInv, [ConfigNext]_configVars PROVE NetsInv'
  OBVIOUS
<1>1. ASSUME NEW s, NEW v, SetParam(s, v) PROVE NetsInv'
  BY <1>1 DEF SetParam, NetsInv, EnvAllowed
<1>2. ASSUME NEW n \in Nets, SetNetParam(n) PROVE NetsInv'
  <2>1. /\ stage = "load" /\ stage' = "load" /\ envNet' = envNet
        /\ nets' = Append(nets, n) /\ allowed' = http_allow_cidr(allowed, n)
    BY <1>2 DEF SetNetParam
  <2>2. allowed = AllowAll(Range(nets)) /\ nets \in Seq(Nets)
    BY <2>1 DEF NetsInv
  <2>3. nets' \in Seq(Nets) /\ Range(nets') = Range(nets) \cup {n}
    BY <2>1, <2>2 DEF Range
  <2>4. AllowAll(Range(nets) \cup {n}) = http_allow_cidr(AllowAll(Range(nets)), n)
    BY DEF AllowAll, http_allow_cidr
  <2> QED BY <2>1, <2>2, <2>3, <2>4 DEF NetsInv
<1>3. CASE ReadEnvironment
  BY <1>3 DEF ReadEnvironment, NetsInv, EnvAllowed
<1>4. CASE UNCHANGED configVars
  BY <1>4 DEF configVars, NetsInv, EnvAllowed
<1> QED BY <1>1, <1>2, <1>3, <1>4 DEF ConfigNext

(* The networks of the environment replace those of olsrd.conf, and the list   *)
(* lets in exactly the clients in a block of an entry that can be read, or all *)
(* clients when there is none (httpd.c 56-171, 4950-4958, 5072-5099).          *)
THEOREM OnlyNetsAreLetIn == ConfigSpec => []AllowListMeansNets
<1>1. NetsInv => AllowListMeansNets
  <2> SUFFICES ASSUME NetsInv, stage = "running", NEW c \in Clients, NEW past \in BOOLEAN,
                      \A n \in Range(IF envNet = <<>> THEN nets ELSE envNet) : WellFormed(n),
                      \A i \in DOMAIN envNet : envNet[i].form # "pair"
               PROVE  LET source == Range(IF envNet = <<>> THEN nets ELSE envNet)
                          good   == {n \in source : Parses(n)}
                      IN http_is_client_allowed(allowed, c, past) <=>
                           good = {} \/ \E n \in good : InBlock(n, c)
    BY DEF AllowListMeansNets
  <2> DEFINE source == Range(IF envNet = <<>> THEN nets ELSE envNet)
  <2>1. allowed = AllowAll(source)
    <3>1. CASE envNet = <<>>
      BY <3>1 DEF NetsInv
    <3>2. CASE envNet # <<>>
      <4>1. UNION {Tokens(envNet[i]) : i \in DOMAIN envNet} = Range(envNet)
        BY DEF Tokens, Range
      <4> QED BY <3>2, <4>1 DEF NetsInv, EnvAllowed
    <3> QED BY <3>1, <3>2
  <2>2. source \subseteq NetEntry /\ c \in Address
    BY ConfigAssumption DEF NetsInv, Range
  <2> HIDE DEF source
  <2>3. \A n \in source : WellFormed(n)
    BY DEF source
  <2>4. http_is_client_allowed(AllowAll(source), c, past)
          <=> LET good == {n \in source : Parses(n)}
              IN good = {} \/ \E n \in good : InBlock(n, c)
    BY <2>2, <2>3, ListMeansEntries
  <2> QED BY <2>1, <2>4 DEF source
<1> QED BY NetsInit, NetsStep, <1>1, PTL DEF ConfigSpec

-----------------------------------------------------------------------------
(* Metrics, for any counters, threads and number of increments, in both       *)
(* builds.                                                                    *)
(* Types, without the bounds that are only for model checking. *)
MetricsShape ==
  /\ counter \in [Counters -> Nat]
  /\ counted \in [Counters -> Nat]
  /\ job \in [Threads -> [at : {"idle", "load", "store", "nodes", "reload"},
                          what : Counters \cup {"none"}, value : Nat]]

(* A thread between load and store has the lock, and what it loaded is still  *)
(* the counter's value; with atomics nobody is there.                         *)
LockHeld ==
  \A t \in Threads :
    job[t].at \in {"load", "store"} =>
      /\ ~c11
      /\ mutex = t
      /\ job[t].what \in Counters
      /\ job[t].at = "store" => job[t].value = counter[job[t].what]

MetricsInv == MetricsShape /\ LockHeld /\ CountsComplete

LEMMA MetricsInitInv == MetricsInit => MetricsInv
BY DEF MetricsInit, MetricsInv, MetricsShape, LockHeld, CountsComplete, Idle

LEMMA MetricsStepInv == MetricsInv /\ [MetricsNext]_metricsVars => MetricsInv'
<1> SUFFICES ASSUME MetricsInv, [MetricsNext]_metricsVars PROVE MetricsInv'
  OBVIOUS
<1> USE MetricsAssumption DEF MetricsInv
<1>1. ASSUME NEW t \in Threads, NEW m \in Counters, AtomicInc(t, m) PROVE MetricsInv'
  <2>1. MetricsShape'
    BY <1>1 DEF MetricsShape, AtomicInc
  <2>2. LockHeld'
    BY <1>1 DEF MetricsShape, LockHeld, AtomicInc
  <2> QED BY <1>1, <2>1, <2>2 DEF MetricsShape, CountsComplete, AtomicInc
<1>2. ASSUME NEW t \in Threads, NEW m \in Counters, LockedInc(t, m) PROVE MetricsInv'
  <2>1. MetricsShape'
    BY <1>2 DEF MetricsShape, LockedInc
  <2>2. \A u \in Threads : job[u].at \notin {"load", "store"}
    BY <1>2 DEF LockHeld, LockedInc
  <2>3. LockHeld'
    BY <1>2, <2>2 DEF MetricsShape, LockHeld, LockedInc
  <2> QED BY <1>2, <2>1, <2>3 DEF CountsComplete, LockedInc
<1>3. ASSUME NEW t \in Threads, LoadCounter(t) PROVE MetricsInv'
  <2>1. job[t].what \in Counters
    BY <1>3 DEF LockHeld, LoadCounter
  <2>2. MetricsShape'
    BY <1>3, <2>1 DEF MetricsShape, LoadCounter
  <2>3. LockHeld'
    BY <1>3, <2>1 DEF MetricsShape, LockHeld, LoadCounter
  <2> QED BY <1>3, <2>2, <2>3 DEF CountsComplete, LoadCounter
<1>4. ASSUME NEW t \in Threads, StoreCounter(t) PROVE MetricsInv'
  <2> DEFINE m == job[t].what
  <2>1. m \in Counters /\ mutex = t /\ job[t].value = counter[m]
    BY <1>4 DEF LockHeld, StoreCounter
  <2>2. MetricsShape'
    BY <1>4, <2>1 DEF MetricsShape, StoreCounter, Idle
  <2>3. LockHeld'
    <3>1. \A u \in Threads : job'[u].at \in {"load", "store"} => u # t /\ job'[u] = job[u]
      BY <1>4 DEF MetricsShape, StoreCounter, Idle
    <3>2. \A u \in Threads \ {t} : job[u].at \notin {"load", "store"}
      BY <2>1 DEF LockHeld
    <3> QED BY <3>1, <3>2 DEF LockHeld
  <2>4. CountsComplete'
    BY <1>4, <2>1 DEF MetricsShape, CountsComplete, StoreCounter
  <2> QED BY <2>2, <2>3, <2>4
<1>5. ASSUME NEW t \in Threads, NEW n \in 1 .. 2, SetUnique(t, n) PROVE MetricsInv'
  <2>1. MetricsShape'
    BY <1>5 DEF MetricsShape, SetUnique
  <2>2. LockHeld'
    BY <1>5 DEF MetricsShape, LockHeld, SetUnique
  <2> QED BY <1>5, <2>1, <2>2 DEF CountsComplete, SetUnique
<1>6. ASSUME NEW t \in Threads, SetUniqueNodes(t) PROVE MetricsInv'
  <2>1. MetricsShape'
    BY <1>6 DEF MetricsShape, SetUniqueNodes, Idle
  <2>2. LockHeld'
    BY <1>6 DEF MetricsShape, LockHeld, SetUniqueNodes, Idle
  <2> QED BY <1>6, <2>1, <2>2 DEF CountsComplete, SetUniqueNodes
<1>7. ASSUME NEW t \in Threads, h_fetch_metrics(t) PROVE MetricsInv'
  <2>1. MetricsShape'
    BY <1>7 DEF MetricsShape, h_fetch_metrics
  <2>2. \A u \in Threads : job[u].at \notin {"load", "store"}
    BY <1>7 DEF LockHeld, h_fetch_metrics
  <2>3. LockHeld'
    BY <1>7, <2>2 DEF MetricsShape, LockHeld, h_fetch_metrics
  <2> QED BY <1>7, <2>1, <2>3 DEF CountsComplete, h_fetch_metrics
<1>8. CASE UNCHANGED metricsVars
  BY <1>8 DEF metricsVars, MetricsShape, LockHeld, CountsComplete
<1> QED
  BY <1>1, <1>2, <1>3, <1>4, <1>5, <1>6, <1>7, <1>8 DEF MetricsNext

(* No increment is lost (309-333): with the lock because nobody else stores    *)
(* between a thread's load and its store, with atomics because there is        *)
(* nothing in between; a request that keeps the lock for ever changes neither. *)
THEOREM NoCountLost == MetricsSpec => []CountsComplete
<1>1. MetricsInv => CountsComplete
  BY DEF MetricsInv
<1> QED BY MetricsInitInv, MetricsStepInv, <1>1, PTL DEF MetricsSpec

(* Increments that are done or under way are within the bound. *)
Under(m) == {t \in Threads : job[t].what = m}

CountsFit ==
  /\ c11 \in BOOLEAN /\ mutex \in Threads \cup {"nobody"}
  /\ totals \in [routes : Nat, nodes : Nat]
  /\ \A m \in Counters : Begun(m) <= MaxCounts

LEMMA UnderIsFinite == ASSUME NEW m PROVE IsFiniteSet(Under(m)) /\ Cardinality(Under(m)) \in Nat
<1>1. Under(m) \subseteq Threads
  BY DEF Under
<1> QED BY <1>1, MetricsAssumption, FS_Subset, FS_CardinalityType

(* No more is under way, and no more is done. *)
LEMMA NoMoreBegun ==
  ASSUME MetricsInv, NEW m \in Counters, Begun(m) <= MaxCounts,
         counted' = counted, Under(m)' \subseteq Under(m)
  PROVE  Begun(m)' <= MaxCounts
<1>1. /\ IsFiniteSet(Under(m)')
      /\ Cardinality(Under(m)') \in Nat /\ Cardinality(Under(m)) \in Nat
      /\ Cardinality(Under(m)') <= Cardinality(Under(m))
  BY UnderIsFinite, FS_Subset, FS_CardinalityType
<1>2. counted[m] \in Nat
  BY DEF MetricsInv, MetricsShape
<1>3. /\ Begun(m) = counted[m] + Cardinality(Under(m))
      /\ Begun(m)' = counted[m] + Cardinality(Under(m)')
  BY DEF Begun, Under
<1> QED BY <1>1, <1>2, <1>3, MetricsAssumption

LEMMA CountsFitStep == MetricsInv /\ CountsFit /\ [MetricsNext]_metricsVars => CountsFit'
<1> SUFFICES ASSUME MetricsInv, CountsFit, [MetricsNext]_metricsVars PROVE CountsFit'
  OBVIOUS
<1>0. /\ c11 \in BOOLEAN /\ mutex \in Threads \cup {"nobody"}
      /\ totals \in [routes : Nat, nodes : Nat]
      /\ \A m \in Counters : Begun(m) <= MaxCounts
      /\ counted \in [Counters -> Nat] /\ "none" \notin Counters
      /\ job \in [Threads -> [at : {"idle", "load", "store", "nodes", "reload"},
                              what : Counters \cup {"none"}, value : Nat]]
  BY MetricsAssumption DEF CountsFit, MetricsInv, MetricsShape
<1>b. ASSUME NEW m \in Counters
      PROVE  /\ Begun(m) = counted[m] + Cardinality(Under(m))
             /\ Begun(m)' = counted'[m] + Cardinality(Under(m)')
             /\ counted[m] \in Nat /\ Cardinality(Under(m)) \in Nat
             /\ IsFiniteSet(Under(m)) /\ Begun(m) <= MaxCounts
  BY <1>0, <1>b, UnderIsFinite DEF Begun, Under
<1>q. ASSUME c11' \in BOOLEAN, mutex' \in Threads \cup {"nobody"},
             totals' \in [routes : Nat, nodes : Nat], UNCHANGED counted,
             \A m \in Counters : Under(m)' \subseteq Under(m)
      PROVE  CountsFit'
  <2>1. \A m \in Counters : Begun(m)' <= MaxCounts
    BY <1>0, <1>q, NoMoreBegun
  <2> QED BY <1>q, <2>1 DEF CountsFit
<1>1. ASSUME NEW t \in Threads, NEW m \in Counters, AtomicInc(t, m) PROVE CountsFit'
  <2>1. ASSUME NEW c \in Counters PROVE Begun(c)' <= MaxCounts
    <3>1. Under(c)' = Under(c) /\ counted'[c] = IF c = m THEN counted[c] + 1 ELSE counted[c]
      BY <1>0, <1>1 DEF AtomicInc, Under
    <3>2. Begun(m) < MaxCounts
      BY <1>1 DEF AtomicInc, Room
    <3> QED BY <1>b, <2>1, <3>1, <3>2, MetricsAssumption
  <2> QED BY <1>0, <1>1, <2>1 DEF AtomicInc, CountsFit
<1>2. ASSUME NEW t \in Threads, NEW m \in Counters, LockedInc(t, m) PROVE CountsFit'
  <2>1. ASSUME NEW c \in Counters PROVE Begun(c)' <= MaxCounts
    <3>1. counted' = counted /\ Begun(m) < MaxCounts /\ job[t].what = "none"
          /\ job' = [job EXCEPT ![t] = [at |-> "load", what |-> m, value |-> 0]]
      BY <1>2 DEF LockedInc, Room, Idle
    <3>2. Under(c)' = IF c = m THEN Under(c) \cup {t} ELSE Under(c)
      BY <1>0, <2>1, <3>1 DEF Under
    <3>3. t \notin Under(c)
      BY <1>0, <2>1, <3>1 DEF Under
    <3>4. Cardinality(Under(c) \cup {t}) = Cardinality(Under(c)) + 1
      BY <1>b, <2>1, <3>3, FS_AddElement
    <3> QED BY <1>b, <2>1, <3>1, <3>2, <3>4, MetricsAssumption
  <2> QED BY <1>0, <1>2, <2>1 DEF LockedInc, CountsFit
<1>3. ASSUME NEW t \in Threads, LoadCounter(t) PROVE CountsFit'
  <2>1. \A m \in Counters : Under(m)' = Under(m)
    BY <1>0, <1>3 DEF LoadCounter, Under
  <2> QED BY <1>0, <1>3, <1>q, <2>1 DEF LoadCounter
<1>4. ASSUME NEW t \in Threads, StoreCounter(t) PROVE CountsFit'
  <2> DEFINE m == job[t].what
  <2>0. m \in Counters /\ counted' = [counted EXCEPT ![m] = @ + 1]
        /\ job' = [job EXCEPT ![t] = Idle]
    BY <1>4 DEF StoreCounter, MetricsInv, LockHeld
  <2>1. ASSUME NEW c \in Counters PROVE Begun(c)' <= MaxCounts
    <3>1. counted'[c] = IF c = m THEN counted[c] + 1 ELSE counted[c]
      BY <1>0, <2>0, <2>1
    <3>2. Under(c)' = IF c = m THEN Under(c) \ {t} ELSE Under(c)
      BY <1>0, <2>0, <2>1 DEF Under, Idle
    <3>3. c = m => t \in Under(c)
      BY DEF Under
    <3>4. c = m => Cardinality(Under(c) \ {t}) = Cardinality(Under(c)) - 1
      BY <1>b, <2>1, <3>3, FS_RemoveElement
    <3> HIDE DEF m
    <3>5. CASE c = m
      <4>1. Cardinality(Under(c)') = Cardinality(Under(c)) - 1
        BY <3>2, <3>4, <3>5
      <4> QED BY <1>b, <2>1, <3>1, <3>5, <4>1
    <3>6. CASE c # m
      BY <1>b, <2>1, <3>1, <3>2, <3>6
    <3> QED BY <3>5, <3>6
  <2> QED BY <1>0, <1>4, <2>1 DEF StoreCounter, CountsFit
<1>5. ASSUME NEW t \in Threads, NEW n \in 1 .. 2, SetUnique(t, n) PROVE CountsFit'
  <2>1. \A m \in Counters : Under(m)' \subseteq Under(m)
    BY <1>0, <1>5 DEF SetUnique, Under, Idle
  <2>2. totals' \in [routes : Nat, nodes : Nat]
    BY <1>0, <1>5 DEF SetUnique
  <2> QED BY <1>0, <1>5, <1>q, <2>1, <2>2 DEF SetUnique
<1>6. ASSUME NEW t \in Threads, SetUniqueNodes(t) PROVE CountsFit'
  <2>1. \A m \in Counters : Under(m)' \subseteq Under(m)
    BY <1>0, <1>6 DEF SetUniqueNodes, Under, Idle
  <2>2. totals' \in [routes : Nat, nodes : Nat]
    BY <1>0, <1>6 DEF SetUniqueNodes
  <2> QED BY <1>0, <1>6, <1>q, <2>1, <2>2 DEF SetUniqueNodes
<1>7. ASSUME NEW t \in Threads, h_fetch_metrics(t) PROVE CountsFit'
  <2>1. \A m \in Counters : Under(m)' \subseteq Under(m)
    BY <1>0, <1>7 DEF h_fetch_metrics, Under, Idle
  <2> QED BY <1>0, <1>7, <1>q, <2>1 DEF h_fetch_metrics
<1>8. CASE UNCHANGED metricsVars
  <2>1. \A m \in Counters : Under(m)' = Under(m)
    BY <1>8 DEF metricsVars, Under
  <2> QED BY <1>0, <1>8, <1>q, <2>1 DEF metricsVars
<1> QED BY <1>1, <1>2, <1>3, <1>4, <1>5, <1>6, <1>7, <1>8 DEF MetricsNext

LEMMA CountsFitInit == MetricsInit => CountsFit
<1> SUFFICES ASSUME MetricsInit PROVE CountsFit
  OBVIOUS
<1>1. \A m \in Counters : Under(m) = {}
  BY MetricsAssumption DEF MetricsInit, Idle, Under
<1>2. Cardinality({}) = 0
  BY FS_EmptySet
<1>3. \A m \in Counters : Begun(m) = 0
  BY <1>1, <1>2 DEF Begun, Under, MetricsInit
<1> QED BY <1>3, MetricsAssumption DEF MetricsInit, CountsFit

(* The counters keep to what there was to count (309-333).                     *)
THEOREM MetricsAreTyped == MetricsSpec => []MetricsTypeOK
<1>1. MetricsInv /\ CountsFit => MetricsTypeOK
  <2> SUFFICES ASSUME MetricsInv, CountsFit PROVE MetricsTypeOK
    OBVIOUS
  <2>1. ASSUME NEW m \in Counters PROVE counted[m] \in 0 .. MaxCounts
    <3>1. Begun(m) = counted[m] + Cardinality(Under(m)) /\ Cardinality(Under(m)) \in Nat
      BY UnderIsFinite DEF Begun, Under
    <3> QED BY <2>1, <3>1, MetricsAssumption DEF CountsFit, MetricsInv, MetricsShape
  <2>2. counted \in [Counters -> 0 .. MaxCounts]
    BY <2>1 DEF MetricsInv, MetricsShape
  <2> QED BY <2>2 DEF MetricsTypeOK, MetricsInv, MetricsShape, CountsComplete, CountsFit
<1> QED
  BY MetricsInitInv, MetricsStepInv, CountsFitInit, CountsFitStep, <1>1, PTL DEF MetricsSpec

-----------------------------------------------------------------------------
(* Lifecycle, however often the workers ask.                                  *)
(* Types, without the bounds that are only for model checking. *)
LifeShape ==
  /\ thread \in [Workers -> {"none", "created", "test", "enqueue", "sleep", "gone"}]
  /\ running \in [Workers -> BOOLEAN]
  /\ queue \subseteq Workers /\ stopped \subseteq Workers
  /\ busy \in Workers \cup {"nobody"}
  /\ rounds \in [Workers -> Nat]
  /\ after \in [Workers -> Nat]

(* What a worker does before the stop is not counted. *)
Quiet == \A w \in Workers \ stopped : after[w] = 0 /\ w \notin late

(* The flag of a stopped worker stays down unless it began later. *)
FlagsDown == \A w \in stopped \ late : ~running[w]

(* A worker asks once more at most: only the flag leads to another request. *)
OneLeft ==
  \A w \in Workers \ late :
    after[w] <= 1 /\ (thread[w] = "enqueue" => after[w] = 0)

(* Everything that leads to a filled cache of a stopped worker was accounted for. *)
Accounted ==
  \A w \in stopped :
    w \in queue \cup filled \cup {busy} => w \in left \cup late \/ after[w] > 0

LifeInv == LifeShape /\ Quiet /\ FlagsDown /\ OneLeft /\ Accounted

LEMMA LifeInitInv == LifeInit => LifeInv
BY DEF LifeInit, LifeInv, LifeShape, Quiet, FlagsDown, OneLeft, Accounted

LEMMA LifeStepInv == LifeInv /\ [LifeNext]_lifeVars => LifeInv'
<1> SUFFICES ASSUME LifeInv, [LifeNext]_lifeVars PROVE LifeInv'
  OBVIOUS
<1> USE DEF LifeInv
<1>1. ASSUME NEW w \in Workers, StartWorker(w) PROVE LifeInv'
  <2>1. LifeShape'
    BY <1>1 DEF LifeShape, StartWorker
  <2> QED
    BY <1>1, <2>1 DEF LifeShape, StartWorker, Quiet, FlagsDown, OneLeft, Accounted
<1>2. ASSUME NEW w \in Workers, BeginWorker(w) PROVE LifeInv'
  <2>1. LifeShape'
    BY <1>2 DEF LifeShape, BeginWorker
  <2>2. Quiet' /\ FlagsDown'
    BY <1>2 DEF LifeShape, Quiet, FlagsDown, BeginWorker
  <2>3. OneLeft'
    BY <1>2 DEF LifeShape, OneLeft, BeginWorker
  <2>4. Accounted'
    BY <1>2 DEF Accounted, BeginWorker
  <2> QED BY <2>1, <2>2, <2>3, <2>4
<1>3. ASSUME NEW w \in Workers, TestRunning(w) PROVE LifeInv'
  <2>1. LifeShape'
    BY <1>3 DEF LifeShape, TestRunning
  <2>2. running[w] => w \notin stopped \ late
    BY DEF FlagsDown
  <2>3. OneLeft'
    BY <1>3, <2>2 DEF LifeShape, Quiet, OneLeft, TestRunning
  <2> QED BY <1>3, <2>1, <2>3 DEF TestRunning, Quiet, FlagsDown, Accounted
<1>4. ASSUME NEW w \in Workers, EnqueueRound(w) PROVE LifeInv'
  <2>1. LifeShape'
    BY <1>4 DEF LifeShape, EnqueueRound
  <2>2. Quiet' /\ FlagsDown'
    BY <1>4 DEF LifeShape, Quiet, FlagsDown, EnqueueRound
  <2>3. OneLeft'
    BY <1>4 DEF LifeShape, OneLeft, EnqueueRound
  <2>4. Accounted'
    BY <1>4 DEF LifeShape, Accounted, EnqueueRound
  <2> QED BY <2>1, <2>2, <2>3, <2>4
<1>5. ASSUME NEW w \in Workers, EndSleep(w) PROVE LifeInv'
  <2>1. LifeShape' /\ OneLeft'
    BY <1>5 DEF LifeShape, OneLeft, EndSleep
  <2> QED BY <1>5, <2>1 DEF EndSleep, Quiet, FlagsDown, Accounted
<1>6. ASSUME NEW w \in Workers, TakeRequest(w) PROVE LifeInv'
  <2>1. LifeShape'
    BY <1>6 DEF LifeShape, TakeRequest
  <2> QED BY <1>6, <2>1 DEF TakeRequest, Quiet, FlagsDown, OneLeft, Accounted
<1>7. ASSUME NEW success \in BOOLEAN, EndFetch(success) PROVE LifeInv'
  <2>1. LifeShape'
    BY <1>7 DEF LifeShape, EndFetch
  <2>2. "nobody" \notin Workers
    BY DEF Workers
  <2>3. Accounted'
    <3>1. filled' \subseteq filled \cup {busy} /\ stopped \subseteq Workers
      BY <1>7 DEF EndFetch, LifeShape
    <3> QED BY <1>7, <2>2, <3>1 DEF Accounted, EndFetch
  <2> QED BY <1>7, <2>1, <2>3 DEF EndFetch, Quiet, FlagsDown, OneLeft
<1>8. ASSUME NEW w \in Workers, StopWorker(w) PROVE LifeInv'
  <2>1. LifeShape'
    BY <1>8 DEF LifeShape, StopWorker
  <2>2. Quiet' /\ FlagsDown' /\ OneLeft'
    BY <1>8 DEF LifeShape, Quiet, FlagsDown, OneLeft, StopWorker
  <2>3. Accounted'
    BY <1>8 DEF Accounted, StopWorker
  <2> QED BY <2>1, <2>2, <2>3
<1>9. CASE UNCHANGED lifeVars
  BY <1>9 DEF lifeVars, LifeShape, Quiet, FlagsDown, OneLeft, Accounted
<1> QED
  BY <1>1, <1>2, <1>3, <1>4, <1>5, <1>6, <1>7, <1>8, <1>9 DEF LifeNext

(* A worker that has begun before the stop asks at most once more, however     *)
(* long its interval and wherever the stop finds it.                           *)
THEOREM WorkersEnd == LifeSpec => []StoppedWorkersEnd
<1>1. LifeInv => StoppedWorkersEnd
  BY DEF LifeInv, OneLeft, StoppedWorkersEnd
<1> QED BY LifeInitInv, LifeStepInv, <1>1, PTL DEF LifeSpec

(* The memory of a cache stays free after the stop, but for the requests that  *)
(* the stop came across and for workers that begin too late.                   *)
THEOREM FreedStaysFree == LifeSpec => []FilledAgainOnlyBy
<1>1. LifeInv => FilledAgainOnlyBy
  BY DEF LifeInv, Accounted, FilledAgainOnlyBy
<1> QED BY LifeInitInv, LifeStepInv, <1>1, PTL DEF LifeSpec

(* Requests after the stop are among all of them. *)
RoundsFit ==
  /\ init \subseteq Workers /\ filled \subseteq Workers
  /\ late \subseteq Workers /\ left \subseteq Workers
  /\ \A w \in Workers : rounds[w] <= MaxRounds /\ after[w] <= rounds[w]

LEMMA RoundsFitStep == LifeInv /\ RoundsFit /\ [LifeNext]_lifeVars => RoundsFit'
<1> SUFFICES ASSUME LifeInv, RoundsFit, [LifeNext]_lifeVars PROVE RoundsFit'
  OBVIOUS
<1> USE LifeAssumption DEF LifeInv, LifeShape, RoundsFit
<1>1. ASSUME NEW w \in Workers, StartWorker(w) PROVE RoundsFit'
  BY <1>1 DEF StartWorker
<1>2. ASSUME NEW w \in Workers, BeginWorker(w) PROVE RoundsFit'
  BY <1>2 DEF BeginWorker
<1>3. ASSUME NEW w \in Workers, TestRunning(w) PROVE RoundsFit'
  BY <1>3 DEF TestRunning
<1>4. ASSUME NEW w \in Workers, EnqueueRound(w) PROVE RoundsFit'
  <2>1. ASSUME NEW v \in Workers PROVE rounds'[v] <= MaxRounds /\ after'[v] <= rounds'[v]
    <3>1. rounds[v] \in Nat /\ after[v] \in Nat
      BY <2>1
    <3>2. /\ rounds'[v] = IF v = w THEN rounds[v] + 1 ELSE rounds[v]
          /\ (after'[v] = after[v] \/ (v = w /\ after'[v] = after[v] + 1))
      BY <1>4, <2>1 DEF EnqueueRound
    <3>3. v = w => rounds[v] < MaxRounds
      BY <1>4 DEF EnqueueRound
    <3> QED BY <2>1, <3>1, <3>2, <3>3
  <2> QED BY <1>4, <2>1 DEF EnqueueRound
<1>5. ASSUME NEW w \in Workers, EndSleep(w) PROVE RoundsFit'
  BY <1>5 DEF EndSleep
<1>6. ASSUME NEW w \in Workers, TakeRequest(w) PROVE RoundsFit'
  BY <1>6 DEF TakeRequest
<1>7. ASSUME NEW success \in BOOLEAN, EndFetch(success) PROVE RoundsFit'
  BY <1>7 DEF EndFetch
<1>8. ASSUME NEW w \in Workers, StopWorker(w) PROVE RoundsFit'
  BY <1>8 DEF StopWorker
<1>9. CASE UNCHANGED lifeVars
  BY <1>9 DEF lifeVars
<1> QED BY <1>1, <1>2, <1>3, <1>4, <1>5, <1>6, <1>7, <1>8, <1>9 DEF LifeNext

(* Threads, flags and requests are those of the two workers (691-733).         *)
THEOREM LifeIsTyped == LifeSpec => []LifeTypeOK
<1>1. LifeInit => RoundsFit
  BY LifeAssumption DEF LifeInit, RoundsFit
<1>2. LifeInv /\ RoundsFit => LifeTypeOK
  <2> SUFFICES ASSUME LifeInv, RoundsFit PROVE LifeTypeOK
    OBVIOUS
  <2>1. \A w \in Workers : rounds[w] \in 0 .. MaxRounds /\ after[w] \in 0 .. MaxRounds
    BY LifeAssumption DEF LifeInv, LifeShape, RoundsFit
  <2> QED BY <2>1 DEF LifeInv, LifeShape, RoundsFit, LifeTypeOK
<1> QED BY LifeInitInv, LifeStepInv, RoundsFitStep, <1>1, <1>2, PTL DEF LifeSpec

-----------------------------------------------------------------------------
(* JsonText, NodeNames and LinkCounts: what is read of a text and of the       *)
(* routing table, whatever they hold.                                          *)
LEMMA SequenceIs ==
  ASSUME NEW s, IsSequence(s)
  PROVE  Len(s) \in Nat /\ DOMAIN s = 1 .. Len(s)
BY DEF IsSequence

LEMMA LeastOf ==
  ASSUME NEW S \in SUBSET Nat, S # {}
  PROVE  Min(S) \in S /\ \A k \in S : Min(S) <= k
<1>1. \E m \in S : \A k \in S : m <= k
  BY LeastIn
<1> QED BY <1>1 DEF Min

LEMMA GreatestOf ==
  ASSUME NEW S \in SUBSET Nat, S # {}, NEW b \in Nat, \A k \in S : k <= b
  PROVE  Max(S) \in S /\ \A k \in S : k <= Max(S)
<1>1. \E m \in S : \A k \in S : k <= m
  BY GreatestIn
<1> QED BY <1>1 DEF Max

(* A key that the object has is found there, and one that is found is in some  *)
(* object from there on.                                                       *)
LEMMA FoundHere ==
  ASSUME NEW objs, IsSequence(objs), NEW i \in DOMAIN objs, NEW key, key \in DOMAIN objs[i]
  PROVE  find_json_string_value(objs, i, key) = <<objs[i][key]>>
<1> DEFINE places == {j \in i .. Len(objs) : key \in DOMAIN objs[j]}
<1>1. /\ Len(objs) \in Nat /\ i \in 1 .. Len(objs)
      /\ i \in places /\ places \in SUBSET Nat /\ \A j \in places : i <= j
  BY SequenceIs
<1> HIDE DEF places
<1>2. Min(places) \in places /\ \A k \in places : Min(places) <= k
  BY <1>1, LeastOf
<1>3. Min(places) = i
  BY <1>1, <1>2
<1> QED BY <1>1, <1>3 DEF find_json_string_value, places

LEMMA FoundSomewhere ==
  ASSUME NEW objs, IsSequence(objs), NEW i \in DOMAIN objs, NEW key,
         find_json_string_value(objs, i, key) # <<>>
  PROVE  \E j \in i .. Len(objs) : key \in DOMAIN objs[j]
BY DEF find_json_string_value

(* The first of the keys that the object has is the one that counts. *)
LEMMA FirstKeyDecides ==
  ASSUME NEW objs, IsSequence(objs), NEW i \in DOMAIN objs,
         NEW keys, IsSequence(keys), keys # <<>>, keys[1] \in DOMAIN objs[i]
  PROVE  FindFirst(objs, i, keys) = <<objs[i][keys[1]]>>
<1> DEFINE hits == {n \in DOMAIN keys : find_json_string_value(objs, i, keys[n]) # <<>>}
<1>1. find_json_string_value(objs, i, keys[1]) = <<objs[i][keys[1]]>>
  BY FoundHere
<1>2. Len(keys) \in Nat /\ DOMAIN keys = 1 .. Len(keys) /\ 1 \in DOMAIN keys
  BY SequenceIs DEF IsSequence
<1>3. 1 \in hits /\ hits \in SUBSET Nat /\ \A n \in hits : 1 <= n
  BY <1>1, <1>2
<1> HIDE DEF hits
<1>4. Min(hits) \in hits /\ \A k \in hits : Min(hits) <= k
  BY <1>3, LeastOf
<1>5. Min(hits) = 1
  <2>1. Min(hits) \in Nat /\ 1 <= Min(hits) /\ Min(hits) <= 1
    BY <1>3, <1>4
  <2> QED BY <2>1
<1> QED BY <1>1, <1>3, <1>5 DEF FindFirst, hits

LEMMA ObjectsAre ==
  ASSUME NEW db, IsNodeDb(db)
  PROVE  /\ IsSequence(Objects(db)) /\ DOMAIN Objects(db) = DOMAIN db
         /\ Len(Objects(db)) = Len(db)
         /\ \A i \in DOMAIN db : Objects(db)[i] = db[i].obj
<1>1. Len(db) \in Nat /\ DOMAIN db = 1 .. Len(db)
  BY SequenceIs DEF IsNodeDb
<1>2. Objects(db) = [i \in 1 .. Len(db) |-> db[i].obj]
  BY <1>1 DEF Objects
<1>3. Objects(db) \in Seq({Objects(db)[i] : i \in DOMAIN Objects(db)})
  BY <1>1, <1>2
<1> QED BY <1>1, <1>2, <1>3 DEF IsSequence

(* The code's comparison of an entry with an address is that of its block, and *)
(* its search for the address is that in the entry itself.                     *)
LEMMA MatchIsAbout ==
  ASSUME NEW db, IsNodeDb(db), Complete(db), NEW dest \in DOMAIN Octets, NEW i \in DOMAIN db
  PROVE  Matches(db, i, dest) <=> i \in About(db, dest)
<1>1. Octets[dest] \in Bytes /\ Len(Octets[dest]) = 4
  BY OctetsAssumption
<1>2. CASE db[i].net \in DOMAIN Octets
  <2> DEFINE s == [form |-> "slash", addr |-> Octets[db[i].net], len |-> MaskOf(db[i])]
  <2>1. Len(s.addr) = 4 /\ IsV4(s.addr) /\ s.form = "slash"
    BY <1>2, OctetsAssumption DEF IsV4
  <2>2. LengthOf(s) = MaskOf(db[i])
    BY DEF LengthOf
  <2>3. Native(Octets[dest]) = Octets[dest]
    BY <1>1 DEF Native
  <2>4. InBlock(s, Octets[dest]) <=>
          \A n \in 0 .. MaskOf(db[i]) - 1 : Bit(Octets[dest], n) = Bit(Octets[db[i].net], n)
    BY <1>1, <2>1, <2>2, <2>3, Zenon DEF InBlock
  <2>5. db[i].net # ""
    BY <1>2, OctetsAssumption
  <2>6. Matches(db, i, dest) <=> SameNet(db[i].net, dest, MaskOf(db[i]))
    BY <2>5 DEF Matches
  <2>7. SameNet(db[i].net, dest, MaskOf(db[i])) <=>
          \A n \in 0 .. MaskOf(db[i]) - 1 : Bit(Octets[db[i].net], n) = Bit(Octets[dest], n)
    BY <1>2, Zenon DEF SameNet
  <2>8. i \in About(db, dest) <=> InBlock(s, Octets[dest])
    BY <1>2, Zenon DEF About
  <2> QED BY <2>4, <2>6, <2>7, <2>8, Zenon
<1>3. CASE db[i].net \notin DOMAIN Octets /\ db[i].net # ""
  BY <1>3 DEF Matches, SameNet, About
<1>4. CASE db[i].net = ""
  <2>1. "" \notin DOMAIN Octets
    BY OctetsAssumption
  <2>2. i \in About(db, dest) <=>
          \E key \in AddressKeys \cap DOMAIN db[i].obj : Trim(db[i].obj[key]) = dest
    BY <1>4, <2>1, Zenon DEF About
  <2>3. Matches(db, i, dest) <=>
          \E key \in AddressKeys : /\ find_json_string_value(Objects(db), i, key) # <<>>
                                   /\ Trim(find_json_string_value(Objects(db), i, key)[1]) = dest
    BY <1>4, Zenon DEF Matches
  <2>4. ASSUME NEW key \in AddressKeys, find_json_string_value(Objects(db), i, key) # <<>>
        PROVE  key \in DOMAIN db[i].obj
    <3>1. PICK j \in i .. Len(db) : key \in DOMAIN Objects(db)[j]
      BY <2>4, ObjectsAre, FoundSomewhere
    <3>2. j \in DOMAIN db
      BY SequenceIs DEF IsNodeDb
    <3> QED BY <1>4, <3>1, <3>2, ObjectsAre DEF Complete
  <2>5. ASSUME NEW key \in AddressKeys, key \in DOMAIN db[i].obj
        PROVE  find_json_string_value(Objects(db), i, key) = <<db[i].obj[key]>>
    BY <2>5, ObjectsAre, FoundHere
  <2> QED BY <2>2, <2>3, <2>4, <2>5
<1> QED BY <1>2, <1>3, <1>4

(* The name that is found is that of an entry about the address: the last one, *)
(* which is the most specific one of a DB in order (2418-2515).                *)
LEMMA NamesAreSound ==
  ASSUME NEW db, IsNodeDb(db), NEW dest
  PROVE  NameIsSound(db, dest)
<1> SUFFICES ASSUME Complete(db), dest \in DOMAIN Octets PROVE NameIsSound(db, dest)
  BY DEF NameIsSound
<1> DEFINE NameAt(i) == FindFirst(Objects(db), i, NameKeys)
           hits  == {i \in DOMAIN db : Matches(db, i, dest) /\ NameAt(i) # <<>>}
           masks == {-1} \cup {MaskOf(db[i]) : i \in hits}
           about == About(db, dest)
           name  == find_best_nodename_in_nodedb(db, dest)
<1>1. Len(db) \in Nat /\ DOMAIN db = 1 .. Len(db)
  BY SequenceIs DEF IsNodeDb
<1>2. ASSUME NEW i \in DOMAIN db PROVE NameAt(i) = <<db[i].obj["n"]>>
  <2>1. "n" \in DOMAIN Objects(db)[i]
    BY ObjectsAre DEF Complete
  <2>2. IsSequence(NameKeys) /\ NameKeys # <<>> /\ NameKeys[1] = "n"
    BY DEF NameKeys, IsSequence
  <2> QED BY <2>1, <2>2, FirstKeyDecides, ObjectsAre
<1>3. hits = about
  <2>1. about \subseteq DOMAIN db
    BY DEF About
  <2>2. \A i \in DOMAIN db : NameAt(i) # <<>>
    BY <1>2
  <2>3. \A i \in DOMAIN db : Matches(db, i, dest) <=> i \in about
    BY MatchIsAbout
  <2> HIDE DEF NameAt, about
  <2> QED BY <2>1, <2>2, <2>3
<1>4. \A i \in DOMAIN db : MaskOf(db[i]) \in 0 .. 32
  <2> SUFFICES ASSUME NEW i \in DOMAIN db PROVE MaskOf(db[i]) \in 0 .. 32
    OBVIOUS
  <2> DEFINE l == db[i].len
             any == db[i].net = ""
  <2>1. l \in Int
    BY DEF IsNodeDb
  <2>2. MaskOf(db[i]) = IF any \/ l > 32 THEN 32 ELSE IF l < 0 THEN 0 ELSE l
    BY Zenon DEF MaskOf
  <2> HIDE DEF l, any
  <2> QED BY <2>1, <2>2
<1>5. name = IF Max(masks) >= 0 THEN NameAt(Max(hits))[1] ELSE ""
  BY DEF find_best_nodename_in_nodedb
<1> HIDE DEF NameAt, name
<1>6. CASE about = {}
  <2>1. masks = {-1}
    BY <1>3, <1>6
  <2>2. \E x \in {-1} : \A y \in {-1} : x >= y
    OBVIOUS
  <2>3. Max({-1}) \in {-1}
    BY <2>2, Zenon DEF Max
  <2> HIDE DEF masks
  <2>4. ~ (Max(masks) >= 0)
    <3>1. Max(masks) = -1
      BY <2>1, <2>3
    <3> QED BY <3>1
  <2>5. name = ""
    BY <1>5, <2>4
  <2> QED BY <1>6, <2>5 DEF NameIsSound, name
<1>7. CASE about # {}
  <2>1. \E i \in DOMAIN db : i \in hits
    BY <1>3, <1>7 DEF About
  <2>2. \E m \in masks : m \in 0 .. 32
    BY <1>4, <2>1
  <2>3. masks \ {-1} \in SUBSET Nat /\ masks \ {-1} # {} /\ \A m \in masks \ {-1} : m <= 32
    <3>1. \A m \in masks \ {-1} : m \in 0 .. 32
      BY <1>4
    <3>2. \E m \in masks \ {-1} : TRUE
      BY <2>2
    <3> HIDE DEF masks
    <3> QED BY <3>1, <3>2
  <2>4. hits \in SUBSET Nat /\ hits # {} /\ \A i \in hits : i <= Len(db)
    BY <1>1, <2>1
  <2>5. hits \subseteq DOMAIN db
    OBVIOUS
  <2>6. -1 \in masks
    OBVIOUS
  <2> HIDE DEF hits, masks, about
  <2>7. \E m \in masks \ {-1} : \A k \in masks \ {-1} : k <= m
    BY <2>3, GreatestIn
  <2>8. \E m \in masks : m >= 0 /\ \A k \in masks : m >= k
    BY <2>3, <2>6, <2>7
  <2>9. Max(masks) >= 0
    <3>1. \E m \in masks : \A k \in masks : m >= k
      BY <2>8
    <3>2. Max(masks) \in masks /\ \A k \in masks : Max(masks) >= k
      BY <3>1 DEF Max
    <3>3. PICK m \in masks : m >= 0 /\ m \in Nat
      BY <2>3, <2>8
    <3>4. Max(masks) >= m /\ Max(masks) \in Int
      <4>1. Max(masks) = -1 \/ Max(masks) \in masks \ {-1}
        BY <3>2
      <4>2. Max(masks) >= m
        BY <3>2, <3>3
      <4> QED BY <2>3, <4>1, <4>2
    <3> QED BY <3>3, <3>4
  <2>10. Max(hits) \in hits /\ \A k \in hits : k <= Max(hits)
    BY <1>1, <2>4, GreatestOf
  <2>11. name = db[Max(hits)].obj["n"]
    BY <1>2, <1>5, <2>5, <2>9, <2>10
  <2>12. (\A i, j \in about : i < j => MaskOf(db[i]) <= MaskOf(db[j]))
           => \A j \in about : MaskOf(db[j]) <= MaskOf(db[Max(hits)])
    <3> SUFFICES ASSUME \A i, j \in about : i < j => MaskOf(db[i]) <= MaskOf(db[j]),
                        NEW j \in about
                 PROVE  MaskOf(db[j]) <= MaskOf(db[Max(hits)])
      OBVIOUS
    <3>1. CASE j = Max(hits)
      BY <1>3, <1>4, <2>5, <3>1
    <3>2. CASE j # Max(hits)
      <4>1. j \in Nat /\ Max(hits) \in Nat /\ j <= Max(hits)
        BY <1>3, <2>4, <2>10
      <4>2. j < Max(hits)
        BY <3>2, <4>1
      <4>3. Max(hits) \in about
        BY <1>3, <2>10
      <4> QED BY <4>2, <4>3, Zenon
    <3> QED BY <3>1, <3>2
  <2> QED BY <1>3, <1>7, <2>10, <2>11, <2>12, Zenon DEF NameIsSound, name, about
<1> QED BY <1>6, <1>7

(* A row of a gateway that is known shows the routes of the routing table.     *)
LEMMA RoutesVia ==
  ASSUME NEW kernel, IsTable(kernel), NEW gw \in Gateways(kernel)
  PROVE  Cardinality(Via(kernel, gw)) \in Nat \ {0}
<1>1. Len(kernel) \in Nat /\ DOMAIN kernel = 1 .. Len(kernel)
  BY SequenceIs DEF IsTable
<1>2. IsFiniteSet(1 .. Len(kernel))
  BY <1>1, FS_Interval
<1>3. Via(kernel, gw) \in SUBSET (1 .. Len(kernel))
  BY <1>1 DEF Via
<1>4. IsFiniteSet(Via(kernel, gw))
  BY <1>2, <1>3, FS_Subset
<1>5. \E n \in DOMAIN kernel : kernel[n].via = gw
  BY DEF Gateways
<1>6. Via(kernel, gw) # {}
  BY <1>5 DEF Via
<1> QED BY <1>4, <1>6, FS_CardinalityType, FS_EmptySet

LEMMA KernelWins ==
  ASSUME NEW raw, NEW kernel, IsTable(kernel), NEW db
  PROVE  KernelRoutesWin(raw, kernel, db)
<1> DEFINE rows == LinkRows(raw, kernel, db)
<1> SUFFICES ASSUME NEW i \in DOMAIN rows, rows[i].remote \in Gateways(kernel)
             PROVE  rows[i].routes = Cardinality(Via(kernel, rows[i].remote))
  BY Zenon DEF KernelRoutesWin
<1>1. \E remote : rows[i] = LinkOf(raw, kernel, db, remote)
  BY Zenon DEF LinkRows
<1>2. PICK remote : rows[i] = LinkOf(raw, kernel, db, remote)
  BY <1>1
<1> HIDE DEF rows
<1>3. rows[i].remote = remote
  BY <1>2 DEF LinkOf
<1>4. Cardinality(Via(kernel, remote)) # 0
  BY <1>3, RoutesVia
<1>5. remote \in Gateways(kernel)
  BY <1>3
<1> DEFINE R == Cardinality(Via(kernel, remote))
<1>6. LinkOf(raw, kernel, db, remote).routes = R
  BY <1>4, <1>5 DEF LinkOf
<1> QED BY <1>2, <1>3, <1>6
(* What an object says under the first of the keys, trimmed. *)
LEMMA SaysFirst ==
  ASSUME NEW objs, IsSequence(objs), NEW i \in DOMAIN objs,
         NEW keys, IsSequence(keys), keys # <<>>, keys[1] \in DOMAIN objs[i]
  PROVE  ValueOf(objs, i, keys) = objs[i][keys[1]]
<1>1. FindFirst(objs, i, keys) = <<objs[i][keys[1]]>>
  BY FirstKeyDecides
<1> QED BY <1>1 DEF ValueOf

LEMMA FiniteImage ==
  ASSUME NEW f, IsFiniteSet(DOMAIN f)
  PROVE  IsFiniteSet({f[x] : x \in DOMAIN f})
<1> DEFINE T == {f[x] : x \in DOMAIN f}
           g == [x \in DOMAIN f |-> f[x]]
<1>1. g \in Surjection(DOMAIN f, T)
  BY DEF Surjection
<1> QED BY <1>1, FS_Surjection

IsRowOf(row, gw) == row.remote = gw

LEMMA RowOf ==
  ASSUME NEW raw, NEW kernel, NEW db, NEW gw
  PROVE  IsRowOf(LinkOf(raw, kernel, db, gw), gw)
BY DEF LinkOf, IsRowOf

LEMMA ListsAreSequences ==
  ASSUME NEW S, NEW s \in Seq(S)
  PROVE  IsSequence(s)
BY DEF IsSequence

LEMMA KeyLists ==
  /\ IsSequence(LastHopKeys) /\ LastHopKeys # <<>> /\ LastHopKeys[1] = "lastHopIP"
  /\ IsSequence(DestKeys) /\ DestKeys # <<>> /\ DestKeys[1] = "destinationIP"
<1>1. /\ LastHopKeys \in Seq({"lastHopIP", "lastHopIp", "lastHopIpAddress", "lastHop", "via",
                              "gateway", "gatewayIP", "nextHop"})
      /\ DestKeys \in Seq({"destinationIP", "destinationIp", "destination", "destIpAddress",
                           "dest", "to", "target", "originator"})
  BY DEF LastHopKeys, DestKeys
<1>2. LastHopKeys # <<>> /\ LastHopKeys[1] = "lastHopIP"
  BY DEF LastHopKeys
<1>3. DestKeys # <<>> /\ DestKeys[1] = "destinationIP"
  BY DEF DestKeys
<1> QED BY <1>1, <1>2, <1>3, ListsAreSequences

(* The first count that is not zero. *)
LEMMA SecondCount ==
  ASSUME NEW C, C # 0, NEW n
  PROVE  FirstNonZero(<<0>> \o <<C, n>>) = C
<1> DEFINE x == <<0>>
           y == <<C, n>>
           s == x \o y
           S == {k \in DOMAIN s : s[k] # 0}
           T == {0, C, n}
<1>1. x \in Seq(T) /\ y \in Seq(T)
  OBVIOUS
<1>2. Len(x) = 1 /\ Len(y) = 2 /\ x[1] = 0 /\ y[1] = C
  OBVIOUS
<1> HIDE DEF x, y, T
<1>3. /\ s \in Seq(T) /\ Len(s) = Len(x) + Len(y)
      /\ \A i \in 1 .. Len(x) : s[i] = x[i]
      /\ \A i \in 1 .. Len(y) : s[Len(x) + i] = y[i]
  BY <1>1, Concat
<1> HIDE DEF s
<1>4. DOMAIN s = 1 .. 3 /\ s[1] = 0 /\ s[2] = C
  BY <1>2, <1>3
<1>5. S \in SUBSET Nat /\ 2 \in S /\ \A k \in S : 2 <= k
  BY <1>4
<1> HIDE DEF S
<1>6. Min(S) \in S /\ \A k \in S : Min(S) <= k
  BY <1>5, LeastOf
<1>7. Min(S) \in Nat /\ Min(S) <= 2 /\ 2 <= Min(S)
  BY <1>5, <1>6
<1>8. Min(S) = 2
  BY <1>7
<1>9. S # {}
  BY <1>5
<1> QED BY <1>4, <1>8, <1>9 DEF FirstNonZero, S, s, x, y

LEMMA CappedIs ==
  ASSUME NEW S, Cardinality(S) \in Nat, Cardinality(S) <= MaxUnique
  PROVE  Capped(S, MaxUnique) = Cardinality(S)
BY LinkAssumption DEF Capped

LEMMA SectionIs ==
  ASSUME NEW l \in Nat, NEW m \in Nat \ {0}, NEW n \in 0 .. l
  PROVE  m .. n \subseteq 1 .. l /\ IsFiniteSet(m .. n)
<1>1. m \in Int /\ n \in Int
  OBVIOUS
<1> QED BY <1>1, FS_Interval

(* The nodes behind an unknown neighbour, where every object has both          *)
(* addresses, are those of the objects that name it.                           *)
LEMMA DistinctNodes ==
  ASSUME NEW raw, IsRaw(raw), NEW kernel, NEW db
  PROVE  NodesAreDistinct(raw, kernel, db)
<1> DEFINE rows  == LinkRows(raw, kernel, db)
           links == raw.seg["topology"][1] .. raw.seg["topology"][2]
           At(gw) == {j \in links : Trim(raw.objs[j]["lastHopIP"]) = gw}
           Behind(gw) == {Trim(raw.objs[i]["destinationIP"]) : i \in At(gw)} \ {"", gw}
           Different(gw) == {NodeOf(db, d) : d \in Behind(gw)}
<1> SUFFICES ASSUME "topology" \in DOMAIN raw.seg,
                    \A i \in links : {"lastHopIP", "destinationIP"} \subseteq DOMAIN raw.objs[i],
                    NEW i \in DOMAIN rows, rows[i].remote \notin Gateways(kernel),
                    Different(rows[i].remote) # {},
                    Cardinality(Different(rows[i].remote)) <= MaxUnique
             PROVE  rows[i].nodes = Cardinality(Different(rows[i].remote))
  BY Zenon DEF NodesAreDistinct
<1>1. PICK gw : rows[i] = LinkOf(raw, kernel, db, gw)
  BY Zenon DEF LinkRows
<1> HIDE DEF rows
<1>2. rows[i].remote = gw
  <2>1. IsRowOf(LinkOf(raw, kernel, db, gw), gw)
    BY RowOf, Zenon
  <2> QED BY <1>1, <2>1, Zenon DEF IsRowOf
<1> DEFINE Dest(j) == Trim(ValueOf(raw.objs, j, DestKeys))
           C == Cardinality(Different(gw))
<1>3. links \subseteq DOMAIN raw.objs /\ IsFiniteSet(links)
  <2>1. raw.seg["topology"][1] \in Nat \ {0} /\ raw.seg["topology"][2] \in 0 .. Len(raw.objs)
    BY DEF IsRaw
  <2>2. Len(raw.objs) \in Nat /\ DOMAIN raw.objs = 1 .. Len(raw.objs)
    BY SequenceIs DEF IsRaw
  <2> QED BY <2>1, <2>2, SectionIs
<1>4. \A j \in links : /\ ValueOf(raw.objs, j, LastHopKeys) = raw.objs[j]["lastHopIP"]
                       /\ ValueOf(raw.objs, j, DestKeys) = raw.objs[j]["destinationIP"]
  <2> SUFFICES ASSUME NEW j \in links
               PROVE  /\ ValueOf(raw.objs, j, LastHopKeys) = raw.objs[j]["lastHopIP"]
                      /\ ValueOf(raw.objs, j, DestKeys) = raw.objs[j]["destinationIP"]
    OBVIOUS
  <2>3. j \in DOMAIN raw.objs /\ IsSequence(raw.objs)
    BY <1>3 DEF IsRaw
  <2>4. "lastHopIP" \in DOMAIN raw.objs[j] /\ "destinationIP" \in DOMAIN raw.objs[j]
    OBVIOUS
  <2> HIDE DEF links
  <2>5. ValueOf(raw.objs, j, LastHopKeys) = raw.objs[j][LastHopKeys[1]]
    BY <2>3, <2>4, KeyLists, SaysFirst
  <2>6. ValueOf(raw.objs, j, DestKeys) = raw.objs[j][DestKeys[1]]
    BY <2>3, <2>4, KeyLists, SaysFirst
  <2> QED BY <2>5, <2>6, KeyLists
<1>5. Naming(raw, "topology", LastHopKeys, gw) = At(gw)
  BY <1>4 DEF Naming
<1>6. {Dest(j) : j \in Naming(raw, "topology", LastHopKeys, gw)} \ {"", gw} = Behind(gw)
  <2>1. \A j \in At(gw) : Dest(j) = Trim(raw.objs[j]["destinationIP"])
    BY <1>4
  <2> QED BY <1>5, <2>1
<1>7. count_unique_nodes_for_ip(raw, "topology", gw, db) = Capped(Different(gw), MaxUnique)
  BY <1>6, Zenon DEF count_unique_nodes_for_ip
<1>8. C \in Nat \ {0}
  <2>1. IsFiniteSet(At(gw))
    BY <1>3, FS_Subset
  <2> DEFINE f == [j \in At(gw) |-> Trim(raw.objs[j]["destinationIP"])]
  <2>2. IsFiniteSet({f[j] : j \in DOMAIN f})
    BY <2>1, FiniteImage
  <2>3. Behind(gw) \subseteq {f[j] : j \in DOMAIN f}
    OBVIOUS
  <2>4. IsFiniteSet(Behind(gw))
    BY <2>2, <2>3, FS_Subset
  <2> DEFINE g == [d \in Behind(gw) |-> NodeOf(db, d)]
  <2>5. IsFiniteSet({g[d] : d \in DOMAIN g})
    BY <2>4, FiniteImage
  <2>6. Different(gw) = {g[d] : d \in DOMAIN g}
    OBVIOUS
  <2> HIDE DEF Different, g
  <2>7. IsFiniteSet(Different(gw))
    BY <2>5, <2>6
  <2>8. Different(gw) # {}
    BY <1>2
  <2> QED BY <2>7, <2>8, FS_CardinalityType, FS_EmptySet
<1>9. Capped(Different(gw), MaxUnique) = C
  <2>1. C <= MaxUnique
    BY <1>2
  <2> HIDE DEF Different
  <2> QED BY <1>8, <2>1, CappedIs
<1>10. TopologySection(raw) = {"topology"}
  BY Zenon DEF TopologySection
<1> DEFINE n == count_nodes_for_ip(raw, "topology", gw)
<1>11. FirstNonZero(<<0>> \o <<C, n>>) = C
  BY <1>8, SecondCount
<1> HIDE DEF C, n
<1>12. LinkOf(raw, kernel, db, gw).nodes = C
  <2> DEFINE nodes == FirstNonZero(<<0>> \o <<C, n>>)
  <2>1. (CHOOSE s \in {"topology"} : TRUE) = "topology"
    OBVIOUS
  <2> QED BY <1>2, <1>7, <1>8, <1>9, <1>10, <1>11, <2>1 DEF LinkOf, n
<1> QED BY <1>1, <1>2, <1>12 DEF C

-----------------------------------------------------------------------------
(* PluginConfig: types. *)
(* What a mask, an entry and one from the environment are parsed to. *)
LEMMA LeadingOnesAre == ASSUME NEW mask PROVE LeadingOnes(mask) \in Int
<1> DEFINE S == {n \in 0 .. 32 : \A i \in 0 .. n - 1 : Bit(mask, i) = 1}
<1>1. S \in SUBSET Nat /\ \A k \in S : k <= 32
  OBVIOUS
<1>2. 0 \in S
  OBVIOUS
<1> HIDE DEF S
<1>3. Max(S) \in Int
  <2>1. S # {} /\ 32 \in Nat
    BY <1>2
  <2>2. Max(S) \in S
    BY <1>1, <2>1, GreatestOf
  <2>3. \A k \in S : k \in Int
    BY <1>1
  <2> QED BY <2>2, <2>3, Zenon
<1> QED BY <1>3 DEF LeadingOnes, S

LEMMA ParsedAre ==
  ASSUME NEW s \in NetEntry, Parses(s)
  PROVE  parse_cidr(s) \in [addr : Bytes, prefix : Int]
<1>1. s.addr \in Address /\ s.addr \in Bytes /\ Len(s.addr) \in Int
  BY DEF NetEntry, Parses, Address
<1>2. Mapped(s.addr) \in Bytes
  BY <1>1, MappedType
<1>3. LengthOf(s) \in Int
  <2>1. CASE s.form = "pair"
    BY <2>1, LeadingOnesAre DEF LengthOf
  <2>2. CASE s.form = "slash"
    BY <2>2 DEF NetEntry, LengthOf
  <2>3. CASE s.form = "single"
    <3>1. LengthOf(s) = 8 * Len(s.addr)
      BY <2>3 DEF LengthOf
    <3> QED BY <1>1, <3>1
  <2> QED BY <2>1, <2>2, <2>3 DEF NetEntry, Parses
<1> DEFINE bits == LengthOf(s)
           addr == Mapped(s.addr)
<1> HIDE DEF bits, addr
<1>4. parse_cidr(s) = [addr |-> addr, prefix |-> bits + (IF IsV4(s.addr) THEN 96 ELSE 0)]
  BY DEF parse_cidr, bits, addr
<1>5. bits \in Int /\ addr \in Bytes
  BY <1>2, <1>3 DEF bits, addr
<1> QED BY <1>4, <1>5

LEMMA TokensAre == ASSUME NEW s \in NetEntry PROVE Tokens(s) \subseteq NetEntry
<1>1. CASE s.form = "pair"
  <2>1. s.addr \in Address /\ s.mask \in Address
    BY <1>1 DEF NetEntry
  <2>2. ASSUME NEW a \in Address PROVE [form |-> "single", addr |-> a] \in NetEntry
    BY DEF NetEntry
  <2> QED BY <1>1, <2>1, <2>2 DEF Tokens
<1>2. CASE s.form # "pair"
  BY <1>2 DEF Tokens
<1> QED BY <1>1, <1>2

(* Defaults and what is read of the environment are integers. *)
LEMMA PresetsAre == Default \in [Settings -> Int]
<1>1. \A s \in DOMAIN Preset : Preset[s] \in Int
  BY DEF Preset
<1> QED BY <1>1 DEF Default

LEMMA CastIs == ASSUME NEW v \in Int PROVE Cast(v) \in Int
BY ConfigAssumption DEF Cast

LEMMA OptionalAre == ASSUME NEW S \in SUBSET Int, NEW x \in Optional(S) PROVE x \in Seq(Int)
<1>1. x = <<>> \/ \E v \in S : x = <<v>>
  BY DEF Optional
<1>2. <<>> \in Seq(Int)
  OBVIOUS
<1>3. ASSUME NEW v \in S PROVE <<v>> \in Seq(Int)
  <2>1. v \in Int
    OBVIOUS
  <2> QED BY <2>1
<1> QED BY <1>1, <1>2, <1>3

(* Aliases are read from the environment. *)
LEMMA AliasesAre ==
  \A s \in DOMAIN EnvRange : s \in EnvNames /\ (s \in DOMAIN Alias => Alias[s] \in EnvNames)
BY DEF Alias, EnvNames

LEMMA ConfigTypedInit == ConfigInit => ConfigTypeOK
<1> SUFFICES ASSUME ConfigInit PROVE ConfigTypeOK
  OBVIOUS
<1>1. env \in [EnvNames -> Seq(Int)]
  <2> DEFINE Given == UNION {Values[s] : s \in focus \cap EnvNames}
  <2>1. Given \in SUBSET Int
    BY ValuesAssumption
  <2> HIDE DEF Given
  <2>2. PICK e \in [focus \cap EnvNames -> Optional(Given)] :
          env = [s \in EnvNames |-> IF s \in focus THEN e[s] ELSE <<>>]
    BY DEF ConfigInit, Given
  <2>3. \A s \in EnvNames : (IF s \in focus THEN e[s] ELSE <<>>) \in Seq(Int)
    BY <2>1, OptionalAre
  <2> QED BY <2>2, <2>3
<1>2. envNet \in Seq(Nets)
  <2>1. \A n \in {1, 2} : \A f \in [1 .. n -> Nets] : f \in Seq(Nets)
    OBVIOUS
  <2>2. <<>> \in Seq(Nets)
    OBVIOUS
  <2> QED BY <2>1, <2>2 DEF ConfigInit
<1>3. /\ stage = "load" /\ focus \in Focus /\ val = Default
      /\ isSet = [s \in Settings |-> FALSE] /\ allowed = {}
      /\ given = [s \in Settings |-> <<>>] /\ nets = <<>>
  BY DEF ConfigInit
<1>4. given \in [Settings -> Seq(Int)]
  BY <1>3
<1> QED BY <1>1, <1>2, <1>3, <1>4, PresetsAre DEF ConfigTypeOK

LEMMA FromEnvIs == ASSUME ConfigTypeOK, NEW s \in Settings PROVE FromEnv(s) \in Int
<1>1. env \in [EnvNames -> Seq(Int)] /\ val \in [Settings -> Int]
  BY DEF ConfigTypeOK
<1>2. CASE Overrides(s)
  <2>1. s \in DOMAIN EnvRange /\ EnvOf(s) # <<>>
    BY <1>2 DEF Overrides
  <2>2. EnvOf(s) \in Seq(Int)
    BY <1>1, <2>1, AliasesAre DEF EnvOf
  <2> DEFINE e == EnvOf(s)
  <2> HIDE DEF e
  <2>3. e \in Seq(Int) /\ e # <<>>
    BY <2>1, <2>2 DEF e
  <2>4. e[1] \in Int
    BY <2>3
  <2>5. Cast(e[1]) \in Int
    BY <2>4, CastIs
  <2>6. FromEnv(s) = Cast(e[1])
    BY <1>2 DEF FromEnv, e
  <2> QED BY <2>5, <2>6
<1>3. CASE ~Overrides(s)
  BY <1>1, <1>3 DEF FromEnv
<1> QED BY <1>2, <1>3

LEMMA EnvAllowedIs == ASSUME ConfigTypeOK PROVE EnvAllowed \subseteq [addr : Bytes, prefix : Int]
<1> DEFINE tokens == UNION {Tokens(envNet[i]) : i \in DOMAIN envNet}
<1>1. tokens \subseteq NetEntry
  <2>1. \A i \in DOMAIN envNet : envNet[i] \in NetEntry
    BY ConfigAssumption DEF ConfigTypeOK
  <2> QED BY <2>1, TokensAre
<1> HIDE DEF tokens
<1>2. AllowAll(tokens) \subseteq [addr : Bytes, prefix : Int]
  BY <1>1, ParsedAre DEF AllowAll
<1> QED BY <1>2 DEF EnvAllowed, tokens

LEMMA ConfigTypedStep == ConfigTypeOK /\ [ConfigNext]_configVars => ConfigTypeOK'
<1> SUFFICES ASSUME ConfigTypeOK, [ConfigNext]_configVars PROVE ConfigTypeOK'
  OBVIOUS
<1>0. /\ val \in [Settings -> Int] /\ isSet \in [Settings -> BOOLEAN]
      /\ allowed \subseteq [addr : Bytes, prefix : Int]
      /\ given \in [Settings -> Seq(Int)] /\ nets \in Seq(Nets)
  BY DEF ConfigTypeOK
<1>1. ASSUME NEW s \in focus \cap Params, NEW v \in Values[s], SetParam(s, v) PROVE ConfigTypeOK'
  <2>1. s \in Settings /\ v \in Int
    BY KnownSettings, ValuesAssumption
  <2>2. val' \in [Settings -> Int]
    BY <1>0, <1>1, <2>1 DEF SetParam
  <2>3. isSet' \in [Settings -> BOOLEAN]
    <3>1. (isSet[s] \/ s \in Tracked) \in BOOLEAN
      OBVIOUS
    <3>2. isSet' = [isSet EXCEPT ![s] = isSet[s] \/ s \in Tracked]
      BY <1>1 DEF SetParam
    <3> QED BY <1>0, <3>1, <3>2, Zenon
  <2>4. given' \in [Settings -> Seq(Int)]
    <3>1. <<v>> \in Seq(Int)
      BY <2>1
    <3> QED BY <1>0, <1>1, <3>1 DEF SetParam
  <2> QED BY <1>1, <2>2, <2>3, <2>4 DEF SetParam, ConfigTypeOK
<1>2. ASSUME NEW n \in Nets, SetNetParam(n) PROVE ConfigTypeOK'
  <2>1. allowed' \subseteq [addr : Bytes, prefix : Int]
    BY <1>0, <1>2, ParsedAre, ConfigAssumption DEF SetNetParam, http_allow_cidr
  <2>2. nets' \in Seq(Nets)
    BY <1>0, <1>2, AppendProperties DEF SetNetParam
  <2> QED BY <1>2, <2>1, <2>2 DEF SetNetParam, ConfigTypeOK
<1>3. CASE ReadEnvironment
  <2>1. val' \in [Settings -> Int]
    BY <1>3, FromEnvIs DEF ReadEnvironment
  <2>2. allowed' \subseteq [addr : Bytes, prefix : Int]
    BY <1>0, <1>3, EnvAllowedIs DEF ReadEnvironment
  <2> QED BY <1>3, <2>1, <2>2 DEF ReadEnvironment, ConfigTypeOK
<1>4. CASE UNCHANGED configVars
  BY <1>4 DEF configVars, ConfigTypeOK
<1> QED BY <1>1, <1>2, <1>3, <1>4 DEF ConfigNext

(* Settings are integers, and the list has addresses with the bits to compare  *)
(* (4919-4960, 5034-5337 of the plugin, 56-130 of httpd.c).                    *)
THEOREM ConfigIsTyped == ConfigSpec => []ConfigTypeOK
BY ConfigTypedInit, ConfigTypedStep, PTL DEF ConfigSpec

-----------------------------------------------------------------------------
(* The composition. Each part does in it what it does alone.                   *)
LEMMA PartsKeepTheirSpecs ==
  Spec => /\ ConfigSpec /\ DiscoverySpec /\ NodedbSpec /\ SlotSpec
          /\ LogSpec /\ MetricsSpec /\ TablesSpec /\ LifeSpec
<1>1. Init => /\ ConfigInit /\ DiscoveryInit /\ NodedbInit /\ SlotInit
              /\ LogInit /\ MetricsInit /\ TablesInit /\ LifeInit
  BY DEF Init
<1> DEFINE vars == <<part, configVars, discoveryVars, nodedbVars, slotVars, logVars,
                     metricsVars, tablesVars, lifeVars, input>>
<1>2. [Next]_vars => /\ [ConfigNext]_configVars /\ [DiscoveryNext]_discoveryVars
                     /\ [NodedbNext]_nodedbVars /\ [SlotNext]_slotVars
                     /\ [LogNext]_logVars /\ [MetricsNext]_metricsVars
                     /\ [TablesNext]_tablesVars /\ [LifeNext]_lifeVars
  BY Zenon DEF Next, SlotNext
<1> QED
  BY <1>1, <1>2, PTL DEF Spec, ConfigSpec, DiscoverySpec, NodedbSpec, SlotSpec, LogSpec,
                         MetricsSpec, TablesSpec, LifeSpec

(* An algorithm is given one of its inputs. *)
LEMMA InputIsTaken == Spec => [](input \in Inputs \cup {NoInput})
<1>1. Init => input \in Inputs \cup {NoInput}
  BY DEF Init
<1>2. ASSUME input \in Inputs \cup {NoInput},
             [Next]_<<part, configVars, discoveryVars, nodedbVars, slotVars, logVars,
                      metricsVars, tablesVars, lifeVars, input>>
      PROVE  (input \in Inputs \cup {NoInput})'
  BY <1>2 DEF Next, TakeInput
<1> QED BY <1>1, <1>2, PTL DEF Spec

LEMMA InputsAreKnown ==
  ASSUME input \in Inputs \cup {NoInput}
  PROVE  /\ input.of = "name" => input \in NameInputs
         /\ input.of = "links" => input \in LinkInputs
         /\ input.of = "packet" => input \in PacketInputs
BY InputAssumption DEF Inputs, NoInput

(* find_best_nodename_in_nodedb gives an address the name of an entry about it, *)
(* and "" only where there is none (2418-2515), for any node DB.               *)
THEOREM NamesAreOfEntries == Spec => []NodeNameIsSound
<1>1. input \in Inputs \cup {NoInput} => NodeNameIsSound
  BY InputsAreKnown, InputAssumption, NamesAreSound DEF NodeNameIsSound
<1> QED BY <1>1, InputIsTaken, PTL

(* A row of a gateway that the routing table knows shows that table's routes,  *)
(* whatever the text of the plugins says (1824-1886, 1990-2044).               *)
THEOREM TableDecidesRoutes == Spec => []RoutesAreTheKernels
<1>1. input \in Inputs \cup {NoInput} => RoutesAreTheKernels
  BY InputsAreKnown, InputAssumption, KernelWins DEF RoutesAreTheKernels
<1> QED BY <1>1, InputIsTaken, PTL

(* The nodes behind an unknown neighbour are counted once each, for a topology *)
(* of any size whose objects have both addresses (1348-1420).                  *)
THEOREM TopologyDecidesNodes == Spec => []NodesAreCountedOnce
<1>1. input \in Inputs \cup {NoInput} => NodesAreCountedOnce
  BY InputsAreKnown, InputAssumption, DistinctNodes DEF NodesAreCountedOnce
<1> QED BY <1>1, InputIsTaken, PTL

(* A reply means its fields, for any fields, sizes and room (164-259, 303-323). *)
THEOREM PacketsUnderstood == Spec => []PacketsAreUnderstood
<1>1. input \in Inputs \cup {NoInput} => PacketsAreUnderstood
  BY InputsAreKnown, InputAssumption, PacketsMeanTheirFields DEF PacketsAreUnderstood
<1> QED BY <1>1, InputIsTaken, PTL

(* Everything in the parts has its type.                                       *)
THEOREM PartsAreTyped == Spec => []PartsTypeOK
BY PartsKeepTheirSpecs, ConfigIsTyped, DiscoveryIsTyped, NodedbIsTyped, SlotsAreTyped,
   LogIsTyped, MetricsAreTyped, TablesAreTyped, LifeIsTyped, PTL DEF PartsTypeOK
=============================================================================
