---------------------------- MODULE CacheProofs ----------------------------
(***************************************************************************)
(* Proofs about the plugin's caches: the node DB, the tables of devices    *)
(* the answers by URL and the values by key, for any number of threads and *)
(* any bounds.                                                             *)
(***************************************************************************)
EXTENDS NodedbCache, DeviceTables, SlotCaches, FiniteSetTheorems, DataLemmas

-----------------------------------------------------------------------------
(* NodedbCache. A block holds a document, of that length unless a lookup has  *)
(* set another one.                                                           *)
BlockHolds ==
  /\ last \in Nat /\ block \in {0, last}
  /\ block # 0 => doc \in Docs /\ (clobbered \/ len = Length[doc])

(* Only who has the lock is sending, and sends the block that is cached. *)
SenderLocks ==
  \A r \in Readers :
    sending[r] # Out =>
      /\ lock = r
      /\ sending[r].block = block /\ block # 0
      /\ sending[r].doc = doc
      /\ sending[r].len = Length[doc] \/ clobbered

(* The fetch worker is the only one to replace the block, so that it writes   *)
(* the one it has fetched, if the plugin has not been stopped.                *)
WriterKnows ==
  /\ fetcher.at \in {"idle", "open", "write"}
  /\ fetcher.at = "open" /\ ~exited => block # 0
  /\ fetcher.at = "write" /\ ~exited =>
       /\ fetcher.block = block /\ block # 0
       /\ fetcher.len = Length[doc] \/ looked
  /\ ~g_nodedb_write_disk => fetcher.at = "idle" /\ disk.len = 0

NodedbInv ==
  /\ sending \in [Readers -> [block : Nat, doc : Docs \cup {NoDoc}, len : Nat]]
  /\ fetcher \in [at : {"idle", "open", "write"}, block : Nat, len : Nat]
  /\ disk \in [doc : Docs \cup {NoDoc}, len : Nat]
  /\ doc \in Docs \cup {NoDoc} /\ len \in Nat
  /\ clobbered \in BOOLEAN /\ looked \in BOOLEAN /\ exited \in BOOLEAN
  /\ BlockHolds /\ SenderLocks /\ WriterKnows /\ DiskCopyIsWhole

LEMMA NodedbInitInv == NodedbInit => NodedbInv
<1> SUFFICES ASSUME NodedbInit PROVE NodedbInv
  OBVIOUS
<1> USE NodedbAssumption DEF NodedbInit
<1>1. \A r \in Readers : sending[r] = Out
  OBVIOUS
<1>2. sending \in [Readers -> [block : Nat, doc : Docs \cup {NoDoc}, len : Nat]]
  BY DEF Out
<1>3. BlockHolds
  BY DEF BlockHolds
<1>4. SenderLocks
  BY <1>1 DEF SenderLocks
<1>5. WriterKnows
  BY DEF WriterKnows
<1>6. DiskCopyIsWhole
  BY DEF DiskCopyIsWhole
<1> QED BY <1>2, <1>3, <1>4, <1>5, <1>6 DEF NodedbInv

LEMMA ReplaceKeeps == ASSUME NodedbInv, NEW d \in Docs, Replace(d) PROVE NodedbInv'
<1> USE NodedbAssumption
<1>1. \A r \in Readers : sending[r] = Out
  BY DEF NodedbInv, SenderLocks, Replace
<1>2. /\ sending' \in [Readers -> [block : Nat, doc : Docs \cup {NoDoc}, len : Nat]]
      /\ fetcher' \in [at : {"idle", "open", "write"}, block : Nat, len : Nat]
      /\ disk' \in [doc : Docs \cup {NoDoc}, len : Nat]
      /\ doc' \in Docs /\ len' \in Nat
      /\ clobbered' = FALSE /\ looked' = FALSE /\ exited' \in BOOLEAN
  BY DEF NodedbInv, Replace
<1>3. BlockHolds'
  BY DEF NodedbInv, BlockHolds, Replace
<1>4. SenderLocks'
  BY <1>1 DEF SenderLocks, Replace
<1>5. fetcher'.at = (IF g_nodedb_write_disk THEN "open" ELSE "idle") /\ block' # 0
  BY DEF NodedbInv, BlockHolds, Replace
<1>6. WriterKnows' /\ DiskCopyIsWhole'
  BY <1>5 DEF NodedbInv, WriterKnows, DiskCopyIsWhole, Replace
<1> QED BY <1>2, <1>3, <1>4, <1>6 DEF NodedbInv

LEMMA NodedbStepInv == NodedbInv /\ [NodedbNext]_nodedbVars => NodedbInv'
<1> SUFFICES ASSUME NodedbInv, [NodedbNext]_nodedbVars PROVE NodedbInv'
  OBVIOUS
<1> USE NodedbAssumption DEF NodedbInv
<1>1. ASSUME NEW d \in Docs, Replace(d) PROVE NodedbInv'
  BY <1>1, ReplaceKeeps
<1>2. CASE OpenCopy
  <2>1. BlockHolds' /\ SenderLocks'
    BY <1>2 DEF OpenCopy, BlockHolds, SenderLocks
  <2>2. WriterKnows' /\ DiskCopyIsWhole'
    BY <1>2 DEF OpenCopy, BlockHolds, WriterKnows, DiskCopyIsWhole
  <2> QED BY <1>2, <2>1, <2>2 DEF OpenCopy, BlockHolds
<1>3. CASE WriteCopy
  <2>1. BlockHolds' /\ SenderLocks'
    BY <1>3 DEF WriteCopy, BlockHolds, SenderLocks
  <2>2. WriterKnows' /\ DiskCopyIsWhole'
    BY <1>3 DEF WriteCopy, BlockHolds, WriterKnows, DiskCopyIsWhole
  <2> QED BY <1>3, <2>1, <2>2 DEF WriteCopy
<1>4. ASSUME NEW r \in Readers, BeginSend(r) PROVE NodedbInv'
  <2>1. sending' \in [Readers -> [block : Nat, doc : Docs \cup {NoDoc}, len : Nat]]
    BY <1>4 DEF BeginSend, BlockHolds
  <2>2. SenderLocks'
    <3>1. \A u \in Readers : u # r => sending'[u] = Out
      BY <1>4 DEF BeginSend, SenderLocks
    <3> QED BY <1>4, <3>1 DEF BeginSend, SenderLocks, BlockHolds
  <2>3. BlockHolds' /\ WriterKnows' /\ DiskCopyIsWhole'
    BY <1>4 DEF BeginSend, BlockHolds, WriterKnows, DiskCopyIsWhole
  <2> QED BY <1>4, <2>1, <2>2, <2>3 DEF BeginSend
<1>5. ASSUME NEW r \in Readers, EndSend(r) PROVE NodedbInv'
  <2>1. sending' \in [Readers -> [block : Nat, doc : Docs \cup {NoDoc}, len : Nat]]
    BY <1>5 DEF EndSend, Out
  <2>2. SenderLocks'
    <3>1. \A u \in Readers : sending'[u] = Out
      BY <1>5 DEF EndSend, SenderLocks
    <3> QED BY <3>1 DEF SenderLocks
  <2>3. BlockHolds' /\ WriterKnows' /\ DiskCopyIsWhole'
    BY <1>5 DEF EndSend, BlockHolds, WriterKnows, DiskCopyIsWhole
  <2> QED BY <1>5, <2>1, <2>2, <2>3 DEF EndSend
<1>6. ASSUME NEW t \in Lookups, BeginLookup(t) PROVE NodedbInv'
  BY <1>6 DEF BeginLookup, BlockHolds, SenderLocks, WriterKnows, DiskCopyIsWhole
<1>7. ASSUME NEW t \in Lookups, NEW found \in SUBSET Nat, EndLookup(t, found) PROVE NodedbInv'
  <2>1. len' \in Nat /\ clobbered' \in BOOLEAN /\ (~clobbered' => ~clobbered /\ len' = len)
    BY <1>7 DEF EndLookup
  <2> QED
    BY <1>7, <2>1 DEF EndLookup, BlockHolds, SenderLocks, WriterKnows, DiskCopyIsWhole
<1>8. CASE FreeOnExit
  <2>1. \A r \in Readers : sending[r] = Out
    BY <1>8 DEF FreeOnExit, SenderLocks
  <2> QED
    BY <1>8, <2>1 DEF FreeOnExit, BlockHolds, SenderLocks, WriterKnows, DiskCopyIsWhole
<1>9. CASE UNCHANGED nodedbVars
  BY <1>9 DEF nodedbVars, BlockHolds, SenderLocks, WriterKnows, DiskCopyIsWhole
<1>10. \A n \in UNION {Names[d] : d \in Docs \cap {doc}} : {n} \in SUBSET Nat
  OBVIOUS
<1> QED
  BY <1>1, <1>2, <1>3, <1>4, <1>5, <1>6, <1>7, <1>8, <1>9, <1>10 DEF NodedbNext

(* A client is sent a block that nobody frees meanwhile, and the whole of it   *)
(* unless a lookup set the length (4019-4032).                                 *)
THEOREM ClientsAreServedWhole == NodedbSpec => []ServedWhole
<1>1. NodedbInv => ServedWhole
  BY DEF NodedbInv, SenderLocks, ServedWhole
<1> QED BY NodedbInitInv, NodedbStepInv, <1>1, PTL DEF NodedbSpec

(* The copy on disk is whole although it is written without the lock           *)
(* (1795-1797), up to lookups and the plugin's stop.                           *)
THEOREM CopiesAreWhole == NodedbSpec => []DiskCopyIsWhole
<1>1. NodedbInv => DiskCopyIsWhole
  BY DEF NodedbInv
<1> QED BY NodedbInitInv, NodedbStepInv, <1>1, PTL DEF NodedbSpec

(* Lengths, blocks and documents keep to what there is of them (1717-1797).    *)
THEOREM NodedbIsTyped == NodedbSpec => []NodedbTypeOK
<1> USE NodedbAssumption DEF NodedbTypeOK
<1>1. NodedbInit => NodedbTypeOK
  <2> SUFFICES ASSUME NodedbInit PROVE NodedbTypeOK
    OBVIOUS
  <2>1. Out \in [block : 0 .. MaxFetches, doc : Docs \cup {NoDoc}, len : Nat]
    BY DEF Out
  <2>2. sending \in [Readers -> [block : 0 .. MaxFetches, doc : Docs \cup {NoDoc}, len : Nat]]
    BY <2>1 DEF NodedbInit
  <2>3. lookup \in [Lookups -> 0 .. MaxFetches]
    BY DEF NodedbInit
  <2>4. /\ fetcher \in [at : {"idle", "open", "write"}, block : 0 .. MaxFetches, len : Nat]
        /\ disk \in [doc : Docs \cup {NoDoc}, len : Nat]
    BY DEF NodedbInit
  <2> QED BY <2>2, <2>3, <2>4 DEF NodedbInit
<1>2. NodedbTypeOK /\ [NodedbNext]_nodedbVars => NodedbTypeOK'
  <2> SUFFICES ASSUME NodedbTypeOK, [NodedbNext]_nodedbVars PROVE NodedbTypeOK'
    OBVIOUS
  <2>1. ASSUME NEW d \in Docs, Replace(d) PROVE NodedbTypeOK'
    <3>1. last + 1 \in 0 .. MaxFetches /\ Length[d] \in Nat
      BY <2>1 DEF Replace
    <3>2. fetcher' \in [at : {"idle", "open", "write"}, block : 0 .. MaxFetches, len : Nat]
      BY <2>1 DEF Replace
    <3> QED BY <2>1, <3>1, <3>2 DEF Replace
  <2>2. CASE OpenCopy
    BY <2>2 DEF OpenCopy
  <2>3. CASE WriteCopy
    BY <2>3 DEF WriteCopy
  <2>4. ASSUME NEW r \in Readers, BeginSend(r) PROVE NodedbTypeOK'
    <3>1. [block |-> block, doc |-> doc, len |-> len]
            \in [block : 0 .. MaxFetches, doc : Docs \cup {NoDoc}, len : Nat]
      OBVIOUS
    <3> QED BY <2>4, <3>1 DEF BeginSend
  <2>5. ASSUME NEW r \in Readers, EndSend(r) PROVE NodedbTypeOK'
    <3>1. Out \in [block : 0 .. MaxFetches, doc : Docs \cup {NoDoc}, len : Nat]
      BY DEF Out
    <3> QED BY <2>5, <3>1 DEF EndSend
  <2>6. ASSUME NEW t \in Lookups, BeginLookup(t) PROVE NodedbTypeOK'
    BY <2>6 DEF BeginLookup
  <2>7. ASSUME NEW t \in Lookups, NEW found \in SUBSET Nat, EndLookup(t, found)
        PROVE  NodedbTypeOK'
    <3>1. len' \in Nat
      BY <2>7 DEF EndLookup
    <3> QED BY <2>7, <3>1 DEF EndLookup
  <2>8. CASE FreeOnExit
    BY <2>8 DEF FreeOnExit
  <2>9. CASE UNCHANGED nodedbVars
    BY <2>9 DEF nodedbVars
  <2>10. \A n \in UNION {Names[d] : d \in Docs \cap {doc}} : {n} \in SUBSET Nat
    OBVIOUS
  <2> QED
    BY <2>1, <2>2, <2>3, <2>4, <2>5, <2>6, <2>7, <2>8, <2>9, <2>10 DEF NodedbNext
<1> QED BY <1>1, <1>2, PTL DEF NodedbSpec

-----------------------------------------------------------------------------
(* DeviceTables. What a table holds was current after the question it answers *)
(* was asked, or, of what discovery remembers, less than its time to live     *)
(* before.                                                                    *)
Record == [from : Int, begun : Int, ts : Int]

ArpIsDated(table) == table # NoTable => table.from >= table.ts

DevicesAreDated(table) == table # NoTable => table.from > table.begun - DevicesTtl

Places == {"rest", "arp", "build", "keep", "arp shown",
           "discover", "keep devices", "devices shown"}

State == [at : Places, since : Int, table : Record]

TaskIsDated(s, now) ==
  /\ s.since <= now
  /\ s.at = "keep" => s.table.from >= s.since
  /\ s.at = "arp shown" /\ ArpTtl > 0 => s.table.from >= s.since - ArpTtl
  /\ s.at = "keep devices" => s.table.from > s.table.begun - DevicesTtl
  /\ s.at = "devices shown" =>
       s.table.from > s.since - 2 * DevicesTtl - (s.table.ts - s.table.begun)

TablesInv ==
  /\ moment \in Nat
  /\ arp_cache \in Record /\ devices_cache \in Record
  /\ task \in [Tasks -> State]
  /\ ArpIsDated(arp_cache) /\ DevicesAreDated(devices_cache)
  /\ \A t \in Tasks : TaskIsDated(task[t], moment)

(* A step of one thread leaves the others as they are. *)
LEMMA ThreadStepInv ==
  ASSUME TablesInv, NEW t \in Tasks, moment' = moment,
         NEW s \in State, TaskIsDated(s, moment), task' = [task EXCEPT ![t] = s],
         arp_cache' \in Record, devices_cache' \in Record,
         ArpIsDated(arp_cache'), DevicesAreDated(devices_cache')
  PROVE  TablesInv'
<1>1. task' \in [Tasks -> State]
  BY DEF TablesInv
<1>2. ASSUME NEW u \in Tasks PROVE TaskIsDated(task'[u], moment)
  BY <1>2 DEF TablesInv
<1> QED BY <1>1, <1>2 DEF TablesInv

LEMMA RestingState == NoTable \in Record /\ Resting \in State
BY DEF NoTable, Record, Resting, State, Places

LEMMA TablesInitInv == TablesInit => TablesInv
<1> SUFFICES ASSUME TablesInit PROVE TablesInv
  OBVIOUS
<1> USE DEF TablesInit
<1>1. task \in [Tasks -> State]
  BY RestingState
<1>2. TaskIsDated(Resting, moment)
  BY DEF TaskIsDated, Resting
<1>3. ArpIsDated(arp_cache) /\ DevicesAreDated(devices_cache)
  BY DEF ArpIsDated, DevicesAreDated
<1> QED BY <1>1, <1>2, <1>3, RestingState DEF TablesInv

(* A thread that gives up, or has shown or stored what it had, rests. *)
LEMMA RestInv ==
  ASSUME TablesInv, NEW t \in Tasks, moment' = moment,
         task' = [task EXCEPT ![t] = Resting],
         arp_cache' = arp_cache, devices_cache' \in Record,
         DevicesAreDated(devices_cache')
  PROVE  TablesInv'
<1>0. moment \in Nat /\ Resting.at = "rest" /\ Resting.since = 0
  BY DEF TablesInv, Resting
<1>1. TaskIsDated(Resting, moment)
  BY <1>0 DEF TaskIsDated
<1>2. arp_cache' \in Record /\ ArpIsDated(arp_cache')
  BY DEF TablesInv
<1> QED BY <1>1, <1>2, RestingState, ThreadStepInv

(* What a thread has when it goes on with a table. *)
LEMMA GoesInv ==
  ASSUME TablesInv, NEW t \in Tasks, NEW where \in Places, NEW table \in Record,
         Goes(t, where, table), moment' = moment, devices_cache' = devices_cache,
         arp_cache' \in Record, ArpIsDated(arp_cache'),
         where = "keep" => table.from >= task[t].since,
         where = "arp shown" /\ ArpTtl > 0 => table.from >= task[t].since - ArpTtl,
         where = "keep devices" => table.from > table.begun - DevicesTtl,
         where # "devices shown"
  PROVE  TablesInv'
<1> DEFINE s == [task[t] EXCEPT !.at = where, !.table = table]
<1>1. task[t] \in State /\ TaskIsDated(task[t], moment)
  BY DEF TablesInv
<1>2. s \in State /\ s.at = where /\ s.table = table /\ s.since = task[t].since
  BY <1>1 DEF State
<1>3. task' = [task EXCEPT ![t] = s]
  BY DEF Goes, TablesInv
<1> HIDE DEF s
<1>4. TaskIsDated(s, moment)
  BY <1>1, <1>2 DEF TaskIsDated
<1>5. devices_cache' \in Record /\ DevicesAreDated(devices_cache')
  BY DEF TablesInv
<1> QED BY <1>2, <1>3, <1>4, <1>5, ThreadStepInv

LEMMA TablesStepInv == TablesInv /\ [TablesNext]_tablesVars => TablesInv'
<1> SUFFICES ASSUME TablesInv, [TablesNext]_tablesVars PROVE TablesInv'
  OBVIOUS
<1> USE TablesAssumption
<1>t. ASSUME NEW t \in Tasks
      PROVE  /\ task[t] \in State /\ TaskIsDated(task[t], moment)
             /\ task[t].since \in Int /\ task[t].table \in Record
             /\ task[t].table.from \in Int /\ task[t].table.begun \in Int
             /\ task[t].table.ts \in Int
  <2>1. task[t] \in State /\ TaskIsDated(task[t], moment)
    BY <1>t DEF TablesInv
  <2>2. task[t].since \in Int /\ task[t].table \in Record
    BY <2>1 DEF State
  <2> QED BY <2>1, <2>2 DEF Record
<1>c. /\ moment \in Int
      /\ devices_cache.from \in Int /\ devices_cache.begun \in Int /\ devices_cache.ts \in Int
      /\ arp_cache.from \in Int /\ arp_cache.begun \in Int /\ arp_cache.ts \in Int
      /\ arp_cache \in Record /\ devices_cache \in Record
      /\ ArpIsDated(arp_cache) /\ DevicesAreDated(devices_cache)
  BY DEF TablesInv, Record
<1>1. ASSUME NEW t \in Tasks, NEW where \in {"arp", "discover"}, Begins(t, where)
      PROVE  TablesInv'
  <2> DEFINE s == [Resting EXCEPT !.at = where, !.since = moment]
  <2>1. s \in State /\ s.at = where /\ s.since = moment
    BY <1>c, RestingState DEF Resting, State, Places
  <2>2. task' = [task EXCEPT ![t] = s]
    BY <1>1 DEF Begins
  <2> HIDE DEF s
  <2>3. TaskIsDated(s, moment)
    <3>1. s.at \notin {"keep", "arp shown", "keep devices", "devices shown"}
      BY <2>1
    <3>2. moment <= moment
      BY <1>c
    <3>3. s.since <= moment
      BY <2>1, <3>2
    <3> QED BY <3>1, <3>3 DEF TaskIsDated
  <2> QED BY <1>1, <1>c, <2>1, <2>2, <2>3, ThreadStepInv DEF Begins
<1>2. ASSUME NEW t \in Tasks, FindArp(t) PROVE TablesInv'
  <2>1. CASE ArpFresh(t)
    <3>1. ArpTtl > 0 => arp_cache.from >= task[t].since - ArpTtl
      BY <1>c, <1>t, <2>1 DEF ArpFresh, ArpIsDated
    <3> QED BY <1>2, <1>c, <2>1, <3>1, GoesInv DEF FindArp, Places
  <2>2. CASE ~ArpFresh(t)
    BY <1>2, <1>c, <2>2, GoesInv, RestingState DEF FindArp, Places
  <2> QED BY <2>1, <2>2
<1>3. ASSUME NEW t \in Tasks, BuildArp(t) PROVE TablesInv'
  <2>1. CASE task' = [task EXCEPT ![t] = Resting]
    BY <1>3, <1>c, <2>1, RestInv DEF BuildArp
  <2> DEFINE table == [from |-> moment, begun |-> task[t].since, ts |-> 0]
  <2>2. task[t].since <= moment
    BY <1>t DEF TaskIsDated
  <2>4. table \in Record /\ table.from >= task[t].since
    BY <1>t, <1>c, <2>2 DEF Record
  <2>3. CASE Goes(t, "keep", table)
    <3> HIDE DEF table
    <3> QED BY <1>3, <1>c, <2>3, <2>4, GoesInv DEF BuildArp, Places
  <2> QED BY <1>3, <2>1, <2>3 DEF BuildArp
<1>4. ASSUME NEW t \in Tasks, KeepArp(t) PROVE TablesInv'
  <2> DEFINE table == [task[t].table EXCEPT !.ts = task[t].since]
  <2>1. table \in Record /\ table.ts = task[t].since /\ table.from = task[t].table.from
    BY <1>t DEF Record
  <2>2. Goes(t, "arp shown", table) /\ arp_cache' = table
    BY <1>4 DEF KeepArp
  <2>3. table.from >= task[t].since
    BY <1>4, <1>t, <2>1 DEF KeepArp, TaskIsDated
  <2> HIDE DEF table
  <2>4. table.from \in Int /\ ArpIsDated(table)
    BY <2>1, <2>3 DEF ArpIsDated, Record
  <2>5. ArpTtl > 0 => table.from >= task[t].since - ArpTtl
    BY <1>t, <2>3, <2>4
  <2> QED BY <1>4, <1>c, <2>1, <2>2, <2>4, <2>5, GoesInv DEF KeepArp, Places
<1>5. ASSUME NEW t \in Tasks, Discovered(t) PROVE TablesInv'
  <2>1. CASE task' = [task EXCEPT ![t] = Resting]
    BY <1>5, <1>c, <2>1, RestInv DEF Discovered
  <2>2. ASSUME NEW heard \in 0 .. moment, heard > task[t].since - DevicesTtl,
               Goes(t, "keep devices", [from |-> heard, begun |-> task[t].since, ts |-> 0])
        PROVE  TablesInv'
    <3> DEFINE table == [from |-> heard, begun |-> task[t].since, ts |-> 0]
    <3>1. table \in Record
      BY <1>c, <1>t DEF Record
    <3>3. table.from > table.begun - DevicesTtl
      BY <2>2
    <3>2. Goes(t, "keep devices", table)
      BY <2>2
    <3> HIDE DEF table
    <3> QED BY <1>5, <1>c, <3>1, <3>2, <3>3, GoesInv DEF Discovered, Places
  <2>3. \A heard \in {m \in 0 .. moment : m > task[t].since - DevicesTtl} :
          heard \in 0 .. moment /\ heard > task[t].since - DevicesTtl
    OBVIOUS
  <2> QED BY <1>5, <2>1, <2>2, <2>3 DEF Discovered
<1>6. ASSUME NEW t \in Tasks, KeepDevices(t) PROVE TablesInv'
  <2> DEFINE table == [task[t].table EXCEPT !.ts = moment]
  <2>1. table \in Record /\ table.from = task[t].table.from /\ table.begun = task[t].table.begun
    BY <1>t, <1>c DEF Record
  <2>2. table.from > table.begun - DevicesTtl
    BY <1>6, <1>t, <2>1 DEF KeepDevices, TaskIsDated
  <2>3. devices_cache' = table
    BY <1>6 DEF KeepDevices
  <2> HIDE DEF table
  <2> QED BY <1>6, <2>1, <2>2, <2>3, RestInv DEF KeepDevices, DevicesAreDated
<1>7. ASSUME NEW t \in Tasks, ShowDevices(t) PROVE TablesInv'
  <2> DEFINE s == [at |-> "devices shown", since |-> moment, table |-> devices_cache]
  <2>1. s \in State /\ s.at = "devices shown" /\ s.since = moment /\ s.table = devices_cache
    BY <1>c DEF State, Places
  <2>2. task' = [task EXCEPT ![t] = s]
    BY <1>7 DEF ShowDevices
  <2> HIDE DEF s
  <2>3. devices_cache.from > moment - 2 * DevicesTtl - (devices_cache.ts - devices_cache.begun)
    <3>1. devices_cache.from > devices_cache.begun - DevicesTtl
      BY <1>7, <1>c DEF ShowDevices, DevicesAreDated
    <3>2. moment - devices_cache.ts <= DevicesTtl
      BY <1>7 DEF ShowDevices
    <3> QED BY <1>c, <3>1, <3>2 DEF TablesAssumption
  <2>4. TaskIsDated(s, moment)
    <3>1. moment <= moment
      BY <1>c
    <3>2. s.since <= moment
      BY <2>1, <3>1
    <3> QED BY <2>1, <2>3, <3>2 DEF TaskIsDated
  <2> QED BY <1>7, <1>c, <2>1, <2>2, <2>4, ThreadStepInv DEF ShowDevices
<1>8. ASSUME NEW t \in Tasks, Shown(t) PROVE TablesInv'
  BY <1>8, <1>c, RestInv DEF Shown
<1>9. CASE TablesTick
  <2>1. \A t \in Tasks : TaskIsDated(task[t], moment + 1)
    <3> SUFFICES ASSUME NEW t \in Tasks PROVE TaskIsDated(task[t], moment + 1)
      OBVIOUS
    <3>1. TaskIsDated(task[t], moment) /\ task[t].since \in Int
      BY <1>t
    <3>2. task[t].since <= moment
      BY <3>1 DEF TaskIsDated
    <3>3. task[t].since <= moment + 1
      BY <1>c, <3>1, <3>2
    <3> QED BY <3>1, <3>3 DEF TaskIsDated
  <2> QED BY <1>9, <2>1 DEF TablesTick, TablesInv
<1>10. CASE UNCHANGED tablesVars
  BY <1>10 DEF tablesVars, TablesInv
<1> QED
  BY <1>1, <1>2, <1>3, <1>4, <1>5, <1>6, <1>7, <1>8, <1>9, <1>10
     DEF TablesNext, AskArp, Discover

(* No table of devices that is shown is older than its bound, whoever builds,  *)
(* stores and shows tables meanwhile (843-868, 1577-1602, 3044-3062).          *)
THEOREM ShownTablesAreRecent == TablesSpec => []TablesAreRecent
<1>1. TablesInv => TablesAreRecent
  BY DEF TablesInv, TaskIsDated, TablesAreRecent
<1> QED BY TablesInitInv, TablesStepInv, <1>1, PTL DEF TablesSpec

LEMMA TaskGoes ==
  ASSUME TablesTypeOK, NEW t \in Tasks, NEW where \in Places, NEW table \in Tables,
         Goes(t, where, table)
  PROVE  task' \in [Tasks -> [at : Places, since : Moments, table : Tables]]
<1> DEFINE s == [task[t] EXCEPT !.at = where, !.table = table]
<1>1. s \in [at : Places, since : Moments, table : Tables]
  BY DEF TablesTypeOK, Places
<1>2. task' = [task EXCEPT ![t] = s]
  BY DEF Goes, TablesTypeOK
<1> HIDE DEF s
<1> QED BY <1>1, <1>2 DEF TablesTypeOK, Places

(* Tables and threads are dated within the clock (843-868, 1577-1602).         *)
THEOREM TablesAreTyped == TablesSpec => []TablesTypeOK
<1> USE TablesAssumption
<1>0. NoTable \in Tables /\ Resting \in [at : Places, since : Moments, table : Tables]
  BY DEF NoTable, Resting, Tables, Moments, Places
<1>1. TablesInit => TablesTypeOK
  <2>1. 0 \in Moments
    BY DEF Moments
  <2> QED BY <1>0, <2>1 DEF TablesInit, TablesTypeOK, Places
<1>2. TablesTypeOK /\ [TablesNext]_tablesVars => TablesTypeOK'
  <2> SUFFICES ASSUME TablesTypeOK, [TablesNext]_tablesVars PROVE TablesTypeOK'
    OBVIOUS
  <2> DEFINE Typed == [at : Places, since : Moments, table : Tables]
  <2>t. moment \in Moments /\ arp_cache \in Tables /\ devices_cache \in Tables
        /\ task \in [Tasks -> Typed]
    BY DEF TablesTypeOK, Places
  <2>q. ASSUME moment' \in Moments, arp_cache' \in Tables, devices_cache' \in Tables,
               task' \in [Tasks -> Typed]
        PROVE  TablesTypeOK'
    BY <2>q DEF TablesTypeOK, Places
  <2>0. ASSUME NEW from \in Moments, NEW begun \in Moments, NEW ts \in Moments
        PROVE  [from |-> from, begun |-> begun, ts |-> ts] \in Tables
    BY <2>0 DEF Tables, Moments
  <2>r. ASSUME NEW t \in Tasks, task' = [task EXCEPT ![t] = Resting]
        PROVE  task' \in [Tasks -> Typed]
    BY <2>r, <2>t, <1>0
  <2>1. ASSUME NEW t \in Tasks, NEW where \in {"arp", "discover"}, Begins(t, where)
        PROVE  TablesTypeOK'
    <3>1. [Resting EXCEPT !.at = where, !.since = moment] \in Typed
      BY <1>0, <2>t DEF Places
    <3> HIDE DEF Typed
    <3> QED BY <2>1, <2>t, <2>q, <3>1 DEF Begins
  <2>2. ASSUME NEW t \in Tasks, FindArp(t) PROVE TablesTypeOK'
    <3>1. task' \in [Tasks -> Typed]
      BY <1>0, <2>2, <2>t, TaskGoes DEF FindArp, Places
    <3> QED BY <2>2, <2>t, <2>q, <3>1 DEF FindArp
  <2>3. ASSUME NEW t \in Tasks, BuildArp(t) PROVE TablesTypeOK'
    <3>1. task[t].since \in Moments
      BY <2>t
    <3>2. 0 \in Moments
      BY DEF Moments
    <3>3. [from |-> moment, begun |-> task[t].since, ts |-> 0] \in Tables
      BY <2>0, <2>t, <3>1, <3>2
    <3>4. task' \in [Tasks -> Typed]
      BY <2>3, <2>r, <3>3, TaskGoes DEF BuildArp, Places
    <3> QED BY <2>3, <2>t, <2>q, <3>4 DEF BuildArp
  <2>4. ASSUME NEW t \in Tasks, KeepArp(t) PROVE TablesTypeOK'
    <3>1. [task[t].table EXCEPT !.ts = task[t].since] \in Tables
      BY <2>t DEF Tables
    <3>2. task' \in [Tasks -> Typed]
      BY <2>4, <3>1, TaskGoes DEF KeepArp, Places
    <3> QED BY <2>4, <2>t, <2>q, <3>1, <3>2 DEF KeepArp
  <2>5. ASSUME NEW t \in Tasks, Discovered(t) PROVE TablesTypeOK'
    <3>1. task[t].since \in Moments /\ 0 \in Moments
      BY <2>t DEF Moments
    <3>2. ASSUME NEW heard \in {m \in 0 .. moment : m > task[t].since - DevicesTtl},
                 Goes(t, "keep devices", [from |-> heard, begun |-> task[t].since, ts |-> 0])
          PROVE  task' \in [Tasks -> Typed]
      <4>1. heard \in Moments
        <5>1. heard \in 0 .. moment /\ moment \in 0 .. LastMoment
          BY <2>t, <3>2 DEF Moments
        <5> QED BY <5>1 DEF Moments
      <4> QED BY <2>0, <3>1, <3>2, <4>1, TaskGoes DEF Places
    <3>3. task' \in [Tasks -> Typed]
      BY <2>5, <2>r, <3>2 DEF Discovered
    <3> QED BY <2>5, <2>t, <2>q, <3>3 DEF Discovered
  <2>6. ASSUME NEW t \in Tasks, KeepDevices(t) PROVE TablesTypeOK'
    <3>1. [task[t].table EXCEPT !.ts = moment] \in Tables
      BY <2>t DEF Tables
    <3> QED BY <2>6, <2>r, <2>t, <2>q, <3>1 DEF KeepDevices
  <2>7. ASSUME NEW t \in Tasks, ShowDevices(t) PROVE TablesTypeOK'
    <3>1. [at |-> "devices shown", since |-> moment, table |-> devices_cache] \in Typed
      BY <2>t DEF Places
    <3> HIDE DEF Typed
    <3> QED BY <2>7, <2>t, <2>q, <3>1 DEF ShowDevices
  <2>8. ASSUME NEW t \in Tasks, Shown(t) PROVE TablesTypeOK'
    BY <2>8, <2>r, <2>t, <2>q DEF Shown
  <2>9. CASE TablesTick
    BY <2>9, <2>t, <2>q DEF TablesTick, Moments
  <2>10. CASE UNCHANGED tablesVars
    BY <2>10, <2>t, <2>q DEF tablesVars
  <2> QED
    BY <2>1, <2>2, <2>3, <2>4, <2>5, <2>6, <2>7, <2>8, <2>9, <2>10
       DEF TablesNext, AskArp, Discover
<1> QED BY <1>1, <1>2, PTL DEF TablesSpec

-----------------------------------------------------------------------------
(* SlotCaches. Bodies are numbered in the order they were sent. *)
LEMMA MinIsIn == ASSUME NEW S \in SUBSET Nat, S # {} PROVE Min(S) \in S
BY LeastIn DEF Min

UrlSlot == [url : Urls \cup {NoUrl}, body : Nat, ts : Int]
Ask  == [at : {"idle", "search", "fetch", "store", "done"},
         url : Urls \cup {NoUrl}, now : Int, body : Nat]

(* A body that was sent for the URL, not before the time. *)
Answers(body, url, time) ==
  body # 0 =>
    /\ body \in DOMAIN bodies
    /\ bodies[body][1] = url
    /\ bodies[body][2] >= time

(* A request that has an answer from the server has one from after its time. *)
AskIsAnswered(s) ==
  /\ s.now <= second
  /\ Answers(s.body, s.url, s.now - UrlTtl)
  /\ s.at = "store" => Answers(s.body, s.url, s.now)

BodiesAre(n) ==
  /\ DOMAIN bodies = 1 .. n
  /\ \A b \in 1 .. n : bodies[b][2] \in Int

SlotInv ==
  /\ second \in Nat
  /\ \E n \in Nat : BodiesAre(n)
  /\ slots \in [1 .. UrlSlots -> UrlSlot]
  /\ request \in [Requests -> Ask]
  /\ \A i \in 1 .. UrlSlots : Answers(slots[i].body, slots[i].url, slots[i].ts)
  /\ \A t \in Requests : AskIsAnswered(request[t])

LEMMA FreeSlot == Free \in UrlSlot /\ Waiting \in Ask
BY DEF Free, UrlSlot, Waiting, Ask

LEMMA SlotInitInv == SlotInit => SlotInv
<1> SUFFICES ASSUME SlotInit PROVE SlotInv
  OBVIOUS
<1>0. /\ second = 0 /\ DOMAIN bodies = {}
      /\ slots = [i \in 1 .. UrlSlots |-> Free]
      /\ request = [t \in Requests |-> Waiting]
  BY DEF SlotInit
<1>1. 0 \in Nat /\ BodiesAre(0)
  <2>1. 1 .. 0 = {}
    OBVIOUS
  <2> QED BY <1>0, <2>1 DEF BodiesAre
<1>2. \A i \in 1 .. UrlSlots : Answers(slots[i].body, slots[i].url, slots[i].ts)
  BY <1>0 DEF Answers, Free
<1>3. \A t \in Requests : AskIsAnswered(request[t])
  <2>1. Waiting.now = 0 /\ Waiting.body = 0
    BY DEF Waiting
  <2>2. AskIsAnswered(Waiting)
    <3>1. Waiting.now <= second
      BY <1>0, <2>1
    <3>2. Answers(0, Waiting.url, Waiting.now) /\ Answers(0, Waiting.url, Waiting.now - UrlTtl)
      BY DEF Answers
    <3> QED BY <2>1, <3>1, <3>2 DEF AskIsAnswered
  <2> QED BY <1>0, <2>2
<1>4. slots \in [1 .. UrlSlots -> UrlSlot] /\ request \in [Requests -> Ask]
  BY <1>0, FreeSlot
<1> QED BY <1>0, <1>1, <1>2, <1>3, <1>4 DEF SlotInv

(* One thread's step, and perhaps a slot's new contents. *)
LEMMA AskStepInv ==
  ASSUME SlotInv, NEW t \in Requests, second' = second, bodies' = bodies,
         NEW s \in Ask, AskIsAnswered(s), request' = [request EXCEPT ![t] = s],
         slots' \in [1 .. UrlSlots -> UrlSlot],
         \A i \in 1 .. UrlSlots : Answers(slots'[i].body, slots'[i].url, slots'[i].ts)
  PROVE  SlotInv'
<1>1. request' \in [Requests -> Ask]
  BY DEF SlotInv
<1>2. ASSUME NEW u \in Requests PROVE AskIsAnswered(request'[u])
  BY <1>2 DEF SlotInv
<1>3. \A u \in Requests : AskIsAnswered(request[u])'
  BY <1>2 DEF AskIsAnswered, Answers
<1>4. \A i \in 1 .. UrlSlots : Answers(slots[i].body, slots[i].url, slots[i].ts)'
  BY DEF Answers
<1>5. \E n \in Nat : BodiesAre(n)'
  BY DEF SlotInv, BodiesAre
<1> QED BY <1>1, <1>3, <1>4, <1>5 DEF SlotInv

LEMMA SlotStepInv == SlotInv /\ [SlotNext]_slotVars => SlotInv'
<1> SUFFICES ASSUME SlotInv, [SlotNext]_slotVars PROVE SlotInv'
  OBVIOUS
<1> USE SlotAssumption
<1>t. ASSUME NEW t \in Requests
      PROVE  /\ request[t] \in Ask /\ AskIsAnswered(request[t])
             /\ request[t].now \in Int /\ request[t].body \in Nat
             /\ request[t].url \in Urls \cup {NoUrl}
  <2>1. request[t] \in Ask /\ AskIsAnswered(request[t])
    BY <1>t DEF SlotInv
  <2> QED BY <2>1 DEF Ask
<1>s. ASSUME NEW i \in 1 .. UrlSlots
      PROVE  /\ slots[i] \in UrlSlot /\ Answers(slots[i].body, slots[i].url, slots[i].ts)
             /\ slots[i].ts \in Int /\ slots[i].body \in Nat
  <2>1. slots[i] \in UrlSlot /\ Answers(slots[i].body, slots[i].url, slots[i].ts)
    BY <1>s DEF SlotInv
  <2> QED BY <2>1 DEF UrlSlot
<1>c. /\ second \in Nat /\ slots \in [1 .. UrlSlots -> UrlSlot]
      /\ request \in [Requests -> Ask]
  BY DEF SlotInv
<1>1. ASSUME NEW t \in Requests, NEW url \in Urls, BeginRequest(t, url) PROVE SlotInv'
  <2> DEFINE s == [at |-> "search", url |-> url, now |-> second, body |-> 0]
  <2>1. s \in Ask /\ s.now = second /\ s.body = 0 /\ s.at = "search"
    BY <1>c DEF Ask
  <2>2. request' = [request EXCEPT ![t] = s] /\ UNCHANGED <<second, slots, bodies>>
    BY <1>1 DEF BeginRequest
  <2> HIDE DEF s
  <2>3. second <= second
    BY <1>c
  <2>4. AskIsAnswered(s)
    BY <2>1, <2>3 DEF AskIsAnswered, Answers
  <2> QED BY <1>c, <1>s, <2>1, <2>2, <2>4, AskStepInv
<1>2. ASSUME NEW t \in Requests, Search(t) PROVE SlotInv'
  <2> DEFINE url  == request[t].url
             mine == {i \in DOMAIN slots : slots[i].url = url}
             hits == {i \in mine : Fresh(i, request[t].now)}
             hit  == Min(hits)
             s == [request[t] EXCEPT !.at = IF hits = {} THEN "fetch" ELSE "done",
                                     !.body = IF hits = {} THEN 0 ELSE slots[hit].body]
  <2>1. /\ slots' = [i \in DOMAIN slots |->
                       IF i \in mine \ hits /\ (hits # {} => i < hit) THEN Free ELSE slots[i]]
        /\ UNCHANGED <<second, bodies>>
    BY <1>2 DEF Search
  <2>2. hits # {} => hit \in 1 .. UrlSlots /\ slots[hit].url = url
                     /\ request[t].now - slots[hit].ts <= UrlTtl
    <3>1. hits \in SUBSET Nat
      BY <1>c
    <3>2. hits # {} => hit \in hits
      BY <3>1, MinIsIn
    <3>3. \A i \in hits : /\ i \in 1 .. UrlSlots /\ slots[i].url = url
                          /\ request[t].now - slots[i].ts <= UrlTtl
      BY <1>c DEF Fresh
    <3> HIDE DEF hits, hit
    <3> QED BY <3>2, <3>3
  <2>3. request' = [request EXCEPT ![t] = s]
    BY <1>2, <1>c DEF Search
  <2>4. ASSUME NEW i \in 1 .. UrlSlots
        PROVE  slots'[i] \in UrlSlot /\ Answers(slots'[i].body, slots'[i].url, slots'[i].ts)
    <3>1. slots'[i] = Free \/ slots'[i] = slots[i]
      BY <2>1, <1>c
    <3>2. Free.body = 0
      BY DEF Free
    <3> QED BY <1>s, <3>1, <3>2, FreeSlot DEF Answers
  <2>5. slots' \in [1 .. UrlSlots -> UrlSlot]
    <3>1. DOMAIN slots' = 1 .. UrlSlots /\ slots' = [i \in 1 .. UrlSlots |-> slots'[i]]
      <4> HIDE DEF mine, hits, hit
      <4> QED BY <2>1, <1>c
    <3> QED BY <2>4, <3>1
  <2>6. s \in Ask /\ s.now = request[t].now /\ s.url = url
        /\ s.at \in {"fetch", "done"}
        /\ s.body = IF hits = {} THEN 0 ELSE slots[hit].body
    <3> HIDE DEF hits, hit
    <3>1. hits # {} => slots[hit].body \in Nat
      BY <1>s, <2>2
    <3> QED BY <1>t, <3>1 DEF Ask
  <2> HIDE DEF s, hits, hit, url
  <2>7. AskIsAnswered(s)
    <3>1. request[t].now <= second
      BY <1>t DEF AskIsAnswered
    <3>2. CASE hits = {}
      BY <2>6, <3>1, <3>2 DEF AskIsAnswered, Answers
    <3>3. CASE hits # {}
      <4>1. Answers(slots[hit].body, url, slots[hit].ts) /\ slots[hit].ts \in Int
        BY <1>s, <2>2, <3>3
      <4>2. Answers(slots[hit].body, url, request[t].now - UrlTtl)
        <5>1. slots[hit].body \in DOMAIN bodies => bodies[slots[hit].body][2] \in Int
          BY DEF SlotInv, BodiesAre
        <5>2. slots[hit].ts >= request[t].now - UrlTtl
          BY <1>t, <2>2, <3>3, <4>1
        <5> QED BY <1>t, <4>1, <5>1, <5>2 DEF Answers
      <4> QED BY <2>6, <3>1, <3>3, <4>2 DEF AskIsAnswered
    <3> QED BY <3>2, <3>3
  <2> QED BY <2>1, <2>3, <2>4, <2>5, <2>6, <2>7, AskStepInv
<1>3. ASSUME NEW t \in Requests, StoreBody(t) PROVE SlotInv'
  <2> DEFINE s == [request[t] EXCEPT !.at = "done"]
             v == Victim(request[t].now)
             slot == [url |-> request[t].url, body |-> request[t].body, ts |-> request[t].now]
  <2>1. s \in Ask /\ s.now = request[t].now /\ s.url = request[t].url
        /\ s.body = request[t].body /\ s.at = "done"
    BY <1>t DEF Ask
  <2>2. request' = [request EXCEPT ![t] = s] /\ slots' = [slots EXCEPT ![v] = slot]
        /\ UNCHANGED <<second, bodies>>
    BY <1>3 DEF StoreBody
  <2>3. slot \in UrlSlot /\ slot.url = request[t].url /\ slot.body = request[t].body
        /\ slot.ts = request[t].now
    BY <1>t DEF UrlSlot
  <2> HIDE DEF s, v, slot
  <2>4. Answers(slot.body, slot.url, slot.ts)
    BY <1>3, <1>t, <2>3 DEF StoreBody, AskIsAnswered
  <2>5. AskIsAnswered(s)
    BY <1>t, <2>1 DEF AskIsAnswered
  <2>6. \A i \in 1 .. UrlSlots : slots'[i] = slots[i] \/ slots'[i] = slot
    BY <1>c, <2>2
  <2>7. \A i \in 1 .. UrlSlots : Answers(slots'[i].body, slots'[i].url, slots'[i].ts)
    BY <1>s, <2>4, <2>6
  <2>8. slots' \in [1 .. UrlSlots -> UrlSlot]
    BY <1>c, <2>2, <2>3
  <2> QED BY <2>1, <2>2, <2>5, <2>7, <2>8, AskStepInv
<1>4. ASSUME NEW t \in Requests, EndRequest(t) PROVE SlotInv'
  <2>1. AskIsAnswered(Waiting)
    <3>1. request[t].now <= second /\ second \in Nat
      BY <1>c, <1>t DEF AskIsAnswered
    <3>2. Waiting.now = 0 /\ Waiting.body = 0
      BY DEF Waiting
    <3>3. 0 <= second
      BY <3>1
    <3> QED BY <3>2, <3>3 DEF AskIsAnswered, Answers
  <2> QED BY <1>4, <1>c, <1>s, <2>1, AskStepInv, FreeSlot DEF EndRequest
<1>5. ASSUME NEW t \in Requests, Fetch(t) PROVE SlotInv'
  <2>1. CASE /\ bodies' = Extend(bodies, <<request[t].url, second>>)
             /\ request' = [request EXCEPT ![t].at = "store",
                                           ![t].body = Cardinality(DOMAIN bodies) + 1]
    <3>1. PICK n \in Nat : BodiesAre(n)
      BY DEF SlotInv
    <3>2. Cardinality(DOMAIN bodies) = n
      BY <3>1, FS_Interval DEF BodiesAre
    <3>3. /\ DOMAIN bodies' = 1 .. n + 1
          /\ \A b \in 1 .. n : bodies'[b] = bodies[b]
          /\ bodies'[n + 1] = <<request[t].url, second>>
      BY <2>1, <3>1, <3>2 DEF Extend, BodiesAre
    <3>4. BodiesAre(n + 1)'
      BY <1>c, <3>1, <3>3 DEF BodiesAre
    <3>5. ASSUME NEW body, NEW url, NEW time, Answers(body, url, time)
          PROVE  Answers(body, url, time)'
      BY <3>1, <3>3, <3>5 DEF Answers, BodiesAre
    <3>6. /\ request' \in [Requests -> Ask]
          /\ \A u \in Requests \ {t} : request'[u] = request[u]
          /\ request'[t].now = request[t].now /\ request'[t].url = request[t].url
          /\ request'[t].body = n + 1
      <4> DEFINE b == n + 1
                 s == [request[t] EXCEPT !.at = "store", !.body = b]
      <4>0. b \in Nat
        BY <3>1
      <4>2. request' = [request EXCEPT ![t] = s]
        BY <2>1, <3>2
      <4> HIDE DEF b
      <4>1. s \in Ask /\ s.now = request[t].now /\ s.url = request[t].url /\ s.body = b
        BY <1>t, <4>0 DEF Ask
      <4> USE DEF b
      <4> HIDE DEF s
      <4> QED BY <1>c, <4>1, <4>2
    <3>7. ASSUME NEW u \in Requests PROVE AskIsAnswered(request[u])'
      <4>1. CASE u = t
        <5>1. request[t].now <= second
          BY <1>t DEF AskIsAnswered
        <5>2. request[t].now - UrlTtl <= second
          BY <1>c, <1>t, <5>1
        <5>3. (n + 1) \in 1 .. n + 1
          BY <3>1
        <5>4. /\ bodies'[n + 1][1] = request[t].url
              /\ bodies'[n + 1][2] = second
          BY <3>3
        <5>5. UNCHANGED second
          BY <1>5 DEF Fetch
        <5>6. second >= request[t].now /\ second >= request[t].now - UrlTtl
          BY <1>c, <1>t, <5>1, <5>2
        <5> QED
          BY <3>3, <3>6, <4>1, <5>1, <5>3, <5>4, <5>5, <5>6 DEF AskIsAnswered, Answers
      <4>2. CASE u # t
        <5>1. request'[u] = request[u] /\ UNCHANGED second
          BY <1>5, <3>6, <4>2 DEF Fetch
        <5> QED BY <1>t, <3>5, <5>1 DEF AskIsAnswered
      <4> QED BY <4>1, <4>2
    <3>8. \A i \in 1 .. UrlSlots : Answers(slots[i].body, slots[i].url, slots[i].ts)'
      <4> SUFFICES ASSUME NEW i \in 1 .. UrlSlots
                   PROVE  Answers(slots[i].body, slots[i].url, slots[i].ts)'
        OBVIOUS
      <4>1. Answers(slots[i].body, slots[i].url, slots[i].ts) /\ slots' = slots
        BY <1>5, <1>s DEF Fetch
      <4> QED BY <3>1, <3>3, <4>1 DEF Answers, BodiesAre
    <3>9. (n + 1) \in Nat
      BY <3>1
    <3> QED BY <1>5, <1>c, <3>4, <3>6, <3>7, <3>8, <3>9 DEF SlotInv, Fetch
  <2>2. CASE request' = [request EXCEPT ![t].at = "done"] /\ UNCHANGED bodies
    <3> DEFINE s == [request[t] EXCEPT !.at = "done"]
    <3>1. s \in Ask /\ s.now = request[t].now /\ s.url = request[t].url
          /\ s.body = request[t].body /\ s.at = "done"
      BY <1>t DEF Ask
    <3>2. request' = [request EXCEPT ![t] = s] /\ UNCHANGED <<second, slots, bodies>>
      BY <1>5, <2>2 DEF Fetch
    <3> HIDE DEF s
    <3>3. AskIsAnswered(s)
      BY <1>t, <3>1 DEF AskIsAnswered
    <3> QED BY <1>c, <1>s, <3>1, <3>2, <3>3, AskStepInv
  <2> QED BY <1>5, <2>1, <2>2 DEF Fetch
<1>6. CASE Second
  <2>1. second' = second + 1 /\ UNCHANGED <<slots, request, bodies>>
    BY <1>6 DEF Second
  <2>2. ASSUME NEW t \in Requests PROVE AskIsAnswered(request[t])'
    <3>1. request[t].now <= second
      BY <1>t DEF AskIsAnswered
    <3>2. request[t].now <= second + 1
      BY <1>c, <1>t, <3>1
    <3> QED BY <1>t, <2>1, <3>2 DEF AskIsAnswered, Answers
  <2>3. second + 1 \in Nat
    BY <1>c
  <2> QED BY <2>1, <2>2, <2>3 DEF SlotInv, BodiesAre, Answers
<1>7. ASSUME NEW k \in Keys, cache_set(k) PROVE SlotInv'
  BY <1>7 DEF cache_set, SlotInv, BodiesAre, AskIsAnswered, Answers
<1>8. CASE UNCHANGED slotVars
  BY <1>8 DEF slotVars, SlotInv, BodiesAre, AskIsAnswered, Answers
<1> QED
  BY <1>1, <1>2, <1>3, <1>4, <1>5, <1>6, <1>7, <1>8 DEF SlotNext, UrlNext, KeyNext

(* Whatever other threads do to the slots meanwhile, an answer was given for   *)
(* this very URL and at most UrlTtl seconds before the call (628-683).         *)
THEOREM AnswersAreRecent == SlotSpec => []AnswerIsRecent
<1>1. SlotInv => AnswerIsRecent
  BY DEF SlotInv, AskIsAnswered, Answers, AnswerIsRecent
<1> QED BY SlotInitInv, SlotStepInv, <1>1, PTL DEF SlotSpec

-----------------------------------------------------------------------------
(* The values by key, numbered in the order they were set. *)
SetsAre(n) ==
  /\ DOMAIN sets = 1 .. n
  /\ \A m \in 1 .. n : sets[m] \in Keys \X Int /\ sets[m][2] <= second

(* A slot holds the last value set for one of its keys. *)
HoldsLast(i) ==
  LET mine == {n \in DOMAIN sets : Hash[sets[n][1]] = i}
  IN \/ kv[i].key = ""
     \/ /\ kv[i].val \in mine
        /\ \A n \in mine : n <= kv[i].val
        /\ kv[i].key = Stored[sets[kv[i].val][1]]
        /\ kv[i].ts = sets[kv[i].val][2]

KeyInv ==
  /\ second \in Nat
  /\ \E n \in Nat : SetsAre(n)
  /\ DOMAIN kv = {Hash[k] : k \in Keys}
  /\ \A i \in DOMAIN kv : HoldsLast(i)

LEMMA KeyInitInv == SlotInit => KeyInv
<1> SUFFICES ASSUME SlotInit PROVE KeyInv
  OBVIOUS
<1>1. SetsAre(0)
  <2>1. 1 .. 0 = {}
    OBVIOUS
  <2>2. DOMAIN sets = {}
    BY DEF SlotInit
  <2> QED BY <2>1, <2>2 DEF SetsAre
<1> QED BY <1>1 DEF SlotInit, KeyInv, HoldsLast

LEMMA KeySetInv ==
  ASSUME KeyInv, NEW k \in Keys, cache_set(k)
  PROVE  KeyInv'
<1>1. PICK n \in Nat : SetsAre(n)
  BY DEF KeyInv
<1>2. Cardinality(DOMAIN sets) = n
  BY <1>1, FS_Interval DEF SetsAre
<1>3. /\ sets' = Extend(sets, <<k, second>>) /\ second' = second /\ second \in Nat
      /\ kv' = [kv EXCEPT ![Hash[k]] = [key |-> Stored[k], val |-> n + 1, ts |-> second]]
  BY <1>2 DEF cache_set, KeyInv
<1>4. /\ DOMAIN sets' = 1 .. n + 1 /\ DOMAIN sets = 1 .. n
      /\ \A m \in 1 .. n : sets'[m] = sets[m]
      /\ sets'[n + 1] = <<k, second>>
  BY <1>1, <1>2, <1>3 DEF Extend, SetsAre
<1>5. n + 1 \in Nat /\ SetsAre(n + 1)'
  <2>1. \A m \in 1 .. n + 1 : m \in 1 .. n \/ m = n + 1
    OBVIOUS
  <2>2. <<k, second>> \in Keys \X Int /\ <<k, second>>[2] <= second'
    BY <1>3
  <2> QED BY <1>1, <1>3, <1>4, <2>1, <2>2 DEF SetsAre
<1>6. ASSUME NEW i \in DOMAIN kv' PROVE HoldsLast(i)'
  <2> DEFINE mine == {m \in DOMAIN sets : Hash[sets[m][1]] = i}
  <2>1. i \in DOMAIN kv
    BY <1>3, <1>6
  <2>2. CASE i = Hash[k]
    <3>1. kv'[i] = [key |-> Stored[k], val |-> n + 1, ts |-> second]
      BY <1>3, <2>1, <2>2
    <3>2. \A m \in DOMAIN sets' : m <= n + 1
      BY <1>4
    <3>3. n + 1 \in DOMAIN sets' /\ sets'[n + 1][1] = k /\ sets'[n + 1][2] = second
      BY <1>4
    <3>4. kv'[i].key = Stored[k] /\ kv'[i].val = n + 1 /\ kv'[i].ts = second
      BY <3>1
    <3>5. n + 1 \in {m \in DOMAIN sets' : Hash[sets'[m][1]] = i}
      BY <2>2, <3>3
    <3> QED BY <3>2, <3>3, <3>4, <3>5 DEF HoldsLast
  <2>3. CASE i # Hash[k]
    <3>1. kv'[i] = kv[i] /\ HoldsLast(i)
      BY <1>3, <2>1, <2>3 DEF KeyInv
    <3>2. mine' = mine
      BY <1>4, <2>3
    <3>3. ASSUME kv[i].val \in mine PROVE sets'[kv[i].val] = sets[kv[i].val]
      BY <1>4, <3>3
    <3> QED BY <3>1, <3>2, <3>3 DEF HoldsLast
  <2> QED BY <2>2, <2>3
<1> QED BY <1>3, <1>5, <1>6 DEF KeyInv

LEMMA KeyStepInv == KeyInv /\ [SlotNext]_slotVars => KeyInv'
<1> SUFFICES ASSUME KeyInv, [SlotNext]_slotVars PROVE KeyInv'
  OBVIOUS
<1>1. ASSUME NEW k \in Keys, cache_set(k) PROVE KeyInv'
  BY <1>1, KeySetInv
<1>2. CASE Second
  <2>1. second \in Nat /\ second' = second + 1 /\ UNCHANGED <<kv, sets>>
    BY <1>2 DEF Second, KeyInv
  <2>2. PICK n \in Nat : SetsAre(n)
    BY DEF KeyInv
  <2>3. SetsAre(n)'
    BY <2>1, <2>2 DEF SetsAre
  <2>4. \A i : HoldsLast(i)' <=> HoldsLast(i)
    BY <2>1 DEF HoldsLast
  <2>5. second' \in Nat
    BY <2>1
  <2> QED BY <2>1, <2>3, <2>4, <2>5 DEF KeyInv
<1>3. CASE UNCHANGED <<second, kv, sets>>
  BY <1>3 DEF KeyInv, SetsAre, HoldsLast
<1>4. ASSUME UrlNext \/ UNCHANGED slotVars PROVE Second \/ UNCHANGED <<second, kv, sets>>
  BY <1>4 DEF UrlNext, BeginRequest, Search, Fetch, StoreBody, EndRequest, slotVars
<1> QED BY <1>1, <1>2, <1>3, <1>4 DEF SlotNext, KeyNext

(* A value that is found was the last one set for this very key, at most       *)
(* KeyTtl seconds ago (4811-4863).                                             *)
THEOREM FoundWasSetLast == SlotSpec => []FoundIsLastSet
<1>1. KeyInv => FoundIsLastSet
  <2> SUFFICES ASSUME KeyInv, NEW k \in Keys, cache_get(k) # 0,
                      \A j \in Keys : Hash[j] = Hash[k] /\ Stored[j] = k => j = k
               PROVE  /\ sets[cache_get(k)] \in {k} \X (second - KeyTtl .. second)
                      /\ \A n \in DOMAIN sets : sets[n][1] = k => n <= cache_get(k)
    BY DEF FoundIsLastSet
  <2> DEFINE i == Hash[k]
             v == kv[i].val
             mine == {n \in DOMAIN sets : Hash[sets[n][1]] = i}
  <2>1. cache_get(k) = v /\ kv[i].key # "" /\ kv[i].key = k /\ ~(second - kv[i].ts > KeyTtl)
    BY DEF cache_get
  <2>2. HoldsLast(i)
    BY DEF KeyInv
  <2>3. /\ v \in mine /\ \A n \in mine : n <= v
        /\ k = Stored[sets[v][1]] /\ kv[i].ts = sets[v][2]
    BY <2>1, <2>2 DEF HoldsLast
  <2>4. PICK n \in Nat : SetsAre(n)
    BY DEF KeyInv
  <2>5. sets[v] = <<k, sets[v][2]>> /\ sets[v][2] \in Int /\ sets[v][2] <= second
    BY <2>3, <2>4 DEF SetsAre
  <2>6. sets[v][2] \in second - KeyTtl .. second
    <3> DEFINE ts == sets[v][2]
    <3>1. ts \in Int /\ ts <= second /\ ~(second - ts > KeyTtl) /\ second \in Nat /\ KeyTtl \in Nat
      BY <2>1, <2>3, <2>5, SlotAssumption DEF KeyInv
    <3> HIDE DEF ts
    <3>2. ts \in second - KeyTtl .. second
      BY <3>1
    <3> QED BY <3>2 DEF ts
  <2>7. ASSUME NEW m \in DOMAIN sets, sets[m][1] = k PROVE m \in mine
    BY <2>7
  <2>8. sets[v] \in {k} \X (second - KeyTtl .. second)
    <3> DEFINE ts == sets[v][2]
    <3>1. ts \in second - KeyTtl .. second /\ sets[v] = <<k, ts>>
      BY <2>5, <2>6
    <3> HIDE DEF ts
    <3> QED BY <3>1
  <2> HIDE DEF v, mine
  <2> QED BY <2>1, <2>3, <2>7, <2>8
<1> QED BY KeyInitInv, KeyStepInv, <1>1, PTL DEF SlotSpec

-----------------------------------------------------------------------------
(* The types of slots and requests, with the bounds. *)
Numbers == Urls \X (0 .. LastSecond)
SlotShape == [url : Urls \cup {NoUrl}, body : 0 .. MaxBodies, ts : 0 .. LastSecond]
AskShape  == [at : {"idle", "search", "fetch", "store", "done"},
              url : Urls \cup {NoUrl}, now : 0 .. LastSecond, body : 0 .. MaxBodies]

(* Who is about to ask a server has a URL. *)
AsksForUrl ==
  \A t \in Requests : request[t].at \in {"search", "fetch"} => request[t].url \in Urls

AsksInv == SlotTypeOK /\ AsksForUrl

LEMMA AskShapeInv ==
  ASSUME AsksInv, NEW t \in Requests, NEW s \in AskShape,
         s.at \in {"search", "fetch"} => s.url \in Urls,
         request' = [request EXCEPT ![t] = s], UNCHANGED <<second, kv, sets>>,
         slots' \in [1 .. UrlSlots -> SlotShape],
         \A n \in DOMAIN bodies' : bodies'[n] \in Numbers
  PROVE  AsksInv'
<1>1. request \in [Requests -> AskShape]
  BY DEF AsksInv, SlotTypeOK, AskShape
<1>2. request' \in [Requests -> AskShape]
  BY <1>1
<1>3. \A u \in Requests : request'[u] = request[u] \/ request'[u] = s
  BY <1>1
<1>4. \A u \in Requests : request'[u].at \in {"search", "fetch"} => request'[u].url \in Urls
  BY <1>3 DEF AsksInv, AsksForUrl
<1>5. SlotTypeOK'
  BY <1>2 DEF AsksInv, SlotTypeOK, AskShape, SlotShape, Numbers
<1> QED BY <1>4, <1>5 DEF AsksInv, AsksForUrl

(* One more body or value. *)
LEMMA ExtendIs ==
  ASSUME NEW f, NEW v, NEW S, NEW n \in Nat,
         DOMAIN f = 1 .. n, \A m \in DOMAIN f : f[m] \in S, v \in S
  PROVE  /\ Cardinality(DOMAIN f) = n
         /\ \A m \in DOMAIN Extend(f, v) : Extend(f, v)[m] \in S
<1>1. Cardinality(DOMAIN f) = n
  BY FS_Interval
<1> QED BY <1>1 DEF Extend

LEMMA AsksStepInv == SlotInv /\ KeyInv /\ AsksInv /\ [SlotNext]_slotVars => AsksInv'
<1> SUFFICES ASSUME SlotInv, KeyInv, AsksInv, [SlotNext]_slotVars PROVE AsksInv'
  OBVIOUS
<1> USE SlotAssumption
<1>c. /\ second \in 0 .. LastSecond
      /\ slots \in [1 .. UrlSlots -> SlotShape]
      /\ request \in [Requests -> AskShape]
      /\ \A n \in DOMAIN bodies : bodies[n] \in Numbers
      /\ \A n \in DOMAIN sets : sets[n] \in Keys \X (0 .. LastSecond)
      /\ \A t \in Requests : request[t].at \in {"search", "fetch"} => request[t].url \in Urls
  BY DEF AsksInv, AsksForUrl, SlotTypeOK, SlotShape, AskShape, Numbers
<1>t. ASSUME NEW t \in Requests
      PROVE  /\ request[t] \in AskShape
             /\ request[t].url \in Urls \cup {NoUrl}
             /\ request[t].now \in 0 .. LastSecond /\ request[t].body \in 0 .. MaxBodies
  BY <1>c, <1>t DEF AskShape
<1>f. Free \in SlotShape /\ Waiting \in AskShape /\ Waiting.at = "idle"
  BY DEF Free, Waiting, SlotShape, AskShape
<1>1. ASSUME NEW t \in Requests, NEW url \in Urls, BeginRequest(t, url) PROVE AsksInv'
  <2> DEFINE s == [at |-> "search", url |-> url, now |-> second, body |-> 0]
  <2>1. s \in AskShape /\ s.url \in Urls
    BY <1>c DEF AskShape
  <2>2. request' = [request EXCEPT ![t] = s]
    BY <1>1 DEF BeginRequest
  <2> HIDE DEF s
  <2> QED BY <1>1, <1>c, <2>1, <2>2, AskShapeInv DEF BeginRequest
<1>2. ASSUME NEW t \in Requests, Search(t) PROVE AsksInv'
  <2> DEFINE url  == request[t].url
             mine == {i \in DOMAIN slots : slots[i].url = url}
             hits == {i \in mine : Fresh(i, request[t].now)}
             hit  == Min(hits)
             s == [request[t] EXCEPT !.at = IF hits = {} THEN "fetch" ELSE "done",
                                     !.body = IF hits = {} THEN 0 ELSE slots[hit].body]
  <2>1. /\ slots' = [i \in DOMAIN slots |->
                       IF i \in mine \ hits /\ (hits # {} => i < hit) THEN Free ELSE slots[i]]
        /\ UNCHANGED <<second, bodies, kv, sets>>
    BY <1>2 DEF Search
  <2>2. hits # {} => hit \in 1 .. UrlSlots
    <3>1. hits \in SUBSET Nat /\ hits \subseteq 1 .. UrlSlots
      BY <1>c
    <3> HIDE DEF hits
    <3> QED BY <3>1, MinIsIn
  <2>3. request' = [request EXCEPT ![t] = s]
    BY <1>2, <1>c DEF Search
  <2>4. slots' \in [1 .. UrlSlots -> SlotShape]
    <3> HIDE DEF mine, hits, hit
    <3> QED BY <1>c, <1>f, <2>1
  <2>5. s \in AskShape /\ s.url \in Urls
    <3> DEFINE at   == IF hits = {} THEN "fetch" ELSE "done"
               body == IF hits = {} THEN 0 ELSE slots[hit].body
    <3> HIDE DEF hits, hit
    <3>1. at \in {"fetch", "done"} /\ body \in 0 .. MaxBodies
      BY <1>c, <2>2 DEF SlotShape
    <3>2. request[t].url \in Urls
      BY <1>2, <1>c DEF Search
    <3> HIDE DEF at, body
    <3>3. [request[t] EXCEPT !.at = at, !.body = body] \in AskShape
      BY <1>t, <3>1 DEF AskShape
    <3>4. s = [request[t] EXCEPT !.at = at, !.body = body]
      BY DEF at, body
    <3>5. s.url = request[t].url
      BY <1>t DEF AskShape
    <3> QED BY <3>2, <3>3, <3>4, <3>5
  <2> HIDE DEF s, hits, hit, url
  <2> QED BY <1>c, <2>1, <2>3, <2>4, <2>5, AskShapeInv
<1>3. ASSUME NEW t \in Requests, StoreBody(t) PROVE AsksInv'
  <2> DEFINE s == [request[t] EXCEPT !.at = "done"]
             v == Victim(request[t].now)
             slot == [url |-> request[t].url, body |-> request[t].body, ts |-> request[t].now]
  <2>1. s \in AskShape /\ s.at = "done" /\ slot \in SlotShape
    BY <1>t DEF AskShape, SlotShape
  <2>2. /\ request' = [request EXCEPT ![t] = s] /\ slots' = [slots EXCEPT ![v] = slot]
        /\ UNCHANGED <<second, bodies, kv, sets>>
    BY <1>3 DEF StoreBody
  <2> HIDE DEF s, v, slot
  <2>3. slots' \in [1 .. UrlSlots -> SlotShape]
    BY <1>c, <2>1, <2>2
  <2> QED BY <1>c, <2>1, <2>2, <2>3, AskShapeInv
<1>4. ASSUME NEW t \in Requests, EndRequest(t) PROVE AsksInv'
  BY <1>4, <1>c, <1>f, AskShapeInv DEF EndRequest
<1>5. ASSUME NEW t \in Requests, Fetch(t) PROVE AsksInv'
  <2>1. PICK n \in Nat : DOMAIN bodies = 1 .. n
    BY DEF SlotInv, BodiesAre
  <2>2. <<request[t].url, second>> \in Numbers \/ request[t].at # "fetch"
    BY <1>c DEF Numbers
  <2>3. request[t].at = "fetch" /\ <<request[t].url, second>> \in Numbers
    BY <1>5, <2>2 DEF Fetch
  <2>4. CASE /\ Cardinality(DOMAIN bodies) < MaxBodies
             /\ bodies' = Extend(bodies, <<request[t].url, second>>)
             /\ request' = [request EXCEPT ![t].at = "store",
                                           ![t].body = Cardinality(DOMAIN bodies) + 1]
    <3> DEFINE b == n + 1
               s == [request[t] EXCEPT !.at = "store", !.body = b]
    <3>1. /\ Cardinality(DOMAIN bodies) = n
          /\ \A m \in DOMAIN bodies' : bodies'[m] \in Numbers
      <4> DEFINE v == <<request[t].url, second>>
      <4>1. v \in Numbers /\ bodies' = Extend(bodies, v)
        BY <2>3, <2>4
      <4> HIDE DEF v
      <4>2. /\ Cardinality(DOMAIN bodies) = n
            /\ \A m \in DOMAIN Extend(bodies, v) : Extend(bodies, v)[m] \in Numbers
        BY <1>c, <2>1, <4>1, ExtendIs
      <4> QED BY <4>1, <4>2
    <3>2. b \in 0 .. MaxBodies
      BY <2>1, <2>4, <3>1
    <3>3. request' = [request EXCEPT ![t] = s]
      BY <2>4, <3>1
    <3> HIDE DEF b
    <3>4. s \in AskShape /\ s.at = "store"
      BY <1>t, <3>2 DEF AskShape
    <3> HIDE DEF s
    <3> QED BY <1>5, <1>c, <3>1, <3>3, <3>4, AskShapeInv DEF Fetch
  <2>5. CASE request' = [request EXCEPT ![t].at = "done"] /\ UNCHANGED bodies
    <3> DEFINE s == [request[t] EXCEPT !.at = "done"]
    <3>1. s \in AskShape /\ s.at = "done" /\ request' = [request EXCEPT ![t] = s]
      BY <1>t, <2>5 DEF AskShape
    <3> HIDE DEF s
    <3> QED BY <1>5, <1>c, <2>5, <3>1, AskShapeInv DEF Fetch
  <2> QED BY <1>5, <2>4, <2>5 DEF Fetch
<1>6. CASE Second
  BY <1>6, <1>c DEF Second, AsksInv, AsksForUrl, SlotTypeOK
<1>7. ASSUME NEW k \in Keys, cache_set(k) PROVE AsksInv'
  <2>1. PICK n \in Nat : DOMAIN sets = 1 .. n
    BY DEF KeyInv, SetsAre
  <2>2. <<k, second>> \in Keys \X (0 .. LastSecond)
    BY <1>c
  <2>3. sets' = Extend(sets, <<k, second>>) /\ UNCHANGED <<second, slots, request, bodies>>
    BY <1>7 DEF cache_set
  <2>4. \A m \in DOMAIN sets' : sets'[m] \in Keys \X (0 .. LastSecond)
    BY <1>c, <2>1, <2>2, <2>3, ExtendIs
  <2> QED BY <2>3, <2>4 DEF AsksInv, AsksForUrl, SlotTypeOK
<1>8. CASE UNCHANGED slotVars
  BY <1>8 DEF slotVars, AsksInv, AsksForUrl, SlotTypeOK
<1> QED
  BY <1>1, <1>2, <1>3, <1>4, <1>5, <1>6, <1>7, <1>8 DEF SlotNext, UrlNext, KeyNext

(* Slots and requests have bodies that were sent, and times that were.         *)
THEOREM SlotsAreTyped == SlotSpec => []SlotTypeOK
<1>1. SlotInit => AsksInv
  <2> SUFFICES ASSUME SlotInit PROVE AsksInv
    OBVIOUS
  <2>1. 0 \in 0 .. LastSecond /\ 0 \in 0 .. MaxBodies
    BY SlotAssumption
  <2>2. Free \in SlotShape /\ Waiting \in AskShape /\ Waiting.at = "idle"
    BY <2>1 DEF Free, Waiting, SlotShape, AskShape
  <2>3. /\ slots \in [1 .. UrlSlots -> SlotShape] /\ request \in [Requests -> AskShape]
        /\ \A t \in Requests : request[t].at = "idle"
        /\ second \in 0 .. LastSecond /\ DOMAIN bodies = {} /\ DOMAIN sets = {}
    BY <2>1, <2>2 DEF SlotInit
  <2> QED BY <2>3 DEF AsksInv, AsksForUrl, SlotTypeOK, SlotShape, AskShape
<1>2. AsksInv => SlotTypeOK
  BY DEF AsksInv
<1> QED
  BY SlotInitInv, SlotStepInv, KeyInitInv, KeyStepInv, AsksStepInv, <1>1, <1>2, PTL
     DEF SlotSpec
=============================================================================
