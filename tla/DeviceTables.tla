---------------------------- MODULE DeviceTables ----------------------------
(***************************************************************************)
(* The two tables of devices that handlers show: the kernel's ARP table    *)
(* (get_arp_json_cached) and what discovery found (g_devices_cache). Both  *)
(* are built without their lock and replaced with it.                      *)
(*                                                                         *)
(* A table is known by the second its contents are from. What discovery    *)
(* returns may itself be remembered: of ubnt_discover_output only what     *)
(* UbntDiscovery shows of it is used here.                                 *)
(***************************************************************************)
EXTENDS Integers

CONSTANTS
  Tasks,         \* handlers and the fetch worker
  ArpTtl,        \* g_arp_cache_ttl_s, as set: 0 and below never expire
  DevicesTtl,    \* g_ubnt_cache_ttl_s: of what discovery remembers and of its table
  LastMoment     \* bound: the clock stops here

ASSUME TablesAssumption ==
  /\ ArpTtl \in Int /\ DevicesTtl \in Nat \ {0} /\ LastMoment \in Nat

NoTable == [from |-> -1, begun |-> 0, ts |-> 0]

VARIABLES
  moment,        \* time(NULL)
  arp_cache,     \* g_arp_cache and its stamp
  devices_cache, \* g_devices_cache and its stamp
  task           \* [at, since, table] of each thread

tablesVars == <<moment, arp_cache, devices_cache, task>>

Resting == [at |-> "rest", since |-> 0, table |-> NoTable]

Moments == 0 .. LastMoment
Tables == [from : -1 .. LastMoment, begun : Moments, ts : Moments]

TablesTypeOK ==
  /\ moment \in Moments
  /\ arp_cache \in Tables /\ devices_cache \in Tables
  /\ task \in [Tasks -> [at : {"rest", "arp", "build", "keep", "arp shown",
                               "discover", "keep devices", "devices shown"},
                         since : Moments, table : Tables]]

TablesInit ==
  /\ moment = 0
  /\ arp_cache = NoTable /\ devices_cache = NoTable
  /\ task = [t \in Tasks |-> Resting]

Goes(t, where, table) == task' = [task EXCEPT ![t].at = where, ![t].table = table]

Begins(t, where) ==
  /\ task[t].at = "rest"
  /\ task' = [task EXCEPT ![t] = [Resting EXCEPT !.at = where, !.since = moment]]
  /\ UNCHANGED <<moment, arp_cache, devices_cache>>

-----------------------------------------------------------------------------
(* The time is read before the lock is taken. *)
AskArp(t) == Begins(t, "arp")

ArpFresh(t) ==
  arp_cache # NoTable /\ (ArpTtl <= 0 \/ task[t].since - arp_cache.ts <= ArpTtl)

FindArp(t) ==
  /\ task[t].at = "arp"
  /\ IF ArpFresh(t) THEN Goes(t, "arp shown", arp_cache) ELSE Goes(t, "build", NoTable)
  /\ UNCHANGED <<moment, arp_cache, devices_cache>>

(* /proc/net/arp is read, or cannot be. *)
BuildArp(t) ==
  /\ task[t].at = "build"
  /\ \/ Goes(t, "keep", [from |-> moment, begun |-> task[t].since, ts |-> 0])
     \/ task' = [task EXCEPT ![t] = Resting]
  /\ UNCHANGED <<moment, arp_cache, devices_cache>>

(* Stamped with the time when it is stored. *)
BadKeepArp(t) ==
  LET table == [task[t].table EXCEPT !.ts = moment]
  IN /\ task[t].at = "keep"
     /\ arp_cache' = table
     /\ Goes(t, "arp shown", table)
     /\ UNCHANGED <<moment, devices_cache>>

(* Stamped with the time before the search; a newer table may be replaced. *)
KeepArp(t) ==
  LET table == [task[t].table EXCEPT !.ts = task[t].since]
  IN /\ task[t].at = "keep"
     /\ arp_cache' = table
     /\ Goes(t, "arp shown", table)
     /\ UNCHANGED <<moment, devices_cache>>

-----------------------------------------------------------------------------
(* fetch_discover_once, in the fetch worker or for ?refresh=1. *)
Discover(t) == Begins(t, "discover")

(* An answer's replies came less than the time to live before the call. *)
Discovered(t) ==
  /\ task[t].at = "discover"
  /\ \/ \E heard \in {m \in 0 .. moment : m > task[t].since - DevicesTtl} :
          Goes(t, "keep devices", [from |-> heard, begun |-> task[t].since, ts |-> 0])
     \/ task' = [task EXCEPT ![t] = Resting]
  /\ UNCHANGED <<moment, arp_cache, devices_cache>>

(* Stamped with the time when it is stored, however old the answer is. *)
KeepDevices(t) ==
  /\ task[t].at = "keep devices"
  /\ devices_cache' = [task[t].table EXCEPT !.ts = moment]
  /\ task' = [task EXCEPT ![t] = Resting]
  /\ UNCHANGED <<moment, arp_cache>>

(* /status, /devices and /discover show the table if it is young enough. *)
ShowDevices(t) ==
  /\ task[t].at = "rest"
  /\ devices_cache # NoTable
  /\ moment - devices_cache.ts <= DevicesTtl
  /\ task' = [task EXCEPT ![t] = [at |-> "devices shown", since |-> moment,
                                  table |-> devices_cache]]
  /\ UNCHANGED <<moment, arp_cache, devices_cache>>

Shown(t) ==
  /\ task[t].at \in {"arp shown", "devices shown"}
  /\ task' = [task EXCEPT ![t] = Resting]
  /\ UNCHANGED <<moment, arp_cache, devices_cache>>

TablesTick ==
  /\ moment < LastMoment
  /\ moment' = moment + 1
  /\ UNCHANGED <<arp_cache, devices_cache, task>>

TablesNext ==
  \/ \E t \in Tasks :
       \/ AskArp(t) \/ FindArp(t) \/ BuildArp(t) \/ KeepArp(t)
       \/ Discover(t) \/ Discovered(t) \/ KeepDevices(t) \/ ShowDevices(t)
       \/ Shown(t)
  \/ TablesTick

TablesSpec == TablesInit /\ [][TablesNext]_tablesVars

-----------------------------------------------------------------------------
(* An ARP table is at most its time to live older than the question, although *)
(* slow builders replace newer tables by older ones (1577-1602). Devices may  *)
(* be twice their time to live old, and older by as long as the discovery     *)
(* took that stored them: an answer that was remembered is stamped as new     *)
(* (843-868, 3044-3062, 3613-3633, 5762-5775).                                *)
TablesAreRecent ==
  \A t \in Tasks :
    LET table == task[t].table
    IN /\ task[t].at = "arp shown" /\ ArpTtl > 0 => table.from >= task[t].since - ArpTtl
       /\ task[t].at = "devices shown" =>
            table.from > task[t].since - 2 * DevicesTtl - (table.ts - table.begun)
=============================================================================
