------------------------------ MODULE Metrics ------------------------------
(***************************************************************************)
(* The counters of the fetch queue and the totals of the link table, with  *)
(* C11 atomics where the compiler has them and g_metrics_lock otherwise.   *)
(* A build is one or the other: c11 does not change.                       *)
(***************************************************************************)
EXTENDS Integers, FiniteSets

CONSTANTS
  Counters,  \* dropped, retries, successes
  Threads,   \* the fetch worker, handlers and the reporter
  MaxCounts  \* bound: increments

ASSUME MetricsAssumption ==
  /\ "none" \notin Counters /\ "nobody" \notin Threads
  /\ IsFiniteSet(Threads)
  /\ MaxCounts \in Nat

VARIABLES
  c11,      \* HAVE_C11_ATOMICS
  mutex,    \* who has g_metrics_lock
  counter,  \* the counters
  totals,   \* unique routes and nodes
  job,      \* [at, what, value] of each thread
  counted   \* history: increments that are done

metricsVars == <<c11, mutex, counter, totals, job, counted>>

Idle == [at |-> "idle", what |-> "none", value |-> 0]

MetricsTypeOK ==
  /\ c11 \in BOOLEAN
  /\ mutex \in Threads \cup {"nobody"}
  /\ counter \in [Counters -> 0 .. MaxCounts]
  /\ totals \in [routes : Nat, nodes : Nat]
  /\ job \in [Threads -> [at : {"idle", "load", "store", "nodes", "reload"},
                          what : Counters \cup {"none"}, value : Nat]]
  /\ counted \in [Counters -> 0 .. MaxCounts]

MetricsInit ==
  /\ c11 \in BOOLEAN
  /\ mutex = "nobody"
  /\ counter = [m \in Counters |-> 0]
  /\ totals = [routes |-> 0, nodes |-> 0]
  /\ job = [t \in Threads |-> Idle]
  /\ counted = [m \in Counters |-> 0]

(* Increments under way, done ones included. *)
Begun(m) == counted[m] + Cardinality({t \in Threads : job[t].what = m})

Room(m) == Begun(m) < MaxCounts

(* atomic_fetch_add. *)
AtomicInc(t, m) ==
  /\ c11 /\ job[t] = Idle /\ Room(m)
  /\ counter' = [counter EXCEPT ![m] = @ + 1]
  /\ counted' = [counted EXCEPT ![m] = @ + 1]
  /\ UNCHANGED <<c11, mutex, totals, job>>

(* The increment does not wait for the lock. *)
BadLockedInc(t, m) ==
  /\ ~c11 /\ job[t] = Idle /\ Room(m)
  /\ mutex' = t
  /\ job' = [job EXCEPT ![t] = [at |-> "load", what |-> m, value |-> 0]]
  /\ UNCHANGED <<c11, counter, totals, counted>>

(* Lock, and then load, add and store. *)
LockedInc(t, m) ==
  /\ ~c11 /\ job[t] = Idle /\ Room(m)
  /\ mutex = "nobody"
  /\ mutex' = t
  /\ job' = [job EXCEPT ![t] = [at |-> "load", what |-> m, value |-> 0]]
  /\ UNCHANGED <<c11, counter, totals, counted>>

LoadCounter(t) ==
  /\ job[t].at = "load"
  /\ job' = [job EXCEPT ![t].at = "store", ![t].value = counter[job[t].what]]
  /\ UNCHANGED <<c11, mutex, counter, totals, counted>>

StoreCounter(t) ==
  LET m == job[t].what
  IN /\ job[t].at = "store"
     /\ counter' = [counter EXCEPT ![m] = job[t].value + 1]
     /\ counted' = [counted EXCEPT ![m] = @ + 1]
     /\ job' = [job EXCEPT ![t] = Idle]
     /\ mutex' = "nobody"
     /\ UNCHANGED <<c11, totals>>

(* METRIC_SET_UNIQUE: two stores, together where there is a lock. n stands for *)
(* the totals of one normalisation.                                            *)
SetUnique(t, n) ==
  /\ job[t] = Idle
  /\ \/ /\ c11
        /\ totals' = [totals EXCEPT !.routes = n]
        /\ job' = [job EXCEPT ![t] = [at |-> "nodes", what |-> "none", value |-> n]]
     \/ /\ ~c11 /\ mutex = "nobody"
        /\ totals' = [routes |-> n, nodes |-> n]
        /\ UNCHANGED job
  /\ UNCHANGED <<c11, mutex, counter, counted>>

SetUniqueNodes(t) ==
  /\ job[t].at = "nodes"
  /\ totals' = [totals EXCEPT !.nodes = job[t].value]
  /\ job' = [job EXCEPT ![t] = Idle]
  /\ UNCHANGED <<c11, mutex, counter, counted>>

(* Locks, loads, and returns without unlocking. Where loading needs the lock *)
(* too, the handler waits for itself.                                        *)
h_fetch_metrics(t) ==
  /\ job[t] = Idle
  /\ mutex = "nobody"
  /\ mutex' = t
  /\ job' = [job EXCEPT ![t].at = IF c11 THEN "idle" ELSE "reload"]
  /\ UNCHANGED <<c11, counter, totals, counted>>

MetricsNext ==
  \E t \in Threads :
    \/ \E m \in Counters : AtomicInc(t, m) \/ LockedInc(t, m)
    \/ LoadCounter(t) \/ StoreCounter(t)
    \/ \E n \in 1 .. 2 : SetUnique(t, n)
    \/ SetUniqueNodes(t)
    \/ h_fetch_metrics(t)

MetricsSpec == MetricsInit /\ [][MetricsNext]_metricsVars

-----------------------------------------------------------------------------
(* No increment is lost, in either build, whoever else counts at the time and *)
(* whether or not somebody keeps the lock for ever (309-333, 4085-4093).      *)
CountsComplete == counter = counted
=============================================================================
