----------------------------- MODULE Lifecycle -----------------------------
(***************************************************************************)
(* The plugin's background threads from olsrd_plugin_init to               *)
(* olsrd_plugin_exit: two periodic workers, each of which asks the fetch   *)
(* worker for its cache to be refilled, and the fetch worker. What the     *)
(* queue in between does is the business of FetchQueue; here it is a set.  *)
(***************************************************************************)
EXTENDS Integers

CONSTANT MaxRounds  \* bound: requests of each worker

ASSUME LifeAssumption == MaxRounds \in Nat

Workers == {"devices", "nodedb"}

VARIABLES
  init,     \* workers that olsrd_plugin_init has not started yet
  thread,   \* where each worker is
  running,  \* g_devices_worker_running, g_nodedb_worker_running
  queue,    \* workers whose request waits
  busy,     \* the worker whose request is being served, or "nobody"
  filled,   \* caches that hold something
  stopped,  \* workers that olsrd_plugin_exit has stopped
  rounds,   \* history: requests of each worker
  after,    \* history: requests after the stop
  late,     \* history: workers that set their flag after the stop
  left      \* history: workers with a request under way when their cache was freed

lifeVars == <<init, thread, running, queue, busy, filled, stopped, rounds, after, late, left>>

LifeTypeOK ==
  /\ init \subseteq Workers
  /\ thread \in [Workers -> {"none", "created", "test", "enqueue", "sleep", "gone"}]
  /\ running \in [Workers -> BOOLEAN]
  /\ queue \subseteq Workers
  /\ busy \in Workers \cup {"nobody"}
  /\ filled \subseteq Workers
  /\ stopped \subseteq Workers
  /\ rounds \in [Workers -> 0 .. MaxRounds]
  /\ after \in [Workers -> 0 .. MaxRounds]
  /\ late \subseteq Workers
  /\ left \subseteq Workers

LifeInit ==
  /\ init = Workers
  /\ thread = [w \in Workers |-> "none"]
  /\ running = [w \in Workers |-> FALSE]
  /\ queue = {} /\ busy = "nobody" /\ filled = {} /\ stopped = {}
  /\ rounds = [w \in Workers |-> 0]
  /\ after = [w \in Workers |-> 0]
  /\ late = {} /\ left = {}

(* The devices worker first. *)
StartWorker(w) ==
  /\ w \in init
  /\ w = "nodedb" => "devices" \notin init
  /\ init' = init \ {w}
  /\ thread' = [thread EXCEPT ![w] = "created"]
  /\ UNCHANGED <<running, queue, busy, filled, stopped, rounds, after, late, left>>

(* The thread itself says that it runs. *)
BeginWorker(w) ==
  /\ thread[w] = "created"
  /\ thread' = [thread EXCEPT ![w] = "test"]
  /\ running' = [running EXCEPT ![w] = TRUE]
  /\ late' = IF w \in stopped THEN late \cup {w} ELSE late
  /\ UNCHANGED <<init, queue, busy, filled, stopped, rounds, after, left>>

TestRunning(w) ==
  /\ thread[w] = "test"
  /\ thread' = [thread EXCEPT ![w] = IF running[w] THEN "enqueue" ELSE "gone"]
  /\ UNCHANGED <<init, running, queue, busy, filled, stopped, rounds, after, late, left>>

(* The queue takes the request, merges it or drops it. *)
EnqueueRound(w) ==
  /\ thread[w] = "enqueue"
  /\ rounds[w] < MaxRounds
  /\ thread' = [thread EXCEPT ![w] = "sleep"]
  /\ queue' \in {queue, queue \cup {w}}
  /\ rounds' = [rounds EXCEPT ![w] = @ + 1]
  /\ after' = IF w \in stopped THEN [after EXCEPT ![w] = @ + 1] ELSE after
  /\ UNCHANGED <<init, running, busy, filled, stopped, late, left>>

(* The worker sleeps to the end of its interval, stopped or not. *)
BadEndSleep(w) ==
  /\ thread[w] = "sleep"
  /\ thread' = [thread EXCEPT ![w] = "enqueue"]
  /\ UNCHANGED <<init, running, queue, busy, filled, stopped, rounds, after, late, left>>

(* The flag ends the sleep early; either way the loop tests it next. *)
EndSleep(w) ==
  /\ thread[w] = "sleep"
  /\ thread' = [thread EXCEPT ![w] = "test"]
  /\ UNCHANGED <<init, running, queue, busy, filled, stopped, rounds, after, late, left>>

(* The fetch worker, which nothing stops. *)
TakeRequest(w) ==
  /\ w \in queue
  /\ busy = "nobody"
  /\ queue' = queue \ {w}
  /\ busy' = w
  /\ UNCHANGED <<init, thread, running, filled, stopped, rounds, after, late, left>>

EndFetch(success) ==
  /\ busy # "nobody"
  /\ busy' = "nobody"
  /\ filled' = IF success THEN filled \cup {busy} ELSE filled
  /\ UNCHANGED <<init, thread, running, queue, stopped, rounds, after, late, left>>

(* The cache is forgotten. *)
BadStopWorker(w) ==
  /\ init = {}
  /\ w \notin stopped
  /\ w = "nodedb" => "devices" \in stopped
  /\ stopped' = stopped \cup {w}
  /\ running' = [running EXCEPT ![w] = FALSE]
  /\ left' = IF w \in queue \cup {busy} THEN left \cup {w} ELSE left
  /\ UNCHANGED <<init, thread, queue, busy, filled, rounds, after, late>>

(* olsrd_plugin_exit, the devices first: clear the flag, free the cache. *)
StopWorker(w) ==
  /\ init = {}
  /\ w \notin stopped
  /\ w = "nodedb" => "devices" \in stopped
  /\ stopped' = stopped \cup {w}
  /\ running' = [running EXCEPT ![w] = FALSE]
  /\ filled' = filled \ {w}
  /\ left' = IF w \in queue \cup {busy} THEN left \cup {w} ELSE left
  /\ UNCHANGED <<init, thread, queue, busy, rounds, after, late>>

LifeNext ==
  \/ \E w \in Workers :
       \/ StartWorker(w) \/ BeginWorker(w) \/ TestRunning(w) \/ EnqueueRound(w)
       \/ EndSleep(w) \/ TakeRequest(w) \/ StopWorker(w)
  \/ \E success \in BOOLEAN : EndFetch(success)

LifeSpec == LifeInit /\ [][LifeNext]_lifeVars

-----------------------------------------------------------------------------
(* A worker that had begun when the plugin was stopped asks for at most one   *)
(* more fetch (691-706, 720-733, 5402-5416). One that begins later overwrites *)
(* the flag and is never stopped.                                             *)
StoppedWorkersEnd == \A w \in Workers \ late : after[w] <= 1

(* A freed cache is filled again only by a request that was under way at the  *)
(* stop, by that one more request, or by a worker that began too late: with   *)
(* none of them the memory stays free although the fetch worker goes on.      *)
FilledAgainOnlyBy ==
  \A w \in stopped \cap filled : w \in left \cup late \/ after[w] > 0
=============================================================================
