----------------------------- MODULE FetchQueue -----------------------------
(***************************************************************************)
(* The fetch queue of the plugin: the request queue behind g_fetch_q_lock, *)
(* the threads that enqueue into it (HTTP handlers, devices_cache_worker,  *)
(* nodedb_cache_worker), the single fetch_worker_thread that serves it,    *)
(* and the fetches that bypass it.                                         *)
(*                                                                         *)
(* One action is one critical section, or one access to shared memory that *)
(* the code makes outside its locks.  Heap blocks are explicit: who frees  *)
(* a request, and who still points to it, is what makes this code hard.    *)
(***************************************************************************)
EXTENDS Naturals, Sequences

CONSTANTS
  Callers,    \* threads that ask for fetches
  Reqs,       \* names for heap blocks of struct fetch_req
  Entries,    \* the entry points in use, a subset of EntryPoints
  QueueMax,   \* g_fetch_queue_max
  Retries,    \* g_fetch_retries
  Ttl,        \* g_nodedb_ttl, in clock ticks
  MaxTime,    \* bound on the clock
  None        \* the NULL pointer

EntryPoints == {"nodedbWorker", "devicesWorker", "nodedbIfNeeded",
                "refreshWait", "discoverWait", "devicesRefresh"}

ASSUME EntriesAssumption == Entries \subseteq EntryPoints
ASSUME NoneAssumption    == None \notin Reqs /\ None \notin EntryPoints
ASSUME BoundsAssumption  == /\ QueueMax \in Nat \ {0}
                            /\ Retries \in Nat
                            /\ Ttl \in Nat
                            /\ MaxTime \in Nat \ {0}

VARIABLES
  queue,      \* g_fetch_q_head .. g_fetch_q_tail, oldest first
  heap,       \* what each block holds: a request, or Freed
  pc,         \* where each caller is
  via,        \* the entry point a caller is executing, None when idle
  ptr,        \* the request a waiting caller points to
  wpc,        \* where fetch_worker_thread is
  rq,         \* the worker's local rq
  attempt,    \* the worker's local attempt
  prev,       \* the worker's local prev
  lastFetch,  \* g_nodedb_last_fetch and g_devices_cache_ts
  now,        \* time(NULL): whole seconds
  inProgress, \* g_nodedb_fetch_in_progress
  dropped,    \* has METRIC_INC_DROPPED been reached
  crashed,    \* freed memory was used and the process died or its heap is lost
  fresh       \* history: has a fetch begun since this waiter asked

callerVars  == <<pc, via, ptr, fresh>>
workerVars  == <<wpc, rq, attempt, prev>>
vars == <<queue, heap, callerVars, workerVars, lastFetch, now, inProgress,
          dropped, crashed>>

(***************************************************************************)
(* Requests.  force and type never change after calloc and follow from the *)
(* entry point, so a request holds its entry point and the two flags the   *)
(* threads write.                                                          *)
(***************************************************************************)
Types == {"nodedb", "discover"}

Type(e) ==
  IF e \in {"devicesWorker", "discoverWait", "devicesRefresh"}
  THEN "discover" ELSE "nodedb"

Forced(e) == e \in {"nodedbWorker", "refreshWait", "discoverWait"}

Waits(e) == e \in {"refreshWait", "discoverWait"}

Freed == [entry |-> "none", wait |-> FALSE, done |-> FALSE]

Request == [entry : EntryPoints, wait : BOOLEAN, done : BOOLEAN]

Live(r) == heap[r].entry # "none"

(* Mutants: a definition whose name starts with Bad is not part of the      *)
(* model.  It is the one that follows it as a plausible mistake would have  *)
(* left it, and shows that a property notices the mistake.                  *)
BadSatisfies(pending, new) == Type(pending) = Type(new) /\ Forced(pending)

(* A pending request of the same type satisfies a new one when it is forced *)
(* or the new one is not.                                                    *)
Satisfies(pending, new) ==
  Type(pending) = Type(new) /\ (Forced(pending) \/ ~Forced(new))

BadMatches(e) ==
  {i \in 1..Len(queue) : i = 1 /\ Satisfies(heap[queue[i]].entry, e)}

(* The positions of pending requests that satisfy a new one. *)
Matches(e) == {i \in 1..Len(queue) : Satisfies(heap[queue[i]].entry, e)}

(* A block no pointer leads to: calloc returns one of these.  A block that a *)
(* stale pointer still names is a different allocation even when the address *)
(* is recycled.                                                              *)
Allocatable == {r \in Reqs : /\ ~Live(r)
                             /\ rq # r
                             /\ \A c \in Callers : ptr[c] # r}

NodedbStale ==
  lastFetch["nodedb"] = 0 \/ now - lastFetch["nodedb"] >= Ttl

-----------------------------------------------------------------------------
(***************************************************************************)
(* State space                                                             *)
(***************************************************************************)
TypeOK ==
  /\ queue \in Seq(Reqs)
  /\ heap \in [Reqs -> Request \cup {Freed}]
  /\ pc \in [Callers -> {"idle", "needed", "waitOwn", "waitFound",
                         "fetching", "clearing"}]
  /\ via \in [Callers -> Entries \cup {None}]
  /\ ptr \in [Callers -> Reqs \cup {None}]
  /\ wpc \in {"idle", "gate", "fetching", "judging", "publish", "release"}
  /\ rq \in Reqs \cup {None}
  /\ attempt \in 0..Retries
  /\ wpc = "gate" => attempt < Retries
  /\ prev \in 0..MaxTime
  /\ lastFetch \in [Types -> 0..MaxTime]
  /\ now \in 1..MaxTime
  /\ inProgress \in BOOLEAN
  /\ dropped \in BOOLEAN
  /\ crashed \in BOOLEAN
  /\ fresh \in [Callers -> BOOLEAN]

Init ==
  /\ queue = <<>>
  /\ heap = [r \in Reqs |-> Freed]
  /\ pc = [c \in Callers |-> "idle"]
  /\ via = [c \in Callers |-> None]
  /\ ptr = [c \in Callers |-> None]
  /\ wpc = "idle"
  /\ rq = None
  /\ attempt = 0
  /\ prev = 0
  /\ lastFetch = [t \in Types |-> 0]
  /\ now = 1
  /\ inProgress = FALSE
  /\ dropped = FALSE
  /\ crashed = FALSE
  /\ fresh = [c \in Callers |-> FALSE]

(* time(NULL) advances; MaxTime bounds the clock. *)
Tick ==
  /\ now < MaxTime
  /\ now' = now + 1
  /\ UNCHANGED <<queue, heap, callerVars, workerVars, lastFetch, inProgress,
                 dropped, crashed>>

-----------------------------------------------------------------------------
(***************************************************************************)
(* Callers                                                                 *)
(***************************************************************************)

(* c goes to the place p of the code, in entry point e, pointing to r. *)
Goto(c, p, e, r) ==
  /\ pc' = [pc EXCEPT ![c] = p]
  /\ via' = [via EXCEPT ![c] = e]
  /\ ptr' = [ptr EXCEPT ![c] = r]
  /\ fresh' = [fresh EXCEPT ![c] = FALSE]

Return(c) == Goto(c, "idle", None, None)

(* fetch_remote_nodedb_if_needed tests the cache's age under g_nodedb_lock, *)
(* lets go of the lock and only then enqueues.                              *)
FindNodedbStale(c) ==
  /\ pc[c] = "idle"
  /\ "nodedbIfNeeded" \in Entries
  /\ NodedbStale
  /\ Goto(c, "needed", "nodedbIfNeeded", None)
  /\ UNCHANGED <<queue, heap, workerVars, lastFetch, now, inProgress, dropped,
                 crashed>>

(* c is about to take g_fetch_q_lock in enqueue_fetch_request, from e. *)
Enqueues(c, e) ==
  /\ e \in Entries \ {"devicesRefresh"}
  /\ IF e = "nodedbIfNeeded" THEN pc[c] = "needed" ELSE pc[c] = "idle"

BadDedupe(c, e) ==
  /\ Enqueues(c, e)
  /\ rq # None /\ Live(rq) /\ Satisfies(heap[rq].entry, e)
  /\ IF Waits(e) THEN Goto(c, "waitFound", e, rq) ELSE Return(c)
  /\ UNCHANGED <<queue, heap, workerVars, lastFetch, now, inProgress, dropped,
                 crashed>>

(* A pending request will do: drop the new one, and wait on the oldest such *)
(* request if the caller asked to wait.                                     *)
Dedupe(c, e) ==
  /\ Enqueues(c, e)
  /\ \E i \in Matches(e) :
       /\ \A j \in Matches(e) : i <= j
       /\ IF Waits(e) THEN Goto(c, "waitFound", e, queue[i]) ELSE Return(c)
  /\ UNCHANGED <<queue, heap, workerVars, lastFetch, now, inProgress, dropped,
                 crashed>>

(* The queue is full and the caller waits: it fetches in its own thread. *)
FetchInline(c, e) ==
  /\ Enqueues(c, e)
  /\ Matches(e) = {}
  /\ Len(queue) >= QueueMax
  /\ Waits(e)
  /\ Goto(c, "fetching", e, None)
  /\ UNCHANGED <<queue, heap, workerVars, lastFetch, now, inProgress, dropped,
                 crashed>>

(* The queue is full and the caller does not wait: the request is dropped. *)
Drop(c, e) ==
  /\ Enqueues(c, e)
  /\ Matches(e) = {}
  /\ Len(queue) >= QueueMax
  /\ ~Waits(e)
  /\ dropped' = TRUE
  /\ Return(c)
  /\ UNCHANGED <<queue, heap, workerVars, lastFetch, now, inProgress, crashed>>

(* The request r is appended; a caller that waits goes on to wait for it. *)
Accept(c, e, r) ==
  /\ Enqueues(c, e)
  /\ Matches(e) = {}
  /\ Len(queue) < QueueMax
  /\ r \in Allocatable
  /\ heap' = [heap EXCEPT ![r] =
                [entry |-> e, wait |-> Waits(e), done |-> FALSE]]
  /\ queue' = Append(queue, r)
  /\ IF Waits(e) THEN Goto(c, "waitOwn", e, r) ELSE Return(c)
  /\ UNCHANGED <<workerVars, lastFetch, now, inProgress, dropped, crashed>>

(* The creator sees done and frees its request. *)
WakeOwn(c) ==
  /\ pc[c] = "waitOwn"
  /\ heap[ptr[c]].done
  /\ heap' = [heap EXCEPT ![ptr[c]] = Freed]
  /\ Return(c)
  /\ UNCHANGED <<queue, workerVars, lastFetch, now, inProgress, dropped,
                 crashed>>

BadTimeoutOwn(c) ==
  /\ pc[c] = "waitOwn"
  /\ ~heap[ptr[c]].done
  /\ Return(c)
  /\ UNCHANGED <<queue, heap, workerVars, lastFetch, now, inProgress, dropped,
                 crashed>>

BadTimeoutFrees(c) ==
  /\ pc[c] = "waitOwn"
  /\ ~heap[ptr[c]].done
  /\ heap' = [heap EXCEPT ![ptr[c]] = Freed]
  /\ Return(c)
  /\ UNCHANGED <<queue, workerVars, lastFetch, now, inProgress, dropped,
                 crashed>>

(* The creator's timed wait runs out: under rq->m it hands the block over to *)
(* the worker.                                                               *)
TimeoutOwn(c) ==
  /\ pc[c] = "waitOwn"
  /\ ~heap[ptr[c]].done
  /\ heap' = [heap EXCEPT ![ptr[c]].wait = FALSE]
  /\ Return(c)
  /\ UNCHANGED <<queue, workerVars, lastFetch, now, inProgress, dropped,
                 crashed>>

(* A deduplicated waiter sees the other request done, or its timed wait runs *)
(* out: it goes away either way, and frees nothing.                          *)
LeaveFound(c) ==
  /\ pc[c] = "waitFound"
  /\ Live(ptr[c])
  /\ Return(c)
  /\ UNCHANGED <<queue, heap, workerVars, lastFetch, now, inProgress, dropped,
                 crashed>>

(* The other request was freed under the waiter, which locks its mutex and   *)
(* reads its done flag all the same: it may leave, or the process may die.   *)
UseFreedFound(c) ==
  /\ pc[c] = "waitFound"
  /\ ~Live(ptr[c])
  /\ \/ Return(c) /\ UNCHANGED crashed
     \/ crashed' = TRUE /\ UNCHANGED callerVars
  /\ UNCHANGED <<queue, heap, workerVars, lastFetch, now, inProgress, dropped>>

(* GET /devices.json?refresh=1 calls fetch_discover_once in its own thread. *)
FetchDirect(c) ==
  /\ pc[c] = "idle"
  /\ "devicesRefresh" \in Entries
  /\ Goto(c, "fetching", "devicesRefresh", None)
  /\ UNCHANGED <<queue, heap, workerVars, lastFetch, now, inProgress, dropped,
                 crashed>>

(* A caller's own fetch ends: on success the cache is replaced and stamped. *)
CallerFetchEnds(c) ==
  /\ pc[c] = "fetching"
  /\ \/ lastFetch' = [lastFetch EXCEPT ![Type(via[c])] = now]
     \/ UNCHANGED lastFetch
  /\ Goto(c, "clearing", via[c], None)
  /\ UNCHANGED <<queue, heap, workerVars, now, inProgress, dropped, crashed>>

(* Every fetch clears the gate at its end, though only the worker sets it. *)
CallerClearsGate(c) ==
  /\ pc[c] = "clearing"
  /\ inProgress' = FALSE
  /\ Return(c)
  /\ UNCHANGED <<queue, heap, workerVars, lastFetch, now, dropped, crashed>>

-----------------------------------------------------------------------------
(***************************************************************************)
(* fetch_worker_thread                                                     *)
(***************************************************************************)

BadPop ==
  /\ wpc = "idle"
  /\ queue # <<>>
  /\ rq' = queue[Len(queue)]
  /\ queue' = SubSeq(queue, 1, Len(queue) - 1)
  /\ wpc' = IF Retries > 0 THEN "gate" ELSE "publish"
  /\ UNCHANGED <<heap, callerVars, attempt, prev, lastFetch, now, inProgress,
                 dropped, crashed>>

(* Take the oldest request.  With g_fetch_retries = 0 the attempt loop does *)
(* not run at all.                                                          *)
Pop ==
  /\ wpc = "idle"
  /\ queue # <<>>
  /\ rq' = Head(queue)
  /\ queue' = Tail(queue)
  /\ wpc' = IF Retries > 0 THEN "gate" ELSE "publish"
  /\ UNCHANGED <<heap, callerVars, attempt, prev, lastFetch, now, inProgress,
                 dropped, crashed>>

(* Pass the gate, remember the cache's time stamp and start to fetch. *)
StartAttempt ==
  /\ wpc = "gate"
  /\ ~inProgress
  /\ inProgress' = TRUE
  /\ prev' = lastFetch[Type(heap[rq].entry)]
  /\ wpc' = "fetching"
  /\ fresh' = [c \in Callers |-> fresh[c] \/ ptr[c] = rq]
  /\ UNCHANGED <<queue, heap, pc, via, ptr, rq, attempt, lastFetch, now,
                 dropped, crashed>>

(* The fetch ends: on success the cache is replaced and stamped. *)
WorkerFetchEnds ==
  /\ wpc = "fetching"
  /\ \/ lastFetch' = [lastFetch EXCEPT ![Type(heap[rq].entry)] = now]
     \/ UNCHANGED lastFetch
  /\ wpc' = "judging"
  /\ UNCHANGED <<queue, heap, callerVars, rq, attempt, prev, now, inProgress,
                 dropped, crashed>>

BadEndAttempt ==
  /\ wpc = "judging"
  /\ inProgress' = FALSE
  /\ prev' = 0
  /\ IF lastFetch[Type(heap[rq].entry)] > prev \/ attempt + 1 > Retries
     THEN wpc' = "publish" /\ attempt' = 0
     ELSE wpc' = "gate" /\ attempt' = attempt + 1
  /\ UNCHANGED <<queue, heap, callerVars, rq, lastFetch, now, dropped, crashed>>

BadEndAttemptGate ==
  /\ wpc = "judging"
  /\ inProgress' = (lastFetch[Type(heap[rq].entry)] <= prev)
  /\ prev' = 0
  /\ IF lastFetch[Type(heap[rq].entry)] > prev \/ attempt + 1 >= Retries
     THEN wpc' = "publish" /\ attempt' = 0
     ELSE wpc' = "gate" /\ attempt' = attempt + 1
  /\ UNCHANGED <<queue, heap, callerVars, rq, lastFetch, now, dropped, crashed>>

(* The fetch clears the gate; the worker takes a time stamp later than prev *)
(* for success, and anything else for a failure to retry.  prev and attempt *)
(* are locals that end here.                                                *)
EndAttempt ==
  /\ wpc = "judging"
  /\ inProgress' = FALSE
  /\ prev' = 0
  /\ IF lastFetch[Type(heap[rq].entry)] > prev \/ attempt + 1 >= Retries
     THEN wpc' = "publish" /\ attempt' = 0
     ELSE wpc' = "gate" /\ attempt' = attempt + 1
  /\ UNCHANGED <<queue, heap, callerVars, rq, lastFetch, now, dropped, crashed>>

(* Under rq->m: done = 1 and a broadcast. *)
Publish ==
  /\ wpc = "publish"
  /\ heap' = [heap EXCEPT ![rq].done = TRUE]
  /\ wpc' = "release"
  /\ UNCHANGED <<queue, callerVars, rq, attempt, prev, lastFetch, now,
                 inProgress, dropped, crashed>>

(* Outside every lock: read rq->wait, and free the request if nobody waits. *)
Release ==
  /\ wpc = "release"
  /\ Live(rq)
  /\ heap' = IF heap[rq].wait THEN heap ELSE [heap EXCEPT ![rq] = Freed]
  /\ wpc' = "idle"
  /\ rq' = None
  /\ UNCHANGED <<queue, callerVars, attempt, prev, lastFetch, now,
                 inProgress, dropped, crashed>>

(* The creator was faster and has freed the block: what the worker reads is *)
(* arbitrary, and when it reads 0 it frees the block a second time.         *)
ReleaseFreed ==
  /\ wpc = "release"
  /\ ~Live(rq)
  /\ crashed' \in BOOLEAN
  /\ wpc' = "idle"
  /\ rq' = None
  /\ UNCHANGED <<queue, heap, callerVars, attempt, prev, lastFetch,
                 now, inProgress, dropped>>

-----------------------------------------------------------------------------
CallerStep(c) ==
  \/ FindNodedbStale(c)
  \/ \E e \in Entries : \/ Dedupe(c, e)
                        \/ FetchInline(c, e)
                        \/ Drop(c, e)
                        \/ \E r \in Reqs : Accept(c, e, r)
  \/ WakeOwn(c)
  \/ TimeoutOwn(c)
  \/ LeaveFound(c)
  \/ UseFreedFound(c)
  \/ FetchDirect(c)
  \/ CallerFetchEnds(c)
  \/ CallerClearsGate(c)

WorkerStep ==
  \/ Pop
  \/ StartAttempt
  \/ WorkerFetchEnds
  \/ EndAttempt
  \/ Publish
  \/ Release
  \/ ReleaseFreed

Next ==
  /\ ~crashed
  /\ \/ Tick
     \/ WorkerStep
     \/ \E c \in Callers : CallerStep(c)

Spec == Init /\ [][Next]_vars

(***************************************************************************)
(* The worker is a thread that is never stopped, every fetch has a timeout *)
(* of its own, and both waits of enqueue_fetch_request are timed: each of  *)
(* these goes on.  Nothing makes a caller ask.                             *)
(***************************************************************************)
Fairness ==
  /\ WF_vars(~crashed /\ WorkerStep)
  /\ \A c \in Callers :
       WF_vars(~crashed /\ (WakeOwn(c) \/ TimeoutOwn(c) \/ LeaveFound(c)
                            \/ UseFreedFound(c)))
  /\ \A c \in Callers :
       WF_vars(~crashed /\ (CallerFetchEnds(c) \/ CallerClearsGate(c)))

FairSpec == Spec /\ Fairness

-----------------------------------------------------------------------------
(***************************************************************************)
(* Properties                                                              *)
(***************************************************************************)
Pending == {queue[i] : i \in 1..Len(queue)}

(* No request waits behind one that will do its work: the dedupe loop of    *)
(* enqueue_fetch_request keeps the queue free of redundant work however     *)
(* calls and the worker interleave.                                         *)
NoRedundantPending ==
  \A i, j \in 1..Len(queue) :
    i < j => ~Satisfies(heap[queue[i]].entry, heap[queue[j]].entry)

(* The documented overload behaviour of fetch_queue_max (drop, or fetch in   *)
(* the caller) cannot occur at the default of 4: four kinds of request exist *)
(* and the queue holds each at most once.                                    *)
NothingDroppedByDefault ==
  QueueMax >= 4 =>
    /\ ~dropped
    /\ \A c \in Callers :
         pc[c] = "fetching" => via[c] = "devicesRefresh"

(* Blocks reached by the queue, by the worker before it publishes, and by a *)
(* creator that waits are allocated, and the first two are not yet done.    *)
InFlightLive ==
  /\ \A r \in Pending : Live(r) /\ ~heap[r].done
  /\ wpc \in {"gate", "fetching", "judging", "publish"} =>
       /\ Live(rq)
       /\ ~heap[rq].done
       /\ rq \notin Pending
  /\ \A c \in Callers : pc[c] = "waitOwn" => Live(ptr[c])

(* No block leaks: each is queued, or in the worker's hands, or awaited by a *)
(* creator that will free it, across every race of timeout and completion.   *)
NothingLeaks ==
  \A r \in Reqs : Live(r) =>
    \/ r \in Pending
    \/ r = rq
    \/ \E c \in Callers : pc[c] = "waitOwn" /\ ptr[c] = r

(* The worker never finds the gate closed: every fetch path, discovery       *)
(* included, clears g_nodedb_fetch_in_progress, as fetch_discover_once says. *)
GateFreeForWorker == wpc = "gate" => ~inProgress

(* A waiter that is told "done" gets data of a fetch that began after it     *)
(* asked: dedupe joins requests that are pending, never one in flight.       *)
FreshOnReturn ==
  \A c \in Callers :
    pc[c] \in {"waitOwn", "waitFound"} /\ heap[ptr[c]].done => fresh[c]

(* Every accepted request is served and its block given back, whoever of    *)
(* creator and worker comes to free it.                                     *)
AcceptedIsServed ==
  \A r \in Reqs : r \in Pending ~> (crashed \/ ~Live(r))

(* The queue keeps the promise of FetchDemand when it is never full: the    *)
(* kinds of the queued requests are the pending demand.                     *)
Kind(e) == [type |-> Type(e), force |-> Forced(e)]

Demand == INSTANCE FetchDemand
            WITH pending <- {Kind(heap[r].entry) : r \in Pending}

(* Safety and liveness of that promise; a step of the code is a step or a   *)
(* stutter of the demand.                                                   *)
MeetsDemand == Demand!DemandFairSpec

(* Statements of comments and docs that the code does not keep. *)

(* "otherwise the creator will free after being signaled": the creator may  *)
(* have done so before the worker reads rq->wait.                           *)
WorkerReleasesLive == wpc = "release" => Live(rq)

(* A deduplicated caller is to "wait on the existing request to complete":  *)
(* the request it waits on exists for as long as it waits.                  *)
AwaitedRequestExists ==
  \A c \in Callers : pc[c] = "waitFound" => Live(ptr[c])
=============================================================================
