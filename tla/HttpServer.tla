----------------------------- MODULE HttpServer -----------------------------
(***************************************************************************)
(* The plugin's HTTP server (httpd.c): the thread that accepts, the        *)
(* optional pool of workers with its task queue, the detached threads that *)
(* serve connections without a pool, the recycled conn_arg blocks, and     *)
(* starting and stopping it all from olsrd's main thread.                  *)
(*                                                                         *)
(* g_run is a plain variable that the main thread clears without a lock,   *)
(* so that the test of a condition and the wait for it are steps of their  *)
(* own here.                                                               *)
(***************************************************************************)
EXTENDS Naturals, Sequences, FiniteSets, Functions

CONSTANTS
  Configs,  \* the configurations to consider
  Pool,     \* the pool workers that are asked for
  Spare,    \* names for detached threads, one for each connection
  Conns,    \* connections that clients open, each once
  Args,     \* names for blocks of conn_arg_t, one for each connection
  None      \* no block, no connection, no thread

(* pool: OLSRD_STATUS_THREAD_POOL=1; fails: malloc and pthread_create may fail; *)
(* freeMax: g_conn_pool_max.                                                    *)
Config == [pool : BOOLEAN, fails : BOOLEAN, freeMax : Nat \ {0}]

Threads == Pool \cup Spare

ASSUME ConfigsAssumption == Configs \subseteq Config
ASSUME NamesAssumption ==
  /\ Pool \cap Spare = {}
  /\ Args \cap Threads = {}
  /\ None \notin Args \cup Conns \cup Threads
  /\ IsFiniteSet(Conns)

VARIABLES
  conf,      \* the configuration, which stays as it is
  run,       \* g_run
  listening, \* g_srv_fd is open
  conn,      \* state of each connection
  main,      \* where the main thread is in starting and stopping
  handlers,  \* the list g_handlers
  srv,       \* where server_thread is
  srvConn,   \* its local cfd
  srvArg,    \* its local ca
  pc,        \* where each pool worker and detached thread is
  arg,       \* a thread's ca, until it has returned it
  cfd,       \* the connection a thread serves
  holds,     \* cfd inside each conn_arg block
  free,      \* g_conn_pool, a stack of blocks
  tasks,     \* g_task_head .. g_task_tail
  lock       \* who holds g_task_lock between two steps, or None

srvVars    == <<srv, srvConn, srvArg>>
threadVars == <<pc, arg, cfd>>
argVars    == <<holds, free>>
queueVars  == <<tasks, lock>>
mainVars   == <<conf, run, listening, main, handlers>>
vars == <<mainVars, conn, srvVars, threadVars, argVars, queueVars>>

Busy == {"reading", "walking"}

TypeOK ==
  /\ conf \in Configs
  /\ run \in BOOLEAN
  /\ listening \in BOOLEAN
  /\ conn \in [Conns -> {"new", "backlog", "open", "closed", "refused"}]
  /\ main \in {"off", "workers", "launch", "register", "running", "failed",
               "stop", "wake", "joinServer", "wakeAgain", "joinWorkers",
               "free", "stopped"}
  /\ handlers \in {"none", "registered", "freed"}
  /\ srv \in {"none", "loop", "accept", "accepted", "dispatch", "exited"}
  /\ srvConn \in Conns \cup {None}
  /\ srvArg \in Args \cup {None}
  /\ srvArg # None <=> srv = "dispatch"
  /\ pc \in [Threads -> {"none", "loop", "pop", "sleepy", "waiting", "taken",
                         "exited"} \cup Busy]
  /\ arg \in [Threads -> Args \cup {None}]
  /\ cfd \in [Threads -> Conns \cup {None}]
  /\ \A t \in Threads : /\ arg[t] # None <=> pc[t] = "taken"
                        /\ cfd[t] # None <=> pc[t] \in Busy
  /\ holds \in [Args -> Conns \cup {None}]
  /\ free \in Seq(Args)
  /\ Len(free) <= conf.freeMax
  /\ tasks \in Seq(Args)
  /\ lock \in Pool \cup {None}

Init ==
  /\ conf \in Configs
  /\ run = FALSE
  /\ listening = FALSE
  /\ conn = [c \in Conns |-> "new"]
  /\ main = "off"
  /\ handlers = "none"
  /\ srv = "none"
  /\ srvConn = None
  /\ srvArg = None
  /\ pc = [t \in Threads |-> "none"]
  /\ arg = [t \in Threads |-> None]
  /\ cfd = [t \in Threads |-> None]
  /\ holds = [a \in Args |-> None]
  /\ free = <<>>
  /\ tasks = <<>>
  /\ lock = None

(* The workers that http_server_start managed to create. *)
Created == {w \in Pool : pc[w] # "none"}

(* server_thread hands connections to the pool when it has at least one worker. *)
Pooled == conf.pool /\ Created # {}

(* conn_arg_free: the block goes on the free list, or back to the heap. *)
Recycle(a) ==
  free' = IF Len(free) < conf.freeMax THEN <<a>> \o free ELSE free

(* The blocks that carry a connection: queued, or in a thread's hands. *)
InUse == (Range(tasks) \cup {srvArg} \cup {arg[t] : t \in Threads}) \ {None}

(* calloc returns a block that nobody uses. *)
Unused == Args \ (Range(free) \cup InUse)

-----------------------------------------------------------------------------
(***************************************************************************)
(* Clients                                                                 *)
(***************************************************************************)
Arrive(c) ==
  /\ conn[c] = "new"
  /\ listening
  /\ conn' = [conn EXCEPT ![c] = "backlog"]
  /\ UNCHANGED <<mainVars, srvVars, threadVars, argVars, queueVars>>

-----------------------------------------------------------------------------
(***************************************************************************)
(* http_server_start and the rest of olsrd_plugin_init, in the main thread *)
(***************************************************************************)
Listen ==
  /\ main = "off"
  /\ run' = TRUE
  /\ listening' = TRUE
  /\ main' = IF conf.pool THEN "workers" ELSE "launch"
  /\ UNCHANGED <<conf, handlers, conn, srvVars, threadVars, argVars, queueVars>>

CreateWorker(w) ==
  /\ main = "workers"
  /\ pc[w] = "none"
  /\ pc' = [pc EXCEPT ![w] = "loop"]
  /\ UNCHANGED <<mainVars, conn, srvVars, arg, cfd, argVars, queueVars>>

(* All workers exist, or one could not be created and the pool stays smaller. *)
PoolComplete ==
  /\ main = "workers"
  /\ Created = Pool \/ conf.fails
  /\ main' = "launch"
  /\ UNCHANGED <<conf, run, listening, handlers, conn, srvVars, threadVars, argVars,
                 queueVars>>

LaunchServer ==
  /\ main = "launch"
  /\ srv' = "loop"
  /\ main' = "register"
  /\ UNCHANGED <<conf, run, listening, handlers, conn, srvConn, srvArg, threadVars,
                 argVars, queueVars>>

(* Connections the kernel had not handed out are reset when the socket closes. *)
RefuseBacklog ==
  conn' = [c \in Conns |-> IF conn[c] = "backlog" THEN "refused" ELSE conn[c]]

(* Without an accept thread the start fails; the workers are left to themselves. *)
LaunchFails ==
  /\ main = "launch"
  /\ conf.fails
  /\ listening' = FALSE
  /\ run' = FALSE
  /\ main' = "failed"
  /\ RefuseBacklog
  /\ UNCHANGED <<conf, handlers, srvVars, threadVars, argVars, queueVars>>

(* The handlers are registered once the server runs. *)
RegisterHandlers ==
  /\ main = "register"
  /\ handlers' = "registered"
  /\ main' = "running"
  /\ UNCHANGED <<conf, run, listening, conn, srvVars, threadVars, argVars, queueVars>>

(***************************************************************************)
(* http_server_stop, in the main thread                                    *)
(***************************************************************************)
StopFlag ==
  /\ main = "running"
  /\ run' = FALSE
  /\ main' = "stop"
  /\ UNCHANGED <<conf, listening, handlers, conn, srvVars, threadVars, argVars,
                 queueVars>>

BadStopSocket ==
  /\ main = "stop"
  /\ main' = "wake"
  /\ UNCHANGED <<conf, run, listening, handlers, conn, srvVars, threadVars, argVars,
                 queueVars>>

StopSocket ==
  /\ main = "stop"
  /\ listening' = FALSE
  /\ main' = "wake"
  /\ RefuseBacklog
  /\ UNCHANGED <<conf, run, handlers, srvVars, threadVars, argVars, queueVars>>

(* pthread_cond_broadcast without g_task_lock: it reaches who waits by now. *)
Broadcast ==
  pc' = [t \in Threads |-> IF pc[t] = "waiting" THEN "pop" ELSE pc[t]]

StopWake ==
  /\ main = "wake"
  /\ Broadcast
  /\ main' = "joinServer"
  /\ UNCHANGED <<conf, run, listening, handlers, conn, srvVars, arg, cfd, argVars,
                 queueVars>>

JoinServer ==
  /\ main = "joinServer"
  /\ srv = "exited"
  /\ main' = IF conf.pool THEN "wakeAgain" ELSE "free"
  /\ UNCHANGED <<conf, run, listening, handlers, conn, srvVars, threadVars, argVars,
                 queueVars>>

StopWakeAgain ==
  /\ main = "wakeAgain"
  /\ Broadcast
  /\ main' = "joinWorkers"
  /\ UNCHANGED <<conf, run, listening, handlers, conn, srvVars, arg, cfd, argVars,
                 queueVars>>

BadJoinWorkers ==
  /\ main = "joinWorkers"
  /\ Cardinality({w \in Created : pc[w] # "exited"}) <= 1
  /\ main' = "free"
  /\ UNCHANGED <<conf, run, listening, handlers, conn, srvVars, threadVars, argVars,
                 queueVars>>

JoinWorkers ==
  /\ main = "joinWorkers"
  /\ \A w \in Created : pc[w] = "exited"
  /\ main' = "free"
  /\ UNCHANGED <<conf, run, listening, handlers, conn, srvVars, threadVars, argVars,
                 queueVars>>

FreeHandlers ==
  /\ main = "free"
  /\ handlers' = "freed"
  /\ main' = "stopped"
  /\ UNCHANGED <<conf, run, listening, conn, srvVars, threadVars, argVars, queueVars>>

-----------------------------------------------------------------------------
(***************************************************************************)
(* server_thread                                                           *)
(***************************************************************************)
ServerLoops ==
  /\ srv = "loop"
  /\ srv' = IF run THEN "accept" ELSE "exited"
  /\ UNCHANGED <<mainVars, conn, srvConn, srvArg, threadVars, argVars,
                 queueVars>>

Accept(c) ==
  /\ srv = "accept"
  /\ conn[c] = "backlog"
  /\ conn' = [conn EXCEPT ![c] = "open"]
  /\ srvConn' = c
  /\ srv' = "accepted"
  /\ UNCHANGED <<mainVars, srvArg, threadVars, argVars, queueVars>>

(* accept fails for another reason than a stop. *)
AcceptErrs ==
  /\ srv = "accept"
  /\ listening
  /\ srv' = "loop"
  /\ UNCHANGED <<mainVars, conn, srvConn, srvArg, threadVars, argVars,
                 queueVars>>

AcceptEnds ==
  /\ srv = "accept"
  /\ ~listening
  /\ srv' = IF run THEN "loop" ELSE "exited"
  /\ UNCHANGED <<mainVars, conn, srvConn, srvArg, threadVars, argVars,
                 queueVars>>

(* conn_arg_alloc: a recycled block if there is one, otherwise a new one. *)
AllocArg ==
  /\ srv = "accepted"
  /\ \E a \in Args :
       /\ IF free # <<>> THEN a = Head(free) /\ free' = Tail(free)
                         ELSE a \in Unused /\ UNCHANGED free
       /\ srvArg' = a
       /\ holds' = [holds EXCEPT ![a] = srvConn]
  /\ srv' = "dispatch"
  /\ UNCHANGED <<mainVars, conn, srvConn, threadVars, queueVars>>

(* No memory: the connection is closed at once. *)
AllocFails ==
  /\ srv = "accepted"
  /\ conf.fails
  /\ free = <<>>
  /\ conn' = [conn EXCEPT ![srvConn] = "closed"]
  /\ srvConn' = None
  /\ srv' = "loop"
  /\ UNCHANGED <<mainVars, srvArg, threadVars, argVars, queueVars>>

(* The connection is out of the accept thread's hands. *)
Dispatched == srv' = "loop" /\ srvConn' = None /\ srvArg' = None

BadPush ==
  /\ srv = "dispatch"
  /\ Pooled
  /\ lock = None
  /\ tasks' = Append(tasks, srvArg)
  /\ Dispatched
  /\ UNCHANGED <<mainVars, conn, threadVars, argVars, lock>>

(* task_queue_push: append under g_task_lock and wake one waiting worker. *)
Push ==
  /\ srv = "dispatch"
  /\ Pooled
  /\ lock = None
  /\ tasks' = Append(tasks, srvArg)
  /\ IF \E w \in Pool : pc[w] = "waiting"
     THEN \E w \in Pool : /\ pc[w] = "waiting"
                          /\ pc' = [pc EXCEPT ![w] = "pop"]
     ELSE UNCHANGED pc
  /\ Dispatched
  /\ UNCHANGED <<mainVars, conn, arg, cfd, argVars, lock>>

(* A detached thread per connection: without a pool, or when there is no    *)
(* memory for a task.                                                       *)
Spawn(t) ==
  /\ srv = "dispatch"
  /\ Pooled => conf.fails
  /\ pc[t] = "none"
  /\ pc' = [pc EXCEPT ![t] = "taken"]
  /\ arg' = [arg EXCEPT ![t] = srvArg]
  /\ Dispatched
  /\ UNCHANGED <<mainVars, conn, cfd, argVars, queueVars>>

(* The thread cannot be created: the block is returned, the socket closed. *)
SpawnFails ==
  /\ srv = "dispatch"
  /\ conf.fails
  /\ Pooled => Len(free) < conf.freeMax
  /\ Recycle(srvArg)
  /\ conn' = [conn EXCEPT ![srvConn] = "closed"]
  /\ Dispatched
  /\ UNCHANGED <<mainVars, threadVars, holds, queueVars>>

(* In task_queue_push this reads ca->cfd after the block went back to the *)
(* heap: what is closed is the connection, another one, or nothing.        *)
SpawnFailsFreed ==
  /\ srv = "dispatch"
  /\ conf.fails
  /\ Pooled
  /\ Len(free) = conf.freeMax
  /\ \/ \E c \in Conns : /\ conn[c] = "open"
                        /\ conn' = [conn EXCEPT ![c] = "closed"]
     \/ UNCHANGED conn
  /\ Dispatched
  /\ UNCHANGED <<mainVars, threadVars, argVars, queueVars>>

-----------------------------------------------------------------------------
(***************************************************************************)
(* pool_worker and task_queue_pop                                          *)
(***************************************************************************)
WorkerLoops(w) ==
  /\ pc[w] = "loop"
  /\ pc' = [pc EXCEPT ![w] = IF run THEN "pop" ELSE "exited"]
  /\ UNCHANGED <<mainVars, conn, srvVars, arg, cfd, argVars, queueVars>>

(* Under g_task_lock: nothing to do and no stop yet, so it is going to wait. *)
FindNothing(w) ==
  /\ pc[w] = "pop"
  /\ lock = None
  /\ run /\ tasks = <<>>
  /\ lock' = w
  /\ pc' = [pc EXCEPT ![w] = "sleepy"]
  /\ UNCHANGED <<mainVars, conn, srvVars, arg, cfd, argVars, tasks>>

(* pthread_cond_wait: it gives up the lock and waits in one step. *)
Sleep(w) ==
  /\ pc[w] = "sleepy"
  /\ lock' = None
  /\ pc' = [pc EXCEPT ![w] = "waiting"]
  /\ UNCHANGED <<mainVars, conn, srvVars, arg, cfd, argVars, tasks>>

FindStopped(w) ==
  /\ pc[w] = "pop"
  /\ lock = None
  /\ ~run /\ tasks = <<>>
  /\ pc' = [pc EXCEPT ![w] = "exited"]
  /\ UNCHANGED <<mainVars, conn, srvVars, arg, cfd, argVars, queueVars>>

BadPop(w) ==
  /\ pc[w] = "pop"
  /\ lock = None
  /\ tasks # <<>>
  /\ tasks' = Tail(tasks)
  /\ arg' = [arg EXCEPT ![w] = IF run THEN Head(tasks) ELSE None]
  /\ pc' = [pc EXCEPT ![w] = IF run THEN "taken" ELSE "exited"]
  /\ UNCHANGED <<mainVars, conn, srvVars, cfd, argVars, lock>>

(* A task is taken even when a stop has begun. *)
Pop(w) ==
  /\ pc[w] = "pop"
  /\ lock = None
  /\ tasks # <<>>
  /\ tasks' = Tail(tasks)
  /\ arg' = [arg EXCEPT ![w] = Head(tasks)]
  /\ pc' = [pc EXCEPT ![w] = "taken"]
  /\ UNCHANGED <<mainVars, conn, srvVars, cfd, argVars, lock>>

(***************************************************************************)
(* connection_worker, in a pool worker or in a detached thread             *)
(***************************************************************************)
BadBegin(t) ==
  /\ pc[t] = "taken"
  /\ cfd' = [cfd EXCEPT ![t] = holds[arg[t]]]
  /\ free' = IF Len(free) + 1 < conf.freeMax
             THEN <<arg[t], arg[t]>> \o free ELSE free
  /\ arg' = [arg EXCEPT ![t] = None]
  /\ pc' = [pc EXCEPT ![t] = "reading"]
  /\ UNCHANGED <<mainVars, conn, srvVars, holds, queueVars>>

BadBeginKeeps(t) ==
  /\ pc[t] = "taken"
  /\ cfd' = [cfd EXCEPT ![t] = holds[arg[t]]]
  /\ Recycle(arg[t])
  /\ pc' = [pc EXCEPT ![t] = "reading"]
  /\ UNCHANGED <<mainVars, conn, srvVars, arg, holds, queueVars>>

(* It copies what it needs and returns the block for reuse at once. *)
Begin(t) ==
  /\ pc[t] = "taken"
  /\ cfd' = [cfd EXCEPT ![t] = holds[arg[t]]]
  /\ Recycle(arg[t])
  /\ arg' = [arg EXCEPT ![t] = None]
  /\ pc' = [pc EXCEPT ![t] = "reading"]
  /\ UNCHANGED <<mainVars, conn, srvVars, holds, queueVars>>

(* The request is to be dispatched: it goes through the list of handlers. *)
Walk(t) ==
  /\ pc[t] = "reading"
  /\ pc' = [pc EXCEPT ![t] = "walking"]
  /\ UNCHANGED <<mainVars, conn, srvVars, arg, cfd, argVars, queueVars>>

(* Answered, or turned away before the dispatch: the connection is closed;  *)
(* a pool worker looks for the next, a detached thread ends.                *)
Close(t) ==
  /\ pc[t] \in Busy
  /\ conn' = [conn EXCEPT ![cfd[t]] = "closed"]
  /\ cfd' = [cfd EXCEPT ![t] = None]
  /\ pc' = [pc EXCEPT ![t] = IF t \in Pool THEN "loop" ELSE "exited"]
  /\ UNCHANGED <<mainVars, srvVars, arg, argVars, queueVars>>

-----------------------------------------------------------------------------
StartStep == \/ Listen
             \/ \E w \in Pool : CreateWorker(w)
             \/ PoolComplete
             \/ LaunchServer
             \/ LaunchFails
             \/ RegisterHandlers

StopStep == \/ StopSocket
            \/ StopWake
            \/ JoinServer
            \/ StopWakeAgain
            \/ JoinWorkers
            \/ FreeHandlers

ServerStep == \/ ServerLoops
              \/ \E c \in Conns : Accept(c)
              \/ AcceptEnds
              \/ AllocArg
              \/ AllocFails
              \/ Push
              \/ \E t \in Spare : Spawn(t)
              \/ SpawnFails
              \/ SpawnFailsFreed

WorkerStep(w) == \/ WorkerLoops(w)
                 \/ FindNothing(w)
                 \/ Sleep(w)
                 \/ FindStopped(w)
                 \/ Pop(w)

ConnectionStep(t) == Begin(t) \/ Walk(t) \/ Close(t)

(* The server ends when the main thread has stopped it and all is quiet. *)
Terminating ==
  /\ main \in {"stopped", "failed"}
  /\ UNCHANGED vars

Next == \/ \E c \in Conns : Arrive(c)
        \/ StartStep
        \/ StopFlag
        \/ StopStep
        \/ ServerStep
        \/ AcceptErrs
        \/ \E w \in Pool : WorkerStep(w)
        \/ \E t \in Threads : ConnectionStep(t)
        \/ Terminating

Spec == Init /\ [][Next]_vars

(* Every thread goes on: connections have receive and send timeouts, accept *)
(* returns a connection that is there and fails once the socket is shut     *)
(* down.  Nothing makes a client connect, olsrd stop, or accept fail.       *)
Fairness ==
  /\ WF_vars(StartStep)
  /\ WF_vars(StopStep)
  /\ WF_vars(ServerStep)
  /\ \A w \in Pool : WF_vars(WorkerStep(w))
  /\ \A t \in Threads : WF_vars(ConnectionStep(t))

FairSpec == Spec /\ Fairness

-----------------------------------------------------------------------------
(***************************************************************************)
(* Properties                                                              *)
(***************************************************************************)

(* The keeper k is responsible for the connection c: None is the accept thread *)
(* before it has a block, otherwise a block or a thread that serves.           *)
Keeps(k, c) ==
  \/ k = None /\ srv = "accepted" /\ srvConn = c
  \/ k \in InUse /\ holds[k] = c
  \/ k \in Threads /\ cfd[k] = c

(* task_queue_push does not touch a block after it has given it back. *)
NoUseAfterFree ==
  conf.pool /\ conf.fails => Cardinality(Conns) <= conf.freeMax

(* Each open connection has exactly one keeper, who will close it, and no    *)
(* other has one: none is served twice, closed twice or forgotten, while     *)
(* blocks are recycled under the feet of the threads that serve.             *)
OneKeeper ==
  NoUseAfterFree =>
    \A c \in Conns :
      /\ conn[c] = "open" <=> \E k \in Args \cup Threads \cup {None} : Keeps(k, c)
      /\ \A k, l \in Args \cup Threads \cup {None} :
           Keeps(k, c) /\ Keeps(l, c) => k = l

(* A conn_arg block is on the free list once, or in use once.                *)
BlocksNotShared ==
  /\ IsInjective(free)
  /\ IsInjective(tasks)
  /\ Range(free) \cap InUse = {}
  /\ srvArg \notin Range(tasks)
  /\ \A t \in Threads : arg[t] # None =>
       /\ arg[t] \notin Range(tasks) \cup {srvArg}
       /\ \A u \in Threads : arg[u] = arg[t] => u = t

(* http_server_stop frees the handlers only after it has joined every worker: *)
(* no pool worker goes through a freed list.                                  *)
HandlersOutlivePool ==
  handlers = "freed" => \A w \in Pool : pc[w] # "walking"

(* While the server runs every accepted connection is closed in the end, by  *)
(* an answer or otherwise: no wakeup of a worker is lost.                    *)
AcceptedIsClosed ==
  \A c \in Conns : conn[c] = "open" /\ NoUseAfterFree ~> (conn[c] = "closed" \/ ~run)

(* Without a pool http_server_stop returns: accept is torn out of its wait.  *)
StopReturnsUnpooled == main = "stop" /\ ~conf.pool ~> main = "stopped"

(* http_server_stop is to "wake workers and join them", and so to return.    *)
StopReturns == main = "stop" ~> main = "stopped"
=============================================================================
