-------------------------- MODULE HttpServerProofs --------------------------
(***************************************************************************)
(* Proofs about HttpServer, for any number of workers, threads,            *)
(* connections and blocks and any set of configurations.                   *)
(***************************************************************************)
EXTENDS HttpServer, FiniteSetTheorems, TLAPS

USE ConfigsAssumption, NamesAssumption

(* A stack or queue of distinct elements, and what its ends do to it. *)
LEMMA AddFirst ==
  ASSUME NEW S, NEW s \in Seq(S), NEW a \in S
  PROVE  /\ <<a>> \o s \in Seq(S)
         /\ Len(<<a>> \o s) = Len(s) + 1
         /\ Range(<<a>> \o s) = Range(s) \cup {a}
         /\ IsInjective(s) /\ a \notin Range(s) => IsInjective(<<a>> \o s)
<1> DEFINE t == <<a>> \o s
<1>1. t \in Seq(S) /\ Len(t) = Len(s) + 1
  OBVIOUS
<1>2. t[1] = a /\ \A i \in 1..Len(s) : t[i + 1] = s[i]
  OBVIOUS
<1> HIDE DEF t
<1>3. \A i \in 1..Len(t) : i = 1 \/ i - 1 \in 1..Len(s)
  BY <1>1
<1>4. Range(t) = Range(s) \cup {a}
  <2>1. \A i \in 1..Len(t) : t[i] \in Range(s) \cup {a}
    <3> TAKE i \in 1..Len(t)
    <3>1. CASE i = 1
      BY <3>1, <1>2
    <3>2. CASE i # 1
      <4>1. i - 1 \in 1..Len(s)
        BY <3>2, <1>3
      <4>2. t[i] = s[i - 1]
        BY <4>1, <1>2
      <4> QED BY <4>1, <4>2 DEF Range
    <3> QED BY <3>1, <3>2
  <2>2. \A i \in 1..Len(s) : s[i] \in Range(t)
    BY <1>1, <1>2 DEF Range
  <2>3. a \in Range(t)
    BY <1>1, <1>2 DEF Range
  <2> QED BY <1>1, <2>1, <2>2, <2>3 DEF Range
<1>5. ASSUME IsInjective(s), a \notin Range(s) PROVE IsInjective(t)
  <2> SUFFICES ASSUME NEW i \in 1..Len(t), NEW j \in 1..Len(t), t[i] = t[j]
               PROVE  i = j
    BY <1>1 DEF IsInjective
  <2>1. \A k \in 1..Len(t) : k # 1 => k - 1 \in 1..Len(s) /\ t[k] = s[k - 1]
    BY <1>2, <1>3
  <2>2. \A k \in 1..Len(t) : k # 1 => t[k] # a
    BY <2>1, <1>5 DEF Range
  <2>3. CASE i = 1 \/ j = 1
    BY <2>2, <2>3, <1>2
  <2>4. CASE i # 1 /\ j # 1
    <3>1. s[i - 1] = s[j - 1] /\ i - 1 \in DOMAIN s /\ j - 1 \in DOMAIN s
      BY <2>1, <2>4
    <3>2. i - 1 = j - 1
      BY <3>1, <1>5 DEF IsInjective
    <3> QED BY <3>2
  <2> QED BY <2>3, <2>4
<1> QED BY <1>1, <1>4, <1>5 DEF t

LEMMA AddLast ==
  ASSUME NEW S, NEW s \in Seq(S), NEW a \in S
  PROVE  /\ Append(s, a) \in Seq(S)
         /\ Range(Append(s, a)) = Range(s) \cup {a}
         /\ IsInjective(s) /\ a \notin Range(s) => IsInjective(Append(s, a))
<1> DEFINE t == Append(s, a)
<1>1. t \in Seq(S) /\ Len(t) = Len(s) + 1
  OBVIOUS
<1>2. t[Len(t)] = a /\ \A i \in 1..Len(s) : t[i] = s[i]
  OBVIOUS
<1> HIDE DEF t
<1>3. \A i \in 1..Len(t) : i = Len(t) \/ i \in 1..Len(s)
  BY <1>1
<1>4. Range(t) = Range(s) \cup {a}
  BY <1>1, <1>2, <1>3 DEF Range
<1>5. ASSUME IsInjective(s), a \notin Range(s) PROVE IsInjective(t)
  BY <1>1, <1>2, <1>3, <1>5 DEF IsInjective, Range
<1> QED BY <1>1, <1>4, <1>5 DEF t

LEMMA TakeFirst ==
  ASSUME NEW S, NEW s \in Seq(S), s # <<>>
  PROVE  /\ Tail(s) \in Seq(S)
         /\ Head(s) \in S
         /\ Len(Tail(s)) <= Len(s)
         /\ Range(s) = Range(Tail(s)) \cup {Head(s)}
         /\ IsInjective(s) => /\ IsInjective(Tail(s))
                              /\ Head(s) \notin Range(Tail(s))
<1> DEFINE t == Tail(s)
<1>1. t \in Seq(S) /\ Head(s) \in S /\ Head(s) = s[1] /\ Len(t) = Len(s) - 1
  OBVIOUS
<1>2. \A i \in 1..Len(t) : t[i] = s[i + 1] /\ i + 1 \in 1..Len(s)
  OBVIOUS
<1>4. 1 \in 1..Len(s)
  OBVIOUS
<1> HIDE DEF t
<1>3. \A i \in 1..Len(s) : i # 1 => i - 1 \in 1..Len(t) /\ s[i] = t[i - 1]
  BY <1>1, <1>2
<1>5. Range(s) = Range(t) \cup {Head(s)}
  <2>1. \A i \in 1..Len(s) : s[i] \in Range(t) \cup {s[1]}
    BY <1>1, <1>3 DEF Range
  <2>2. \A i \in 1..Len(t) : t[i] \in Range(s)
    BY <1>1, <1>2 DEF Range
  <2> QED BY <1>1, <1>4, <2>1, <2>2 DEF Range
<1>6. ASSUME IsInjective(s) PROVE IsInjective(t) /\ Head(s) \notin Range(t)
  <2>1. ASSUME NEW i \in 1..Len(t), NEW j \in 1..Len(t), t[i] = t[j]
        PROVE  i = j
    <3>1. i + 1 = j + 1
      BY <2>1, <1>2, <1>6 DEF IsInjective
    <3> QED BY <3>1
  <2>2. ASSUME NEW i \in 1..Len(t), t[i] = s[1] PROVE FALSE
    <3>1. i + 1 = 1
      BY <2>2, <1>2, <1>4, <1>6 DEF IsInjective
    <3> QED BY <3>1
  <2> QED BY <1>1, <2>1, <2>2 DEF IsInjective, Range
<1> QED BY <1>1, <1>5, <1>6 DEF t

-----------------------------------------------------------------------------
(* Which connection is where: the accept thread has one exactly while it      *)
(* deals with it; a block in use or recycled carries a connection that was    *)
(* accepted, each block another one.                                          *)
ConnsOwned ==
  /\ srvConn # None <=> srv \in {"accepted", "dispatch"}
  /\ srvArg # None => holds[srvArg] = srvConn
  /\ \A a \in InUse \cup Range(free) : holds[a] # None
  /\ srvConn # None => conn[srvConn] \in {"open", "closed"}
  /\ \A a \in Args : holds[a] # None => conn[holds[a]] \in {"open", "closed"}
  /\ \A a, b \in Args : holds[a] = holds[b] /\ holds[a] # None => a = b
  /\ srv = "accepted" => \A a \in Args : holds[a] # srvConn

(* What the main thread's progress says of the others: no accept thread before *)
(* it is launched, no pool worker without a pool or after the join.            *)
Phases ==
  /\ main \in {"off", "workers", "launch"} => srv = "none"
  /\ main = "workers" => conf.pool
  /\ ~conf.pool => \A w \in Pool : pc[w] = "none"
  /\ main \in {"free", "stopped"} => \A w \in Pool : pc[w] \in {"none", "exited"}
  /\ handlers = "freed" => main = "stopped"

IInv == TypeOK /\ BlocksNotShared /\ ConnsOwned /\ Phases

LEMMA InUseBlocks ==
  ASSUME TypeOK
  PROVE  InUse \subseteq Args /\ Range(tasks) \subseteq Args /\ Range(free) \subseteq Args
BY DEF TypeOK, InUse, Range

LEMMA ThreadHolds ==
  ASSUME TypeOK, NEW t \in Threads, pc[t] = "taken"
  PROVE  arg[t] \in Args /\ arg[t] \in InUse /\ arg[t] # None
BY DEF TypeOK, InUse

(* The two outcomes of conn_arg_free. *)
LEMMA RecycleEffect ==
  ASSUME TypeOK, NEW a \in Args, Recycle(a), conf' = conf
  PROVE  /\ free' \in Seq(Args)
         /\ Len(free') <= conf'.freeMax
         /\ Range(free') \subseteq Range(free) \cup {a}
         /\ IsInjective(free) /\ a \notin Range(free) => IsInjective(free')
<1>1. free \in Seq(Args) /\ conf.freeMax \in Nat /\ Len(free) <= conf.freeMax
  BY DEF TypeOK, Config
<1>2. CASE Len(free) < conf.freeMax
  <2>1. free' = <<a>> \o free
    BY <1>2 DEF Recycle
  <2>2. Len(free) + 1 <= conf.freeMax
    BY <1>1, <1>2
  <2> QED BY <1>1, <2>1, <2>2, AddFirst
<1>3. CASE ~(Len(free) < conf.freeMax)
  BY <1>1, <1>3 DEF Recycle
<1> QED BY <1>2, <1>3

-----------------------------------------------------------------------------
(* How blocks move. *)
LEMMA BlocksStay ==
  ASSUME BlocksNotShared, UNCHANGED <<free, tasks, srvArg, arg>>
  PROVE  BlocksNotShared' /\ InUse' = InUse
BY DEF BlocksNotShared, InUse, IsInjective, Range

LEMMA AllocMoves ==
  ASSUME TypeOK, BlocksNotShared, AllocArg
  PROVE  /\ BlocksNotShared'
         /\ free' \in Seq(Args) /\ Len(free') <= Len(free)
         /\ Range(free') \subseteq Range(free)
         /\ srvArg' \in Args /\ srvArg' \notin InUse
         /\ InUse' = InUse \cup {srvArg'}
         /\ holds' = [holds EXCEPT ![srvArg'] = srvConn]
<1>1. srvArg = None
  BY DEF AllocArg, TypeOK
<1>2. PICK a \in Args :
        /\ IF free # <<>> THEN a = Head(free) /\ free' = Tail(free)
                          ELSE a \in Unused /\ UNCHANGED free
        /\ srvArg' = a
        /\ holds' = [holds EXCEPT ![a] = srvConn]
  BY DEF AllocArg
<1>3. tasks' = tasks /\ arg' = arg
  BY DEF AllocArg, threadVars, queueVars
<1>4. free \in Seq(Args) /\ IsInjective(free) /\ Range(free) \cap InUse = {}
  BY DEF TypeOK, BlocksNotShared
<1>5. /\ free' \in Seq(Args) /\ Len(free') <= Len(free)
      /\ Range(free') \subseteq Range(free)
      /\ IsInjective(free') /\ a \notin Range(free') /\ a \notin InUse
  <2>1. CASE free # <<>>
    <3>1. a = Head(free) /\ free' = Tail(free)
      BY <2>1, <1>2
    <3>2. /\ Tail(free) \in Seq(Args) /\ Len(Tail(free)) <= Len(free)
          /\ Range(free) = Range(Tail(free)) \cup {Head(free)}
          /\ IsInjective(Tail(free)) /\ Head(free) \notin Range(Tail(free))
      BY <2>1, <1>4, TakeFirst
    <3>3. a \in Range(free)
      BY <3>1, <3>2
    <3> QED BY <3>1, <3>2, <3>3, <1>4
  <2>2. CASE free = <<>>
    <3>1. a \in Unused /\ free' = free
      BY <2>2, <1>2
    <3> QED BY <3>1, <1>4 DEF Unused
  <2> QED BY <2>1, <2>2
<1>6. a # None
  OBVIOUS
<1>7. InUse' = InUse \cup {a}
  BY <1>1, <1>2, <1>3, <1>6 DEF InUse
<1>8. a \notin Range(tasks) /\ \A t \in Threads : arg[t] # a
  BY <1>5, <1>6 DEF InUse
<1>9. BlocksNotShared'
  <2>1. IsInjective(tasks)' /\ Range(tasks)' = Range(tasks)
    BY <1>3 DEF BlocksNotShared
  <2>2. (Range(free) \cap InUse = {})'
    BY <1>4, <1>5, <1>7
  <2>3. (srvArg \notin Range(tasks))'
    BY <1>2, <1>8, <2>1
  <2>4. \A t \in Threads : arg'[t] # None =>
          /\ arg'[t] \notin Range(tasks') \cup {srvArg'}
          /\ \A u \in Threads : arg'[u] = arg'[t] => u = t
    BY <1>2, <1>3, <1>8 DEF BlocksNotShared
  <2> QED BY <1>5, <2>1, <2>2, <2>3, <2>4 DEF BlocksNotShared
<1> QED BY <1>2, <1>5, <1>7, <1>9

LEMMA PushMoves ==
  ASSUME TypeOK, BlocksNotShared, Push
  PROVE  BlocksNotShared' /\ InUse' = InUse /\ tasks' \in Seq(Args)
<1>1. /\ srvArg \in Args /\ srvArg' = None /\ tasks' = Append(tasks, srvArg)
      /\ arg' = arg /\ free' = free /\ tasks \in Seq(Args) /\ srvArg # None
  BY DEF Push, TypeOK, Dispatched, argVars
<1>2. /\ IsInjective(tasks) /\ srvArg \notin Range(tasks)
  BY DEF BlocksNotShared
<1>3. /\ tasks' \in Seq(Args) /\ Range(tasks') = Range(tasks) \cup {srvArg}
      /\ IsInjective(tasks')
  BY <1>1, <1>2, AddLast
<1>4. InUse' = InUse
  BY <1>1, <1>3 DEF InUse
<1>5. None \notin Range(tasks')
  BY <1>1, <1>3, InUseBlocks
<1>6. BlocksNotShared'
  <2>1. (Range(free) \cap InUse = {})' /\ IsInjective(free)'
    BY <1>1, <1>4 DEF BlocksNotShared
  <2>2. \A t \in Threads : arg'[t] # None =>
          /\ arg'[t] \notin Range(tasks') \cup {srvArg'}
          /\ \A u \in Threads : arg'[u] = arg'[t] => u = t
    BY <1>1, <1>3 DEF BlocksNotShared
  <2> QED BY <1>1, <1>3, <1>5, <2>1, <2>2 DEF BlocksNotShared
<1> QED BY <1>3, <1>4, <1>6

LEMMA SpawnMoves ==
  ASSUME TypeOK, BlocksNotShared, NEW t \in Spare, Spawn(t)
  PROVE  BlocksNotShared' /\ InUse' = InUse
<1>1. /\ srvArg \in Args /\ srvArg # None /\ srvArg' = None
      /\ t \in Threads /\ arg[t] = None /\ arg' = [arg EXCEPT ![t] = srvArg]
      /\ free' = free /\ tasks' = tasks
  BY DEF Spawn, TypeOK, Dispatched, argVars, queueVars, Threads
<1>2. arg' \in [Threads -> Args \cup {None}] /\ arg'[t] = srvArg
         /\ \A u \in Threads : u # t => arg'[u] = arg[u]
  BY <1>1 DEF TypeOK
<1>3. {arg'[u] : u \in Threads} \cup {None}
        = {arg[u] : u \in Threads} \cup {srvArg, None}
  BY <1>1, <1>2
<1>4. InUse' = InUse
  BY <1>1, <1>3 DEF InUse
<1>5. None \notin Range(tasks)
  BY InUseBlocks
<1>6. (Range(free) \cap InUse = {})' /\ IsInjective(free)' /\ IsInjective(tasks)'
  BY <1>1, <1>4 DEF BlocksNotShared
<1>7. \A u \in Threads : arg'[u] # None =>
        /\ arg'[u] \notin Range(tasks') \cup {srvArg'}
        /\ \A v \in Threads : arg'[v] = arg'[u] => v = u
  BY <1>1, <1>2 DEF BlocksNotShared
<1> QED BY <1>1, <1>4, <1>5, <1>6, <1>7 DEF BlocksNotShared

LEMMA PopMoves ==
  ASSUME TypeOK, BlocksNotShared, NEW w \in Pool, Pop(w)
  PROVE  BlocksNotShared' /\ InUse' = InUse /\ tasks' \in Seq(Args)
         /\ Head(tasks) \in Args
<1>1. /\ w \in Threads /\ arg[w] = None /\ arg' = [arg EXCEPT ![w] = Head(tasks)]
      /\ tasks \in Seq(Args) /\ tasks # <<>> /\ tasks' = Tail(tasks)
      /\ free' = free /\ srvArg' = srvArg
  BY DEF Pop, TypeOK, argVars, srvVars, Threads
<1>2. IsInjective(tasks)
  BY DEF BlocksNotShared
<1>3. /\ tasks' \in Seq(Args) /\ Head(tasks) \in Args
      /\ Range(tasks) = Range(tasks') \cup {Head(tasks)}
      /\ IsInjective(tasks') /\ Head(tasks) \notin Range(tasks')
  BY <1>1, <1>2, TakeFirst
<1> DEFINE h == Head(tasks)
<1>4. h # None /\ h \in Range(tasks) /\ h \in Args
  BY <1>3
<1> HIDE DEF h
<1>5. arg' \in [Threads -> Args \cup {None}] /\ arg'[w] = h
         /\ \A u \in Threads : u # w => arg'[u] = arg[u]
  BY <1>1, <1>4 DEF TypeOK, h
<1>6. {arg'[u] : u \in Threads} \cup {None}
        = {arg[u] : u \in Threads} \cup {h, None}
  BY <1>1, <1>5
<1>7. Range(tasks) = Range(tasks') \cup {h} /\ h \notin Range(tasks')
  BY <1>3 DEF h
<1>8. InUse' = InUse
  BY <1>1, <1>6, <1>7 DEF InUse
<1>9. (Range(free) \cap InUse = {})' /\ IsInjective(free)'
  BY <1>1, <1>8 DEF BlocksNotShared
<1>10. \A u \in Threads : arg'[u] # None =>
        /\ arg'[u] \notin Range(tasks') \cup {srvArg'}
        /\ \A v \in Threads : arg'[v] = arg'[u] => v = u
  BY <1>1, <1>4, <1>5, <1>7 DEF BlocksNotShared
<1>11. (srvArg \notin Range(tasks))'
  BY <1>1, <1>7 DEF BlocksNotShared
<1> QED BY <1>3, <1>8, <1>9, <1>10, <1>11 DEF BlocksNotShared

LEMMA BeginMoves ==
  ASSUME TypeOK, BlocksNotShared, NEW t \in Threads, Begin(t)
  PROVE  /\ BlocksNotShared' /\ InUse' = InUse \ {arg[t]}
         /\ free' \in Seq(Args) /\ Len(free') <= conf'.freeMax
         /\ Range(free') \subseteq Range(free) \cup {arg[t]}
<1>1. /\ arg[t] \in Args /\ arg[t] \in InUse /\ arg[t] # None
  BY ThreadHolds DEF Begin
<1>2. /\ arg' = [arg EXCEPT ![t] = None] /\ Recycle(arg[t])
      /\ tasks' = tasks /\ srvArg' = srvArg /\ conf' = conf
  BY DEF Begin, queueVars, srvVars, mainVars
<1>3. arg[t] \notin Range(free) /\ IsInjective(free)
  BY <1>1 DEF BlocksNotShared
<1>4. /\ free' \in Seq(Args) /\ Len(free') <= conf'.freeMax
      /\ Range(free') \subseteq Range(free) \cup {arg[t]}
      /\ IsInjective(free')
  BY <1>1, <1>2, <1>3, RecycleEffect
<1>5. arg'[t] = None /\ \A u \in Threads : u # t => arg'[u] = arg[u]
  BY <1>2 DEF TypeOK
<1>6. /\ arg[t] \notin Range(tasks) \cup {srvArg}
      /\ \A u \in Threads : u # t => arg[u] # arg[t]
  BY <1>1 DEF BlocksNotShared
<1>7. {arg'[u] : u \in Threads} \ {None} = {arg[u] : u \in Threads} \ {None, arg[t]}
  BY <1>5, <1>6
<1>8. InUse' = InUse \ {arg[t]}
  BY <1>2, <1>6, <1>7 DEF InUse
<1>9. (Range(free) \cap InUse = {})'
  BY <1>4, <1>8 DEF BlocksNotShared
<1>10. \A u \in Threads : arg'[u] # None =>
        /\ arg'[u] \notin Range(tasks') \cup {srvArg'}
        /\ \A v \in Threads : arg'[v] = arg'[u] => v = u
  BY <1>2, <1>5 DEF BlocksNotShared
<1>11. (srvArg \notin Range(tasks))' /\ IsInjective(tasks)'
  BY <1>2 DEF BlocksNotShared
<1> QED BY <1>4, <1>8, <1>9, <1>10, <1>11 DEF BlocksNotShared

LEMMA SpawnFailsMoves ==
  ASSUME TypeOK, BlocksNotShared, SpawnFails \/ SpawnFailsFreed
  PROVE  /\ BlocksNotShared' /\ InUse' = InUse \ {srvArg}
         /\ free' \in Seq(Args) /\ Len(free') <= conf'.freeMax
         /\ Range(free') \subseteq Range(free) \cup {srvArg}
<1>1. srvArg \in Args /\ srvArg \in InUse /\ srvArg # None
  BY DEF TypeOK, InUse, SpawnFails, SpawnFailsFreed
<1>2. /\ Recycle(srvArg) \/ free' = free
      /\ tasks' = tasks /\ arg' = arg /\ srvArg' = None /\ conf' = conf
  BY DEF SpawnFails, SpawnFailsFreed, Dispatched, queueVars, threadVars,
         mainVars, argVars
<1>3. srvArg \notin Range(free) /\ IsInjective(free)
  BY <1>1 DEF BlocksNotShared
<1>4. /\ free' \in Seq(Args) /\ Len(free') <= conf'.freeMax
      /\ Range(free') \subseteq Range(free) \cup {srvArg}
      /\ IsInjective(free')
  <2>1. CASE Recycle(srvArg)
    BY <2>1, <1>1, <1>2, <1>3, RecycleEffect
  <2>2. CASE free' = free
    BY <2>2, <1>2, <1>3 DEF TypeOK
  <2> QED BY <1>2, <2>1, <2>2
<1>5. /\ srvArg \notin Range(tasks)
      /\ \A u \in Threads : arg[u] # srvArg
  BY <1>1 DEF BlocksNotShared
<1>6. InUse' = InUse \ {srvArg}
  BY <1>2, <1>5 DEF InUse
<1>7. (Range(free) \cap InUse = {})'
  BY <1>4, <1>6 DEF BlocksNotShared
<1>8. \A u \in Threads : arg'[u] # None =>
        /\ arg'[u] \notin Range(tasks') \cup {srvArg'}
        /\ \A v \in Threads : arg'[v] = arg'[u] => v = u
  BY <1>2 DEF BlocksNotShared
<1>9. (srvArg \notin Range(tasks))' /\ IsInjective(tasks)'
  BY <1>2, InUseBlocks DEF BlocksNotShared
<1> QED BY <1>4, <1>6, <1>7, <1>8, <1>9 DEF BlocksNotShared

-----------------------------------------------------------------------------
(* Groups of actions that leave most of the state alone. *)
MainOnly == \/ Listen \/ PoolComplete \/ LaunchServer \/ RegisterHandlers
            \/ StopFlag \/ JoinServer \/ JoinWorkers \/ FreeHandlers

ClosesSocket == LaunchFails \/ StopSocket

MovesThreads ==
  \/ StopWake \/ StopWakeAgain
  \/ \E w \in Pool : \/ CreateWorker(w) \/ WorkerLoops(w) \/ FindNothing(w)
                     \/ Sleep(w) \/ FindStopped(w)
  \/ \E t \in Threads : Walk(t)

ServerTurns == ServerLoops \/ AcceptErrs \/ AcceptEnds

LEMMA NextCases ==
  ASSUME [Next]_vars
  PROVE  \/ UNCHANGED vars
         \/ MainOnly \/ ClosesSocket \/ MovesThreads \/ ServerTurns
         \/ \E c \in Conns : Arrive(c) \/ Accept(c)
         \/ AllocArg \/ AllocFails \/ Push \/ SpawnFails \/ SpawnFailsFreed
         \/ \E t \in Spare : Spawn(t)
         \/ \E w \in Pool : Pop(w)
         \/ \E t \in Threads : Begin(t) \/ Close(t)
BY DEF Next, StartStep, StopStep, ServerStep, WorkerStep, ConnectionStep,
       Terminating, MainOnly, ClosesSocket, MovesThreads, ServerTurns

LEMMA InitIInv == Init => IInv
<1> SUFFICES ASSUME Init PROVE IInv
  OBVIOUS
<1>1. InUse = {} /\ Range(free) = {} /\ Range(tasks) = {}
  BY DEF Init, InUse, Range
<1>2. TypeOK
  <2>1. free \in Seq(Args) /\ tasks \in Seq(Args) /\ Len(free) = 0
    BY DEF Init
  <2>2. conf \in Config
    BY DEF Init
  <2>3. Len(free) <= conf.freeMax
    BY <2>1, <2>2 DEF Config
  <2>4. /\ conn \in [Conns -> {"new"}] /\ pc \in [Threads -> {"none"}]
        /\ arg \in [Threads -> {None}] /\ cfd \in [Threads -> {None}]
        /\ holds \in [Args -> {None}]
    BY DEF Init
  <2>5. \A t \in Threads : pc[t] = "none" /\ arg[t] = None /\ cfd[t] = None
    BY <2>4
  <2> QED BY <2>1, <2>3, <2>4, <2>5 DEF Init, TypeOK, Busy
<1>3. BlocksNotShared
  BY <1>1 DEF Init, BlocksNotShared, IsInjective
<1>4. ConnsOwned
  BY <1>1 DEF Init, ConnsOwned
<1>5. Phases
  BY DEF Init, Phases, Threads
<1> QED BY <1>2, <1>3, <1>4, <1>5 DEF IInv

LEMMA TypeStep == IInv /\ [Next]_vars => TypeOK'
<1> SUFFICES ASSUME IInv, [Next]_vars PROVE TypeOK'
  OBVIOUS
<1>0. TypeOK /\ BlocksNotShared /\ ConnsOwned /\ Phases
  BY DEF IInv
<1>1. CASE UNCHANGED vars
  BY <1>0, <1>1 DEF TypeOK, vars, mainVars, srvVars, threadVars, argVars, queueVars
<1>2. CASE MainOnly
  <2>1. /\ run' \in BOOLEAN /\ listening' \in BOOLEAN
        /\ main' \in {"workers", "launch", "register", "running", "stop",
                      "wakeAgain", "free", "stopped"}
        /\ handlers' \in {"none", "registered", "freed"}
        /\ UNCHANGED <<conf, conn, srvConn, srvArg, threadVars, argVars, queueVars>>
    BY <1>0, <1>2 DEF TypeOK, MainOnly, Listen, PoolComplete, LaunchServer,
       RegisterHandlers, StopFlag, JoinServer, JoinWorkers, FreeHandlers, srvVars
  <2>2. srv' = srv \/ (srv = "none" /\ srv' = "loop")
    BY <1>0, <1>2 DEF Phases, MainOnly, Listen, PoolComplete, LaunchServer,
       RegisterHandlers, StopFlag, JoinServer, JoinWorkers, FreeHandlers, srvVars
  <2>3. /\ srv' \in {"none", "loop", "accept", "accepted", "dispatch", "exited"}
        /\ srvArg' # None <=> srv' = "dispatch"
    BY <1>0, <2>1, <2>2 DEF TypeOK
  <2>4. /\ UNCHANGED <<conf, conn, srvConn, srvArg>>
        /\ UNCHANGED <<pc, arg, cfd, holds, free, tasks, lock>>
    BY <2>1 DEF threadVars, argVars, queueVars
  <2> QED
    BY <1>0, <2>1, <2>3, <2>4 DEF TypeOK
<1>3. CASE ClosesSocket
  BY <1>0, <1>3 DEF TypeOK, ClosesSocket, LaunchFails, StopSocket, RefuseBacklog,
     mainVars, srvVars, threadVars, argVars, queueVars
<1>4. CASE MovesThreads
  BY <1>0, <1>4 DEF TypeOK, MovesThreads, StopWake, StopWakeAgain, Broadcast,
     CreateWorker, WorkerLoops, FindNothing, Sleep, FindStopped, Walk, Busy,
     Threads, mainVars, srvVars, threadVars, argVars, queueVars
<1>5. CASE ServerTurns
  BY <1>0, <1>5 DEF TypeOK, ServerTurns, ServerLoops, AcceptErrs, AcceptEnds,
     mainVars, srvVars, threadVars, argVars, queueVars
<1>6. ASSUME NEW c \in Conns, Arrive(c) \/ Accept(c) PROVE TypeOK'
  BY <1>0, <1>6 DEF TypeOK, Arrive, Accept,
     mainVars, srvVars, threadVars, argVars, queueVars
<1>7. CASE AllocArg
  <2>1. /\ free' \in Seq(Args) /\ Len(free') <= conf'.freeMax
        /\ conf' = conf
    <3>1. conf \in Config /\ free \in Seq(Args) /\ Len(free) <= conf.freeMax
      BY <1>0 DEF TypeOK
    <3>2. free' \in Seq(Args) /\ Len(free') <= Len(free) /\ conf' = conf
      BY <1>0, <1>7, AllocMoves DEF AllocArg, mainVars
    <3> QED BY <3>1, <3>2 DEF Config
  <2>2. srvArg' \in Args /\ holds' \in [Args -> Conns \cup {None}]
    BY <1>0, <1>7, AllocMoves DEF TypeOK
  <2> QED
    BY <1>0, <1>7, <2>1, <2>2 DEF TypeOK, AllocArg, mainVars, threadVars, queueVars
<1>8. CASE AllocFails
  BY <1>0, <1>8 DEF TypeOK, AllocFails, mainVars, threadVars, argVars, queueVars
<1>9. CASE Push
  BY <1>0, <1>9, PushMoves DEF TypeOK, Push, Dispatched, Threads, Busy,
     mainVars, argVars
<1>10. CASE SpawnFails \/ SpawnFailsFreed
  BY <1>0, <1>10, SpawnFailsMoves DEF TypeOK, SpawnFails, SpawnFailsFreed,
     Dispatched, mainVars, threadVars, argVars, queueVars
<1>11. ASSUME NEW t \in Spare, Spawn(t) PROVE TypeOK'
  BY <1>0, <1>11 DEF TypeOK, Spawn, Dispatched, Threads, Busy,
     mainVars, argVars, queueVars
<1>12. ASSUME NEW w \in Pool, Pop(w) PROVE TypeOK'
  BY <1>0, <1>12, PopMoves DEF TypeOK, Pop, Threads, Busy,
     mainVars, srvVars, argVars
<1>13. ASSUME NEW t \in Threads, Begin(t) PROVE TypeOK'
  <2>1. holds[arg[t]] \in Conns
    BY <1>0, <1>13, ThreadHolds DEF Begin, ConnsOwned, TypeOK
  <2>2. free' \in Seq(Args) /\ Len(free') <= conf'.freeMax
    BY <1>0, <1>13, BeginMoves
  <2>3. /\ cfd' = [cfd EXCEPT ![t] = holds[arg[t]]]
        /\ arg' = [arg EXCEPT ![t] = None]
        /\ pc' = [pc EXCEPT ![t] = "reading"]
        /\ UNCHANGED <<mainVars, conn, srvVars, holds, queueVars>>
    BY <1>13 DEF Begin
  <2>4. \A u \in Threads : /\ arg'[u] # None <=> pc'[u] = "taken"
                          /\ cfd'[u] # None <=> pc'[u] \in Busy
    BY <1>0, <2>1, <2>3 DEF TypeOK, Busy
  <2> QED
    BY <1>0, <2>1, <2>2, <2>3, <2>4 DEF TypeOK, mainVars, srvVars, queueVars, Busy
<1>14. ASSUME NEW t \in Threads, Close(t) PROVE TypeOK'
  BY <1>0, <1>14 DEF TypeOK, Close, Busy, mainVars, srvVars, argVars, queueVars
<1> QED
  BY <1>1, <1>2, <1>3, <1>4, <1>5, <1>6, <1>7, <1>8, <1>9, <1>10, <1>11, <1>12,
     <1>13, <1>14, NextCases

-----------------------------------------------------------------------------
LEMMA BlocksStep == IInv /\ [Next]_vars => BlocksNotShared'
<1> SUFFICES ASSUME IInv, [Next]_vars PROVE BlocksNotShared'
  OBVIOUS
<1>0. TypeOK /\ BlocksNotShared
  BY DEF IInv
<1>1. CASE \/ UNCHANGED vars \/ MainOnly \/ ClosesSocket \/ MovesThreads
           \/ ServerTurns \/ AllocFails
           \/ \E c \in Conns : Arrive(c) \/ Accept(c)
           \/ \E t \in Threads : Close(t)
  <2>1. UNCHANGED <<free, tasks, srvArg, arg>>
    BY <1>1 DEF vars, MainOnly, Listen, PoolComplete, LaunchServer,
       RegisterHandlers, StopFlag, JoinServer, JoinWorkers, FreeHandlers,
       ClosesSocket, LaunchFails, StopSocket, MovesThreads, StopWake,
       StopWakeAgain, CreateWorker, WorkerLoops, FindNothing, Sleep, FindStopped,
       Walk, ServerTurns, ServerLoops, AcceptErrs, AcceptEnds, AllocFails,
       Arrive, Accept, Close, srvVars, threadVars, argVars, queueVars
  <2> QED BY <1>0, <2>1, BlocksStay
<1> QED
  BY <1>0, <1>1, NextCases, AllocMoves, PushMoves, SpawnMoves, PopMoves,
     BeginMoves, SpawnFailsMoves

-----------------------------------------------------------------------------
(* What the accept thread and its connection do in most steps: nothing, or the *)
(* connection has left its hands.                                              *)
ServerKeepsOrLeaves ==
  \/ UNCHANGED <<srv, srvConn, srvArg>>
  \/ srvConn' = None /\ srvArg' = None /\ srv' \notin {"accepted", "dispatch"}

(* An accepted connection stays open or closed. *)
AcceptedStay ==
  \A c \in Conns : conn[c] \in {"open", "closed"} => conn'[c] \in {"open", "closed"}

LEMMA ConnsStay ==
  ASSUME TypeOK, ConnsOwned, holds' = holds, ServerKeepsOrLeaves, AcceptedStay,
         InUse' \cup Range(free)' \subseteq InUse \cup Range(free)
  PROVE  ConnsOwned'
<1>1. srvConn \in Conns \cup {None} /\ holds \in [Args -> Conns \cup {None}]
  BY DEF TypeOK
<1>2. CASE UNCHANGED <<srv, srvConn, srvArg>>
  BY <1>1, <1>2 DEF ConnsOwned, AcceptedStay
<1>3. CASE srvConn' = None /\ srvArg' = None /\ srv' \notin {"accepted", "dispatch"}
  BY <1>1, <1>3 DEF ConnsOwned, AcceptedStay
<1> QED BY <1>2, <1>3 DEF ServerKeepsOrLeaves

LEMMA ConnsStep == IInv /\ [Next]_vars => ConnsOwned'
<1> SUFFICES ASSUME IInv, [Next]_vars PROVE ConnsOwned'
  OBVIOUS
<1>0. TypeOK /\ BlocksNotShared /\ ConnsOwned /\ Phases
  BY DEF IInv
<1>1. CASE UNCHANGED vars \/ MainOnly \/ ClosesSocket \/ MovesThreads \/ ServerTurns
           \/ (\E c \in Conns : Arrive(c)) \/ (\E t \in Threads : Close(t))
  <2>1. UNCHANGED <<holds, free, tasks, arg, srvArg, srvConn>>
    BY <1>1 DEF vars, MainOnly, Listen, PoolComplete, LaunchServer,
       RegisterHandlers, StopFlag, JoinServer, JoinWorkers, FreeHandlers,
       ClosesSocket, LaunchFails, StopSocket, MovesThreads, StopWake,
       StopWakeAgain, CreateWorker, WorkerLoops, FindNothing, Sleep, FindStopped,
       Walk, ServerTurns, ServerLoops, AcceptErrs, AcceptEnds,
       Arrive, Close, srvVars, threadVars, argVars, queueVars
  <2>2. InUse' = InUse /\ Range(free)' = Range(free)
    BY <2>1, <1>0, BlocksStay
  <2>3. ServerKeepsOrLeaves
    <3>1. \/ srv' = srv
          \/ srv \in {"none", "loop", "accept"} /\ srv' \in {"loop", "accept", "exited"}
      BY <1>0, <1>1 DEF Phases, vars, MainOnly, Listen, PoolComplete, LaunchServer,
         RegisterHandlers, StopFlag, JoinServer, JoinWorkers, FreeHandlers,
         ClosesSocket, LaunchFails, StopSocket, MovesThreads, StopWake,
         StopWakeAgain, CreateWorker, WorkerLoops, FindNothing, Sleep, FindStopped,
         Walk, ServerTurns, ServerLoops, AcceptErrs, AcceptEnds,
         Arrive, Close, srvVars
    <3>2. srv \in {"none", "loop", "accept"} => srvConn = None /\ srvArg = None
      BY <1>0 DEF ConnsOwned, TypeOK
    <3> QED BY <2>1, <3>1, <3>2 DEF ServerKeepsOrLeaves
  <2>4. AcceptedStay
    <3>1. CASE UNCHANGED vars \/ MainOnly \/ MovesThreads \/ ServerTurns
      <4>1. conn' = conn
        BY <3>1 DEF vars, MainOnly, Listen, PoolComplete, LaunchServer,
           RegisterHandlers, StopFlag, JoinServer, JoinWorkers, FreeHandlers,
           MovesThreads, StopWake, StopWakeAgain, CreateWorker, WorkerLoops,
           FindNothing, Sleep, FindStopped, Walk, ServerTurns, ServerLoops,
           AcceptErrs, AcceptEnds
      <4> QED BY <4>1 DEF AcceptedStay
    <3>2. CASE ClosesSocket
      BY <3>2 DEF ClosesSocket, LaunchFails, StopSocket, RefuseBacklog, AcceptedStay
    <3>3. CASE \E c \in Conns : Arrive(c)
      BY <3>3, <1>0 DEF Arrive, AcceptedStay, TypeOK
    <3>4. CASE \E t \in Threads : Close(t)
      BY <3>4, <1>0 DEF Close, AcceptedStay, TypeOK
    <3> QED BY <1>1, <3>1, <3>2, <3>3, <3>4
  <2> QED BY <1>0, <2>1, <2>2, <2>3, <2>4, ConnsStay
<1>2. ASSUME NEW c \in Conns, Accept(c) PROVE ConnsOwned'
  <2>1. /\ UNCHANGED <<holds, free, tasks, arg, srvArg>>
        /\ srvArg = None /\ srvConn' = c /\ srv' = "accepted"
        /\ conn[c] = "backlog" /\ conn' = [conn EXCEPT ![c] = "open"]
    BY <1>0, <1>2 DEF Accept, TypeOK, threadVars, argVars, queueVars
  <2>2. InUse' = InUse /\ Range(free)' = Range(free)
    BY <2>1, <1>0, BlocksStay
  <2>3. \A a \in Args : holds[a] # c
    BY <1>0, <2>1 DEF ConnsOwned
  <2>4. \A d \in Conns : conn[d] \in {"open", "closed"} => conn'[d] \in {"open", "closed"}
    BY <1>0, <2>1 DEF TypeOK
  <2>5. conn'[c] = "open" /\ holds \in [Args -> Conns \cup {None}]
    BY <1>0, <2>1 DEF TypeOK
  <2> QED BY <1>0, <2>1, <2>2, <2>3, <2>4, <2>5 DEF ConnsOwned
<1>3. CASE AllocArg
  <2>1. /\ srv = "accepted" /\ srv' = "dispatch" /\ srvConn' = srvConn /\ conn' = conn
        /\ srvConn \in Conns
    BY <1>0, <1>3 DEF AllocArg, mainVars, ConnsOwned, TypeOK
  <2>2. /\ srvArg' \in Args
        /\ InUse' \cup Range(free)' \subseteq InUse \cup Range(free) \cup {srvArg'}
        /\ holds' = [holds EXCEPT ![srvArg'] = srvConn]
    BY <1>0, <1>3, AllocMoves
  <2>3. /\ holds \in [Args -> Conns \cup {None}] /\ holds'[srvArg'] = srvConn
        /\ \A a \in Args : a # srvArg' => holds'[a] = holds[a]
    BY <1>0, <2>2 DEF TypeOK
  <2>4. \A a \in Args : holds[a] # srvConn
    BY <1>0, <2>1 DEF ConnsOwned
  <2>5. \A a \in InUse' \cup Range(free)' : holds'[a] # None
    <3>1. InUse \cup Range(free) \subseteq Args
      BY <1>0, InUseBlocks
    <3> QED BY <1>0, <2>1, <2>2, <2>3, <3>1 DEF ConnsOwned
  <2>6. \A a \in Args : holds'[a] # None => conn'[holds'[a]] \in {"open", "closed"}
    BY <1>0, <2>1, <2>3 DEF ConnsOwned
  <2>7. \A a, b \in Args : holds'[a] = holds'[b] /\ holds'[a] # None => a = b
    BY <1>0, <2>3, <2>4 DEF ConnsOwned
  <2> QED BY <1>0, <2>1, <2>3, <2>5, <2>6, <2>7 DEF ConnsOwned
<1>4. CASE AllocFails
  <2>1. UNCHANGED <<holds, free, tasks, arg, srvArg>> /\ srvArg = None
    BY <1>0, <1>4 DEF AllocFails, TypeOK, threadVars, argVars, queueVars
  <2>2. InUse' = InUse /\ Range(free)' = Range(free)
    BY <2>1, <1>0, BlocksStay
  <2>3. ServerKeepsOrLeaves
    BY <1>4, <2>1 DEF AllocFails, ServerKeepsOrLeaves
  <2>4. AcceptedStay
    BY <1>0, <1>4 DEF AllocFails, AcceptedStay, TypeOK
  <2> QED BY <1>0, <2>1, <2>2, <2>3, <2>4, ConnsStay
<1>5. CASE Push \/ SpawnFails \/ SpawnFailsFreed \/ \E t \in Spare : Spawn(t)
  <2>1. /\ holds' = holds /\ Dispatched
        /\ srvArg \in InUse
    BY <1>0, <1>5 DEF Push, SpawnFails, SpawnFailsFreed, Spawn, argVars,
       InUse, TypeOK
  <2>2. InUse' \cup Range(free)' \subseteq InUse \cup Range(free)
    <3>1. CASE Push \/ \E t \in Spare : Spawn(t)
      <4>1. free' = free
        BY <3>1 DEF Push, Spawn, argVars
      <4>2. InUse' = InUse
        BY <1>0, <3>1, PushMoves, SpawnMoves
      <4> QED BY <4>1, <4>2
    <3>2. CASE SpawnFails \/ SpawnFailsFreed
      BY <1>0, <2>1, <3>2, SpawnFailsMoves
    <3> QED BY <1>5, <3>1, <3>2
  <2>3. ServerKeepsOrLeaves
    BY <2>1 DEF Dispatched, ServerKeepsOrLeaves
  <2>4. AcceptedStay
    <3>1. \/ conn' = conn
          \/ \E c \in Conns \cup {None} : conn' = [conn EXCEPT ![c] = "closed"]
      BY <1>0, <1>5 DEF Push, SpawnFails, SpawnFailsFreed, Spawn, TypeOK
    <3> QED BY <1>0, <3>1 DEF AcceptedStay, TypeOK
  <2> QED BY <1>0, <2>1, <2>2, <2>3, <2>4, ConnsStay
<1>6. CASE (\E w \in Pool : Pop(w)) \/ (\E t \in Threads : Begin(t))
  <2>1. UNCHANGED <<holds, conn, srv, srvConn, srvArg>>
    BY <1>6 DEF Pop, Begin, argVars, srvVars
  <2>2. InUse' \cup Range(free)' \subseteq InUse \cup Range(free)
    <3>1. CASE \E w \in Pool : Pop(w)
      <4>1. free' = free
        BY <3>1 DEF Pop, argVars
      <4> QED BY <1>0, <3>1, <4>1, PopMoves
    <3>2. ASSUME NEW t \in Threads, Begin(t)
          PROVE  InUse' \cup Range(free)' \subseteq InUse \cup Range(free)
      <4>1. arg[t] \in InUse
        BY <1>0, <3>2, ThreadHolds DEF Begin
      <4> QED BY <1>0, <3>2, <4>1, BeginMoves
    <3> QED BY <1>6, <3>1, <3>2
  <2>3. ServerKeepsOrLeaves /\ AcceptedStay
    BY <2>1 DEF ServerKeepsOrLeaves, AcceptedStay
  <2> QED BY <1>0, <2>1, <2>2, <2>3, ConnsStay
<1> QED
  BY <1>1, <1>2, <1>3, <1>4, <1>5, <1>6, NextCases

-----------------------------------------------------------------------------
LEMMA ConfStays == [Next]_vars => conf' = conf
BY NextCases DEF vars, mainVars, MainOnly, Listen, PoolComplete, LaunchServer,
   RegisterHandlers, StopFlag, JoinServer, JoinWorkers, FreeHandlers,
   ClosesSocket, LaunchFails, StopSocket, MovesThreads, StopWake,
   StopWakeAgain, CreateWorker, WorkerLoops, FindNothing, Sleep, FindStopped,
   Walk, ServerTurns, ServerLoops, AcceptErrs, AcceptEnds, Arrive, Accept,
   AllocArg, AllocFails, Push, SpawnFails, SpawnFailsFreed, Spawn, Pop, Begin,
   Close

(* Only http_server_start creates pool workers, and one that has ended stays so. *)
LEMMA PoolThreads ==
  ASSUME TypeOK, [Next]_vars, NEW w \in Pool, pc[w] \in {"none", "exited"}
  PROVE  pc'[w] = pc[w] \/ (main = "workers" /\ main' = main)
<1>1. /\ w \in Threads /\ w \notin Spare
      /\ pc \in [Threads -> {"none", "loop", "pop", "sleepy", "waiting", "taken",
                            "exited", "reading", "walking"}]
  BY DEF Threads, TypeOK, Busy
<1>2. CASE UNCHANGED vars \/ MainOnly \/ ClosesSocket \/ ServerTurns
           \/ (\E c \in Conns : Arrive(c) \/ Accept(c))
           \/ AllocArg \/ AllocFails \/ SpawnFails \/ SpawnFailsFreed
  BY <1>2 DEF vars, MainOnly, Listen, PoolComplete, LaunchServer,
     RegisterHandlers, StopFlag, JoinServer, JoinWorkers, FreeHandlers,
     ClosesSocket, LaunchFails, StopSocket, ServerTurns, ServerLoops,
     AcceptErrs, AcceptEnds, Arrive, Accept, AllocArg, AllocFails, SpawnFails,
     SpawnFailsFreed, threadVars
<1>3. CASE MovesThreads
  BY <1>1, <1>3 DEF MovesThreads, StopWake, StopWakeAgain, Broadcast,
     CreateWorker, WorkerLoops, FindNothing, Sleep, FindStopped, Walk, mainVars
<1>4. CASE Push \/ (\E t \in Spare : Spawn(t)) \/ (\E v \in Pool : Pop(v))
           \/ (\E t \in Threads : Begin(t) \/ Close(t))
  BY <1>1, <1>4 DEF Push, Spawn, Pop, Begin, Close, Busy
<1> QED BY <1>2, <1>3, <1>4, NextCases

LEMMA PhasesStep == IInv /\ [Next]_vars => Phases'
<1> SUFFICES ASSUME IInv, [Next]_vars PROVE Phases'
  OBVIOUS
<1>0. TypeOK /\ Phases /\ conf' = conf
  BY ConfStays DEF IInv
<1>1. \A w \in Pool : pc[w] \in {"none", "exited"} =>
        pc'[w] = pc[w] \/ (main = "workers" /\ main' = main)
  BY <1>0, PoolThreads
<1>2. CASE MainOnly
  <2>1. pc' = pc
    BY <1>2 DEF MainOnly, Listen, PoolComplete, LaunchServer, RegisterHandlers,
       StopFlag, JoinServer, JoinWorkers, FreeHandlers, threadVars
  <2>2. main' = "free" => \A w \in Pool : pc[w] \in {"none", "exited"}
    BY <1>0, <1>2 DEF Phases, MainOnly, Listen, PoolComplete, LaunchServer,
       RegisterHandlers, StopFlag, JoinServer, JoinWorkers, FreeHandlers, Created
  <2> QED
    BY <1>0, <1>2, <2>1, <2>2 DEF Phases, MainOnly, Listen, PoolComplete,
       LaunchServer, RegisterHandlers, StopFlag, JoinServer, JoinWorkers,
       FreeHandlers, srvVars
<1>3. CASE ClosesSocket \/ MovesThreads
  BY <1>0, <1>1, <1>3 DEF Phases, ClosesSocket, LaunchFails, StopSocket,
     MovesThreads, StopWake, StopWakeAgain, CreateWorker, WorkerLoops,
     FindNothing, Sleep, FindStopped, Walk, mainVars, srvVars, threadVars
<1>4. CASE UNCHANGED vars \/ ServerTurns
           \/ (\E c \in Conns : Arrive(c) \/ Accept(c))
           \/ AllocArg \/ AllocFails \/ Push \/ SpawnFails \/ SpawnFailsFreed
           \/ (\E t \in Spare : Spawn(t)) \/ (\E v \in Pool : Pop(v))
           \/ (\E t \in Threads : Begin(t) \/ Close(t))
  <2>1. main' = main /\ handlers' = handlers /\ (srv = "none" => srv' = "none")
    BY <1>4 DEF vars, mainVars, srvVars, ServerTurns, ServerLoops, AcceptErrs,
       AcceptEnds, Arrive, Accept, AllocArg, AllocFails, Push, SpawnFails,
       SpawnFailsFreed, Spawn, Pop, Begin, Close
  <2> QED BY <1>0, <1>1, <2>1 DEF Phases
<1> QED BY <1>2, <1>3, <1>4, NextCases

LEMMA Invariance == Spec => []IInv
<1>1. IInv /\ [Next]_vars => IInv'
  BY TypeStep, BlocksStep, ConnsStep, PhasesStep DEF IInv
<1> QED BY <1>1, InitIInv, PTL DEF Spec

(* Every variable stays in its type, and the free list within its limit. *)
THEOREM TypeCorrect == Spec => []TypeOK
<1>1. IInv => TypeOK
  BY DEF IInv
<1> QED BY <1>1, Invariance, PTL

(* conn_arg blocks are recycled without ever being shared. *)
THEOREM BlocksNeverShared == Spec => []BlocksNotShared
<1>1. IInv => BlocksNotShared
  BY DEF IInv
<1> QED BY <1>1, Invariance, PTL

(* When http_server_stop has freed the handlers no pool worker walks the list. *)
THEOREM HandlersOutliveWorkers == Spec => []HandlersOutlivePool
<1>1. IInv => HandlersOutlivePool
  BY DEF IInv, Phases, HandlersOutlivePool
<1> QED BY <1>1, Invariance, PTL

-----------------------------------------------------------------------------
(* The free list and the block in the accept thread's hands carry different *)
(* connections, so the list is shorter than there are connections.          *)
LEMMA FreeListBound ==
  ASSUME IInv, srv = "dispatch"
  PROVE  Len(free) < Cardinality(Conns)
<1>1. TypeOK /\ BlocksNotShared /\ ConnsOwned
  BY DEF IInv
<1>2. /\ free \in Seq(Args) /\ Len(free) \in Nat
      /\ srvArg \in Args /\ srvArg # None /\ holds \in [Args -> Conns \cup {None}]
      /\ srvConn \in Conns /\ holds[srvArg] = srvConn
  BY <1>1 DEF TypeOK, ConnsOwned
<1>3. srvArg \notin Range(free)
  BY <1>1, <1>2 DEF BlocksNotShared, InUse
<1>4. \A i \in 1..Len(free) : free[i] \in Args /\ free[i] \in Range(free)
  BY <1>2 DEF Range
<1> DEFINE g == [i \in 0..Len(free) |-> IF i = 0 THEN srvConn ELSE holds[free[i]]]
<1>5. g[0] = srvConn /\ \A i \in 1..Len(free) : g[i] = holds[free[i]]
  BY <1>2
<1>6. \A i \in 1..Len(free) : holds[free[i]] \in Conns /\ holds[free[i]] # srvConn
  <2> TAKE i \in 1..Len(free)
  <2>1. free[i] \in Args /\ holds[free[i]] # None /\ free[i] # srvArg
    BY <1>1, <1>3, <1>4 DEF ConnsOwned
  <2> QED BY <1>1, <1>2, <2>1 DEF ConnsOwned
<1>7. \A i, j \in 1..Len(free) : holds[free[i]] = holds[free[j]] => i = j
  <2> SUFFICES ASSUME NEW i \in 1..Len(free), NEW j \in 1..Len(free),
                      holds[free[i]] = holds[free[j]]
               PROVE  i = j
    OBVIOUS
  <2>1. free[i] = free[j]
    BY <1>1, <1>4, <1>6 DEF ConnsOwned
  <2> QED BY <1>1, <1>2, <2>1 DEF BlocksNotShared, IsInjective
<1>8. g \in Injection(0..Len(free), Conns)
  <2>1. g \in [0..Len(free) -> Conns]
    BY <1>2, <1>6
  <2>2. \A i, j \in 0..Len(free) : g[i] = g[j] => i = j
    <3> HIDE DEF g
    <3>1. \A i \in 0..Len(free) : i = 0 \/ i \in 1..Len(free)
      BY <1>2
    <3> QED BY <3>1, <1>5, <1>6, <1>7
  <2> QED BY <2>1, <2>2 DEF Injection, IsInjective
<1>9. Cardinality(0..Len(free)) <= Cardinality(Conns)
  <2> HIDE DEF g
  <2> QED BY <1>8, FS_Injection
<1>10. Cardinality(0..Len(free)) = Len(free) + 1
  <2>1. 0 \in Int /\ Len(free) \in Int /\ ~(0 > Len(free))
    BY <1>2
  <2>2. Cardinality(0..Len(free)) = Len(free) - 0 + 1
    BY <2>1, <1>2, FS_Interval
  <2> QED BY <2>2, <1>2
<1>11. Cardinality(Conns) \in Nat
  BY FS_CardinalityType
<1> QED BY <1>2, <1>9, <1>10, <1>11

-----------------------------------------------------------------------------
(* One keeper for each open connection.  In a step at most one connection     *)
(* changes hands: it gets a keeper, passes to another, or is closed.          *)
K == Args \cup Threads \cup {None}

Kept(c) ==
  /\ conn[c] = "open" <=> \E k \in K : Keeps(k, c)
  /\ \A k, l \in K : Keeps(k, c) /\ Keeps(l, c) => k = l

AllKept == \A c \in Conns : Kept(c)

SameKeepers(c) ==
  /\ conn'[c] = "open" <=> conn[c] = "open"
  /\ \A k \in K : Keeps(k, c)' <=> Keeps(k, c)

LEMMA NobodyChanges ==
  ASSUME AllKept, \A c \in Conns : SameKeepers(c)
  PROVE  AllKept'
BY DEF AllKept, Kept, SameKeepers

LEMMA OneChanges ==
  ASSUME AllKept, NEW c \in Conns, \A d \in Conns : d # c => SameKeepers(d),
         \/ conn'[c] = "open" /\ \E l \in K : \A k \in K : Keeps(k, c)' <=> k = l
         \/ conn'[c] # "open" /\ \A k \in K : ~Keeps(k, c)'
  PROVE  AllKept'
<1>1. Kept(c)'
  BY DEF Kept
<1>2. \A d \in Conns : d # c => Kept(d)'
  BY DEF AllKept, Kept, SameKeepers
<1> QED BY <1>1, <1>2 DEF AllKept

LEMMA KeepersApart ==
  ASSUME TypeOK
  PROVE  /\ InUse \subseteq Args
         /\ \A k : ~(k = None /\ k \in InUse) /\ ~(k = None /\ k \in Threads)
                  /\ ~(k \in InUse /\ k \in Threads)
BY InUseBlocks

LEMMA KeptStep ==
  ASSUME IInv, [Next]_vars, NoUseAfterFree, AllKept
  PROVE  AllKept'
<1>0. TypeOK /\ BlocksNotShared /\ ConnsOwned
  BY DEF IInv
<1>a. /\ conn \in [Conns -> {"new", "backlog", "open", "closed", "refused"}]
      /\ cfd \in [Threads -> Conns \cup {None}]
      /\ holds \in [Args -> Conns \cup {None}]
  BY <1>0 DEF TypeOK
<1>1. CASE UNCHANGED vars \/ MainOnly \/ ClosesSocket \/ MovesThreads \/ ServerTurns
           \/ (\E c \in Conns : Arrive(c)) \/ Push
           \/ (\E t \in Spare : Spawn(t)) \/ (\E w \in Pool : Pop(w))
  <2>1. holds' = holds /\ cfd' = cfd
    BY <1>1 DEF vars, MainOnly, Listen, PoolComplete, LaunchServer,
       RegisterHandlers, StopFlag, JoinServer, JoinWorkers, FreeHandlers,
       ClosesSocket, LaunchFails, StopSocket, MovesThreads, StopWake,
       StopWakeAgain, CreateWorker, WorkerLoops, FindNothing, Sleep, FindStopped,
       Walk, ServerTurns, ServerLoops, AcceptErrs, AcceptEnds, Push, Spawn, Pop,
       Arrive, threadVars, argVars
  <2>2. InUse' = InUse
    <3>1. CASE Push \/ (\E t \in Spare : Spawn(t)) \/ (\E w \in Pool : Pop(w))
      BY <1>0, <3>1, PushMoves, SpawnMoves, PopMoves
    <3>2. CASE UNCHANGED vars \/ MainOnly \/ ClosesSocket \/ MovesThreads
               \/ ServerTurns \/ (\E c \in Conns : Arrive(c))
      <4>1. UNCHANGED <<free, tasks, srvArg, arg>>
        BY <3>2 DEF vars, MainOnly, Listen, PoolComplete, LaunchServer,
           RegisterHandlers, StopFlag, JoinServer, JoinWorkers, FreeHandlers,
           ClosesSocket, LaunchFails, StopSocket, MovesThreads, StopWake,
           StopWakeAgain, CreateWorker, WorkerLoops, FindNothing, Sleep,
           FindStopped, Walk, ServerTurns, ServerLoops, AcceptErrs, AcceptEnds,
           Arrive, srvVars, threadVars, argVars, queueVars
      <4> QED BY <1>0, <4>1, BlocksStay
    <3> QED BY <1>1, <3>1, <3>2
  <2>3. \/ UNCHANGED <<srv, srvConn>>
        \/ srv # "accepted" /\ srv' # "accepted"
    BY <1>0, <1>1 DEF IInv, Phases, vars, MainOnly, Listen, PoolComplete, LaunchServer,
       RegisterHandlers, StopFlag, JoinServer, JoinWorkers, FreeHandlers,
       ClosesSocket, LaunchFails, StopSocket, MovesThreads, StopWake,
       StopWakeAgain, CreateWorker, WorkerLoops, FindNothing, Sleep, FindStopped,
       Walk, ServerTurns, ServerLoops, AcceptErrs, AcceptEnds, Push, Spawn, Pop,
       Arrive, Dispatched, srvVars
  <2>4. \A c \in Conns : conn'[c] = "open" <=> conn[c] = "open"
    BY <1>1, <1>a DEF vars, MainOnly, Listen, PoolComplete, LaunchServer,
       RegisterHandlers, StopFlag, JoinServer, JoinWorkers, FreeHandlers,
       ClosesSocket, LaunchFails, StopSocket, RefuseBacklog, MovesThreads, StopWake,
       StopWakeAgain, CreateWorker, WorkerLoops, FindNothing, Sleep, FindStopped,
       Walk, ServerTurns, ServerLoops, AcceptErrs, AcceptEnds, Push, Spawn, Pop,
       Arrive
  <2>5. \A c \in Conns : SameKeepers(c)
    BY <2>1, <2>2, <2>3, <2>4 DEF SameKeepers, Keeps
  <2> QED BY <2>5, NobodyChanges
<1>2. ASSUME NEW c \in Conns, Accept(c) PROVE AllKept'
  <2>1. /\ UNCHANGED <<holds, cfd, free, tasks, arg, srvArg>>
        /\ srv # "accepted" /\ srv' = "accepted" /\ srvConn' = c
        /\ conn[c] = "backlog" /\ conn' = [conn EXCEPT ![c] = "open"]
    BY <1>2 DEF Accept, threadVars, argVars, queueVars
  <2>2. InUse' = InUse
    BY <1>0, <2>1, BlocksStay
  <2>3. \A k \in K : ~Keeps(k, c)
    BY <2>1 DEF AllKept, Kept
  <2>4. \A k \in K : Keeps(k, c)' <=> k = None
    BY <2>1, <2>2, <2>3 DEF Keeps
  <2>5. \A d \in Conns : d # c => SameKeepers(d)
    BY <1>a, <2>1, <2>2 DEF SameKeepers, Keeps
  <2>6. conn'[c] = "open" /\ None \in K
    BY <1>a, <2>1 DEF K
  <2> QED BY <2>4, <2>5, <2>6, OneChanges
<1>3. CASE AllocArg \/ AllocFails
  <2>1. PICK c \in Conns :
          c = srvConn /\ srv = "accepted" /\ srv' # "accepted" /\ cfd' = cfd
    BY <1>0, <1>3 DEF AllocArg, AllocFails, ConnsOwned, TypeOK, threadVars
  <2>2. Keeps(None, c) /\ None \in K
    BY <2>1 DEF Keeps, K
  <2>3. conn[c] = "open" /\ \A k \in K : Keeps(k, c) => k = None
    BY <2>1, <2>2 DEF AllKept, Kept
  <2>4. /\ \A k \in K : k \in InUse => holds[k] # c
        /\ \A k \in K : k \in Threads => cfd[k] # c
    BY <1>0, <2>3, KeepersApart DEF Keeps
  <2>5. CASE AllocFails
    <3>1. /\ UNCHANGED <<holds, free, tasks, arg, srvArg>>
          /\ conn' = [conn EXCEPT ![c] = "closed"]
      BY <2>1, <2>5 DEF AllocFails, threadVars, argVars, queueVars
    <3>2. InUse' = InUse
      BY <1>0, <3>1, BlocksStay
    <3>3. \A k \in K : ~Keeps(k, c)'
      BY <2>1, <2>4, <3>1, <3>2 DEF Keeps
    <3>4. \A d \in Conns : d # c => SameKeepers(d)
      BY <1>a, <2>1, <3>1, <3>2 DEF SameKeepers, Keeps
    <3>5. conn'[c] # "open"
      BY <1>a, <2>1, <3>1
    <3> QED BY <2>1, <3>3, <3>4, <3>5, OneChanges
  <2>6. CASE AllocArg
    <3>1. /\ srvArg' \in Args /\ srvArg' \notin InUse
          /\ InUse' = InUse \cup {srvArg'}
          /\ holds' = [holds EXCEPT ![srvArg'] = c]
          /\ conn' = conn
      BY <1>0, <2>1, <2>6, AllocMoves DEF AllocArg
    <3>2. srvArg' \in K /\ srvArg' # None /\ srvArg' \notin Threads
      BY <3>1 DEF K
    <3>3. /\ holds'[srvArg'] = c
          /\ \A k \in Args : k # srvArg' => holds'[k] = holds[k]
      BY <1>a, <3>1
    <3>4. \A k \in K : Keeps(k, c)' <=> k = srvArg'
      BY <1>0, <2>1, <2>4, <3>1, <3>2, <3>3, KeepersApart DEF Keeps
    <3>5. \A d \in Conns : d # c => SameKeepers(d)
      BY <1>0, <2>1, <3>1, <3>2, <3>3, KeepersApart DEF SameKeepers, Keeps
    <3> QED BY <2>1, <2>3, <3>1, <3>2, <3>4, <3>5, OneChanges
  <2> QED BY <1>3, <2>5, <2>6
<1>4. CASE SpawnFails \/ SpawnFailsFreed
  <2>1. PICK c \in Conns :
          /\ c = srvConn /\ srv = "dispatch" /\ srv' # "accepted"
          /\ srvArg \in Args /\ srvArg \in InUse /\ holds[srvArg] = c
    BY <1>0, <1>4 DEF SpawnFails, SpawnFailsFreed, Dispatched, ConnsOwned, TypeOK,
       InUse
  <2>2. SpawnFails
    <3>1. SUFFICES ASSUME SpawnFailsFreed PROVE FALSE
      BY <1>4
    <3>2. Cardinality(Conns) <= conf.freeMax /\ Len(free) = conf.freeMax
      BY <3>1 DEF SpawnFailsFreed, Pooled, NoUseAfterFree
    <3>3. Len(free) < Cardinality(Conns) /\ Len(free) \in Nat /\ Cardinality(Conns) \in Nat
      BY <1>0, <2>1, FreeListBound, FS_CardinalityType DEF TypeOK
    <3> QED BY <3>2, <3>3
  <2>3. /\ UNCHANGED <<holds, cfd>> /\ conn' = [conn EXCEPT ![c] = "closed"]
        /\ InUse' = InUse \ {srvArg}
    BY <1>0, <2>1, <2>2, SpawnFailsMoves DEF SpawnFails, threadVars
  <2>4. Keeps(srvArg, c) /\ srvArg \in K
    BY <2>1 DEF Keeps, K
  <2>5. \A k \in K : Keeps(k, c) => k = srvArg
    BY <2>1, <2>4 DEF AllKept, Kept
  <2>6. srvArg \notin Threads
    BY <2>1
  <2>7. \A k \in K : ~Keeps(k, c)'
    BY <2>1, <2>3, <2>5, <2>6 DEF Keeps
  <2>8. \A d \in Conns : d # c => SameKeepers(d)
    BY <1>a, <2>1, <2>3 DEF SameKeepers, Keeps
  <2>9. conn'[c] # "open"
    BY <1>a, <2>1, <2>3
  <2> QED BY <2>1, <2>7, <2>8, <2>9, OneChanges
<1>5. ASSUME NEW t \in Threads, Begin(t) PROVE AllKept'
  <2>1. PICK a \in Args, c \in Conns :
          /\ a = arg[t] /\ c = holds[a]
          /\ a \in InUse /\ a \in K /\ t \in K /\ cfd[t] = None
    BY <1>0, <1>5, ThreadHolds DEF Begin, ConnsOwned, TypeOK, K, Busy
  <2>2. /\ UNCHANGED <<conn, srv, srvConn, holds>>
        /\ cfd' = [cfd EXCEPT ![t] = c] /\ InUse' = InUse \ {a}
    BY <1>0, <1>5, <2>1, BeginMoves DEF Begin, srvVars
  <2>3. Keeps(a, c)
    BY <2>1 DEF Keeps
  <2>4. conn[c] = "open" /\ \A k \in K : Keeps(k, c) => k = a
    BY <2>1, <2>3 DEF AllKept, Kept
  <2>5. cfd'[t] = c /\ \A u \in Threads : u # t => cfd'[u] = cfd[u]
    BY <1>a, <2>2
  <2>6. a # None /\ a \notin Threads /\ t # None /\ t \notin Args
    BY <2>1
  <2>7. \A k \in K : Keeps(k, c)' <=> k = t
    <3>1. InUse \subseteq Args
      BY <1>0, InUseBlocks
    <3> QED BY <2>2, <2>4, <2>5, <2>6, <3>1 DEF Keeps
  <2>8. \A d \in Conns : d # c => SameKeepers(d)
    <3>1. holds[a] = c
      BY <2>1
    <3> QED BY <2>1, <2>2, <2>5, <3>1 DEF SameKeepers, Keeps
  <2> QED BY <2>1, <2>2, <2>4, <2>7, <2>8, OneChanges
<1>6. ASSUME NEW t \in Threads, Close(t) PROVE AllKept'
  <2>1. PICK c \in Conns : c = cfd[t] /\ t \in K
    BY <1>0, <1>6 DEF Close, TypeOK, K
  <2>2. /\ UNCHANGED <<srv, srvConn, srvArg, holds, arg, tasks, free>>
        /\ cfd' = [cfd EXCEPT ![t] = None] /\ conn' = [conn EXCEPT ![c] = "closed"]
    BY <1>6, <2>1 DEF Close, srvVars, argVars, queueVars
  <2>3. InUse' = InUse
    BY <1>0, <2>2, BlocksStay
  <2>4. Keeps(t, c)
    BY <2>1 DEF Keeps
  <2>5. \A k \in K : Keeps(k, c) => k = t
    BY <2>1, <2>4 DEF AllKept, Kept
  <2>6. cfd'[t] = None /\ \A u \in Threads : u # t => cfd'[u] = cfd[u]
    BY <1>a, <2>2
  <2>7. cfd[t] = c
    BY <2>1
  <2>8. \A k \in K : ~Keeps(k, c)'
    <3>1. t # None /\ t \notin InUse /\ c # None
      BY <1>0, <2>1, InUseBlocks
    <3> QED BY <2>2, <2>3, <2>5, <2>6, <3>1 DEF Keeps
  <2>9. \A d \in Conns : d # c => SameKeepers(d)
    <3>1. \A d \in Conns : d # None
      OBVIOUS
    <3> QED BY <1>a, <2>1, <2>2, <2>3, <2>6, <2>7, <3>1 DEF SameKeepers, Keeps
  <2>10. conn'[c] # "open"
    BY <1>a, <2>1, <2>2
  <2> QED BY <2>1, <2>8, <2>9, <2>10, OneChanges
<1> QED
  BY <1>1, <1>2, <1>3, <1>4, <1>5, <1>6, NextCases

(* Every open connection has exactly one keeper and no other connection has   *)
(* one, unless task_queue_push can meet a full free list.                     *)
THEOREM ExactlyOneKeeper == Spec => []OneKeeper
<1>1. OneKeeper <=> (NoUseAfterFree => AllKept)
  BY DEF OneKeeper, AllKept, Kept, K
<1>2. Init => OneKeeper
  <2> SUFFICES ASSUME Init, NEW c \in Conns PROVE Kept(c)
    BY <1>1 DEF AllKept
  <2>1. InUse = {} /\ srv = "none" /\ conn[c] = "new" /\ \A t \in Threads : cfd[t] = None
    BY DEF Init, InUse, Range
  <2> QED BY <2>1 DEF Kept, Keeps
<1>3. IInv /\ OneKeeper /\ [Next]_vars => OneKeeper'
  <2> SUFFICES ASSUME IInv, OneKeeper, [Next]_vars PROVE OneKeeper'
    OBVIOUS
  <2>1. NoUseAfterFree' <=> NoUseAfterFree
    BY ConfStays DEF NoUseAfterFree
  <2>2. NoUseAfterFree => AllKept'
    BY <1>1, KeptStep
  <2> QED BY <2>1, <2>2 DEF OneKeeper, AllKept, Kept, K
<1> QED BY <1>2, <1>3, Invariance, PTL DEF Spec
=============================================================================
