----------------------- MODULE EndpointCoalesceProofs -----------------------
(***************************************************************************)
(* Proofs about EndpointCoalesce, for any number of callers, any set of    *)
(* configurations and any bound on the clock: types, that a busy endpoint  *)
(* is in somebody's hands where the handlers always finish, and that work  *)
(* is not duplicated before a payload expires.                             *)
(***************************************************************************)
EXTENDS EndpointCoalesce, TLAPS

LEMMA WantsAreForms == ASSUME NEW e \in Endpoints PROVE Wants(e) \subseteq Forms
BY DEF Wants, Endpoints, Forms

LEMMA ConfigTypes ==
  ASSUME TypeOK
  PROVE  /\ conf \in Config
         /\ Wants(conf.endpoint) \subseteq Forms
         /\ None \notin Wants(conf.endpoint)
<1>1. conf \in Config
  BY ConfigsAssumption DEF TypeOK
<1>2. conf.endpoint \in Endpoints
  BY <1>1 DEF Config
<1> QED BY <1>1, <1>2, WantsAreForms, NoneAssumption

LEMMA AnsweredTypes ==
  ASSUME TypeOK, NEW c \in Callers, Answered(c)
  PROVE  /\ pc' \in [Callers -> {"idle", "asking", "waiting", "working"}]
         /\ want' \in [Callers -> Wants(conf.endpoint) \cup {None}]
         /\ asked' \in [Callers -> 0..MaxTime]
         /\ \A d \in Callers : want'[d] = None <=> pc'[d] = "idle"
BY MaxTimeAssumption DEF TypeOK, Answered

LEMMA TypeStep == TypeOK /\ [Next]_vars => TypeOK'
<1> SUFFICES ASSUME TypeOK, [Next]_vars PROVE TypeOK'
  OBVIOUS
<1> USE MaxTimeAssumption
<1>1. CASE Tick
  BY <1>1 DEF TypeOK, Tick, Payload
<1>2. CASE Initialise
  BY <1>2 DEF TypeOK, Initialise, Payload
<1>3. ASSUME NEW c \in Callers, Ask(c) PROVE TypeOK'
  BY <1>3, ConfigTypes DEF TypeOK, Ask, Payload
<1>4. ASSUME NEW c \in Callers, Hit(c) \/ WakeHit(c) \/ GiveUp(c) PROVE TypeOK'
  <2>1. Answered(c) /\ UNCHANGED <<conf, ready, busy, cached, now>>
    BY <1>4 DEF Hit, WakeHit, GiveUp
  <2> QED BY <2>1, AnsweredTypes DEF TypeOK, Payload
<1>5. ASSUME NEW c \in Callers, Wait(c) \/ Start(c) \/ WakeWork(c) PROVE TypeOK'
  BY <1>5 DEF TypeOK, Wait, Start, WakeWork, Misses, Payload
<1>6. ASSUME NEW c \in Callers, Finish(c) PROVE TypeOK'
  <2>1. Answered(c) /\ UNCHANGED <<conf, ready, now>> /\ busy' = FALSE
    BY <1>6 DEF Finish
  <2>2. want[c] \in Wants(conf.endpoint)
    BY <1>6 DEF Finish, TypeOK
  <2>3. cached' \in Payload \cup {None}
    BY <1>6, <2>2, ConfigTypes DEF Finish, TypeOK, Payload
  <2> QED BY <2>1, <2>3, AnsweredTypes DEF TypeOK, Payload
<1>7. CASE UNCHANGED vars
  BY <1>7 DEF TypeOK, vars, Payload
<1> QED
  BY <1>1, <1>2, <1>3, <1>4, <1>5, <1>6, <1>7 DEF Next, CallerStep

(* Every variable stays in its type: a payload is one of a form the endpoint *)
(* has, and a caller has a request exactly while it is not idle.             *)
THEOREM TypeCorrect == Spec => []TypeOK
<1>1. Init => TypeOK
  <2> SUFFICES ASSUME Init PROVE TypeOK
    OBVIOUS
  <2>1. now \in 0..MaxTime /\ asked \in [Callers -> 0..MaxTime]
    BY MaxTimeAssumption DEF Init
  <2>2. want \in [Callers -> Wants(conf.endpoint) \cup {None}]
    BY DEF Init
  <2> QED BY <2>1, <2>2 DEF Init, TypeOK
<1> QED BY <1>1, TypeStep, PTL DEF Spec

-----------------------------------------------------------------------------
(* Where the handler always reaches endpoint_coalesce_finish (traceroute, or *)
(* while memory lasts), a busy endpoint has a caller at work on it.          *)
THEOREM BusyAlwaysOwned == Spec => []NotAbandoned
<1>1. Init => NotAbandoned
  BY DEF Init, NotAbandoned, BusyIsOwned
<1>2. TypeOK /\ NotAbandoned /\ [Next]_vars => NotAbandoned'
  <2> SUFFICES ASSUME TypeOK, AlwaysFinishes, BusyIsOwned, [Next]_vars
               PROVE  BusyIsOwned'
    <3>1. [Next]_vars => conf' = conf
      BY DEF Next, CallerStep, vars, Tick, Initialise, Ask, Hit, Wait, Start,
             WakeHit, WakeWork, Finish, GiveUp
    <3> QED BY <3>1 DEF NotAbandoned, AlwaysFinishes
  <2>1. CASE Tick \/ UNCHANGED vars
    BY <2>1 DEF Tick, vars, BusyIsOwned, Working
  <2>2. CASE Initialise
    BY <2>2 DEF Initialise, BusyIsOwned
  <2>3. ASSUME NEW c \in Callers,
               Ask(c) \/ Hit(c) \/ Wait(c) \/ WakeHit(c) \/ WakeWork(c)
        PROVE  BusyIsOwned'
    <3>1. /\ busy' = busy
          /\ \A d \in Callers : pc[d] = "working" => pc'[d] = "working"
      BY <2>3 DEF TypeOK, Ask, Hit, Wait, WakeHit, WakeWork, Misses, Answered
    <3> QED BY <3>1 DEF BusyIsOwned, Working
  <2>4. ASSUME NEW c \in Callers, Start(c) PROVE BusyIsOwned'
    <3>1. pc'[c] = "working"
      BY <2>4 DEF Start, TypeOK
    <3> QED BY <3>1 DEF BusyIsOwned, Working
  <2>5. ASSUME NEW c \in Callers, Finish(c) PROVE BusyIsOwned'
    BY <2>5 DEF Finish, BusyIsOwned
  <2>6. ASSUME NEW c \in Callers, GiveUp(c) PROVE FALSE
    BY <2>6 DEF GiveUp, AlwaysFinishes
  <2> QED
    BY <2>1, <2>2, <2>3, <2>4, <2>5, <2>6 DEF Next, CallerStep
<1> QED BY <1>1, <1>2, TypeCorrect, PTL DEF Spec

-----------------------------------------------------------------------------
(* The strengthening of CoalescesUntilExpiry: a worker holds busy and there  *)
(* is no payload yet; a waiter has a worker to wait for, or a payload.       *)
Coalesced ==
  /\ ~ready => /\ ~busy
               /\ cached = None
               /\ \A c \in Callers : pc[c] = "idle"
  /\ \A c \in Callers : pc[c] = "working" => busy /\ cached = None
  /\ \A c, d \in Callers : pc[c] = "working" /\ pc[d] = "working" => c = d
  /\ \A c \in Callers : pc[c] = "waiting" => busy \/ cached # None

(* Within the TTL a payload that exists is fresh, whenever the clock was read. *)
LEMMA PayloadIsFresh ==
  ASSUME TypeOK, ready, MaxTime <= conf.ttl, cached # None, NEW t \in 0..MaxTime
  PROVE  FreshAt(t)
<1>1. cached.ts \in 0..MaxTime
  BY DEF TypeOK, Payload
<1>2. conf.ttl \in Int
  BY ConfigTypes DEF Config
<1>3. t - cached.ts <= conf.ttl
  BY <1>1, <1>2, MaxTimeAssumption
<1> QED BY <1>3 DEF FreshAt

LEMMA CoalescedStep ==
  ASSUME MaxTime <= conf.ttl, ~conf.memoryFails, ~conf.earlyRequests,
         TypeOK, Coalesced, [Next]_vars
  PROVE  Coalesced'
<1>1. CASE Tick \/ UNCHANGED vars
  BY <1>1 DEF Tick, vars, Coalesced
<1>2. CASE Initialise
  BY <1>2 DEF Initialise, Coalesced
<1>3. ASSUME NEW c \in Callers, Ask(c) PROVE Coalesced'
  BY <1>3 DEF Ask, Coalesced, TypeOK
<1>4. ASSUME NEW c \in Callers, Hit(c) \/ WakeHit(c) PROVE Coalesced'
  <2>1. /\ Answered(c) /\ UNCHANGED <<conf, ready, busy, cached, now>>
        /\ ready
    BY <1>4 DEF Hit, WakeHit, Coalesced
  <2> QED BY <2>1 DEF Answered, Coalesced, TypeOK
<1>5. ASSUME NEW c \in Callers, Misses(c) PROVE ready /\ cached = None
  <2>1. ready
    BY <1>5 DEF Misses, Coalesced
  <2>2. asked[c] \in 0..MaxTime
    BY DEF TypeOK
  <2> QED BY <1>5, <2>1, <2>2, PayloadIsFresh DEF Misses
<1>6. ASSUME NEW c \in Callers, Wait(c) PROVE Coalesced'
  <2>1. ready /\ busy /\ pc' = [pc EXCEPT ![c] = "waiting"]
           /\ UNCHANGED <<ready, busy, cached>>
    BY <1>6, <1>5 DEF Wait
  <2> QED BY <2>1 DEF Coalesced, TypeOK
<1>7. ASSUME NEW c \in Callers, Start(c) PROVE Coalesced'
  <2>1. /\ ready /\ cached = None /\ ~busy /\ busy'
        /\ pc' = [pc EXCEPT ![c] = "working"]
        /\ UNCHANGED <<ready, cached>>
    BY <1>7, <1>5 DEF Start
  <2>2. \A d \in Callers : pc[d] # "working"
    BY <2>1 DEF Coalesced
  <2> QED BY <2>1, <2>2 DEF Coalesced, TypeOK
<1>8. ASSUME NEW c \in Callers, WakeWork(c) PROVE FALSE
  <2>1. ready /\ cached # None
    BY <1>8 DEF WakeWork, Coalesced
  <2>2. now \in 0..MaxTime
    BY DEF TypeOK
  <2> QED BY <1>8, <2>1, <2>2, PayloadIsFresh DEF WakeWork
<1>9. ASSUME NEW c \in Callers, Finish(c) PROVE Coalesced'
  <2>1. /\ pc[c] = "working" /\ ready /\ ready'
        /\ ~busy'
        /\ pc' = [pc EXCEPT ![c] = "idle"]
        /\ cached' = [form |-> want[c], ts |-> now]
    BY <1>9 DEF Finish, Answered, Coalesced
  <2>2. cached' # None
    <3>1. want[c] \in Wants(conf.endpoint) /\ now \in 0..MaxTime
      BY <2>1 DEF TypeOK
    <3> QED BY <2>1, <3>1, NoneAssumption, ConfigTypes DEF Payload
  <2>3. \A d \in Callers : pc'[d] # "working"
    BY <2>1 DEF Coalesced, TypeOK
  <2> QED BY <2>1, <2>2, <2>3 DEF Coalesced, TypeOK
<1>10. ASSUME NEW c \in Callers, GiveUp(c) PROVE FALSE
  BY <1>10 DEF GiveUp
<1> QED
  BY <1>1, <1>2, <1>3, <1>4, <1>6, <1>7, <1>8, <1>9, <1>10
     DEF Next, CallerStep

(* Before a payload expires, with memory enough and a quiet start-up, no two *)
(* callers work at a time and none works once there is a payload.            *)
THEOREM CoalescesWithinTtl == Spec => []CoalescesUntilExpiry
<1> DEFINE Undisturbed ==
      MaxTime <= conf.ttl /\ ~conf.memoryFails /\ ~conf.earlyRequests
<1>1. Init => (Undisturbed => Coalesced)
  BY DEF Init, Coalesced
<1>2. TypeOK /\ (Undisturbed => Coalesced) /\ [Next]_vars
        => (Undisturbed => Coalesced)'
  <2>1. [Next]_vars => conf' = conf
    BY DEF Next, CallerStep, vars, Tick, Initialise, Ask, Hit, Wait, Start,
           WakeHit, WakeWork, Finish, GiveUp
  <2>2. TypeOK /\ Undisturbed /\ Coalesced /\ [Next]_vars => Coalesced'
    BY CoalescedStep
  <2> QED BY <2>1, <2>2
<1>3. (Undisturbed => Coalesced) => CoalescesUntilExpiry
  BY DEF Coalesced, CoalescesUntilExpiry, Working
<1> QED
  <2> HIDE DEF Undisturbed
  <2> QED BY <1>1, <1>2, <1>3, TypeCorrect, PTL DEF Spec
=============================================================================
