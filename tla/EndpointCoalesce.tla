-------------------------- MODULE EndpointCoalesce --------------------------
(***************************************************************************)
(* The coalescer that serializes an expensive endpoint: one request does   *)
(* the work, those that arrive meanwhile wait for it, and the payload is   *)
(* kept for a few seconds.  The module is one endpoint_coalesce_t with the *)
(* handler that goes through it; its configuration says which of the three *)
(* it is.                                                                  *)
(***************************************************************************)
EXTENDS Integers

CONSTANTS
  Callers,   \* pool threads that serve requests for the endpoint
  Configs,   \* the configurations to consider
  MaxTime,   \* bound on the clock
  None       \* the NULL pointer

Endpoints == {"devices", "discover", "traceroute"}

(* ttl is an unchecked parameter; memoryFails: malloc may fail;             *)
(* earlyRequests: requests may arrive before endpoint_coalesce_init.        *)
Config == [endpoint : Endpoints, ttl : Int,
           memoryFails : BOOLEAN, earlyRequests : BOOLEAN]

(* The forms an answer can take: what the query of each handler selects. *)
Wants(e) ==
  IF e = "devices" THEN {"full", "lite", "refresh"}
  ELSE IF e = "discover" THEN {"full", "slim"}
  ELSE {"route"}

Forms == {"full", "lite", "refresh", "slim", "route"}

(* A payload that answered a request for one form. *)
Payload == [form : Forms, ts : 0..MaxTime]

ASSUME ConfigsAssumption == Configs \subseteq Config
ASSUME MaxTimeAssumption == MaxTime \in Nat
ASSUME NoneAssumption    == None \notin Forms /\ None \notin Payload

VARIABLES
  conf,     \* the configuration, which stays as it is
  ready,    \* has endpoint_coalesce_init run
  busy,     \* busy
  cached,   \* cached and ts: None, or the payload and when it was stored
  now,      \* time(NULL)
  pc,       \* where each caller is
  want,     \* the form of answer a caller's request asks for
  asked     \* now, read on entry to endpoint_coalesce_try_start

vars == <<conf, ready, busy, cached, now, pc, want, asked>>

(* Is there a payload that is not too old at time t?  ttl is zero until *)
(* endpoint_coalesce_init sets it.                                      *)
FreshAt(t) ==
  cached # None /\ t - cached.ts <= IF ready THEN conf.ttl ELSE 0

TypeOK ==
  /\ conf \in Configs
  /\ ready \in BOOLEAN
  /\ busy \in BOOLEAN
  /\ cached \in Payload \cup {None}
  /\ now \in 0..MaxTime
  /\ pc \in [Callers -> {"idle", "asking", "waiting", "working"}]
  /\ want \in [Callers -> Wants(conf.endpoint) \cup {None}]
  /\ asked \in [Callers -> 0..MaxTime]
  /\ \A c \in Callers : want[c] = None <=> pc[c] = "idle"

Init ==
  /\ conf \in Configs
  /\ ready = FALSE
  /\ busy = FALSE
  /\ cached = None
  /\ now = 0
  /\ pc = [c \in Callers |-> "idle"]
  /\ want = [c \in Callers |-> None]
  /\ asked = [c \in Callers |-> 0]

Tick ==
  /\ now < MaxTime
  /\ now' = now + 1
  /\ UNCHANGED <<conf, ready, busy, cached, pc, want, asked>>

(* endpoint_coalesce_init.  olsrd_plugin_init calls it after it has started *)
(* the server and registered the handlers, so that it may find the endpoint *)
(* in use: busy and the cache are reset all the same.                       *)
Initialise ==
  /\ ~ready
  /\ ready' = TRUE
  /\ busy' = FALSE
  /\ cached' = None
  /\ UNCHANGED <<conf, now, pc, want, asked>>

-----------------------------------------------------------------------------
(* A request arrives; the handler reads the clock before it takes the lock. *)
Ask(c) ==
  /\ pc[c] = "idle"
  /\ ready \/ conf.earlyRequests
  /\ pc' = [pc EXCEPT ![c] = "asking"]
  /\ \E w \in Wants(conf.endpoint) : want' = [want EXCEPT ![c] = w]
  /\ asked' = [asked EXCEPT ![c] = now]
  /\ UNCHANGED <<conf, ready, busy, cached, now>>

(* The request is answered. *)
Answered(c) ==
  /\ pc' = [pc EXCEPT ![c] = "idle"]
  /\ want' = [want EXCEPT ![c] = None]
  /\ asked' = [asked EXCEPT ![c] = 0]

BadHit(c) ==
  /\ pc[c] = "asking"
  /\ FreshAt(asked[c])
  /\ pc' = [pc EXCEPT ![c] = "idle"]
  /\ UNCHANGED <<conf, ready, busy, cached, now, want, asked>>

(* The payload is fresh enough at the time the caller read. *)
Hit(c) ==
  /\ pc[c] = "asking"
  /\ FreshAt(asked[c])
  /\ Answered(c)
  /\ UNCHANGED <<conf, ready, busy, cached, now>>

(* No payload, or no memory to copy it. *)
Misses(c) == pc[c] = "asking" /\ (~FreshAt(asked[c]) \/ conf.memoryFails)

Wait(c) ==
  /\ Misses(c)
  /\ busy
  /\ pc' = [pc EXCEPT ![c] = "waiting"]
  /\ UNCHANGED <<conf, ready, busy, cached, now, want, asked>>

Start(c) ==
  /\ Misses(c)
  /\ ~busy
  /\ busy' = TRUE
  /\ pc' = [pc EXCEPT ![c] = "working"]
  /\ UNCHANGED <<conf, ready, cached, now, want, asked>>

BadWakeHit(c) ==
  /\ pc[c] = "waiting"
  /\ ~busy
  /\ busy' = TRUE
  /\ FreshAt(now)
  /\ Answered(c)
  /\ UNCHANGED <<conf, ready, cached, now>>

(* A waiter wakes, by the broadcast or spuriously, and finds a payload that *)
(* is fresh: the clock is read again, under the lock.                        *)
WakeHit(c) ==
  /\ pc[c] = "waiting"
  /\ ~busy
  /\ FreshAt(now)
  /\ Answered(c)
  /\ UNCHANGED <<conf, ready, busy, cached, now>>

BadWakeWork(c) ==
  /\ pc[c] = "waiting"
  /\ ~busy
  /\ pc' = [pc EXCEPT ![c] = "working"]
  /\ UNCHANGED <<conf, ready, busy, cached, now, want, asked>>

(* A waiter wakes and there is nothing to use: it goes to work without busy. *)
WakeWork(c) ==
  /\ pc[c] = "waiting"
  /\ ~busy
  /\ ~FreshAt(now) \/ conf.memoryFails
  /\ pc' = [pc EXCEPT ![c] = "working"]
  /\ UNCHANGED <<conf, ready, busy, cached, now, want, asked>>

BadFinish(c) ==
  /\ pc[c] = "working"
  /\ busy' = (busy /\ \E d \in Callers : pc[d] = "waiting")
  /\ \/ cached' = [form |-> want[c], ts |-> now]
     \/ conf.memoryFails /\ cached' = None
  /\ Answered(c)
  /\ UNCHANGED <<conf, ready, now>>

(* endpoint_coalesce_finish: store the payload, or clear the cache when there *)
(* was no memory to copy it; release busy and wake all waiters.               *)
Finish(c) ==
  /\ pc[c] = "working"
  /\ busy' = FALSE
  /\ \/ cached' = [form |-> want[c], ts |-> now]
     \/ conf.memoryFails /\ cached' = None
  /\ Answered(c)
  /\ UNCHANGED <<conf, ready, now>>

(* The devices and discover handlers answer "{}" when they cannot allocate *)
(* their buffer, and return without endpoint_coalesce_finish.              *)
GiveUp(c) ==
  /\ pc[c] = "working"
  /\ conf.memoryFails
  /\ conf.endpoint # "traceroute"
  /\ Answered(c)
  /\ UNCHANGED <<conf, ready, busy, cached, now>>

-----------------------------------------------------------------------------
CallerStep(c) ==
  \/ Ask(c)
  \/ Hit(c)
  \/ Wait(c)
  \/ Start(c)
  \/ WakeHit(c)
  \/ WakeWork(c)
  \/ Finish(c)
  \/ GiveUp(c)

Next == Tick \/ Initialise \/ \E c \in Callers : CallerStep(c)

Spec == Init /\ [][Next]_vars

(* The work of every endpoint is bounded (time limits on probes and commands) *)
(* and a thread that has begun work goes on with it.                          *)
Fairness == \A c \in Callers : WF_vars(Finish(c) \/ GiveUp(c))

FairSpec == Spec /\ Fairness

-----------------------------------------------------------------------------
Working == {c \in Callers : pc[c] = "working"}

(* The traceroute handler reaches endpoint_coalesce_finish on every path; the *)
(* others do unless an allocation fails.                                      *)
AlwaysFinishes == conf.endpoint = "traceroute" \/ ~conf.memoryFails

BusyIsOwned == busy => Working # {}

(* Where the handler always finishes, a busy endpoint has a caller at work on *)
(* it who will release it: it does not get stuck behind somebody who has      *)
(* already answered, whoever clears or inherits busy.                         *)
NotAbandoned == AlwaysFinishes => BusyIsOwned

(* While no payload outlives its TTL, memory suffices and nobody asks during  *)
(* start-up, the expensive work is never done twice at a time, and never      *)
(* again once a payload exists: the promise of the comment on                 *)
(* endpoint_coalesce_t, where it does hold.                                   *)
CoalescesUntilExpiry ==
  (MaxTime <= conf.ttl /\ ~conf.memoryFails /\ ~conf.earlyRequests) =>
    /\ \A c, d \in Working : c = d
    /\ cached # None => Working = {}

(* There the endpoint also becomes free again, so that waiters get to look.   *)
BusyEnds == busy /\ AlwaysFinishes ~> ~busy

(* Statements of comments and docs that the code does not keep. *)

(* endpoint_coalesce_try_start tells a caller to "perform the heavy work and  *)
(* later call endpoint_coalesce_finish()": nobody who set busy goes away.     *)
FinishFollowsStart == BusyIsOwned

(* "It allows multiple concurrent HTTP requests for the same endpoint to     *)
(* avoid duplicating expensive work": at most one caller works at a time.    *)
OneWorkerAtATime == \A c, d \in Working : c = d

=============================================================================
