----------------------------- MODULE SlotCaches -----------------------------
(***************************************************************************)
(* The two kinds of small caches: answers of local HTTP requests by URL    *)
(* (any slot, looked through in order) and values by key (one slot, found  *)
(* by a hash). Locks make a search and a store one step each; the request  *)
(* between them takes time.                                                *)
(***************************************************************************)
EXTENDS Integers, FiniteSets, FiniteSetsExt

CONSTANTS
  Requests,        \* threads
  Urls,
  UrlSlots,        \* LOCAL_CACHE_ENTRIES
  UrlTtl,          \* LOCAL_CACHE_TTL_SEC
  Keys,
  Hash,            \* key |-> its slot
  Stored,          \* key |-> the key as the slot has room for it
  KeyTtl,          \* CACHE_TTL
  LastSecond,      \* bound: the clock stops here
  MaxBodies        \* bound: bodies the servers send, values that are set

ASSUME SlotAssumption ==
  /\ UrlSlots \in Nat \ {0}
  /\ UrlTtl \in Nat /\ KeyTtl \in Nat /\ LastSecond \in Nat /\ MaxBodies \in Nat
  /\ Hash \in [Keys -> Nat]
  /\ DOMAIN Stored = Keys

NoUrl == "no url"

VARIABLES
  second,    \* time(NULL)
  slots,     \* g_local_cache
  request,   \* [at, url, now, body] of each thread
  bodies,    \* history: <<url, second>> of each body a server has sent
  kv,        \* slot |-> [key, val, ts]; a key of "" is an empty slot
  sets       \* history: <<key, second>> of each value that was set

slotVars == <<second, slots, request, bodies, kv, sets>>

Free    == [url |-> NoUrl, body |-> 0, ts |-> 0]
Waiting == [at |-> "idle", url |-> NoUrl, now |-> 0, body |-> 0]

SlotTypeOK ==
  /\ second \in 0 .. LastSecond
  /\ slots \in [1 .. UrlSlots -> [url : Urls \cup {NoUrl}, body : 0 .. MaxBodies, ts : 0 .. LastSecond]]
  /\ request \in [Requests -> [at : {"idle", "search", "fetch", "store", "done"},
                               url : Urls \cup {NoUrl}, now : 0 .. LastSecond,
                               body : 0 .. MaxBodies]]
  /\ \A n \in DOMAIN bodies : bodies[n] \in Urls \X (0 .. LastSecond)
  /\ \A n \in DOMAIN sets : sets[n] \in Keys \X (0 .. LastSecond)

SlotInit ==
  /\ second = 0
  /\ slots = [i \in 1 .. UrlSlots |-> Free]
  /\ request = [t \in Requests |-> Waiting]
  /\ bodies = [n \in {} |-> <<>>]
  /\ kv = [i \in {Hash[k] : k \in Keys} |-> [key |-> "", val |-> 0, ts |-> 0]]
  /\ sets = [n \in {} |-> <<>>]

Extend(f, v) == [n \in DOMAIN f \cup {Cardinality(DOMAIN f) + 1} |->
                   IF n \in DOMAIN f THEN f[n] ELSE v]

-----------------------------------------------------------------------------
(* The time is read before the lock is taken. *)
BeginRequest(t, url) ==
  /\ request[t].at = "idle"
  /\ request' = [request EXCEPT ![t] = [at |-> "search", url |-> url, now |-> second, body |-> 0]]
  /\ UNCHANGED <<second, slots, bodies, kv, sets>>

(* The age of what is found is not looked at. *)
BadFresh(i, now) == TRUE

Fresh(i, now) == now - slots[i].ts <= UrlTtl

(* Slots with the URL that are too old are emptied up to the first that is not. *)
Search(t) ==
  LET url  == request[t].url
      mine == {i \in DOMAIN slots : slots[i].url = url}
      hits == {i \in mine : Fresh(i, request[t].now)}
      hit  == Min(hits)
  IN /\ request[t].at = "search"
     /\ slots' = [i \in DOMAIN slots |->
                    IF i \in mine \ hits /\ (hits # {} => i < hit) THEN Free ELSE slots[i]]
     /\ request' = [request EXCEPT ![t].at = IF hits = {} THEN "fetch" ELSE "done",
                                   ![t].body = IF hits = {} THEN 0 ELSE slots[hit].body]
     /\ UNCHANGED <<second, bodies, kv, sets>>

(* The local server answers, or does not. *)
Fetch(t) ==
  /\ request[t].at = "fetch"
  /\ \/ /\ Cardinality(DOMAIN bodies) < MaxBodies
        /\ bodies' = Extend(bodies, <<request[t].url, second>>)
        /\ request' = [request EXCEPT ![t].at = "store",
                                      ![t].body = Cardinality(DOMAIN bodies) + 1]
     \/ /\ request' = [request EXCEPT ![t].at = "done"]
        /\ UNCHANGED bodies
  /\ UNCHANGED <<second, slots, kv, sets>>

(* The first empty slot, else the oldest, else the first. *)
Victim(now) ==
  LET empty  == {i \in DOMAIN slots : slots[i].url = NoUrl}
      older  == {i \in DOMAIN slots : slots[i].ts < now}
      oldest == {i \in older : \A j \in older : slots[i].ts <= slots[j].ts}
  IN IF empty # {} THEN Min(empty) ELSE IF older # {} THEN Min(oldest) ELSE 1

(* Stamped with the time from before the request. *)
StoreBody(t) ==
  /\ request[t].at = "store"
  /\ slots' = [slots EXCEPT ![Victim(request[t].now)] =
                 [url |-> request[t].url, body |-> request[t].body, ts |-> request[t].now]]
  /\ request' = [request EXCEPT ![t].at = "done"]
  /\ UNCHANGED <<second, bodies, kv, sets>>

EndRequest(t) ==
  /\ request[t].at = "done"
  /\ request' = [request EXCEPT ![t] = Waiting]
  /\ UNCHANGED <<second, slots, bodies, kv, sets>>

(* olsr_cache_set and cache_set. *)
cache_set(k) ==
  /\ Cardinality(DOMAIN sets) < MaxBodies
  /\ sets' = Extend(sets, <<k, second>>)
  /\ kv' = [kv EXCEPT ![Hash[k]] =
              [key |-> Stored[k], val |-> Cardinality(DOMAIN sets) + 1, ts |-> second]]
  /\ UNCHANGED <<second, slots, request, bodies>>

(* Another key in the slot is taken for the one asked for. *)
Badcache_get(k) ==
  LET e == kv[Hash[k]]
  IN IF e.key = "" \/ second - e.ts > KeyTtl THEN 0 ELSE e.val

(* olsr_cache_get and cache_get: the value found, 0 for none. *)
cache_get(k) ==
  LET e == kv[Hash[k]]
  IN IF e.key = "" \/ e.key # k \/ second - e.ts > KeyTtl THEN 0 ELSE e.val

Second ==
  /\ second < LastSecond
  /\ second' = second + 1
  /\ UNCHANGED <<slots, request, bodies, kv, sets>>

UrlNext ==
  \/ \E t \in Requests :
       \/ \E url \in Urls : BeginRequest(t, url)
       \/ Search(t) \/ Fetch(t) \/ StoreBody(t) \/ EndRequest(t)
  \/ Second

KeyNext == (\E k \in Keys : cache_set(k)) \/ Second

SlotNext == UrlNext \/ KeyNext

SlotSpec == SlotInit /\ [][SlotNext]_slotVars

-----------------------------------------------------------------------------
(* An answer, remembered or not, is one the server gave for this very URL, and *)
(* gave at most UrlTtl seconds before the call (628-683): slots are emptied,   *)
(* filled and reused by others meanwhile, and a URL may be in several slots.   *)
AnswerIsRecent ==
  \A t \in Requests :
    request[t].body # 0 =>
      /\ bodies[request[t].body][1] = request[t].url
      /\ bodies[request[t].body][2] >= request[t].now - UrlTtl

(* A value that is found was the last one set for this very key, at most       *)
(* KeyTtl seconds ago, although keys that share a slot replace each other      *)
(* (4811-4863), unless a longer one there reads like this one once it is cut.  *)
(* Keys longer than their room are never found.                                *)
FoundIsLastSet ==
  \A k \in Keys :
    /\ cache_get(k) # 0
    /\ \A j \in Keys : Hash[j] = Hash[k] /\ Stored[j] = k => j = k
    => /\ sets[cache_get(k)] \in {k} \X (second - KeyTtl .. second)
       /\ \A n \in DOMAIN sets : sets[n][1] = k => n <= cache_get(k)
=============================================================================
