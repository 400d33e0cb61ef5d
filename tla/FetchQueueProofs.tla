-------------------------- MODULE FetchQueueProofs --------------------------
(***************************************************************************)
(* Proofs about FetchQueue, for every number of callers and blocks, every  *)
(* queue bound, retry count and clock.                                     *)
(*                                                                         *)
(* The argument is about ownership.  A block is reached by the queue, by   *)
(* the worker, or by the creator that waits for it; IInv says who may hold *)
(* what and in which state, so that each action that frees or writes a     *)
(* block can be seen to disturb nobody else.  The dedupe rule is the other *)
(* half: it keeps the queue free of redundant requests, and there are only *)
(* four kinds of request that are pairwise not redundant.                  *)
(***************************************************************************)
EXTENDS FetchQueue, TLAPS

Waiting(c) == pc[c] \in {"waitOwn", "waitFound"}

WorkerHolds == wpc \in {"gate", "fetching", "judging", "publish"}

(* Pointers that are about to be followed are not NULL. *)
PointersSet ==
  /\ IF wpc = "idle" THEN rq = None ELSE rq \in Reqs
  /\ \A c \in Callers : Waiting(c) => ptr[c] \in Reqs

(* Between requests the worker's attempt counter is back at 0. *)
WorkerAtRest == wpc \in {"idle", "publish", "release"} => attempt = 0

QueueDistinct ==
  \A i, j \in 1..Len(queue) : i # j => queue[i] # queue[j]

QueueOwns == \A r \in Pending : Live(r) /\ ~heap[r].done

WorkerOwns ==
  /\ WorkerHolds => Live(rq) /\ ~heap[rq].done
  /\ wpc # "idle" => rq \notin Pending
  /\ wpc = "release" /\ Live(rq) => heap[rq].done

(* A creator that waits has a block of its own that is marked as awaited. *)
CreatorOwns ==
  /\ \A c \in Callers : pc[c] = "waitOwn" => Live(ptr[c]) /\ heap[ptr[c]].wait
  /\ \A c, d \in Callers :
       pc[c] = "waitOwn" /\ pc[d] = "waitOwn" /\ c # d => ptr[c] # ptr[d]

Ownership ==
  /\ PointersSet
  /\ WorkerAtRest
  /\ QueueDistinct
  /\ QueueOwns
  /\ WorkerOwns
  /\ CreatorOwns

IInv == TypeOK /\ Ownership

USE EntriesAssumption, NoneAssumption, BoundsAssumption

(* The initial states satisfy the inductive invariant. *)
LEMMA InitIInv == Init => IInv
<1> SUFFICES ASSUME Init PROVE IInv
  OBVIOUS
<1>1. TypeOK
  <2>1. queue \in Seq(Reqs) /\ heap \in [Reqs -> Request \cup {Freed}]
    BY DEF Init
  <2>2. /\ pc \in [Callers -> {"idle", "needed", "waitOwn", "waitFound",
                               "fetching", "clearing"}]
        /\ via \in [Callers -> Entries \cup {None}]
        /\ ptr \in [Callers -> Reqs \cup {None}]
        /\ fresh \in [Callers -> BOOLEAN]
    BY DEF Init
  <2>3. lastFetch \in [Types -> 0..MaxTime] /\ now \in 1..MaxTime
    BY DEF Init
  <2>4. attempt \in 0..Retries /\ prev \in 0..MaxTime
    BY DEF Init
  <2>5. /\ wpc = "idle" /\ rq = None
        /\ inProgress \in BOOLEAN /\ dropped \in BOOLEAN
        /\ crashed \in BOOLEAN
    BY DEF Init
  <2> QED
    BY <2>1, <2>2, <2>3, <2>4, <2>5 DEF TypeOK
<1>2. PointersSet /\ QueueDistinct /\ QueueOwns /\ WorkerOwns
  BY DEF Init, PointersSet, Waiting, QueueDistinct, QueueOwns, Pending,
         WorkerOwns, WorkerHolds
<1>3. CreatorOwns
  BY DEF Init, CreatorOwns
<1>4. WorkerAtRest
  BY DEF Init, WorkerAtRest
<1> QED
  BY <1>1, <1>2, <1>3, <1>4 DEF IInv, Ownership

(* A fresh request, and the result of each write to a block, have the type   *)
(* of a block.                                                               *)
LEMMA BlockTypes ==
  /\ \A e \in Entries :
       /\ [entry |-> e, wait |-> Waits(e), done |-> FALSE] \in Request
       /\ e # "none"
  /\ \A b \in Request : /\ b.entry # "none"
                        /\ [b EXCEPT !.wait = FALSE] \in Request
                        /\ [b EXCEPT !.done = TRUE] \in Request
  /\ Freed.entry = "none"
  /\ ~Freed.wait
  /\ ~Freed.done
<1>1. ASSUME NEW e \in Entries
      PROVE  /\ [entry |-> e, wait |-> Waits(e), done |-> FALSE] \in Request
             /\ e # "none"
  <2>1. e \in EntryPoints /\ Waits(e) \in BOOLEAN
    BY DEF Waits
  <2> HIDE DEF Waits
  <2> QED
    BY <2>1 DEF Request, EntryPoints
<1>2. ASSUME NEW b \in Request
      PROVE  /\ b.entry # "none"
             /\ [b EXCEPT !.wait = FALSE] \in Request
             /\ [b EXCEPT !.done = TRUE] \in Request
  BY DEF Request, EntryPoints
<1> QED
  BY <1>1, <1>2 DEF Freed

(* A block holds a request exactly when it is live. *)
LEMMA LiveIsRequest ==
  ASSUME TypeOK, NEW r \in Reqs
  PROVE  IF Live(r) THEN heap[r] \in Request ELSE heap[r] = Freed
  BY BlockTypes DEF TypeOK, Live

(* Goto keeps the types of the callers' variables. *)
LEMMA GotoTypes ==
  ASSUME TypeOK,
         NEW c \in Callers,
         NEW p \in {"idle", "needed", "waitOwn", "waitFound", "fetching",
                    "clearing"},
         NEW e \in Entries \cup {None},
         NEW r \in Reqs \cup {None},
         Goto(c, p, e, r)
  PROVE  /\ pc' \in [Callers -> {"idle", "needed", "waitOwn", "waitFound",
                                 "fetching", "clearing"}]
         /\ via' \in [Callers -> Entries \cup {None}]
         /\ ptr' \in [Callers -> Reqs \cup {None}]
         /\ fresh' \in [Callers -> BOOLEAN]
  BY DEF TypeOK, Goto

LEMMA MatchesArePending ==
  ASSUME TypeOK, NEW e \in Entries, NEW i \in Matches(e)
  PROVE  queue[i] \in Pending /\ queue[i] \in Reqs
  BY DEF TypeOK, Matches, Pending

(* No step takes the queue, its entries or the worker out of their types. *)
LEMMA TypeStep ==
  ASSUME IInv, Next
  PROVE  TypeOK'
<1> USE DEF IInv, Ownership
<1>1. CASE Tick
  BY <1>1 DEF Tick, TypeOK, callerVars, workerVars
<1>2. ASSUME NEW c \in Callers, FindNodedbStale(c) PROVE TypeOK'
  BY <1>2, GotoTypes DEF FindNodedbStale, TypeOK, workerVars
<1>3. ASSUME NEW c \in Callers, NEW e \in Entries, Dedupe(c, e) PROVE TypeOK'
  <2>1. PICK i \in Matches(e) :
          IF Waits(e) THEN Goto(c, "waitFound", e, queue[i]) ELSE Return(c)
    BY <1>3 DEF Dedupe
  <2>2. queue[i] \in Reqs
    BY MatchesArePending
  <2> QED
    BY <1>3, <2>1, <2>2, GotoTypes DEF Dedupe, Return, TypeOK, workerVars
<1>4. ASSUME NEW c \in Callers, NEW e \in Entries, FetchInline(c, e)
      PROVE  TypeOK'
  BY <1>4, GotoTypes DEF FetchInline, TypeOK, workerVars
<1>5. ASSUME NEW c \in Callers, NEW e \in Entries, Drop(c, e) PROVE TypeOK'
  BY <1>5, GotoTypes DEF Drop, Return, TypeOK, workerVars
<1>6. ASSUME NEW c \in Callers, NEW e \in Entries, NEW r \in Reqs,
             Accept(c, e, r)
      PROVE  TypeOK'
  <2>1. heap' \in [Reqs -> Request \cup {Freed}]
    BY <1>6, BlockTypes DEF Accept, TypeOK
  <2>2. queue' \in Seq(Reqs)
    BY <1>6 DEF Accept, TypeOK
  <2> QED
    BY <1>6, <2>1, <2>2, GotoTypes DEF Accept, Return, TypeOK, workerVars
<1>7. ASSUME NEW c \in Callers, WakeOwn(c) PROVE TypeOK'
  BY <1>7, GotoTypes DEF WakeOwn, Return, TypeOK, workerVars
<1>8. ASSUME NEW c \in Callers, TimeoutOwn(c) PROVE TypeOK'
  <2>1. ptr[c] \in Reqs /\ heap[ptr[c]] \in Request
    BY <1>8, LiveIsRequest DEF TimeoutOwn, PointersSet, CreatorOwns, Waiting
  <2>2. heap' \in [Reqs -> Request \cup {Freed}]
    BY <1>8, <2>1, BlockTypes DEF TimeoutOwn, TypeOK
  <2> QED
    BY <1>8, <2>2, GotoTypes DEF TimeoutOwn, Return, TypeOK, workerVars
<1>9. ASSUME NEW c \in Callers, LeaveFound(c) PROVE TypeOK'
  BY <1>9, GotoTypes DEF LeaveFound, Return, TypeOK, workerVars
<1>10. ASSUME NEW c \in Callers, UseFreedFound(c) PROVE TypeOK'
  BY <1>10, GotoTypes DEF UseFreedFound, Return, TypeOK, callerVars, workerVars
<1>11. ASSUME NEW c \in Callers, FetchDirect(c) PROVE TypeOK'
  BY <1>11, GotoTypes DEF FetchDirect, TypeOK, workerVars
<1>12. ASSUME NEW c \in Callers, CallerFetchEnds(c) PROVE TypeOK'
  <2>1. via[c] \in Entries \cup {None}
    BY DEF TypeOK
  <2>2. lastFetch' \in [Types -> 0..MaxTime]
    BY <1>12 DEF CallerFetchEnds, TypeOK
  <2> QED
    BY <1>12, <2>1, <2>2, GotoTypes DEF CallerFetchEnds, TypeOK, workerVars
<1>13. ASSUME NEW c \in Callers, CallerClearsGate(c) PROVE TypeOK'
  BY <1>13, GotoTypes DEF CallerClearsGate, Return, TypeOK, workerVars
<1>14. CASE Pop
  <2>1. queue # <<>> /\ queue \in Seq(Reqs)
    BY <1>14 DEF Pop, TypeOK
  <2>2. Head(queue) \in Reqs /\ Tail(queue) \in Seq(Reqs)
    BY <2>1
  <2>3. wpc' = "gate" => attempt' < Retries
    BY <1>14 DEF Pop, TypeOK, WorkerAtRest
  <2> QED
    BY <1>14, <2>2, <2>3 DEF Pop, TypeOK, callerVars
<1>15. CASE StartAttempt
  BY <1>15 DEF StartAttempt, TypeOK, Types, Type
<1>16. CASE WorkerFetchEnds
  <2>1. lastFetch' \in [Types -> 0..MaxTime]
    BY <1>16 DEF WorkerFetchEnds, TypeOK
  <2> QED
    BY <1>16, <2>1 DEF WorkerFetchEnds, TypeOK, callerVars
<1>17. CASE EndAttempt
  <2>1. attempt' \in 0..Retries /\ (wpc' = "gate" => attempt' < Retries)
    BY <1>17 DEF EndAttempt, TypeOK
  <2>2. prev' \in 0..MaxTime
    BY <1>17 DEF EndAttempt
  <2>3. /\ wpc' \in {"gate", "publish"}
        /\ inProgress' \in BOOLEAN
    BY <1>17 DEF EndAttempt, TypeOK
  <2> QED
    BY <1>17, <2>1, <2>2, <2>3 DEF EndAttempt, TypeOK, callerVars
<1>18. CASE Publish
  <2>1. rq \in Reqs /\ heap[rq] \in Request
    BY <1>18, LiveIsRequest DEF Publish, PointersSet, WorkerOwns, WorkerHolds
  <2>2. heap' \in [Reqs -> Request \cup {Freed}]
    BY <1>18, <2>1, BlockTypes DEF Publish, TypeOK
  <2> QED
    BY <1>18, <2>2 DEF Publish, TypeOK, callerVars
<1>19. CASE Release
  BY <1>19 DEF Release, TypeOK, callerVars
<1>20. CASE ReleaseFreed
  BY <1>20 DEF ReleaseFreed, TypeOK, callerVars
<1> QED
  BY <1>1, <1>2, <1>3, <1>4, <1>5, <1>6, <1>7, <1>8, <1>9, <1>10, <1>11,
     <1>12, <1>13, <1>14, <1>15, <1>16, <1>17, <1>18, <1>19, <1>20
     DEF Next, CallerStep, WorkerStep

-----------------------------------------------------------------------------
(* The queue after an append and after a pop. *)
LEMMA AppendQueue ==
  ASSUME TypeOK, NEW r \in Reqs, queue' = Append(queue, r)
  PROVE  /\ Len(queue') = Len(queue) + 1
         /\ Len(queue) \in Nat
         /\ \A i \in 1..Len(queue) : queue'[i] = queue[i]
         /\ queue'[Len(queue) + 1] = r
         /\ Pending' = Pending \cup {r}
<1>1. /\ Len(queue') = Len(queue) + 1
      /\ Len(queue) \in Nat
      /\ \A i \in 1..Len(queue) : queue'[i] = queue[i]
      /\ queue'[Len(queue) + 1] = r
  BY DEF TypeOK
<1>2. 1..Len(queue') = 1..Len(queue) \cup {Len(queue) + 1}
  BY <1>1
<1> QED
  BY <1>1, <1>2 DEF Pending

LEMMA PopQueue ==
  ASSUME TypeOK, QueueDistinct, queue # <<>>, queue' = Tail(queue)
  PROVE  /\ Len(queue) \in Nat
         /\ Len(queue') = Len(queue) - 1
         /\ \A i \in 1..Len(queue') : i + 1 \in 1..Len(queue)
                                      /\ queue'[i] = queue[i + 1]
         /\ Head(queue) \in Reqs
         /\ Head(queue) \in Pending
         /\ Pending' = Pending \ {Head(queue)}
<1>1. /\ Len(queue) \in Nat \ {0}
      /\ Len(queue') = Len(queue) - 1
      /\ \A i \in 1..Len(queue') : i + 1 \in 1..Len(queue)
                                   /\ queue'[i] = queue[i + 1]
      /\ Head(queue) \in Reqs
      /\ Head(queue) = queue[1]
  BY DEF TypeOK
<1>2. Head(queue) \in Pending
  BY <1>1 DEF Pending
<1>3. Pending' \subseteq Pending \ {Head(queue)}
  <2> SUFFICES ASSUME NEW i \in 1..Len(queue')
               PROVE  queue'[i] \in Pending /\ queue'[i] # Head(queue)
    BY DEF Pending
  <2> QED
    BY <1>1 DEF Pending, QueueDistinct
<1>4. Pending \ {Head(queue)} \subseteq Pending'
  <2> SUFFICES ASSUME NEW i \in 1..Len(queue), queue[i] # Head(queue)
               PROVE  queue[i] \in Pending'
    BY DEF Pending
  <2>1. i - 1 \in 1..Len(queue')
    BY <1>1
  <2>2. queue'[i - 1] = queue[i]
    BY <1>1, <2>1
  <2> QED
    BY <2>1, <2>2 DEF Pending
<1> QED
  BY <1>1, <1>2, <1>3, <1>4

(* A step that leaves the queue, the blocks and the worker alone, and makes  *)
(* nobody a waiting creator, disturbs no ownership.                          *)
LEMMA QuietStep ==
  ASSUME Ownership,
         UNCHANGED <<queue, heap, wpc, rq, attempt>>,
         \A c \in Callers :
           /\ pc'[c] = "waitOwn" => pc[c] = "waitOwn" /\ ptr'[c] = ptr[c]
           /\ Waiting(c)' => ptr'[c] \in Reqs
  PROVE  Ownership'
<1>1. Pending' = Pending
  BY DEF Pending
<1>2. PointersSet' /\ WorkerAtRest'
  BY DEF Ownership, PointersSet, WorkerAtRest
<1>3. QueueDistinct' /\ QueueOwns' /\ WorkerOwns'
  BY <1>1 DEF Ownership, QueueDistinct, QueueOwns, WorkerOwns, WorkerHolds, Live
<1>4. CreatorOwns'
  BY DEF Ownership, CreatorOwns, Live
<1> QED
  BY <1>2, <1>3, <1>4 DEF Ownership

(* What Goto does to the callers. *)
LEMMA GotoEffect ==
  ASSUME TypeOK, NEW c \in Callers, NEW p, NEW e, NEW r, Goto(c, p, e, r)
  PROVE  /\ pc'[c] = p /\ ptr'[c] = r /\ fresh'[c] = FALSE
         /\ \A d \in Callers \ {c} :
              pc'[d] = pc[d] /\ ptr'[d] = ptr[d] /\ fresh'[d] = fresh[d]
  BY DEF TypeOK, Goto

(* Every step keeps the ownership of blocks in order. *)
LEMMA OwnershipStep ==
  ASSUME IInv, Next
  PROVE  Ownership'
<1> USE DEF IInv
<1>0. ASSUME NEW c \in Callers, NEW p \in {"idle", "needed", "fetching",
                                           "clearing"},
             NEW e, NEW r, Goto(c, p, e, r),
             UNCHANGED <<queue, heap, wpc, rq, attempt>>
      PROVE  Ownership'
  <2>1. \A d \in Callers :
          /\ pc'[d] = "waitOwn" => pc[d] = "waitOwn" /\ ptr'[d] = ptr[d]
          /\ Waiting(d)' => ptr'[d] \in Reqs
    BY <1>0, GotoEffect DEF Ownership, PointersSet, Waiting
  <2> QED
    BY <1>0, <2>1, QuietStep
<1>1. CASE Tick
  <2>1. \A d \in Callers :
          /\ pc'[d] = "waitOwn" => pc[d] = "waitOwn" /\ ptr'[d] = ptr[d]
          /\ Waiting(d)' => ptr'[d] \in Reqs
    BY <1>1 DEF Tick, callerVars, Ownership, PointersSet, Waiting
  <2> QED
    BY <1>1, <2>1, QuietStep DEF Tick, workerVars
<1>2. ASSUME NEW c \in Callers, FindNodedbStale(c) PROVE Ownership'
  BY <1>2, <1>0 DEF FindNodedbStale, workerVars
<1>3. ASSUME NEW c \in Callers, NEW e \in Entries, Dedupe(c, e)
      PROVE  Ownership'
  <2>1. PICK i \in Matches(e) :
          IF Waits(e) THEN Goto(c, "waitFound", e, queue[i]) ELSE Return(c)
    BY <1>3 DEF Dedupe
  <2>2. queue[i] \in Reqs
    BY MatchesArePending
  <2>3. UNCHANGED <<queue, heap, wpc, rq, attempt>>
    BY <1>3 DEF Dedupe, workerVars
  <2>4. CASE Waits(e)
    <3>1. Goto(c, "waitFound", e, queue[i])
      BY <2>1, <2>4
    <3>2. /\ pc'[c] = "waitFound" /\ ptr'[c] = queue[i]
          /\ \A d \in Callers \ {c} : pc'[d] = pc[d] /\ ptr'[d] = ptr[d]
      BY <3>1 DEF Goto, TypeOK
    <3>3. \A d \in Callers :
            /\ pc'[d] = "waitOwn" => pc[d] = "waitOwn" /\ ptr'[d] = ptr[d]
            /\ Waiting(d)' => ptr'[d] \in Reqs
      BY <3>2, <2>2 DEF Ownership, PointersSet, Waiting
    <3> QED
      BY <2>3, <3>3, QuietStep
  <2>5. CASE ~Waits(e)
    BY <2>1, <2>3, <2>5, <1>0 DEF Return
  <2> QED
    BY <2>4, <2>5
<1>4. ASSUME NEW c \in Callers, NEW e \in Entries, FetchInline(c, e)
      PROVE  Ownership'
  BY <1>4, <1>0 DEF FetchInline, workerVars
<1>5. ASSUME NEW c \in Callers, NEW e \in Entries, Drop(c, e)
      PROVE  Ownership'
  BY <1>5, <1>0 DEF Drop, Return, workerVars
<1>6. ASSUME NEW c \in Callers, NEW e \in Entries, NEW r \in Reqs,
             Accept(c, e, r)
      PROVE  Ownership'
  <2>1. /\ ~Live(r) /\ r \notin Pending /\ rq # r
        /\ \A d \in Callers : ptr[d] # r
    BY <1>6 DEF Accept, Allocatable, Ownership, QueueOwns
  <2>2. /\ Live(r)' /\ ~heap'[r].done /\ heap'[r].wait = Waits(e)
        /\ \A s \in Reqs \ {r} : heap'[s] = heap[s]
    BY <1>6, BlockTypes DEF Accept, TypeOK, Live
  <2>3. Pending \subseteq Reqs
    BY DEF Pending, TypeOK
  <2>4. /\ Pending' = Pending \cup {r}
        /\ Len(queue) \in Nat
        /\ Len(queue') = Len(queue) + 1
        /\ \A i \in 1..Len(queue) : queue'[i] = queue[i]
        /\ queue'[Len(queue) + 1] = r
    BY <1>6, AppendQueue DEF Accept
  <2>5. UNCHANGED <<wpc, rq, attempt>>
    BY <1>6 DEF Accept, workerVars
  <2>6. \A d \in Callers \ {c} : pc'[d] = pc[d] /\ ptr'[d] = ptr[d]
    BY <1>6, GotoEffect DEF Accept, Return
  <2>7. \/ Waits(e) /\ pc'[c] = "waitOwn" /\ ptr'[c] = r
        \/ pc'[c] = "idle"
    BY <1>6, GotoEffect DEF Accept, Return
  <2>8. QueueDistinct'
    BY <2>1, <2>4 DEF Ownership, QueueDistinct, Pending
  <2>9. QueueOwns'
    BY <2>1, <2>2, <2>3, <2>4 DEF Ownership, QueueOwns, Live
  <2>10. PointersSet' /\ WorkerAtRest'
    BY <2>5, <2>6, <2>7 DEF Ownership, PointersSet, Waiting, WorkerAtRest
  <2>11. WorkerOwns'
    BY <2>1, <2>2, <2>4, <2>5
       DEF Ownership, WorkerOwns, WorkerHolds, Live, PointersSet
  <2>12. CreatorOwns'
    BY <2>1, <2>2, <2>6, <2>7
       DEF Ownership, CreatorOwns, Live, PointersSet, Waiting
  <2> QED
    BY <2>8, <2>9, <2>10, <2>11, <2>12 DEF Ownership
<1>7. ASSUME NEW c \in Callers, WakeOwn(c) PROVE Ownership'
  <2>1. /\ ptr[c] \in Reqs /\ pc[c] = "waitOwn" /\ Live(ptr[c])
        /\ heap[ptr[c]].done
    BY <1>7 DEF WakeOwn, Ownership, PointersSet, Waiting, CreatorOwns
  <2>2. heap'[ptr[c]].entry = "none"
    BY <1>7, <2>1, BlockTypes DEF WakeOwn, TypeOK
  <2>3. \A s \in Reqs \ {ptr[c]} : heap'[s] = heap[s]
    BY <1>7, <2>1 DEF WakeOwn, TypeOK
  <2>4. /\ pc'[c] = "idle"
        /\ \A d \in Callers \ {c} : pc'[d] = pc[d] /\ ptr'[d] = ptr[d]
    BY <1>7, GotoEffect DEF WakeOwn, Return
  <2>5. UNCHANGED <<queue, wpc, rq, attempt>> /\ Pending' = Pending
    BY <1>7 DEF WakeOwn, workerVars, Pending
  <2>6. Pending \subseteq Reqs
    BY DEF Pending, TypeOK
  <2>7. QueueDistinct' /\ QueueOwns'
    BY <2>1, <2>3, <2>5, <2>6
       DEF Ownership, QueueDistinct, QueueOwns, Live
  <2>8. PointersSet' /\ WorkerAtRest'
    BY <2>4, <2>5 DEF Ownership, PointersSet, Waiting, WorkerAtRest
  <2>9. WorkerOwns'
    <3>1. CASE rq = ptr[c]
      BY <3>1, <2>1, <2>2, <2>5 DEF Ownership, WorkerOwns, WorkerHolds, Live
    <3>2. CASE rq # ptr[c]
      BY <3>2, <2>1, <2>3, <2>5
         DEF Ownership, WorkerOwns, WorkerHolds, Live, PointersSet
    <3> QED
      BY <3>1, <3>2
  <2>10. CreatorOwns'
    BY <2>1, <2>3, <2>4 DEF Ownership, CreatorOwns, Live, PointersSet, Waiting
  <2> QED
    BY <2>7, <2>8, <2>9, <2>10 DEF Ownership
<1>8. ASSUME NEW c \in Callers, TimeoutOwn(c) PROVE Ownership'
  <2>1. ptr[c] \in Reqs /\ pc[c] = "waitOwn" /\ Live(ptr[c])
    BY <1>8 DEF TimeoutOwn, Ownership, PointersSet, Waiting, CreatorOwns
  <2>2. /\ heap'[ptr[c]].entry = heap[ptr[c]].entry
        /\ heap'[ptr[c]].done = heap[ptr[c]].done
        /\ \A s \in Reqs \ {ptr[c]} : heap'[s] = heap[s]
    BY <1>8, <2>1, LiveIsRequest DEF TimeoutOwn, TypeOK, Request
  <2>3. /\ pc'[c] = "idle"
        /\ \A d \in Callers \ {c} : pc'[d] = pc[d] /\ ptr'[d] = ptr[d]
    BY <1>8, GotoEffect DEF TimeoutOwn, Return
  <2>4. UNCHANGED <<queue, wpc, rq, attempt>> /\ Pending' = Pending
    BY <1>8 DEF TimeoutOwn, workerVars, Pending
  <2>5. \A s \in Reqs : (Live(s)' <=> Live(s)) /\ heap'[s].done = heap[s].done
    BY <2>2 DEF Live
  <2>6. Pending \subseteq Reqs
    BY DEF Pending, TypeOK
  <2>7. QueueDistinct' /\ QueueOwns'
    BY <2>4, <2>5, <2>6 DEF Ownership, QueueDistinct, QueueOwns
  <2>8. PointersSet' /\ WorkerAtRest'
    BY <2>3, <2>4 DEF Ownership, PointersSet, Waiting, WorkerAtRest
  <2>9. WorkerOwns'
    BY <2>4, <2>5 DEF Ownership, WorkerOwns, WorkerHolds, PointersSet, Live
  <2>10. CreatorOwns'
    BY <2>1, <2>2, <2>3 DEF Ownership, CreatorOwns, Live, PointersSet, Waiting
  <2> QED
    BY <2>7, <2>8, <2>9, <2>10 DEF Ownership
<1>9. ASSUME NEW c \in Callers, LeaveFound(c) PROVE Ownership'
  BY <1>9, <1>0 DEF LeaveFound, Return, workerVars
<1>10. ASSUME NEW c \in Callers, UseFreedFound(c) PROVE Ownership'
  <2>1. UNCHANGED <<queue, heap, wpc, rq, attempt>>
    BY <1>10 DEF UseFreedFound, workerVars
  <2>2. CASE Return(c)
    BY <2>1, <2>2, <1>0 DEF Return
  <2>3. CASE UNCHANGED callerVars
    <3>1. \A d \in Callers :
            /\ pc'[d] = "waitOwn" => pc[d] = "waitOwn" /\ ptr'[d] = ptr[d]
            /\ Waiting(d)' => ptr'[d] \in Reqs
      BY <2>3 DEF callerVars, Ownership, PointersSet, Waiting
    <3> QED
      BY <2>1, <3>1, QuietStep
  <2> QED
    BY <1>10, <2>2, <2>3 DEF UseFreedFound
<1>11. ASSUME NEW c \in Callers, FetchDirect(c) PROVE Ownership'
  BY <1>11, <1>0 DEF FetchDirect, workerVars
<1>12. ASSUME NEW c \in Callers, CallerFetchEnds(c) PROVE Ownership'
  BY <1>12, <1>0 DEF CallerFetchEnds, workerVars
<1>13. ASSUME NEW c \in Callers, CallerClearsGate(c) PROVE Ownership'
  BY <1>13, <1>0 DEF CallerClearsGate, Return, workerVars
<1>14. CASE Pop
  <2>1. /\ Head(queue) \in Pending
        /\ Head(queue) \in Reqs
        /\ Pending' = Pending \ {Head(queue)}
        /\ Len(queue) \in Nat
        /\ Len(queue') = Len(queue) - 1
        /\ \A i \in 1..Len(queue') : i + 1 \in 1..Len(queue)
                                     /\ queue'[i] = queue[i + 1]
    BY <1>14, PopQueue DEF Pop, Ownership
  <2>2. QueueDistinct'
    BY <2>1 DEF Ownership, QueueDistinct
  <2>3. /\ UNCHANGED <<heap, pc, ptr, attempt>> /\ rq' = Head(queue)
        /\ wpc' # "idle"
    BY <1>14 DEF Pop, callerVars
  <2>4. QueueOwns' /\ WorkerOwns'
    BY <1>14, <2>1, <2>3
       DEF Pop, Ownership, QueueOwns, WorkerOwns, WorkerHolds, Live
  <2>5. PointersSet' /\ CreatorOwns'
    BY <2>1, <2>3 DEF Ownership, PointersSet, Waiting, CreatorOwns, Live
  <2>6. WorkerAtRest'
    BY <1>14, <2>3 DEF Pop, Ownership, WorkerAtRest
  <2> QED
    BY <2>2, <2>4, <2>5, <2>6 DEF Ownership
<1>15. ASSUME StartAttempt \/ WorkerFetchEnds \/ EndAttempt
       PROVE  Ownership'
  <2>1. /\ UNCHANGED <<queue, heap, pc, ptr, rq>>
        /\ WorkerHolds /\ WorkerHolds' /\ wpc # "idle" /\ wpc' # "idle"
        /\ wpc' # "release"
        /\ wpc' = "publish" => attempt' = 0
    BY <1>15 DEF StartAttempt, WorkerFetchEnds, EndAttempt, callerVars,
                 WorkerHolds
  <2>2. Pending' = Pending
    BY <2>1 DEF Pending
  <2> QED
    BY <2>1, <2>2
       DEF Ownership, PointersSet, Waiting, WorkerAtRest, QueueDistinct,
           QueueOwns, WorkerOwns, CreatorOwns, Live, WorkerHolds
<1>18. CASE Publish
  <2>1. rq \in Reqs /\ Live(rq) /\ rq \notin Pending
    BY <1>18 DEF Publish, Ownership, PointersSet, WorkerOwns, WorkerHolds
  <2>2. /\ heap'[rq].entry = heap[rq].entry
        /\ heap'[rq].wait = heap[rq].wait
        /\ heap'[rq].done
        /\ \A s \in Reqs \ {rq} : heap'[s] = heap[s]
    BY <1>18, <2>1, LiveIsRequest DEF Publish, TypeOK, Request
  <2>3. UNCHANGED <<queue, pc, ptr, rq, attempt>> /\ Pending' = Pending
    BY <1>18 DEF Publish, callerVars, Pending
  <2>4. wpc = "publish" /\ wpc' = "release"
    BY <1>18 DEF Publish
  <2>5. Pending \subseteq Reqs
    BY DEF Pending, TypeOK
  <2>6. QueueDistinct' /\ QueueOwns'
    BY <2>1, <2>2, <2>3, <2>5 DEF Ownership, QueueDistinct, QueueOwns, Live
  <2>7. PointersSet' /\ WorkerAtRest' /\ WorkerOwns'
    BY <2>1, <2>2, <2>3, <2>4
       DEF Ownership, PointersSet, Waiting, WorkerAtRest, WorkerOwns,
           WorkerHolds
  <2>8. CreatorOwns'
    BY <2>2, <2>3 DEF Ownership, CreatorOwns, Live, PointersSet, Waiting
  <2> QED
    BY <2>6, <2>7, <2>8 DEF Ownership
<1>19. CASE Release
  <2>1. rq \in Reqs /\ Live(rq) /\ rq \notin Pending
    BY <1>19 DEF Release, Ownership, PointersSet, WorkerOwns
  <2>2. \A s \in Reqs : heap'[s] # heap[s] => s = rq /\ ~heap[rq].wait
    BY <1>19 DEF Release, TypeOK
  <2>3. UNCHANGED <<queue, pc, ptr, attempt>> /\ Pending' = Pending
    BY <1>19 DEF Release, callerVars, Pending
  <2>4. wpc = "release" /\ wpc' = "idle" /\ rq' = None
    BY <1>19 DEF Release
  <2>5. Pending \subseteq Reqs
    BY DEF Pending, TypeOK
  <2>6. QueueDistinct' /\ QueueOwns'
    BY <2>1, <2>2, <2>3, <2>5 DEF Ownership, QueueDistinct, QueueOwns, Live
  <2>7. PointersSet' /\ WorkerAtRest' /\ WorkerOwns'
    BY <2>3, <2>4
       DEF Ownership, PointersSet, Waiting, WorkerAtRest, WorkerOwns,
           WorkerHolds
  <2>8. CreatorOwns'
    BY <2>2, <2>3 DEF Ownership, CreatorOwns, Live, PointersSet, Waiting
  <2> QED
    BY <2>6, <2>7, <2>8 DEF Ownership
<1>20. CASE ReleaseFreed
  <2>1. UNCHANGED <<queue, heap, pc, ptr, attempt>> /\ Pending' = Pending
    BY <1>20 DEF ReleaseFreed, callerVars, Pending
  <2>2. wpc = "release" /\ wpc' = "idle" /\ rq' = None
    BY <1>20 DEF ReleaseFreed
  <2> QED
    BY <2>1, <2>2
       DEF Ownership, PointersSet, Waiting, WorkerAtRest, QueueDistinct,
           QueueOwns, WorkerOwns, CreatorOwns, Live, WorkerHolds
<1> QED
  BY <1>1, <1>2, <1>3, <1>4, <1>5, <1>6, <1>7, <1>8, <1>9, <1>10, <1>11,
     <1>12, <1>13, <1>14, <1>15, <1>18, <1>19, <1>20
     DEF Next, CallerStep, WorkerStep

(* IInv is inductive. *)
LEMMA StepIInv == IInv /\ [Next]_vars => IInv'
<1> SUFFICES ASSUME IInv, [Next]_vars PROVE IInv'
  OBVIOUS
<1>1. CASE Next
  BY <1>1, TypeStep, OwnershipStep DEF IInv
<1>2. CASE UNCHANGED vars
  BY <1>2
     DEF vars, callerVars, workerVars, IInv, TypeOK, Ownership, PointersSet,
         Waiting, WorkerAtRest, QueueDistinct, QueueOwns, Pending, WorkerOwns,
         WorkerHolds, CreatorOwns, Live
<1> QED
  BY <1>1, <1>2

(* The queue, the heap, the callers and the worker stay within their types,  *)
(* and the ownership of blocks stays in order, in every reachable state.     *)
THEOREM InvariantHolds == Spec => []IInv
  BY InitIInv, StepIInv, PTL DEF Spec

(* Type correctness of the fetch queue. *)
THEOREM TypeCorrect == Spec => []TypeOK
<1>1. IInv => TypeOK
  BY DEF IInv
<1> QED
  BY <1>1, InvariantHolds, PTL

(* No block is freed or completed while the queue holds it, while the worker *)
(* serves it, or while its creator waits for it.                             *)
THEOREM InFlightSafe == Spec => []InFlightLive
<1>1. IInv => InFlightLive
  BY DEF IInv, Ownership, QueueOwns, WorkerOwns, WorkerHolds, CreatorOwns,
         InFlightLive
<1> QED
  BY <1>1, InvariantHolds, PTL

-----------------------------------------------------------------------------
(* The queue changes only by a pop and by an append. *)
LEMMA QueueChanges ==
  ASSUME Next
  PROVE  \/ UNCHANGED queue
         \/ Pop
         \/ \E c \in Callers, e \in Entries, r \in Reqs : Accept(c, e, r)
  BY DEF Next, CallerStep, WorkerStep, Tick, FindNodedbStale, Dedupe,
         FetchInline, Drop, WakeOwn, TimeoutOwn, LeaveFound, UseFreedFound,
         FetchDirect, CallerFetchEnds, CallerClearsGate, StartAttempt,
         WorkerFetchEnds, EndAttempt, Publish, Release, ReleaseFreed

(* A pending request keeps its entry point for as long as it is pending. *)
LEMMA PendingKeepsEntry ==
  ASSUME IInv, Next, NEW r \in Pending
  PROVE  heap'[r].entry = heap[r].entry
<1> USE DEF IInv, Ownership
<1>1. r \in Reqs /\ Live(r) /\ ~heap[r].done
  BY DEF Pending, TypeOK, QueueOwns
<1>2. ASSUME NEW c \in Callers, NEW e \in Entries, NEW s \in Reqs,
             Accept(c, e, s)
      PROVE  heap'[r] = heap[r]
  BY <1>1, <1>2 DEF Accept, Allocatable, TypeOK
<1>3. ASSUME NEW c \in Callers, WakeOwn(c) PROVE heap'[r] = heap[r]
  BY <1>1, <1>3 DEF WakeOwn, TypeOK
<1>4. ASSUME NEW c \in Callers, TimeoutOwn(c)
      PROVE  heap'[r].entry = heap[r].entry
  BY <1>1, <1>4, LiveIsRequest DEF TimeoutOwn, TypeOK, Request
<1>5. CASE Publish
  BY <1>1, <1>5, LiveIsRequest DEF Publish, TypeOK, Request
<1>6. CASE Release
  BY <1>1, <1>6 DEF Release, WorkerOwns, TypeOK
<1>7. ASSUME UNCHANGED heap PROVE heap'[r].entry = heap[r].entry
  BY <1>7
<1> QED
  BY <1>2, <1>3, <1>4, <1>5, <1>6, <1>7
     DEF Next, CallerStep, WorkerStep, Tick, FindNodedbStale, Dedupe,
         FetchInline, Drop, LeaveFound, UseFreedFound, FetchDirect,
         CallerFetchEnds, CallerClearsGate, Pop, StartAttempt,
         WorkerFetchEnds, EndAttempt, ReleaseFreed

(* The dedupe rule and the order of the queue keep it free of redundancy. *)
LEMMA NoRedundantStep ==
  ASSUME IInv, NoRedundantPending, Next
  PROVE  NoRedundantPending'
<1> DEFINE E(i) == heap[queue[i]].entry
<1>1. CASE UNCHANGED queue
  <2>1. \A i \in 1..Len(queue) : queue[i] \in Pending
    BY DEF Pending
  <2>2. \A i \in 1..Len(queue) : heap'[queue[i]].entry = heap[queue[i]].entry
    BY <2>1, PendingKeepsEntry
  <2> QED
    BY <1>1, <2>2 DEF NoRedundantPending
<1>2. CASE Pop
  <2>1. /\ Len(queue) \in Nat
        /\ Len(queue') = Len(queue) - 1
        /\ \A i \in 1..Len(queue') : i + 1 \in 1..Len(queue)
                                     /\ queue'[i] = queue[i + 1]
        /\ UNCHANGED heap
    BY <1>2, PopQueue DEF Pop, IInv, Ownership
  <2> SUFFICES ASSUME NEW i \in 1..Len(queue'), NEW j \in 1..Len(queue'), i < j
               PROVE  ~Satisfies(heap'[queue'[i]].entry, heap'[queue'[j]].entry)
    BY DEF NoRedundantPending
  <2>2. i + 1 < j + 1
    BY <2>1
  <2> QED
    BY <2>1, <2>2 DEF NoRedundantPending
<1>3. ASSUME NEW c \in Callers, NEW e \in Entries, NEW r \in Reqs,
             Accept(c, e, r)
      PROVE  NoRedundantPending'
  <2>1. /\ Len(queue') = Len(queue) + 1
        /\ Len(queue) \in Nat
        /\ \A i \in 1..Len(queue) : queue'[i] = queue[i]
        /\ queue'[Len(queue) + 1] = r
    BY <1>3, AppendQueue DEF Accept, IInv
  <2>2. \A i \in 1..Len(queue) : heap'[queue'[i]].entry = heap[queue[i]].entry
    <3>1. \A i \in 1..Len(queue) : queue[i] \in Pending
      BY DEF Pending
    <3> QED
      BY <2>1, <3>1, PendingKeepsEntry
  <2>3. heap'[r].entry = e
    BY <1>3 DEF Accept, IInv, TypeOK
  <2>4. \A i \in 1..Len(queue) : ~Satisfies(heap[queue[i]].entry, e)
    BY <1>3 DEF Accept, Matches
  <2> SUFFICES ASSUME NEW i \in 1..Len(queue'), NEW j \in 1..Len(queue'), i < j
               PROVE  ~Satisfies(heap'[queue'[i]].entry, heap'[queue'[j]].entry)
    BY DEF NoRedundantPending
  <2>5. i \in 1..Len(queue)
    BY <2>1
  <2>6. CASE j = Len(queue) + 1
    BY <2>1, <2>2, <2>3, <2>4, <2>5, <2>6
  <2>7. CASE j \in 1..Len(queue)
    BY <2>2, <2>5, <2>7 DEF NoRedundantPending
  <2> QED
    BY <2>1, <2>6, <2>7
<1> QED
  BY <1>1, <1>2, <1>3, QueueChanges

(* At no time does a request wait in the queue behind one that will do its   *)
(* work.                                                                     *)
THEOREM NeverRedundant == Spec => []NoRedundantPending
<1>1. Init => NoRedundantPending
  BY DEF Init, NoRedundantPending
<1>2. IInv /\ NoRedundantPending /\ [Next]_vars => NoRedundantPending'
  <2> SUFFICES ASSUME IInv, NoRedundantPending, [Next]_vars
               PROVE  NoRedundantPending'
    OBVIOUS
  <2>1. CASE UNCHANGED vars
    BY <2>1 DEF vars, NoRedundantPending
  <2> QED
    BY <2>1, NoRedundantStep
<1> QED
  BY <1>1, <1>2, InvariantHolds, PTL DEF Spec

(* Of any five entry points in a row, an earlier one satisfies a later one:  *)
(* there are two types and two degrees of force.                             *)
LEMMA FiveAreRedundant ==
  ASSUME NEW a, NEW b, NEW c, NEW d, NEW e
  PROVE  \/ Satisfies(a, b) \/ Satisfies(a, c) \/ Satisfies(a, d)
         \/ Satisfies(a, e) \/ Satisfies(b, c) \/ Satisfies(b, d)
         \/ Satisfies(b, e) \/ Satisfies(c, d) \/ Satisfies(c, e)
         \/ Satisfies(d, e)
<1>1. /\ Type(a) \in {"nodedb", "discover"}
      /\ Type(b) \in {"nodedb", "discover"}
      /\ Type(c) \in {"nodedb", "discover"}
      /\ Type(d) \in {"nodedb", "discover"}
      /\ Type(e) \in {"nodedb", "discover"}
  BY DEF Type
<1> QED
  BY <1>1 DEF Satisfies

(* So a queue without redundancy that nothing in it would satisfy the new    *)
(* request has room at the default bound.                                    *)
LEMMA RoomForNew ==
  ASSUME IInv, NoRedundantPending, NEW e \in Entries, Matches(e) = {}
  PROVE  Len(queue) < 4
<1> SUFFICES ASSUME Len(queue) >= 4 PROVE FALSE
  BY DEF IInv, TypeOK
<1>1. Len(queue) \in Nat
  BY DEF IInv, TypeOK
<1>2. /\ 1 \in 1..Len(queue) /\ 2 \in 1..Len(queue)
      /\ 3 \in 1..Len(queue) /\ 4 \in 1..Len(queue)
  BY <1>1
<1> DEFINE E(i) == heap[queue[i]].entry
<1>3. /\ ~Satisfies(E(1), E(2)) /\ ~Satisfies(E(1), E(3))
      /\ ~Satisfies(E(1), E(4)) /\ ~Satisfies(E(2), E(3))
      /\ ~Satisfies(E(2), E(4)) /\ ~Satisfies(E(3), E(4))
  BY <1>2 DEF NoRedundantPending
<1>4. /\ ~Satisfies(E(1), e) /\ ~Satisfies(E(2), e)
      /\ ~Satisfies(E(3), e) /\ ~Satisfies(E(4), e)
  BY <1>2 DEF Matches
<1> QED
  BY <1>3, <1>4, FiveAreRedundant

(* With room for four requests or more, the queue never drops a request and  *)
(* no caller of enqueue_fetch_request ever has to fetch in its own thread.   *)
THEOREM NeverDrops == Spec => []NothingDroppedByDefault
<1>1. Init => NothingDroppedByDefault
  BY DEF Init, NothingDroppedByDefault
<1>2. IInv /\ NoRedundantPending /\ NothingDroppedByDefault /\ [Next]_vars
        => NothingDroppedByDefault'
  <2> SUFFICES ASSUME IInv, NoRedundantPending, NothingDroppedByDefault,
                      [Next]_vars, QueueMax >= 4
               PROVE  /\ ~dropped'
                      /\ \A c \in Callers :
                           pc'[c] = "fetching" => via'[c] = "devicesRefresh"
    BY DEF NothingDroppedByDefault
  <2>1. ASSUME NEW d \in Callers, NEW e \in Entries, Matches(e) = {},
               Len(queue) >= QueueMax
        PROVE  FALSE
    <3>1. Len(queue) < 4 /\ Len(queue) \in Nat
      BY <2>1, RoomForNew DEF IInv, TypeOK
    <3> QED
      BY <2>1, <3>1
  <2>2. \A d \in Callers, e \in Entries : ~FetchInline(d, e) /\ ~Drop(d, e)
    BY <2>1 DEF FetchInline, Drop
  <2>3. UNCHANGED dropped
    BY <2>2
       DEF Next, CallerStep, WorkerStep, Tick, FindNodedbStale, Dedupe, Accept,
           WakeOwn, TimeoutOwn, LeaveFound, UseFreedFound, FetchDirect,
           CallerFetchEnds, CallerClearsGate, Pop, StartAttempt,
           WorkerFetchEnds, EndAttempt, Publish, Release, ReleaseFreed, vars
  <2>4. ASSUME NEW c \in Callers, pc'[c] = "fetching"
        PROVE  via'[c] = "devicesRefresh"
    <3>1. CASE UNCHANGED <<pc, via>>
      BY <2>4, <3>1 DEF NothingDroppedByDefault
    <3>2. ASSUME NEW d \in Callers, NEW p, NEW e, NEW r, Goto(d, p, e, r),
                 p = "fetching" => e = "devicesRefresh"
          PROVE  via'[c] = "devicesRefresh"
      <4>1. /\ pc'[d] = p /\ via'[d] = e
            /\ \A x \in Callers \ {d} : pc'[x] = pc[x] /\ via'[x] = via[x]
        BY <3>2 DEF Goto, IInv, TypeOK
      <4> QED
        BY <2>4, <3>2, <4>1 DEF NothingDroppedByDefault
    <3>3. ASSUME NEW d \in Callers, CallerStep(d)
          PROVE  via'[c] = "devicesRefresh"
      <4>1. ASSUME NEW e \in Entries, Dedupe(d, e)
            PROVE  via'[c] = "devicesRefresh"
        <5>1. PICK i \in Matches(e) :
                IF Waits(e) THEN Goto(d, "waitFound", e, queue[i])
                            ELSE Return(d)
          BY <4>1 DEF Dedupe
        <5> QED
          BY <5>1, <3>2 DEF Return
      <4>2. ASSUME NEW e \in Entries, NEW r \in Reqs, Accept(d, e, r)
            PROVE  via'[c] = "devicesRefresh"
        BY <4>2, <3>2 DEF Accept, Return
      <4>3. CASE WakeOwn(d) \/ TimeoutOwn(d) \/ LeaveFound(d)
                 \/ CallerClearsGate(d)
        BY <4>3, <3>2
           DEF WakeOwn, TimeoutOwn, LeaveFound, CallerClearsGate, Return
      <4>4. CASE UseFreedFound(d)
        BY <4>4, <3>1, <3>2 DEF UseFreedFound, Return, callerVars
      <4>5. CASE FetchDirect(d) \/ FindNodedbStale(d) \/ CallerFetchEnds(d)
        BY <4>5, <3>2 DEF FetchDirect, FindNodedbStale, CallerFetchEnds
      <4> QED
        BY <2>2, <3>3, <4>1, <4>2, <4>3, <4>4, <4>5 DEF CallerStep
    <3>4. ASSUME Tick \/ WorkerStep \/ UNCHANGED vars
          PROVE  UNCHANGED <<pc, via>>
      BY <3>4
         DEF Tick, WorkerStep, Pop, StartAttempt, WorkerFetchEnds, EndAttempt,
             Publish, Release, ReleaseFreed, vars, callerVars
    <3> QED
      BY <3>1, <3>3, <3>4 DEF Next
  <2> QED
    BY <2>3, <2>4 DEF NothingDroppedByDefault
<1> QED
  BY <1>1, <1>2, InvariantHolds, NeverRedundant, PTL DEF Spec

-----------------------------------------------------------------------------
(* The gate is closed only between the worker's own opening and closing of   *)
(* it.                                                                       *)
GateInv == inProgress => wpc \in {"fetching", "judging"}

(* fetch_worker_thread never blocks on g_nodedb_fetch_in_progress.           *)
THEOREM GateAlwaysFree == Spec => []GateFreeForWorker
<1>1. Init => GateInv
  BY DEF Init, GateInv
<1>2. GateInv /\ [Next]_vars => GateInv'
  BY DEF GateInv, Next, CallerStep, WorkerStep, Tick, FindNodedbStale, Dedupe,
         FetchInline, Drop, Accept, WakeOwn, TimeoutOwn, LeaveFound,
         UseFreedFound, FetchDirect, CallerFetchEnds, CallerClearsGate, Pop,
         StartAttempt, WorkerFetchEnds, EndAttempt, Publish, Release,
         ReleaseFreed, vars, workerVars
<1>3. GateInv => GateFreeForWorker
  BY DEF GateInv, GateFreeForWorker
<1> QED
  BY <1>1, <1>2, <1>3, PTL DEF Spec

-----------------------------------------------------------------------------
(* Who will free a block: it is still to be served, or it is done and marked *)
(* as awaited, and then its creator does wait for it.                        *)
HeldInv ==
  \A r \in Reqs : Live(r) =>
    \/ r \in Pending
    \/ r = rq
    \/ heap[r].done /\ heap[r].wait

AwaitedInv ==
  \A r \in Reqs : Live(r) /\ heap[r].wait =>
    \E c \in Callers : pc[c] = "waitOwn" /\ ptr[c] = r

(* Steps that touch neither the heap nor the queue nor rq, and after which   *)
(* each waiting creator still waits.                                         *)
LEMMA HeldQuiet ==
  ASSUME HeldInv, AwaitedInv, UNCHANGED <<queue, heap, rq>>,
         \A c \in Callers :
           pc[c] = "waitOwn" => pc'[c] = "waitOwn" /\ ptr'[c] = ptr[c]
  PROVE  HeldInv' /\ AwaitedInv'
<1>1. Pending' = Pending
  BY DEF Pending
<1>2. HeldInv'
  BY <1>1 DEF HeldInv, Live
<1>3. AwaitedInv'
  BY DEF AwaitedInv, Live
<1> QED
  BY <1>2, <1>3

LEMMA HeldStep ==
  ASSUME IInv, HeldInv, AwaitedInv, Next
  PROVE  HeldInv' /\ AwaitedInv'
<1> USE DEF IInv, Ownership
<1>0. ASSUME NEW c \in Callers, pc[c] # "waitOwn", NEW p, NEW e, NEW r,
             Goto(c, p, e, r), UNCHANGED <<queue, heap, rq>>
      PROVE  HeldInv' /\ AwaitedInv'
  <2>1. \A d \in Callers :
          pc[d] = "waitOwn" => pc'[d] = "waitOwn" /\ ptr'[d] = ptr[d]
    BY <1>0 DEF Goto, TypeOK
  <2> QED
    BY <1>0, <2>1, HeldQuiet
<1>1. ASSUME NEW c \in Callers, NEW e \in Entries,
             Dedupe(c, e) \/ FetchInline(c, e) \/ Drop(c, e)
      PROVE  HeldInv' /\ AwaitedInv'
  <2>1. pc[c] # "waitOwn" /\ UNCHANGED <<queue, heap, rq>>
    BY <1>1 DEF Dedupe, FetchInline, Drop, Enqueues, workerVars
  <2>2. CASE FetchInline(c, e) \/ Drop(c, e)
    BY <2>1, <2>2, <1>0 DEF FetchInline, Drop, Return
  <2>3. CASE Dedupe(c, e)
    <3>1. PICK i \in Matches(e) :
            IF Waits(e) THEN Goto(c, "waitFound", e, queue[i]) ELSE Return(c)
      BY <2>3 DEF Dedupe
    <3> QED
      BY <3>1, <2>1, <1>0 DEF Return
  <2> QED
    BY <1>1, <2>2, <2>3
<1>2. ASSUME NEW c \in Callers,
             \/ FindNodedbStale(c) \/ LeaveFound(c) \/ FetchDirect(c)
             \/ CallerFetchEnds(c) \/ CallerClearsGate(c)
      PROVE  HeldInv' /\ AwaitedInv'
  <2>1. pc[c] # "waitOwn" /\ UNCHANGED <<queue, heap, rq>>
    BY <1>2 DEF FindNodedbStale, LeaveFound, FetchDirect, CallerFetchEnds,
                CallerClearsGate, workerVars
  <2>2. \E p, e, r : Goto(c, p, e, r)
    BY <1>2 DEF FindNodedbStale, LeaveFound, FetchDirect, CallerFetchEnds,
                CallerClearsGate, Return
  <2> QED
    BY <2>1, <2>2, <1>0
<1>3. ASSUME NEW c \in Callers, UseFreedFound(c)
      PROVE  HeldInv' /\ AwaitedInv'
  <2>1. pc[c] # "waitOwn" /\ UNCHANGED <<queue, heap, rq>>
    BY <1>3 DEF UseFreedFound, workerVars
  <2>2. CASE Return(c)
    BY <2>1, <2>2, <1>0 DEF Return
  <2>3. CASE UNCHANGED callerVars
    BY <2>1, <2>3, HeldQuiet DEF callerVars
  <2> QED
    BY <1>3, <2>2, <2>3 DEF UseFreedFound
<1>4. CASE Tick \/ StartAttempt \/ WorkerFetchEnds \/ EndAttempt
  BY <1>4, HeldQuiet
     DEF Tick, StartAttempt, WorkerFetchEnds, EndAttempt, callerVars,
         workerVars
<1>5. ASSUME NEW c \in Callers, NEW e \in Entries, NEW r \in Reqs,
             Accept(c, e, r)
      PROVE  HeldInv' /\ AwaitedInv'
  <2>1. /\ heap'[r] = [entry |-> e, wait |-> Waits(e), done |-> FALSE]
        /\ \A s \in Reqs \ {r} : heap'[s] = heap[s]
        /\ rq' = rq
        /\ pc[c] # "waitOwn"
    BY <1>5 DEF Accept, Enqueues, TypeOK, workerVars
  <2>2. Pending' = Pending \cup {r}
    BY <1>5, AppendQueue DEF Accept
  <2>3. IF Waits(e) THEN Goto(c, "waitOwn", e, r) ELSE Return(c)
    BY <1>5 DEF Accept
  <2>4. \A d \in Callers : pc[d] = "waitOwn" =>
          pc'[d] = "waitOwn" /\ ptr'[d] = ptr[d]
    BY <2>1, <2>3 DEF Goto, Return, TypeOK
  <2>5. Waits(e) => pc'[c] = "waitOwn" /\ ptr'[c] = r
    BY <2>3 DEF Goto, TypeOK
  <2>6. HeldInv'
    BY <2>1, <2>2 DEF HeldInv, Live
  <2>7. AwaitedInv'
    <3> SUFFICES ASSUME NEW s \in Reqs, heap'[s].entry # "none", heap'[s].wait
                 PROVE  \E d \in Callers : pc'[d] = "waitOwn" /\ ptr'[d] = s
      BY DEF AwaitedInv, Live
    <3>1. CASE s = r
      BY <2>1, <2>5, <3>1
    <3>2. CASE s # r
      BY <2>1, <2>4, <3>2 DEF AwaitedInv, Live
    <3> QED
      BY <3>1, <3>2
  <2> QED
    BY <2>6, <2>7
<1>6. ASSUME NEW c \in Callers, WakeOwn(c) \/ TimeoutOwn(c)
      PROVE  HeldInv' /\ AwaitedInv'
  <2>1. /\ pc[c] = "waitOwn" /\ ptr[c] \in Reqs /\ Live(ptr[c])
        /\ \A d \in Callers \ {c} : pc[d] = "waitOwn" => ptr[d] # ptr[c]
    BY <1>6 DEF WakeOwn, TimeoutOwn, PointersSet, Waiting, CreatorOwns
  <2>2. \A d \in Callers \ {c} : pc'[d] = pc[d] /\ ptr'[d] = ptr[d]
    BY <1>6, GotoEffect DEF WakeOwn, TimeoutOwn, Return
  <2>3. Pending' = Pending /\ rq' = rq
    BY <1>6 DEF WakeOwn, TimeoutOwn, Pending, workerVars
  <2>4. /\ ~heap'[ptr[c]].wait
        /\ \A s \in Reqs \ {ptr[c]} : heap'[s] = heap[s]
    BY <1>6, <2>1, BlockTypes, LiveIsRequest
       DEF WakeOwn, TimeoutOwn, TypeOK, Request
  <2>5. AwaitedInv'
    <3> SUFFICES ASSUME NEW s \in Reqs, heap'[s].entry # "none", heap'[s].wait
                 PROVE  \E d \in Callers : pc'[d] = "waitOwn" /\ ptr'[d] = s
      BY DEF AwaitedInv, Live
    <3>1. s # ptr[c] /\ heap'[s] = heap[s]
      BY <2>4
    <3>2. PICK d \in Callers : pc[d] = "waitOwn" /\ ptr[d] = s
      BY <3>1 DEF AwaitedInv, Live
    <3> QED
      BY <2>2, <3>1, <3>2
  <2>6. heap'[ptr[c]].entry # "none" => ptr[c] \in Pending \/ ptr[c] = rq
    <3>1. CASE WakeOwn(c)
      BY <3>1, <2>1, BlockTypes DEF WakeOwn, TypeOK
    <3>2. CASE TimeoutOwn(c)
      BY <3>2, <2>1 DEF TimeoutOwn, HeldInv
    <3> QED
      BY <1>6, <3>1, <3>2
  <2>7. HeldInv'
    BY <2>3, <2>4, <2>6 DEF HeldInv, Live
  <2> QED
    BY <2>5, <2>7
<1>7. CASE Pop
  <2>1. Pending' = Pending \ {Head(queue)}
    BY <1>7, PopQueue DEF Pop
  <2>2. rq = None /\ rq' = Head(queue)
    BY <1>7 DEF Pop, PointersSet
  <2>3. UNCHANGED <<heap, pc, ptr>>
    BY <1>7 DEF Pop, callerVars
  <2>4. HeldInv'
    BY <2>1, <2>2, <2>3 DEF HeldInv, Live
  <2> QED
    BY <2>3, <2>4 DEF AwaitedInv, Live
<1>8. CASE Publish
  <2>1. rq \in Reqs /\ heap[rq] \in Request
    BY <1>8, LiveIsRequest DEF Publish, PointersSet, WorkerOwns, WorkerHolds
  <2>2. /\ heap'[rq].wait = heap[rq].wait
        /\ heap'[rq].entry = heap[rq].entry
        /\ \A s \in Reqs \ {rq} : heap'[s] = heap[s]
        /\ UNCHANGED <<pc, ptr, rq>> /\ Pending' = Pending
    BY <1>8, <2>1 DEF Publish, TypeOK, Request, callerVars, Pending
  <2>3. HeldInv'
    BY <2>2 DEF HeldInv, Live
  <2>4. AwaitedInv'
    BY <2>2 DEF AwaitedInv, Live
  <2> QED
    BY <2>3, <2>4
<1>9. CASE Release
  <2>1. UNCHANGED <<pc, ptr>> /\ Pending' = Pending
    BY <1>9 DEF Release, callerVars, Pending
  <2>2. /\ rq \in Reqs /\ heap[rq].done
        /\ \A s \in Reqs : s # rq => heap'[s] = heap[s]
        /\ heap'[rq].entry # "none" => heap[rq].wait /\ heap'[rq] = heap[rq]
    BY <1>9, BlockTypes DEF Release, PointersSet, WorkerOwns, TypeOK
  <2>3. HeldInv'
    BY <2>1, <2>2 DEF HeldInv, Live
  <2>4. AwaitedInv'
    BY <2>1, <2>2 DEF AwaitedInv, Live
  <2> QED
    BY <2>3, <2>4
<1>10. CASE ReleaseFreed
  <2>1. UNCHANGED <<pc, ptr, heap>> /\ Pending' = Pending /\ ~Live(rq)
    BY <1>10 DEF ReleaseFreed, callerVars, Pending
  <2> QED
    BY <2>1 DEF HeldInv, AwaitedInv, Live
<1> QED
  BY <1>1, <1>2, <1>3, <1>4, <1>5, <1>6, <1>7, <1>8, <1>9, <1>10
     DEF Next, CallerStep, WorkerStep

(* Every allocated request has an owner that will free it, across every race *)
(* of completion and timeout.                                                *)
THEOREM NeverLeaks == Spec => []NothingLeaks
<1>1. Init => HeldInv /\ AwaitedInv
  BY BlockTypes DEF Init, HeldInv, AwaitedInv, Live
<1>2. IInv /\ HeldInv /\ AwaitedInv /\ [Next]_vars => HeldInv' /\ AwaitedInv'
  <2> SUFFICES ASSUME IInv, HeldInv, AwaitedInv, [Next]_vars
               PROVE  HeldInv' /\ AwaitedInv'
    OBVIOUS
  <2>1. CASE UNCHANGED vars
    BY <2>1, HeldQuiet DEF vars, callerVars, workerVars
  <2> QED
    BY <2>1, HeldStep
<1>3. HeldInv /\ AwaitedInv => NothingLeaks
  BY DEF HeldInv, AwaitedInv, NothingLeaks
<1> QED
  BY <1>1, <1>2, <1>3, InvariantHolds, PTL DEF Spec

-----------------------------------------------------------------------------
(* The request of a waiter has not been popped, or has not been fetched, or  *)
(* a fetch has begun since the waiter asked.                                 *)
FreshInv ==
  \A c \in Callers : Waiting(c) /\ Live(ptr[c]) =>
    \/ ptr[c] \in Pending
    \/ wpc = "gate" /\ ptr[c] = rq
    \/ fresh[c]

(* One caller moves and the worker does not. *)
LEMMA FreshCallerStep ==
  ASSUME IInv, FreshInv, NEW c \in Callers, CallerStep(c)
  PROVE  FreshInv'
<1> USE DEF IInv, Ownership
<1>0. UNCHANGED <<wpc, rq>>
  BY DEF CallerStep, FindNodedbStale, Dedupe, FetchInline, Drop, Accept,
         WakeOwn, TimeoutOwn, LeaveFound, UseFreedFound, FetchDirect,
         CallerFetchEnds, CallerClearsGate, workerVars
<1>1. Pending \subseteq Pending'
  <2>1. ASSUME NEW e \in Entries, NEW r \in Reqs, Accept(c, e, r)
        PROVE  Pending \subseteq Pending'
    BY <2>1, AppendQueue DEF Accept
  <2>2. ASSUME UNCHANGED queue PROVE Pending' = Pending
    BY <2>2 DEF Pending
  <2> QED
    BY <2>1, <2>2
       DEF CallerStep, FindNodedbStale, Dedupe, FetchInline, Drop, WakeOwn,
           TimeoutOwn, LeaveFound, UseFreedFound, FetchDirect,
           CallerFetchEnds, CallerClearsGate
<1>2. ASSUME NEW d \in Callers \ {c}, Waiting(d), heap'[ptr[d]].entry # "none"
      PROVE  Live(ptr[d])
  <2>1. ptr[d] \in Reqs
    BY <1>2 DEF PointersSet
  <2>2. ASSUME NEW e \in Entries, NEW r \in Reqs, Accept(c, e, r)
        PROVE  heap'[ptr[d]] = heap[ptr[d]]
    BY <2>1, <2>2 DEF Accept, Allocatable, TypeOK
  <2>3. CASE WakeOwn(c)
    BY <1>2, <2>1, <2>3, BlockTypes DEF WakeOwn, TypeOK, Live
  <2>4. CASE TimeoutOwn(c)
    BY <1>2, <2>1, <2>4, BlockTypes, LiveIsRequest
       DEF TimeoutOwn, TypeOK, Live, Request
  <2>5. CASE UNCHANGED heap
    BY <1>2, <2>5 DEF Live
  <2> QED
    BY <1>2, <2>2, <2>3, <2>4, <2>5
       DEF CallerStep, FindNodedbStale, Dedupe, FetchInline, Drop, LeaveFound,
           UseFreedFound, FetchDirect, CallerFetchEnds, CallerClearsGate, Live
<1>3. ASSUME NEW d \in Callers \ {c}
      PROVE  pc'[d] = pc[d] /\ ptr'[d] = ptr[d] /\ fresh'[d] = fresh[d]
  <2>1. ASSUME NEW p, NEW e, NEW r, Goto(c, p, e, r)
        PROVE  pc'[d] = pc[d] /\ ptr'[d] = ptr[d] /\ fresh'[d] = fresh[d]
    BY <2>1 DEF Goto, TypeOK
  <2>2. CASE UNCHANGED callerVars
    BY <2>2 DEF callerVars
  <2>3. (\E p, e, r : Goto(c, p, e, r)) \/ UNCHANGED callerVars
    BY DEF CallerStep, FindNodedbStale, Dedupe, FetchInline, Drop, Accept,
           WakeOwn, TimeoutOwn, LeaveFound, UseFreedFound, FetchDirect,
           CallerFetchEnds, CallerClearsGate, Return
  <2> QED
    BY <2>1, <2>2, <2>3
<1>4. ASSUME Waiting(c)'
      PROVE  ptr'[c] \in Pending' \/ UNCHANGED <<callerVars, heap>>
  <2>1. ASSUME NEW p \in {"idle", "needed", "fetching", "clearing"},
               NEW e, NEW r, Goto(c, p, e, r)
        PROVE  FALSE
    BY <1>4, <2>1 DEF Goto, TypeOK, Waiting
  <2>2. ASSUME NEW e \in Entries, Dedupe(c, e)
        PROVE  ptr'[c] \in Pending'
    <3>1. PICK i \in Matches(e) :
            IF Waits(e) THEN Goto(c, "waitFound", e, queue[i]) ELSE Return(c)
      BY <2>2 DEF Dedupe
    <3>2. Goto(c, "waitFound", e, queue[i])
      BY <3>1, <2>1 DEF Return
    <3>3. ptr'[c] = queue[i]
      BY <3>2 DEF Goto, TypeOK
    <3> QED
      BY <3>3, <1>1, MatchesArePending
  <2>3. ASSUME NEW e \in Entries, NEW r \in Reqs, Accept(c, e, r)
        PROVE  ptr'[c] \in Pending'
    <3>1. Goto(c, "waitOwn", e, r)
      BY <2>3, <2>1 DEF Accept, Return
    <3>2. ptr'[c] = r /\ Pending' = Pending \cup {r}
      BY <2>3, <3>1, AppendQueue DEF Goto, TypeOK, Accept
    <3> QED
      BY <3>2
  <2>4. CASE UseFreedFound(c)
    BY <2>4, <2>1 DEF UseFreedFound, Return
  <2> QED
    BY <2>1, <2>2, <2>3, <2>4
       DEF CallerStep, FindNodedbStale, FetchInline, Drop, WakeOwn, TimeoutOwn,
           LeaveFound, FetchDirect, CallerFetchEnds, CallerClearsGate, Return
<1>5. ASSUME NEW d \in Callers, Waiting(d)', heap'[ptr'[d]].entry # "none"
      PROVE  \/ ptr'[d] \in Pending'
             \/ wpc' = "gate" /\ ptr'[d] = rq'
             \/ fresh'[d]
  <2>1. CASE d # c
    BY <1>0, <1>1, <1>2, <1>3, <1>5, <2>1 DEF FreshInv, Waiting
  <2>2. CASE d = c /\ UNCHANGED <<callerVars, heap>>
    BY <1>0, <1>1, <1>5, <2>2 DEF FreshInv, Waiting, callerVars, Live
  <2> QED
    BY <1>4, <1>5, <2>1, <2>2
<1> QED
  BY <1>5 DEF FreshInv, Live

LEMMA FreshWorkerStep ==
  ASSUME IInv, FreshInv, WorkerStep, Retries > 0
  PROVE  FreshInv'
<1> USE DEF IInv, Ownership
<1>1. UNCHANGED <<pc, ptr>> /\ \A c \in Callers : fresh[c] => fresh'[c]
  BY DEF WorkerStep, Pop, StartAttempt, WorkerFetchEnds, EndAttempt, Publish,
         Release, ReleaseFreed, callerVars, TypeOK
<1>2. ASSUME NEW r \in Reqs, heap'[r].entry # "none" PROVE Live(r)
  <2>1. CASE Publish
    BY <1>2, <2>1, LiveIsRequest
       DEF Publish, WorkerOwns, WorkerHolds, PointersSet, TypeOK, Live, Request
  <2>2. CASE Release
    BY <1>2, <2>2, BlockTypes DEF Release, TypeOK, Live
  <2>3. CASE UNCHANGED heap
    BY <1>2, <2>3 DEF Live
  <2> QED
    BY <2>1, <2>2, <2>3
       DEF WorkerStep, Pop, StartAttempt, WorkerFetchEnds, EndAttempt,
           ReleaseFreed
<1>3. ASSUME NEW r \in Pending
      PROVE  \/ r \in Pending'
             \/ wpc' = "gate" /\ rq' = r
  <2>1. CASE Pop
    <3>1. Pending' = Pending \ {Head(queue)}
      BY <2>1, PopQueue DEF Pop
    <3>2. wpc' = "gate" /\ rq' = Head(queue)
      BY <2>1 DEF Pop
    <3> QED
      BY <3>1, <3>2
  <2>2. CASE UNCHANGED queue
    <3>1. Pending' = Pending
      BY <2>2 DEF Pending
    <3> QED
      BY <3>1
  <2> QED
    BY <2>1, <2>2
       DEF WorkerStep, StartAttempt, WorkerFetchEnds, EndAttempt, Publish,
           Release, ReleaseFreed
<1>4. ASSUME wpc = "gate", NEW c \in Callers, ptr[c] = rq
      PROVE  fresh'[c]
  BY <1>4 DEF WorkerStep, Pop, StartAttempt, WorkerFetchEnds, EndAttempt,
              Publish, Release, ReleaseFreed
<1>5. ASSUME NEW c \in Callers, Waiting(c), Live(ptr[c])
      PROVE  \/ ptr[c] \in Pending'
             \/ wpc' = "gate" /\ ptr[c] = rq'
             \/ fresh'[c]
  BY <1>1, <1>3, <1>4, <1>5 DEF FreshInv
<1> QED
  BY <1>1, <1>2, <1>5 DEF FreshInv, Waiting, Live, PointersSet

(* A waiter that finds its request done has a fetch that began after it      *)
(* asked, provided that the worker attempts any.                             *)
THEOREM DoneIsFresh ==
  ASSUME Retries > 0
  PROVE  Spec => []FreshOnReturn
<1>1. Init => FreshInv
  BY DEF Init, FreshInv, Waiting
<1>2. IInv /\ FreshInv /\ [Next]_vars => FreshInv'
  <2> SUFFICES ASSUME IInv, FreshInv, [Next]_vars PROVE FreshInv'
    OBVIOUS
  <2>1. CASE Tick \/ UNCHANGED vars
    BY <2>1
       DEF Tick, vars, callerVars, workerVars, FreshInv, Waiting, Live, Pending
  <2> QED
    BY <2>1, FreshCallerStep, FreshWorkerStep DEF Next
<1>3. IInv /\ FreshInv => FreshOnReturn
  <2> SUFFICES ASSUME IInv, FreshInv, NEW c \in Callers,
                      pc[c] \in {"waitOwn", "waitFound"}, heap[ptr[c]].done
               PROVE  fresh[c]
    BY DEF FreshOnReturn
  <2>1. ptr[c] \in Reqs
    BY DEF IInv, Ownership, PointersSet, Waiting
  <2>2. Live(ptr[c])
    BY <2>1, LiveIsRequest, BlockTypes DEF IInv
  <2> QED
    BY <2>1, <2>2
       DEF IInv, Ownership, QueueOwns, WorkerOwns, WorkerHolds, FreshInv,
           Waiting
<1> QED
  BY <1>1, <1>2, <1>3, InvariantHolds, PTL DEF Spec

-----------------------------------------------------------------------------
(* The refinement.  The kinds of the pending requests are the demand. *)
PendingKinds == {Kind(heap[r].entry) : r \in Pending}

LEMMA KindsAreKinds == \A e : Kind(e) \in Demand!Kinds
<1> SUFFICES ASSUME NEW e PROVE Kind(e) \in Demand!Kinds
  OBVIOUS
<1>1. Type(e) \in Types
  BY DEF Type, Types
<1>2. Forced(e) \in BOOLEAN
  BY DEF Forced
<1> QED
  BY <1>1, <1>2 DEF Kind, Demand!Kinds

(* Coverage of kinds is satisfaction of requests. *)
LEMMA CoversIsSatisfies ==
  \A d, e : Demand!Covers(Kind(d), Kind(e)) <=> Satisfies(d, e)
<1> SUFFICES ASSUME NEW d, NEW e
             PROVE  Demand!Covers(Kind(d), Kind(e)) <=> Satisfies(d, e)
  OBVIOUS
<1>1. /\ Kind(d).type = Type(d) /\ Kind(e).type = Type(e)
      /\ Kind(d).force = Forced(d) /\ Kind(e).force = Forced(e)
  BY DEF Kind
<1> QED
  BY <1>1 DEF Demand!Covers, Satisfies

(* Two requests of a queue without redundancy are of different kinds. *)
LEMMA KindsDistinct ==
  ASSUME IInv, NoRedundantPending, NEW r \in Pending, NEW s \in Pending, r # s
  PROVE  Kind(heap[r].entry) # Kind(heap[s].entry)
<1> SUFFICES ASSUME Kind(heap[r].entry) = Kind(heap[s].entry) PROVE FALSE
  OBVIOUS
<1>1. /\ Type(heap[r].entry) = Type(heap[s].entry)
      /\ Forced(heap[r].entry) = Forced(heap[s].entry)
  BY DEF Kind
<1>2. /\ Satisfies(heap[r].entry, heap[s].entry)
      /\ Satisfies(heap[s].entry, heap[r].entry)
  BY <1>1 DEF Satisfies
<1>3. PICK i \in 1..Len(queue), j \in 1..Len(queue) :
        r = queue[i] /\ s = queue[j]
  BY DEF Pending
<1>4. i < j \/ j < i
  BY <1>3 DEF IInv, TypeOK
<1> QED
  BY <1>2, <1>3, <1>4 DEF NoRedundantPending

(* Each step of the queue is a step of the demand or leaves it alone. *)
LEMMA DemandStep ==
  ASSUME IInv, NoRedundantPending, NothingDroppedByDefault', ~dropped,
         QueueMax >= 4, Next
  PROVE  [Demand!DemandNext]_(Demand!demandVars)
<1> USE DEF Demand!demandVars
<1>1. ~dropped'
  BY DEF NothingDroppedByDefault
<1>2. ASSUME UNCHANGED queue PROVE PendingKinds' = PendingKinds
  <2>1. Pending' = Pending
    BY <1>2 DEF Pending
  <2>2. \A r \in Pending : heap'[r].entry = heap[r].entry
    BY PendingKeepsEntry
  <2> QED
    BY <2>1, <2>2 DEF PendingKinds
<1>3. ASSUME UNCHANGED queue
      PROVE  [Demand!DemandNext]_(Demand!demandVars)
  <2>1. crashed' = crashed \/ crashed' = TRUE
    BY <1>3
       DEF Next, CallerStep, WorkerStep, Tick, FindNodedbStale, Dedupe,
           FetchInline, Drop, Accept, WakeOwn, TimeoutOwn, LeaveFound,
           UseFreedFound, FetchDirect, CallerFetchEnds, CallerClearsGate, Pop,
           StartAttempt, WorkerFetchEnds, EndAttempt, Publish, Release,
           ReleaseFreed, IInv, TypeOK
  <2>2. dropped' = dropped
    BY <1>1, TypeStep DEF IInv, TypeOK
  <2>3. PendingKinds' = PendingKinds
    BY <1>2, <1>3
  <2>4. CASE crashed' = crashed
    BY <2>2, <2>3, <2>4 DEF PendingKinds
  <2>5. CASE crashed' = TRUE
    <3>1. Demand!Lose
      BY <2>2, <2>3, <2>5 DEF PendingKinds, Demand!Lose
    <3> QED
      BY <3>1 DEF Demand!DemandNext
  <2> QED
    BY <2>1, <2>4, <2>5
<1>4. CASE Pop
  <2> DEFINE h == Head(queue)
             k == Kind(heap[h].entry)
  <2>1. /\ Pending' = Pending \ {h} /\ h \in Pending
        /\ UNCHANGED <<heap, dropped, crashed>>
    BY <1>4, PopQueue DEF Pop, IInv, Ownership
  <2>2. PendingKinds' = PendingKinds \ {k}
    BY <2>1, KindsDistinct DEF PendingKinds
  <2>3. k \in Demand!Kinds /\ k \in PendingKinds
    BY <2>1, KindsAreKinds DEF PendingKinds
  <2>4. Demand!Serve(k)
    BY <2>1, <2>2, <2>3 DEF Demand!Serve, PendingKinds
  <2> QED
    BY <2>3, <2>4 DEF Demand!DemandNext
<1>5. ASSUME NEW c \in Callers, NEW e \in Entries, NEW r \in Reqs,
             Accept(c, e, r)
      PROVE  [Demand!DemandNext]_(Demand!demandVars)
  <2>1. /\ Pending' = Pending \cup {r}
        /\ heap'[r].entry = e
        /\ UNCHANGED <<dropped, crashed>>
    BY <1>5, AppendQueue DEF Accept, IInv, TypeOK
  <2>2. PendingKinds' = PendingKinds \cup {Kind(e)}
    <3>1. \A s \in Pending : heap'[s].entry = heap[s].entry
      BY PendingKeepsEntry
    <3> QED
      BY <2>1, <3>1 DEF PendingKinds
  <2>3. \A p \in PendingKinds : ~Demand!Covers(p, Kind(e))
    <3> SUFFICES ASSUME NEW i \in 1..Len(queue)
                 PROVE  ~Demand!Covers(Kind(heap[queue[i]].entry), Kind(e))
      BY DEF PendingKinds, Pending
    <3>1. ~Satisfies(heap[queue[i]].entry, e)
      BY <1>5 DEF Accept, Matches
    <3> QED
      BY <3>1, CoversIsSatisfies
  <2>4. Kind(e) \in Demand!Kinds
    BY KindsAreKinds
  <2>5. Demand!Ask(Kind(e))
    BY <2>1, <2>2, <2>3 DEF Demand!Ask, PendingKinds
  <2> QED
    BY <2>4, <2>5 DEF Demand!DemandNext
<1> QED
  BY <1>3, <1>4, <1>5, QueueChanges

(* The safety part of the promise: with room for four requests, the queue    *)
(* behaves as a set of wanted work from which nothing is lost.               *)
THEOREM QueueMeetsDemand ==
  ASSUME QueueMax >= 4
  PROVE  Spec => Demand!DemandSpec
<1>1. Init => Demand!DemandInit
  BY DEF Init, Demand!DemandInit, Pending
<1>2. /\ IInv
      /\ NoRedundantPending
      /\ NothingDroppedByDefault
      /\ NothingDroppedByDefault'
      /\ [Next]_vars
      => [Demand!DemandNext]_(Demand!demandVars)
  <2> SUFFICES ASSUME IInv, NoRedundantPending, NothingDroppedByDefault,
                      NothingDroppedByDefault', [Next]_vars
               PROVE  [Demand!DemandNext]_(Demand!demandVars)
    OBVIOUS
  <2>1. ~dropped
    BY DEF NothingDroppedByDefault
  <2>2. CASE UNCHANGED vars
    BY <2>2 DEF vars, Demand!demandVars, Pending
  <2> QED
    BY <2>1, <2>2, DemandStep
<1> QED
  BY <1>1, <1>2, InvariantHolds, NeverRedundant, NeverDrops, PTL
     DEF Spec, Demand!DemandSpec
=============================================================================
