--------------------------- MODULE ListenerProofs ---------------------------
(***************************************************************************)
(* Proofs about Listener, for any set of accept events, pools and workers. *)
(* That an event has one owner cannot be shown from where[e] alone: it     *)
(* needs that a thread inside PostAccept has its event in its hands        *)
(* (HolderHolds), that the retry queue names each queued event once, and   *)
(* between EndRetry's walk and its clear() free ones (QueuedAreRetry,      *)
(* QueuedOnce), and that the main and the retry thread leave PostAccept    *)
(* before they take another event (OneAtATime).                            *)
(***************************************************************************)
EXTENDS Listener, FiniteSetTheorems, TLAPS

Places == {"free", "held", "posted", "completed", "retry", "lost"}
RetryItem == [event : AcceptEvents, retryCount : Nat]

\* The variables that OneOwner reads, and the queue, have their types.
EventShapes ==
    /\ where \in [AcceptEvents -> Places]
    /\ ioThreadID \in [AcceptEvents -> IoIds]
    /\ i32RetryCount \in [AcceptEvents -> Nat]

PostShapes ==
    /\ pc \in [Threads -> {"idle", "check", "create", "reset"}]
    /\ ev \in [Threads -> AcceptEvents \cup {NoEvent}]

RetryShapes ==
    /\ m_retryQueue \in Seq(RetryItem)
    /\ due \in 0..Len(m_retryQueue)
    /\ retryPc \in {"none", "test", "lock", "asleep", "timed", "busy", "exited"}

Shapes == EventShapes /\ PostShapes /\ RetryShapes

\* A thread in PostAccept works on an event, and until AcceptEx is pending
\* the event is in its hands.
HolderHolds ==
    \A t \in Threads :
        /\ pc[t] # "idle" => ev[t] \in AcceptEvents
        /\ pc[t] \in {"check", "create"} => where[ev[t]] = "held"

NoTwoHolders ==
    \A t, u \in Threads, e \in AcceptEvents : Holds(t, e) /\ Holds(u, e) => t = u

HeldHasHolder ==
    \A e \in AcceptEvents : where[e] = "held" => \E t \in Threads : Holds(t, e)

\* Between EndRetry's walk of the queue and its clear() the queue still names
\* events that have gone back to their pools.
InQueue == IF mainPc = "clear" THEN {"retry", "free"} ELSE {"retry"}

\* Up to that the queue holds events that wait for a retry, each once.
QueuedAreRetry ==
    \A i \in 1..Len(m_retryQueue) : where[m_retryQueue[i].event] \in InQueue

QueuedOnce ==
    \A i, j \in 1..Len(m_retryQueue) :
        m_retryQueue[i].event = m_retryQueue[j].event => i = j

\* The retry thread is in PostAccept exactly while it is away from its loop,
\* the main thread only during StartAccept.  EndRetry goes on when it has ended.
OneAtATime ==
    /\ pc[retryThread] # "idle" <=> retryPc = "busy"
    /\ pc[mainThread] # "idle" => mainPc = "startAccept"
    /\ mainPc = "startAccept" => retryPc = "none"
    /\ mainPc \in {"walk", "clear"} => retryPc = "exited"

\* An event keeps failing at most MAX_RETRY times: only one that waits in
\* the queue to be given up, or was lost from it, has reached the limit.
CountsBounded ==
    \A e \in AcceptEvents :
        /\ i32RetryCount[e] <= MAX_RETRY
        /\ where[e] \notin {"retry", "lost"} => i32RetryCount[e] < MAX_RETRY

\* The count an item carries is not below that of its event, which a late
\* reset by an earlier PostAccept may have cleared.
ItemsCount ==
    \A i \in 1..Len(m_retryQueue) :
        i32RetryCount[m_retryQueue[i].event] <= m_retryQueue[i].retryCount

RetriesBounded == CountsBounded /\ ItemsCount

\* After a successful wait the main thread has only the pool left to stop.
ReturnedStayReturned ==
    waitResult = "true" => /\ mainPc \in {"stopping", "stopped"}
                           /\ AllReturned

Hands == HolderHolds /\ NoTwoHolders /\ HeldHasHolder
Queued == QueuedAreRetry /\ QueuedOnce
OwnerInv == Shapes /\ Hands /\ Queued /\ OneAtATime


-----------------------------------------------------------------------------
\* Sequence r is q with x inserted at k: the items before and after it keep
\* their order.
InsertedAt(S, r, q, k, x) ==
    /\ r \in Seq(S)
    /\ Len(r) = Len(q) + 1
    /\ \A j \in 1..Len(q) + 1 :
           r[j] = IF j < k THEN q[j] ELSE IF j = k THEN x ELSE q[j - 1]

LEMMA InsertAtFacts ==
    ASSUME NEW S, NEW q \in Seq(S), NEW x \in S, NEW k \in 1..Len(q) + 1
    PROVE  InsertedAt(S, InsertAt(q, k, x), q, k, x)
<1> SUFFICES /\ InsertAt(q, k, x) \in Seq(S)
             /\ Len(InsertAt(q, k, x)) = Len(q) + 1
             /\ \A j \in 1..Len(q) + 1 :
                    InsertAt(q, k, x)[j] = IF j < k THEN q[j]
                                           ELSE IF j = k THEN x ELSE q[j - 1]
      BY DEF InsertedAt
<1> DEFINE before == SubSeq(q, 1, k - 1)
           after == SubSeq(q, k, Len(q))
<1>1. before \in Seq(S) /\ Len(before) = k - 1
      /\ \A j \in 1..k - 1 : before[j] = q[j]
      OBVIOUS
<1>2. after \in Seq(S) /\ Len(after) = Len(q) + 1 - k
      /\ \A j \in 1..Len(q) + 1 - k : after[j] = q[k + j - 1]
      OBVIOUS
<1> DEFINE front == before \o <<x>>
<1>3. InsertAt(q, k, x) = front \o after
      BY DEF InsertAt
<1> HIDE DEF before, after
<1>4. front \in Seq(S) /\ Len(front) = k
      /\ \A j \in 1..k : front[j] = IF j < k THEN q[j] ELSE x
      BY <1>1
<1> HIDE DEF front
<1>5. front \o after \in Seq(S) /\ Len(front \o after) = Len(q) + 1
      BY <1>2, <1>4
<1>6. \A j \in 1..Len(q) + 1 :
          (front \o after)[j] = IF j <= k THEN front[j] ELSE after[j - k]
      BY <1>2, <1>4
<1>7. \A j \in 1..Len(q) + 1 : j > k => after[j - k] = q[j - 1]
      BY <1>2
<1> QED
      BY <1>3, <1>4, <1>5, <1>6, <1>7

\* The listener starts with every event free and nobody in PostAccept.
LEMMA ListenerInit == Init => OwnerInv
BY PoolsAssumption, ThreadsAssumption
   DEF Init, OwnerInv, Hands, Queued, Shapes, EventShapes, PostShapes, RetryShapes, HolderHolds, NoTwoHolders, HeldHasHolder,
       QueuedAreRetry, QueuedOnce, OneAtATime, Holds, Threads, Places, RetryItem

\* An idle thread that takes an event nobody holds becomes its one holder.
LEMMA TakesEvent ==
    ASSUME OwnerInv, NEW t \in Threads, NEW e \in AcceptEvents,
           pc[t] = "idle", where[e] # "held",
           where' = [where EXCEPT ![e] = "held"],
           pc' = [pc EXCEPT ![t] = "check"],
           ev' = [ev EXCEPT ![t] = e]
    PROVE  Hands'
<1> USE DEF OwnerInv, Hands, Shapes, EventShapes, PostShapes, RetryShapes, Holds
<1>1. \A u \in Threads : ~Holds(u, e)
      BY DEF HolderHolds
<1>2. Holds(t, e)'
      OBVIOUS
<1>3. \A u \in Threads, f \in AcceptEvents :
          (u # t \/ f # e) => (Holds(u, f)' <=> Holds(u, f))
      OBVIOUS
<1>4. HolderHolds'
      BY <1>1 DEF HolderHolds
<1>5. NoTwoHolders'
      BY <1>1, <1>2, <1>3 DEF NoTwoHolders
<1>6. HeldHasHolder'
      BY <1>2, <1>3 DEF HeldHasHolder
<1> QED
      BY <1>4, <1>5, <1>6

\* The holder of an event that puts it elsewhere holds nothing, and the
\* other threads keep what they hold.
LEMMA GivesEvent ==
    ASSUME OwnerInv, NEW t \in Threads, NEW place \in Places \ {"held"},
           pc[t] \in {"check", "create"},
           where' = [where EXCEPT ![ev[t]] = place],
           \/ pc' = [pc EXCEPT ![t] = "idle"] /\ ev' = [ev EXCEPT ![t] = NoEvent]
           \/ pc' = [pc EXCEPT ![t] = "reset"] /\ ev' = ev
    PROVE  Hands'
<1> USE DEF OwnerInv, Hands, Shapes, EventShapes, PostShapes, RetryShapes, Holds
<1>1. ev[t] \in AcceptEvents /\ Holds(t, ev[t])
      BY DEF HolderHolds
<1>2. \A u \in Threads \ {t}, f \in AcceptEvents : Holds(u, f)' <=> Holds(u, f)
      OBVIOUS
<1>3. \A f \in AcceptEvents : ~Holds(t, f)'
      OBVIOUS
<1>4. \A u \in Threads \ {t} : ~Holds(u, ev[t])
      BY <1>1 DEF NoTwoHolders
<1>5. HolderHolds'
      BY <1>1, <1>4 DEF HolderHolds
<1>6. NoTwoHolders'
      BY <1>2, <1>3 DEF NoTwoHolders
<1>7. HeldHasHolder'
      BY <1>1, <1>2 DEF HeldHasHolder, Places
<1> QED
      BY <1>5, <1>6, <1>7

\* Nothing changes for the holders when an event in nobody's hands moves.
LEMMA MovesUnheld ==
    ASSUME OwnerInv, NEW e \in AcceptEvents, NEW place \in Places \ {"held"},
           where[e] # "held", where' = [where EXCEPT ![e] = place],
           UNCHANGED postVars
    PROVE  Hands'
BY DEF OwnerInv, Shapes, EventShapes, PostShapes, RetryShapes, HolderHolds, NoTwoHolders, HeldHasHolder, Hands, Holds,
       Places, postVars

-----------------------------------------------------------------------------
(* The actions that move an event *)

\* What the queue holds, item by item.
LEMMA QueueItems ==
    ASSUME OwnerInv
    PROVE  /\ m_retryQueue \in Seq(RetryItem)
           /\ \A j \in 1..Len(m_retryQueue) :
                  /\ m_retryQueue[j] \in RetryItem
                  /\ m_retryQueue[j].event \in AcceptEvents
                  /\ where[m_retryQueue[j].event] \in InQueue
<1>1. m_retryQueue \in Seq(RetryItem)
      BY DEF OwnerInv, Shapes, RetryShapes
<1>2. \A j \in 1..Len(m_retryQueue) : m_retryQueue[j] \in RetryItem
      BY <1>1
<1>3. \A x \in RetryItem : x.event \in AcceptEvents
      BY DEF RetryItem
<1> QED
      BY <1>1, <1>2, <1>3 DEF OwnerInv, Queued, QueuedAreRetry

\* The queue stays as it is when an event that is not in it moves.
LEMMA MovesUnqueued ==
    ASSUME OwnerInv, NEW e, NEW place,
           where[e] \notin InQueue, where' = [where EXCEPT ![e] = place],
           UNCHANGED <<m_retryQueue, mainPc>>
    PROVE  Queued'
<1>1. QueuedAreRetry'
      BY QueueItems DEF OwnerInv, Shapes, EventShapes, QueuedAreRetry, InQueue
<1>2. QueuedOnce'
      BY DEF OwnerInv, Queued, QueuedOnce
<1> QED
      BY <1>1, <1>2 DEF Queued

\* Where an item of the grown queue was before the insertion at k.
OldIndex(j, k) == IF j < k THEN j ELSE j - 1

\* A scheduled retry adds one item, which counts one more error, and moves
\* the others without reordering them.
LEMMA ScheduledFacts ==
    ASSUME OwnerInv, NEW e \in AcceptEvents, NEW r \in Scheduled(e)
    PROVE  \E k \in 1..Len(m_retryQueue) + 1 :
               /\ r \in Seq(RetryItem) /\ Len(r) = Len(m_retryQueue) + 1
               /\ r[k].event = e /\ r[k].retryCount = i32RetryCount[e] + 1
               /\ \A j \in 1..Len(r) \ {k} :
                      /\ OldIndex(j, k) \in 1..Len(m_retryQueue)
                      /\ r[j] = m_retryQueue[OldIndex(j, k)]
<1> DEFINE item == [event |-> e, retryCount |-> i32RetryCount[e] + 1]
           q == m_retryQueue
<1>1. PICK k \in due + 1 .. Len(q) + 1 : r = InsertAt(q, k, item)
      BY DEF Scheduled
<1>2. /\ item \in RetryItem
      /\ item.event = e /\ item.retryCount = i32RetryCount[e] + 1
      BY DEF RetryItem, OwnerInv, Shapes, EventShapes
<1>3. q \in Seq(RetryItem) /\ k \in 1..Len(q) + 1 /\ Len(q) \in Nat
      BY DEF OwnerInv, Shapes, RetryShapes
<1> HIDE DEF item, q
<1>4. /\ r \in Seq(RetryItem) /\ Len(r) = Len(q) + 1
      /\ \A j \in 1..Len(q) + 1 : r[j] = IF j < k THEN q[j]
                                         ELSE IF j = k THEN item ELSE q[j - 1]
  <2>1. InsertedAt(RetryItem, InsertAt(q, k, item), q, k, item)
        BY <1>2, <1>3, InsertAtFacts
  <2> QED
        BY <1>1, <2>1 DEF InsertedAt
<1>5. \A j \in 1..Len(r) \ {k} : /\ OldIndex(j, k) \in 1..Len(q)
                                 /\ r[j] = q[OldIndex(j, k)]
      BY <1>1, <1>3, <1>4 DEF OldIndex
<1>6. r[k] = item
      BY <1>1, <1>3, <1>4
<1> QED
      BY <1>1, <1>2, <1>3, <1>4, <1>5, <1>6 DEF q

LEMMA StartAcceptKeeps ==
    ASSUME OwnerInv, NEW p \in IoIds, StartAcceptOne(p)
    PROVE  OwnerInv'
<1>1. ASSUME NEW e \in Free(p),
             where' = [where EXCEPT ![e] = "held"],
             pc' = [pc EXCEPT ![mainThread] = "check"],
             ev' = [ev EXCEPT ![mainThread] = e]
      PROVE  OwnerInv'
  <2>1. e \in AcceptEvents /\ where[e] = "free" /\ mainThread \in Threads
        BY DEF Free, Threads
  <2>2. Hands'
        BY <1>1, <2>1, TakesEvent DEF StartAcceptOne
  <2>3. Shapes'
        BY <1>1, <2>1
        DEF StartAcceptOne, retryVars, queueVars, OwnerInv, Shapes, EventShapes,
            PostShapes, RetryShapes, Places
  <2>4. OneAtATime'
        BY <1>1, <2>1, ThreadsAssumption
        DEF StartAcceptOne, retryVars, OwnerInv, Shapes, PostShapes, OneAtATime, Threads
  <2>5. Queued'
        BY <1>1, <2>1, MovesUnqueued DEF StartAcceptOne, InQueue, retryVars, queueVars
  <2> QED
        BY <2>2, <2>3, <2>4, <2>5 DEF OwnerInv
<1>2. CASE UNCHANGED <<where, postVars>>
      BY <1>2
      DEF StartAcceptOne, retryVars, queueVars, postVars, OwnerInv, Shapes,
          EventShapes, PostShapes, RetryShapes, Hands, HolderHolds, NoTwoHolders,
          HeldHasHolder, Holds, Queued, QueuedAreRetry, QueuedOnce, InQueue, OneAtATime
<1> QED
      BY <1>1, <1>2 DEF StartAcceptOne

LEMMA PostAcceptCheckKeeps ==
    ASSUME OwnerInv, NEW t \in Threads, PostAcceptCheck(t)
    PROVE  OwnerInv'
<1>1. ev[t] \in AcceptEvents /\ where[ev[t]] = "held"
      BY DEF PostAcceptCheck, OwnerInv, Hands, HolderHolds
<1>2. OneAtATime'
      BY <1>1, ThreadsAssumption
      DEF PostAcceptCheck, Return, BackToLoop, mainVars, OwnerInv, Shapes,
          PostShapes, RetryShapes, OneAtATime, Threads
<1>3. CASE m_bClosing
  <2>1. Hands'
        BY <1>3, GivesEvent DEF PostAcceptCheck, ReleaseAcceptEvent, Return, Places
  <2>2. EventShapes' /\ PostShapes'
        BY <1>1, <1>3
        DEF PostAcceptCheck, ReleaseAcceptEvent, Return, OwnerInv, Shapes,
            EventShapes, PostShapes, Places
  <2>3. RetryShapes'
        BY <1>3
        DEF PostAcceptCheck, BackToLoop, queueVars, OwnerInv, Shapes, RetryShapes
  <2>4. Queued'
        BY <1>1, <1>3, MovesUnqueued
        DEF PostAcceptCheck, ReleaseAcceptEvent, InQueue, mainVars, queueVars
  <2> QED
        BY <1>2, <2>1, <2>2, <2>3, <2>4 DEF OwnerInv, Shapes
<1>4. CASE ~m_bClosing
  <2>1. Hands'
        BY <1>4
        DEF PostAcceptCheck, OwnerInv, Shapes, PostShapes, Hands, HolderHolds,
            NoTwoHolders, HeldHasHolder, Holds
  <2>2. Shapes' /\ Queued'
        BY <1>4
        DEF PostAcceptCheck, mainVars, queueVars, OwnerInv, Shapes, EventShapes,
            PostShapes, RetryShapes, Queued, QueuedAreRetry, QueuedOnce, InQueue
  <2> QED
        BY <1>2, <2>1, <2>2 DEF OwnerInv
<1> QED
      BY <1>3, <1>4

LEMMA PostAcceptCreateFailsKeeps ==
    ASSUME OwnerInv, NEW t \in Threads, PostAcceptCreateFails(t)
    PROVE  OwnerInv'
<1>1. PICK permanent \in BOOLEAN : ScheduleRetry(t, permanent)
      BY DEF PostAcceptCreateFails
<1>2. /\ pc[t] = "create" /\ ev[t] \in AcceptEvents /\ where[ev[t]] = "held"
      /\ pc' = [pc EXCEPT ![t] = "idle"] /\ ev' = [ev EXCEPT ![t] = NoEvent]
      /\ UNCHANGED <<ioThreadID, mainPc, due>>
      BY DEF PostAcceptCreateFails, Return, mainVars, OwnerInv, Hands, HolderHolds
<1>3. OneAtATime'
      BY <1>1, <1>2, ThreadsAssumption
      DEF ScheduleRetry, BackToLoop, OwnerInv, Shapes, PostShapes, RetryShapes,
          OneAtATime, Threads
<1>4. EventShapes' /\ PostShapes'
      BY <1>1, <1>2
      DEF ScheduleRetry, ReleaseAcceptEvent, OwnerInv, Shapes, EventShapes,
          PostShapes, Places
<1>5. CASE permanent
  <2>1. Hands'
        BY <1>1, <1>2, <1>5, GivesEvent DEF ScheduleRetry, ReleaseAcceptEvent, Places
  <2>2. RetryShapes'
        BY <1>1, <1>2, <1>5 DEF ScheduleRetry, BackToLoop, OwnerInv, Shapes, RetryShapes
  <2>3. Queued'
        BY <1>1, <1>2, <1>5, MovesUnqueued DEF ScheduleRetry, ReleaseAcceptEvent, InQueue
  <2> QED
        BY <1>3, <1>4, <2>1, <2>2, <2>3 DEF OwnerInv, Shapes
<1>6. CASE ~permanent
  <2> DEFINE q == m_retryQueue
  <2>1. PICK k \in 1..Len(q) + 1 :
            /\ q' \in Seq(RetryItem) /\ Len(q') = Len(q) + 1
            /\ q'[k].event = ev[t]
            /\ \A j \in 1..Len(q') \ {k} : /\ OldIndex(j, k) \in 1..Len(q)
                                           /\ q'[j] = q[OldIndex(j, k)]
        BY <1>1, <1>2, <1>6, ScheduledFacts DEF ScheduleRetry
  <2>2. \A i, j \in 1..Len(q') \ {k} : OldIndex(i, k) = OldIndex(j, k) => i = j
        BY DEF OldIndex
  <2>3. Hands'
        BY <1>1, <1>2, <1>6, GivesEvent DEF ScheduleRetry, Places
  <2>4. \A j \in 1..Len(q) : /\ q[j].event \in AcceptEvents /\ q[j].event # ev[t]
                             /\ where[q[j].event] \in InQueue
        BY <1>2, QueueItems DEF InQueue
  <2>5. where' = [where EXCEPT ![ev[t]] = "retry"]
        BY <1>1, <1>6 DEF ScheduleRetry
  <2>6. \A j \in 1..Len(q') : where'[q'[j].event] \in InQueue'
    <3>1. InQueue' = InQueue /\ "retry" \in InQueue
          BY <1>2 DEF InQueue
    <3>2. where'[ev[t]] = "retry" /\ \A e \in AcceptEvents \ {ev[t]} : where'[e] = where[e]
          BY <1>2, <2>5 DEF OwnerInv, Shapes, EventShapes
    <3>3. where'[q'[k].event] \in InQueue'
          BY <2>1, <3>1, <3>2
    <3>4. ASSUME NEW j \in 1..Len(q') \ {k}
          PROVE  where'[q'[j].event] \in InQueue'
          BY <2>1, <2>4, <3>1, <3>2
    <3> QED
          BY <3>3, <3>4
  <2>7. \A i, j \in 1..Len(q') : q'[i].event = q'[j].event => i = j
    <3>1. \A i, j \in 1..Len(q) : q[i].event = q[j].event => i = j
          BY DEF OwnerInv, Queued, QueuedOnce
    <3> QED
          BY SMTT(40), <2>1, <2>2, <2>4, <3>1
  <2>8. RetryShapes'
        BY <1>1, <1>2, <1>6, <2>1, QueueItems
        DEF ScheduleRetry, BackToLoop, OwnerInv, Shapes, RetryShapes
  <2> QED
        BY <1>3, <1>4, <2>3, <2>6, <2>7, <2>8
        DEF OwnerInv, Shapes, Queued, QueuedAreRetry, QueuedOnce
<1> QED
      BY <1>5, <1>6

LEMMA PostAcceptPendingKeeps ==
    ASSUME OwnerInv, NEW t \in Threads, PostAcceptPending(t)
    PROVE  OwnerInv'
<1>1. ev[t] \in AcceptEvents /\ where[ev[t]] = "held"
      BY DEF PostAcceptPending, OwnerInv, Hands, HolderHolds
<1>2. Hands'
      BY GivesEvent DEF PostAcceptPending, Places
<1>3. Shapes'
      BY <1>1
      DEF PostAcceptPending, retryVars, queueVars, OwnerInv, Shapes, EventShapes,
          PostShapes, RetryShapes, Places
<1>4. OneAtATime'
      BY <1>1, ThreadsAssumption
      DEF PostAcceptPending, mainVars, retryVars, OwnerInv, Shapes, PostShapes,
          OneAtATime, Threads
<1>5. Queued'
      BY <1>1, MovesUnqueued
      DEF PostAcceptPending, InQueue, mainVars, retryVars, queueVars
<1> QED
      BY <1>2, <1>3, <1>4, <1>5 DEF OwnerInv

LEMMA OnAcceptKeeps ==
    ASSUME OwnerInv, NEW t \in Workers, NEW e \in AcceptEvents, OnAccept(t, e)
    PROVE  OwnerInv'
<1>1. /\ t \in Threads /\ t # mainThread /\ t # retryThread
      /\ mainThread \in Threads /\ retryThread \in Threads
      BY ThreadsAssumption DEF Threads
<1>2. Hands'
  <2>1. CASE m_bClosing
        BY <2>1, MovesUnheld DEF OnAccept, ReleaseAcceptEvent, Places
  <2>2. CASE ~m_bClosing
        BY <1>1, <2>2, TakesEvent DEF OnAccept
  <2> QED
        BY <2>1, <2>2
<1>3. EventShapes' /\ PostShapes'
      BY <1>1
      DEF OnAccept, ReleaseAcceptEvent, postVars, OwnerInv, Shapes, EventShapes,
          PostShapes, Places
<1>4. RetryShapes'
      BY DEF OnAccept, retryVars, queueVars, OwnerInv, Shapes, RetryShapes
<1>5. OneAtATime'
      BY <1>1
      DEF OnAccept, postVars, mainVars, retryVars, OwnerInv, Shapes, PostShapes,
          OneAtATime
<1>6. Queued'
      BY MovesUnqueued
      DEF OnAccept, ReleaseAcceptEvent, InQueue, mainVars, retryVars, queueVars
<1> QED
      BY <1>2, <1>3, <1>4, <1>5, <1>6 DEF OwnerInv, Shapes

LEMMA RetryTakesKeeps ==
    ASSUME OwnerInv, RetryTakes
    PROVE  OwnerInv'
<1> DEFINE q == m_retryQueue
           item == Head(q)
<1>0. mainPc # "clear" /\ InQueue = {"retry"}
      BY DEF RetryTakes, OwnerInv, OneAtATime, InQueue
<1>1. /\ q \in Seq(RetryItem) /\ Len(q) > 0 /\ item = q[1]
      /\ due \in 1..Len(q) /\ due' = due - 1
      BY DEF RetryTakes, OwnerInv, Shapes, RetryShapes
<1>2. /\ q' \in Seq(RetryItem) /\ Len(q') = Len(q) - 1
      /\ \A j \in 1..Len(q) - 1 : q'[j] = q[j + 1]
      BY <1>1 DEF RetryTakes
<1>3. item.event \in AcceptEvents /\ where[item.event] = "retry"
      BY <1>0, <1>1, QueueItems
<1>4. \A i, j \in 1..Len(q) : q[i].event = q[j].event => i = j
      BY DEF OwnerInv, Queued, QueuedOnce
<1> HIDE DEF item
<1>5. \A j \in 1..Len(q') : /\ q'[j].event # item.event
                            /\ q'[j].event \in AcceptEvents
                            /\ where[q'[j].event] = "retry"
  <2>1. 1 \in 1..Len(q)
        BY <1>1
  <2>2. \A j \in 1..Len(q') : /\ j + 1 \in 1..Len(q) /\ j + 1 # 1
                              /\ q'[j] = q[j + 1]
        BY <1>1, <1>2
  <2>3. \A j \in 1..Len(q) : /\ q[j].event \in AcceptEvents
                             /\ where[q[j].event] = "retry"
        BY <1>0, QueueItems
  <2>4. \A j \in 1..Len(q) : j # 1 => q[j].event # item.event
        BY <1>1, <1>4, <2>1
  <2> HIDE DEF q
  <2> QED
        BY <2>2, <2>3, <2>4
<1>6. \A i, j \in 1..Len(q') : q'[i].event = q'[j].event => i = j
      BY <1>1, <1>2, <1>4
<1>7. pc[retryThread] = "idle" /\ retryThread \in Threads
      BY DEF RetryTakes, OwnerInv, OneAtATime, Threads
<1>8. CASE GiveUp(item)
  <2>1. /\ where' = [where EXCEPT ![item.event] = "free"]
        /\ i32RetryCount' = [i32RetryCount EXCEPT ![item.event] = 0]
        /\ retryPc' = "test"
        /\ UNCHANGED <<ioThreadID, postVars, mainPc>>
        BY <1>8 DEF RetryTakes, ReleaseAcceptEvent, mainVars, item
  <2>2. Hands'
        BY <1>3, <2>1, MovesUnheld DEF Places
  <2>3. \A j \in 1..Len(q') : where'[q'[j].event] = "retry"
        BY <1>5, <2>1 DEF OwnerInv, Shapes, EventShapes
  <2>4. EventShapes' /\ PostShapes'
        BY <1>3, <2>1
        DEF postVars, OwnerInv, Shapes, EventShapes, PostShapes, Places
  <2>5. RetryShapes' /\ OneAtATime'
        BY <1>1, <1>2, <1>7, <2>1, ThreadsAssumption
        DEF RetryTakes, postVars, OwnerInv, RetryShapes, OneAtATime
  <2> QED
        BY <1>6, <2>2, <2>3, <2>4, <2>5
        DEF OwnerInv, Shapes, Queued, QueuedAreRetry, QueuedOnce, InQueue
<1>9. CASE ~GiveUp(item)
  <2>1. /\ where' = [where EXCEPT ![item.event] = "held"]
        /\ pc' = [pc EXCEPT ![retryThread] = "check"]
        /\ ev' = [ev EXCEPT ![retryThread] = item.event]
        /\ retryPc' = "busy"
        /\ UNCHANGED <<ioThreadID, i32RetryCount, mainPc>>
        BY <1>9 DEF RetryTakes, mainVars, item
  <2>2. Hands'
        BY <1>3, <1>7, <2>1, TakesEvent
  <2>3. \A j \in 1..Len(q') : where'[q'[j].event] = "retry"
        BY <1>5, <2>1 DEF OwnerInv, Shapes, EventShapes
  <2>4. EventShapes' /\ PostShapes'
        BY <1>3, <1>7, <2>1 DEF OwnerInv, Shapes, EventShapes, PostShapes, Places
  <2>5. RetryShapes' /\ OneAtATime'
        BY <1>1, <1>2, <1>7, <2>1, ThreadsAssumption
        DEF RetryTakes, OwnerInv, Shapes, PostShapes, RetryShapes, OneAtATime, Threads
  <2> QED
        BY <1>6, <2>2, <2>3, <2>4, <2>5
        DEF OwnerInv, Shapes, Queued, QueuedAreRetry, QueuedOnce, InQueue
<1> QED
      BY <1>8, <1>9

\* EndRetry goes on when the retry thread has ended, so none is in its hands.
LEMMA EndRetryJoinKeeps ==
    ASSUME OwnerInv, EndRetryJoin
    PROVE  OwnerInv'
BY DEF EndRetryJoin, MainGoto, retryVars, queueVars, postVars, OwnerInv, Shapes,
       EventShapes, PostShapes, RetryShapes, Hands, HolderHolds, NoTwoHolders,
       HeldHasHolder, Holds, Queued, QueuedAreRetry, QueuedOnce, InQueue, OneAtATime

\* The walk changes no held event and leaves the queue as it is.
LEMMA EndRetryReleaseKeeps ==
    ASSUME OwnerInv, EndRetryRelease
    PROVE  OwnerInv'
<1>1. /\ where' = [e \in AcceptEvents |->
                        IF where[e] = "retry" THEN "free" ELSE where[e]]
      /\ \A e \in AcceptEvents : where'[e] = "held" <=> where[e] = "held"
      /\ mainPc = "walk" /\ mainPc' = "clear"
      /\ UNCHANGED <<ioThreadID, pc, ev, m_retryQueue, due, retryPc>>
      BY DEF EndRetryRelease, MainGoto, postVars, retryVars, queueVars
<1>2. Shapes'
      BY <1>1
      DEF EndRetryRelease, OwnerInv, Shapes, EventShapes, PostShapes, RetryShapes, Places
<1>3. Hands'
      BY <1>1
      DEF OwnerInv, Hands, HolderHolds, NoTwoHolders, HeldHasHolder, Holds
<1>4. QueuedAreRetry'
      BY <1>1, QueueItems DEF QueuedAreRetry, InQueue
<1>5. QueuedOnce' /\ OneAtATime'
      BY <1>1 DEF OwnerInv, Queued, QueuedOnce, OneAtATime
<1> QED
      BY <1>2, <1>3, <1>4, <1>5 DEF OwnerInv, Queued

\* After the clear nothing is queued.
LEMMA EndRetryClearKeeps ==
    ASSUME OwnerInv, EndRetryClear
    PROVE  OwnerInv'
<1>1. /\ where' = [e \in AcceptEvents |->
                        IF where[e] = "retry" THEN "lost" ELSE where[e]]
      /\ \A e \in AcceptEvents : where'[e] = "held" <=> where[e] = "held"
      /\ mainPc = "clear" /\ mainPc' = "closeSocket"
      /\ m_retryQueue' = <<>> /\ due' = 0
      /\ UNCHANGED <<ioThreadID, i32RetryCount, pc, ev, retryPc>>
      BY DEF EndRetryClear, MainGoto, postVars
<1>2. Shapes'
      BY <1>1
      DEF OwnerInv, Shapes, EventShapes, PostShapes, RetryShapes, Places
<1>3. Hands'
      BY <1>1
      DEF OwnerInv, Hands, HolderHolds, NoTwoHolders, HeldHasHolder, Holds
<1>4. Queued'
      BY <1>1 DEF Queued, QueuedAreRetry, QueuedOnce
<1>5. OneAtATime'
      BY <1>1 DEF OwnerInv, OneAtATime
<1> QED
      BY <1>2, <1>3, <1>4, <1>5 DEF OwnerInv

-----------------------------------------------------------------------------
\* A thread takes only an event that is in nobody's hands and leaves the
\* event it holds with the pool, the kernel or the retry queue.
LEMMA OwnerStep ==
    ASSUME OwnerInv, [Next]_vars
    PROVE  OwnerInv'
<1> USE DEF OwnerInv, Shapes, EventShapes, PostShapes, RetryShapes, Hands, HolderHolds, NoTwoHolders, HeldHasHolder,
            Queued, QueuedAreRetry, QueuedOnce, InQueue, OneAtATime, Holds, Threads, Places
<1>1. CASE StartRetry
      BY <1>1, ThreadsAssumption
      DEF StartRetry, eventVars, postVars, queueVars
<1>2. CASE CloseFlag
      BY <1>2 DEF CloseFlag, MainGoto, retryVars, queueVars, postVars
<1>3. CASE EndRetryStore
      BY <1>3 DEF EndRetryStore, MainGoto, queueVars, postVars
<1>4. CASE EndRetryNotify
      BY <1>4 DEF EndRetryNotify, MainGoto, queueVars, postVars
<1>5. CASE CloseListenSocket
      BY <1>5 DEF CloseListenSocket, MainGoto, retryVars, queueVars, postVars
<1>6. CASE WaitForAllAcceptEventsReturned
      BY <1>6
      DEF WaitForAllAcceptEventsReturned, MainGoto, retryVars, queueVars, postVars
<1>7. CASE StopPool
      BY <1>7 DEF StopPool, MainGoto, retryVars, queueVars, postVars
<1>8. ASSUME NEW t \in Threads, PostAcceptReset(t)
      PROVE  OwnerInv'
      BY <1>8, ThreadsAssumption
      DEF PostAcceptReset, Return, BackToLoop, mainVars, queueVars
<1>9. ASSUME NEW e \in AcceptEvents, KernelCompletes(e)
       PROVE  OwnerInv'
       BY <1>9 DEF KernelCompletes, postVars, mainVars, retryVars, queueVars
<1>10. ASSUME NEW e \in AcceptEvents, RetryTimeComes(e)
       PROVE  OwnerInv'
       BY <1>10 DEF RetryTimeComes, eventVars, postVars, mainVars
<1>11. CASE RetryTest
       BY <1>11 DEF RetryTest, eventVars, postVars, mainVars, queueVars
<1>12. CASE RetryWaits
       BY <1>12 DEF RetryWaits, eventVars, postVars, mainVars, queueVars
<1>13. CASE WaitUntilExpires
       BY <1>13 DEF WaitUntilExpires, eventVars, postVars, mainVars, queueVars
<1>14. CASE SpuriousWakeup
       BY <1>14 DEF SpuriousWakeup, eventVars, postVars, mainVars, queueVars
<1>15. CASE UNCHANGED vars
       BY <1>15 DEF vars, eventVars, postVars, mainVars, retryVars, queueVars
<1> HIDE DEF OwnerInv, Shapes, EventShapes, PostShapes, RetryShapes, Hands, HolderHolds, NoTwoHolders, HeldHasHolder,
             Queued, QueuedAreRetry, QueuedOnce, InQueue, OneAtATime, Holds, Threads, Places
<1>16. QED
       BY <1>1, <1>2, <1>3, <1>4, <1>5, <1>6, <1>7, <1>8, <1>9, <1>10,
          <1>11, <1>12, <1>13, <1>14, <1>15, StartAcceptKeeps, PostAcceptCheckKeeps,
          PostAcceptCreateFailsKeeps, PostAcceptPendingKeeps, OnAcceptKeeps,
          RetryTakesKeeps, EndRetryJoinKeeps, EndRetryReleaseKeeps, EndRetryClearKeeps
       DEF Next, CloseStep, PostAccept, RetryStep

-----------------------------------------------------------------------------
\* The invariant says in terms of holders what OneOwner counts.
LEMMA OneHolderIsOneOwner == OwnerInv => OneOwner
<1> SUFFICES ASSUME OwnerInv, NEW e \in AcceptEvents
             PROVE  Cardinality({t \in Threads : Holds(t, e)})
                        = IF where[e] = "held" THEN 1 ELSE 0
    BY DEF OneOwner
<1> DEFINE holders == {t \in Threads : Holds(t, e)}
<1>1. CASE where[e] = "held"
  <2>1. PICK t \in Threads : Holds(t, e)
        BY <1>1 DEF OwnerInv, Hands, HeldHasHolder
  <2>2. holders = {t}
        BY <2>1 DEF OwnerInv, Hands, NoTwoHolders
  <2> QED
        BY <1>1, <2>2, FS_Singleton
<1>2. CASE where[e] # "held"
  <2>1. holders = {}
        BY <1>2 DEF OwnerInv, Hands, HolderHolds, Holds
  <2> QED
        BY <1>2, <2>1, FS_EmptySet
<1> QED
      BY <1>1, <1>2

\* An accept event has exactly one owner, however many threads run through
\* PostAccept, OnAccept and the retry loop at once.
THEOREM OneOwnerHolds == Spec => []OneOwner
<1>1. OwnerInv /\ [Next]_vars => OwnerInv'
      BY OwnerStep
<1> QED
      BY <1>1, ListenerInit, OneHolderIsOneOwner, PTL DEF Spec

-----------------------------------------------------------------------------
(* The wait for all accept events *)

\* When every event is free nobody is at work on one and none is queued.
LEMMA AllFreeIsQuiet ==
    ASSUME OwnerInv, AllReturned, mainPc # "clear"
    PROVE  /\ \A t \in Threads : pc[t] \in {"idle", "reset"}
           /\ m_retryQueue = <<>> /\ due = 0
<1>1. \A t \in Threads : pc[t] \in {"idle", "reset"}
      BY DEF OwnerInv, Shapes, PostShapes, Hands, HolderHolds, AllReturned
<1>2. Len(m_retryQueue) = 0
  <2> SUFFICES ASSUME Len(m_retryQueue) # 0 PROVE FALSE
      OBVIOUS
  <2>1. 1 \in 1..Len(m_retryQueue)
        BY QueueItems
  <2> QED
        BY <2>1, QueueItems DEF AllReturned, InQueue
<1> QED
      BY <1>1, <1>2, QueueItems DEF OwnerInv, Shapes, RetryShapes

\* Once the wait has succeeded no step takes an event out of its pool.
LEMMA ReturnedStep ==
    ASSUME OwnerInv, ReturnedStayReturned, waitResult = "true", [Next]_vars
    PROVE  where' = where
<1>1. /\ mainPc \in {"stopping", "stopped"} /\ AllReturned
      /\ \A t \in Threads : pc[t] \in {"idle", "reset"}
      /\ due = 0
      BY AllFreeIsQuiet DEF ReturnedStayReturned
<1>2. CASE UNCHANGED vars
      BY <1>2 DEF vars, eventVars
<1>3. ASSUME NEW p \in IoIds, StartAcceptOne(p)
      PROVE  FALSE
      BY <1>1, <1>3 DEF StartAcceptOne
<1>4. CASE StartRetry \/ CloseFlag \/ CloseStep \/ WaitForAllAcceptEventsReturned
      BY <1>1, <1>4
      DEF StartRetry, CloseFlag, CloseStep, EndRetryStore, EndRetryNotify,
          EndRetryJoin, EndRetryRelease, EndRetryClear, CloseListenSocket,
          WaitForAllAcceptEventsReturned, MainGoto
<1>5. CASE StopPool
      BY <1>5 DEF StopPool
<1>6. ASSUME NEW t \in Threads, PostAccept(t)
      PROVE  where' = where
      BY <1>1, <1>6
      DEF PostAccept, PostAcceptCheck, PostAcceptCreateFails, PostAcceptPending,
          PostAcceptReset
<1>7. ASSUME NEW e \in AcceptEvents, KernelCompletes(e)
      PROVE  FALSE
      BY <1>1, <1>7 DEF KernelCompletes, AllReturned
<1>8. ASSUME NEW e \in AcceptEvents, RetryTimeComes(e)
      PROVE  where' = where
      BY <1>8 DEF RetryTimeComes, eventVars
<1>9. ASSUME NEW t \in Workers, NEW e \in AcceptEvents, OnAccept(t, e)
      PROVE  FALSE
      BY <1>1, <1>9 DEF OnAccept, AllReturned
<1>10. CASE RetryStep \/ SpuriousWakeup
      BY <1>1, <1>10
      DEF RetryStep, RetryTest, RetryWaits, RetryTakes, WaitUntilExpires,
          SpuriousWakeup, eventVars
<1> QED
      BY <1>2, <1>3, <1>4, <1>5, <1>6, <1>7, <1>8, <1>9, <1>10 DEF Next

\* Only the wait itself writes its result, and it reads AllReturned.
LEMMA ReturnedKept ==
    ASSUME OwnerInv, ReturnedStayReturned, [Next]_vars
    PROVE  ReturnedStayReturned'
<1>1. CASE waitResult = "true"
  <2>1. AllReturned'
        BY <1>1, ReturnedStep DEF ReturnedStayReturned, AllReturned
  <2>2. mainPc \in {"stopping", "stopped"}
        BY <1>1 DEF ReturnedStayReturned
  <2>3. mainPc' \in {"stopping", "stopped"}
        BY <2>2
        DEF Next, vars, mainVars, StartAcceptOne, StartRetry, CloseFlag, CloseStep,
            EndRetryStore, EndRetryNotify, EndRetryJoin, EndRetryRelease,
            EndRetryClear, CloseListenSocket,
            WaitForAllAcceptEventsReturned, StopPool, MainGoto, PostAccept,
            PostAcceptCheck, PostAcceptCreateFails, PostAcceptPending,
            PostAcceptReset, KernelCompletes, RetryTimeComes, OnAccept, RetryStep,
            RetryTest, RetryWaits, RetryTakes, WaitUntilExpires, SpuriousWakeup
  <2> QED
        BY <2>1, <2>3 DEF ReturnedStayReturned
<1>2. CASE waitResult # "true" /\ WaitForAllAcceptEventsReturned
      BY <1>2
      DEF WaitForAllAcceptEventsReturned, MainGoto, ReturnedStayReturned, AllReturned
<1>3. CASE waitResult # "true" /\ UNCHANGED waitResult
      BY <1>3 DEF ReturnedStayReturned
<1>4. WaitForAllAcceptEventsReturned \/ UNCHANGED waitResult
      BY DEF Next, vars, mainVars, StartAcceptOne, StartRetry, CloseFlag, CloseStep,
             EndRetryStore, EndRetryNotify, EndRetryJoin, EndRetryRelease,
             EndRetryClear, CloseListenSocket,
             StopPool, MainGoto, PostAccept, PostAcceptCheck, PostAcceptCreateFails,
             PostAcceptPending, PostAcceptReset, KernelCompletes, RetryTimeComes,
             OnAccept, RetryStep, RetryTest, RetryWaits, RetryTakes,
             WaitUntilExpires, SpuriousWakeup
<1> QED
      BY <1>1, <1>2, <1>3, <1>4

\* When WaitForAllAcceptEventsReturned returns true, every event is in its
\* pool and no later step of any thread takes one out: the pool can be
\* stopped and the events deleted.
THEOREM WaitTrueIsFinalHolds == Spec => WaitTrueIsFinal
<1>1. Init => ReturnedStayReturned
      BY DEF Init, ReturnedStayReturned
<1>2. OwnerInv /\ ReturnedStayReturned /\ [Next]_vars
          => (OwnerInv /\ ReturnedStayReturned)'
      BY OwnerStep, ReturnedKept
<1>3. OwnerInv /\ ReturnedStayReturned /\ [Next]_vars
          => [waitResult = "true" =>
                  /\ \A e \in AcceptEvents : where[e] = "free"
                  /\ where' = where]_vars
      BY ReturnedStep DEF ReturnedStayReturned, AllReturned
<1> QED
      BY <1>1, <1>2, <1>3, ListenerInit, PTL DEF Spec, WaitTrueIsFinal

-----------------------------------------------------------------------------
(* The retry limit *)

\* A step that sets the count of one event to zero, and takes no event out
\* of the retry queue but that one, respects the limit.
LEMMA ZeroIsBounded ==
    ASSUME OwnerInv, RetriesBounded, NEW e \in AcceptEvents,
           i32RetryCount' = [i32RetryCount EXCEPT ![e] = 0],
           \A f \in AcceptEvents \ {e} : where'[f] = where[f]
    PROVE  CountsBounded'
BY PoolsAssumption
   DEF OwnerInv, Shapes, EventShapes, RetriesBounded, CountsBounded

\* The items of a queue that did not grow keep their counts when no count
\* rises.
LEMMA ItemsKeepCount ==
    ASSUME OwnerInv, RetriesBounded,
           \A f \in AcceptEvents : i32RetryCount'[f] \in {0, i32RetryCount[f]},
           m_retryQueue' \in {m_retryQueue, <<>>}
    PROVE  ItemsCount'
<1>1. \A x \in RetryItem : x.retryCount \in Nat
      BY DEF RetryItem
<1>2. CASE m_retryQueue' = m_retryQueue
      BY <1>1, <1>2, QueueItems DEF RetriesBounded, ItemsCount
<1>3. CASE m_retryQueue' = <<>>
      BY <1>3 DEF ItemsCount
<1> QED
      BY <1>2, <1>3

\* An error adds one to the count of an event that was below the limit, and
\* the item carries the new count; a retry is made only below the limit.
LEMMA RetriesStep ==
    ASSUME OwnerInv, OwnerInv', RetriesBounded, [Next]_vars
    PROVE  RetriesBounded'
<1>1. i32RetryCount \in [AcceptEvents -> Nat] /\ MAX_RETRY \in Nat \ {0}
      BY PoolsAssumption DEF OwnerInv, Shapes, EventShapes
<1>2. CASE /\ UNCHANGED <<i32RetryCount, m_retryQueue>>
           /\ \A e \in AcceptEvents :
                  where'[e] \in {"retry", "lost"} <=> where[e] \in {"retry", "lost"}
      BY <1>2 DEF RetriesBounded, CountsBounded, ItemsCount
<1>3. ASSUME NEW t \in Threads, PostAcceptCheck(t), m_bClosing
      PROVE  RetriesBounded'
  <2>1. ev[t] \in AcceptEvents
        BY <1>3 DEF PostAcceptCheck, OwnerInv, Hands, HolderHolds
  <2>2. CountsBounded'
        BY <1>3, <2>1, ZeroIsBounded DEF PostAcceptCheck, ReleaseAcceptEvent,
           OwnerInv, Shapes, EventShapes
  <2>3. ItemsCount'
        BY <1>1, <1>3, <2>1, ItemsKeepCount
        DEF PostAcceptCheck, ReleaseAcceptEvent, queueVars
  <2> QED
        BY <2>2, <2>3 DEF RetriesBounded
<1>4. ASSUME NEW t \in Threads, PostAcceptCreateFails(t)
      PROVE  RetriesBounded'
  <2>1. PICK permanent \in BOOLEAN : ScheduleRetry(t, permanent)
        BY <1>4 DEF PostAcceptCreateFails
  <2>2. ev[t] \in AcceptEvents /\ where[ev[t]] = "held"
        BY <1>4 DEF PostAcceptCreateFails, OwnerInv, Hands, HolderHolds
  <2>3. CASE permanent
    <3>1. CountsBounded'
          BY <2>1, <2>2, <2>3, ZeroIsBounded
          DEF ScheduleRetry, ReleaseAcceptEvent, OwnerInv, Shapes, EventShapes
    <3>2. ItemsCount'
          BY <1>1, <2>1, <2>2, <2>3, ItemsKeepCount
          DEF ScheduleRetry, ReleaseAcceptEvent
    <3> QED
          BY <3>1, <3>2 DEF RetriesBounded
  <2>4. CASE ~permanent
    <3> DEFINE q == m_retryQueue
    <3>1. /\ where' = [where EXCEPT ![ev[t]] = "retry"]
          /\ i32RetryCount' = [i32RetryCount EXCEPT ![ev[t]] = @ + 1]
          /\ q' \in Scheduled(ev[t])
          BY <2>1, <2>4 DEF ScheduleRetry
    <3>2. i32RetryCount[ev[t]] < MAX_RETRY
          BY <2>2 DEF RetriesBounded, CountsBounded
    <3>3. CountsBounded'
          BY <1>1, <2>2, <3>1, <3>2
          DEF RetriesBounded, CountsBounded, OwnerInv, Shapes, EventShapes
    <3>4. PICK k \in 1..Len(q) + 1 :
              /\ q' \in Seq(RetryItem) /\ Len(q') = Len(q) + 1
              /\ q'[k].event = ev[t] /\ q'[k].retryCount = i32RetryCount[ev[t]] + 1
              /\ \A j \in 1..Len(q') \ {k} : /\ OldIndex(j, k) \in 1..Len(q)
                                             /\ q'[j] = q[OldIndex(j, k)]
          BY <2>2, <3>1, ScheduledFacts
    <3>5. \A j \in 1..Len(q) : /\ q[j].event \in AcceptEvents /\ q[j].event # ev[t]
                               /\ i32RetryCount[q[j].event] <= q[j].retryCount
          BY <2>2, QueueItems DEF InQueue, RetriesBounded, ItemsCount
    <3>6. \A j \in 1..Len(q') : i32RetryCount'[q'[j].event] <= q'[j].retryCount
          BY SMTT(40), <1>1, <2>2, <3>1, <3>4, <3>5
    <3> QED
          BY <3>3, <3>6 DEF RetriesBounded, ItemsCount
  <2> QED
        BY <2>3, <2>4
<1>5. ASSUME NEW t \in Threads, PostAcceptReset(t)
      PROVE  RetriesBounded'
  <2>1. ev[t] \in AcceptEvents
        BY <1>5 DEF PostAcceptReset, OwnerInv, Hands, HolderHolds
  <2>2. CountsBounded'
        BY <1>5, <2>1, ZeroIsBounded DEF PostAcceptReset
  <2>3. ItemsCount'
        BY <1>1, <1>5, <2>1, ItemsKeepCount DEF PostAcceptReset, queueVars
  <2> QED
        BY <2>2, <2>3 DEF RetriesBounded
<1>6. ASSUME NEW t \in Workers, NEW e \in AcceptEvents, OnAccept(t, e), m_bClosing
      PROVE  RetriesBounded'
  <2>1. CountsBounded'
        BY <1>6, ZeroIsBounded
        DEF OnAccept, ReleaseAcceptEvent, OwnerInv, Shapes, EventShapes
  <2>2. ItemsCount'
        BY <1>1, <1>6, ItemsKeepCount
        DEF OnAccept, ReleaseAcceptEvent, retryVars, queueVars
  <2> QED
        BY <2>1, <2>2 DEF RetriesBounded
<1>7. CASE RetryTakes
  <2> DEFINE q == m_retryQueue
             item == Head(q)
  <2>1. /\ q \in Seq(RetryItem) /\ Len(q) > 0 /\ item = q[1]
        BY <1>7 DEF RetryTakes, OwnerInv, Shapes, RetryShapes
  <2>2. Len(q') = Len(q) - 1 /\ \A j \in 1..Len(q) - 1 : q'[j] = q[j + 1]
        BY <1>7, <2>1 DEF RetryTakes
  <2>3. /\ item.event \in AcceptEvents /\ item.retryCount \in Nat
        /\ i32RetryCount[item.event] <= item.retryCount
        BY <2>1, QueueItems DEF RetriesBounded, ItemsCount, RetryItem
  <2> HIDE DEF item
  <2>4. CountsBounded'
    <3>1. CASE GiveUp(item)
          BY <1>7, <2>3, <3>1, ZeroIsBounded
          DEF RetryTakes, ReleaseAcceptEvent, item, OwnerInv, Shapes, EventShapes
    <3>2. CASE ~GiveUp(item)
      <4>1. /\ where' = [where EXCEPT ![item.event] = "held"]
            /\ UNCHANGED i32RetryCount
            BY <1>7, <3>2 DEF RetryTakes, item
      <4>2. i32RetryCount[item.event] < MAX_RETRY
            BY <1>1, <2>3, <3>2 DEF GiveUp
      <4> QED
            BY <1>1, <2>3, <4>1, <4>2
            DEF RetriesBounded, CountsBounded, OwnerInv, Shapes, EventShapes
    <3> QED
          BY <3>1, <3>2
  <2>5. \A f \in AcceptEvents : i32RetryCount'[f] \in {0, i32RetryCount[f]}
        BY <1>1, <1>7, <2>3 DEF RetryTakes, ReleaseAcceptEvent, item
  <2>6. \A j \in 1..Len(q) : /\ q[j].event \in AcceptEvents /\ q[j].retryCount \in Nat
                             /\ i32RetryCount[q[j].event] <= q[j].retryCount
        BY QueueItems DEF RetriesBounded, ItemsCount, RetryItem
  <2>7. \A j \in 1..Len(q') : i32RetryCount'[q'[j].event] <= q'[j].retryCount
        BY <2>1, <2>2, <2>5, <2>6
  <2> QED
        BY <2>4, <2>7 DEF RetriesBounded, ItemsCount
<1>8. CASE EndRetryRelease
  <2>1. CountsBounded'
        BY <1>1, <1>8 DEF EndRetryRelease, RetriesBounded, CountsBounded
  <2>2. ItemsCount'
        BY <1>1, <1>8, ItemsKeepCount DEF EndRetryRelease, retryVars, queueVars
  <2> QED
        BY <2>1, <2>2 DEF RetriesBounded
<1>9. ASSUME NEW p \in IoIds, StartAcceptOne(p)
      PROVE  RetriesBounded'
      BY <1>2, <1>9
      DEF StartAcceptOne, Free, retryVars, queueVars, OwnerInv, Shapes, EventShapes
<1>10. ASSUME NEW t \in Threads, PostAcceptPending(t)
      PROVE  RetriesBounded'
      BY <1>2, <1>10
      DEF PostAcceptPending, retryVars, queueVars, OwnerInv, Shapes, EventShapes,
          Hands, HolderHolds
<1>11. ASSUME NEW t \in Threads, PostAcceptCheck(t), ~m_bClosing
      PROVE  RetriesBounded'
      BY <1>2, <1>11 DEF PostAcceptCheck, queueVars
<1>12. ASSUME NEW e \in AcceptEvents, KernelCompletes(e)
      PROVE  RetriesBounded'
      BY <1>2, <1>12
      DEF KernelCompletes, retryVars, queueVars, OwnerInv, Shapes, EventShapes
<1>13. ASSUME NEW t \in Workers, NEW e \in AcceptEvents, OnAccept(t, e), ~m_bClosing
      PROVE  RetriesBounded'
      BY <1>2, <1>13
      DEF OnAccept, retryVars, queueVars, OwnerInv, Shapes, EventShapes
<1>14. CASE UNCHANGED <<where, i32RetryCount, m_retryQueue>>
      BY <1>2, <1>14
<1>15. CASE EndRetryClear
  <2>1. CountsBounded'
        BY <1>1, <1>15 DEF EndRetryClear, RetriesBounded, CountsBounded
  <2>2. ItemsCount'
        BY <1>15 DEF EndRetryClear, ItemsCount
  <2> QED
        BY <2>1, <2>2 DEF RetriesBounded
<1> QED
      BY <1>3, <1>4, <1>5, <1>6, <1>7, <1>8, <1>9, <1>10, <1>11, <1>12, <1>13,
         <1>14, <1>15
      DEF Next, vars, eventVars, retryVars, queueVars, PostAccept, RetryStep,
          CloseStep, StartRetry, CloseFlag, EndRetryStore, EndRetryNotify,
          EndRetryJoin, CloseListenSocket, WaitForAllAcceptEventsReturned, StopPool,
          RetryTimeComes, RetryTest, RetryWaits, WaitUntilExpires, SpuriousWakeup

\* The types of the listener's state; the retry count of an event never
\* passes MAX_RETRY, though the reset after a successful AcceptEx races the
\* next round of the same event.
THEOREM ListenerTypeCorrect == Spec => []TypeOK
<1>1. Init => RetriesBounded
      BY PoolsAssumption DEF Init, RetriesBounded, CountsBounded, ItemsCount
<1>2. OwnerInv /\ RetriesBounded /\ [Next]_vars => (OwnerInv /\ RetriesBounded)'
      BY OwnerStep, RetriesStep
<1>3. OwnerInv /\ RetriesBounded => TypeOK
      BY PoolsAssumption
      DEF OwnerInv, Shapes, EventShapes, PostShapes, RetryShapes, Places,
          RetriesBounded, CountsBounded, TypeOK
<1> QED
      BY <1>1, <1>2, <1>3, ListenerInit, PTL DEF Spec
=============================================================================
