---------------------- MODULE AsyncFeatureQueueProofs ----------------------
(***************************************************************************)
(* Theorems about AsyncFeatureQueue for every set of threads, every        *)
(* capacity and every bound on the number of pushes.                       *)
(***************************************************************************)
EXTENDS AsyncFeatureQueue, FiniteSetTheorems, TLAPS

\* Whichever waiter notify_one picks, every thread is still in a call state,
\* and only a waiter has moved.
LEMMA NotifyOneType ==
    ASSUME NEW c \in [Threads -> CallState],
           NEW blocked \in CallState, NEW woken \in CallState,
           NEW d \in NotifyOne(c, blocked, woken)
    PROVE  d \in [Threads -> CallState]
  BY DEF NotifyOne

\* notify_all keeps every thread in a call state.
LEMMA NotifyAllType ==
    ASSUME NEW c \in [Threads -> CallState],
           NEW blocked \in CallState, NEW woken \in CallState
    PROVE  NotifyAll(c, blocked, woken) \in [Threads -> CallState]
  BY DEF NotifyAll

\* What PushLocked does to the typed state.
LEMMA PushLockedType ==
    ASSUME TypeOK, NEW t \in Threads, NEW item \in Items, PushLocked(t, item)
    PROVE  /\ m_queue' \in Seq(Queued)
           /\ m_nextSequenceId' \in Nat
           /\ call' \in [Threads -> CallState]
  <1>1. MakeQueuedItemLocked(item) \in Queued
    BY DEF TypeOK, MakeQueuedItemLocked, Queued
  <1>2. m_queue' \in Seq(Queued)
    BY <1>1 DEF TypeOK, PushLocked
  <1>3. [call EXCEPT ![t] = "idle"] \in [Threads -> CallState]
    BY DEF TypeOK, CallState
  <1>4. call' \in [Threads -> CallState]
    BY ZenonT(60), <1>3, NotifyOneType DEF PushLocked, CallState
  <1> QED BY <1>2, <1>4 DEF TypeOK, PushLocked

\* What PopLocked does to the typed state.
LEMMA PopLockedType ==
    ASSUME TypeOK, NEW t \in Threads, m_queue # <<>>, PopLocked(t)
    PROVE  /\ m_queue' \in Seq(Queued)
           /\ delivered' \in Seq(Nat)
           /\ call' \in [Threads -> CallState]
  <1>1. Head(m_queue) \in Queued /\ Tail(m_queue) \in Seq(Queued)
    BY DEF TypeOK
  <1>2. Head(m_queue).queue_sequence_id \in Nat
    BY <1>1 DEF Queued
  <1>3. m_queue' \in Seq(Queued) /\ delivered' \in Seq(Nat)
    BY <1>1, <1>2 DEF TypeOK, PopLocked
  <1>4. [call EXCEPT ![t] = "idle"] \in [Threads -> CallState]
    BY DEF TypeOK, CallState
  <1>5. call' \in [Threads -> CallState]
    BY ZenonT(60), <1>4, NotifyOneType DEF PopLocked, CallState
  <1> QED BY <1>3, <1>5

\* Moving a thread to another step of its call keeps the type of call.
LEMMA GotoType ==
    ASSUME TypeOK, NEW t \in Threads, NEW s \in CallState, Goto(t, s),
           arg' \in [Threads -> Items]
    PROVE  TypeOK'
  BY DEF TypeOK, Goto

\* The critical section of WaitPush, entered or resumed, keeps the type.
LEMMA WaitPushBodyType ==
    ASSUME TypeOK, NEW t \in Threads, NEW item \in Items,
           WaitPushBody(t, item)
    PROVE  TypeOK'
  <1>1. arg' \in [Threads -> Items]
    BY DEF TypeOK, WaitPushBody
  <1>2. CASE PushLocked(t, item)
    BY <1>1, <1>2, PushLockedType DEF TypeOK, PushLocked
  <1>3. CASE Goto(t, "notFull")
    BY <1>1, <1>3, GotoType DEF CallState
  <1>4. CASE Goto(t, "idle")
    BY <1>1, <1>4, GotoType DEF CallState
  <1> QED BY <1>2, <1>3, <1>4 DEF WaitPushBody

\* The critical section of WaitPop, entered or resumed, keeps the type.
LEMMA WaitPopBodyType ==
    ASSUME TypeOK, NEW t \in Threads, WaitPopBody(t)
    PROVE  TypeOK'
  <1>1. CASE m_queue # <<>> /\ PopLocked(t)
    BY <1>1, PopLockedType DEF TypeOK, PopLocked
  <1>2. CASE Goto(t, "notEmpty") /\ UNCHANGED arg
    BY <1>2, GotoType DEF CallState, TypeOK
  <1>3. CASE Goto(t, "idle") /\ UNCHANGED arg
    BY <1>3, GotoType DEF CallState, TypeOK
  <1> QED BY <1>1, <1>2, <1>3 DEF WaitPopBody

\* The queue's state keeps its type whatever the callers do: in particular
\* every thread is in one well-defined point of a call.
THEOREM TypeCorrect == Spec => []TypeOK
  <1>1. Init => TypeOK
    <2> SUFFICES ASSUME Init PROVE TypeOK
      OBVIOUS
    <2>1. m_closed \in BOOLEAN
      BY Zenon DEF Init
    <2> QED BY <2>1 DEF Init, TypeOK, CallState
  <1>2. TypeOK /\ [Next]_vars => TypeOK'
    <2> SUFFICES ASSUME TypeOK, [Next]_vars PROVE TypeOK'
      OBVIOUS
    <2>1. ASSUME NEW t \in Threads, NEW item \in Items, TryPush(t, item)
          PROVE  TypeOK'
      <3>1. CASE PushLocked(t, item) /\ UNCHANGED arg
        BY <3>1, PushLockedType DEF TypeOK, PushLocked
      <3>2. CASE /\ m_droppedCount' = m_droppedCount + 1
                 /\ UNCHANGED <<arg, m_queue, m_closed, m_nextSequenceId,
                                call, delivered, cleared>>
        BY <3>2 DEF TypeOK
      <3> QED BY <2>1, <3>1, <3>2 DEF TryPush, TryPushBody
    <2>2. ASSUME NEW t \in Threads, NEW item \in Items, WaitPush(t, item)
          PROVE  TypeOK'
      BY <2>2, WaitPushBodyType DEF WaitPush
    <2>3. ASSUME NEW t \in Threads, WaitPushResume(t)
          PROVE  TypeOK'
      <3>1. arg[t] \in Items
        BY DEF TypeOK
      <3> QED BY <2>3, <3>1, WaitPushBodyType DEF WaitPushResume
    <2>4. ASSUME NEW t \in Threads, TryPop(t)
          PROVE  TypeOK'
      BY <2>4, PopLockedType DEF TypeOK, TryPop, PopLocked
    <2>5. ASSUME NEW t \in Threads, WaitPop(t) \/ WaitPopResume(t)
          PROVE  TypeOK'
      BY <2>5, WaitPopBodyType DEF WaitPop, WaitPopResume
    <2>6. ASSUME NEW t \in Threads, Close(t) \/ Clear(t)
          PROVE  TypeOK'
      <3>1. m_closed' \in BOOLEAN
        BY <2>6, Zenon DEF TypeOK, Close, Clear
      <3>2. CASE Close(t)
        BY <3>1, <3>2 DEF TypeOK, Close, CallState
      <3>3. CASE Clear(t)
        BY <3>1, <3>3 DEF TypeOK, Clear, CallState
      <3> QED BY <2>6, <3>2, <3>3
    <2>7. ASSUME NEW t \in Threads, CloseNotifyNotEmpty(t)
          PROVE  TypeOK'
      <3>1. [call EXCEPT ![t] = "closeNotFull"] \in [Threads -> CallState]
        BY DEF TypeOK, CallState
      <3>2. call' \in [Threads -> CallState]
        BY <2>7, <3>1, NotifyAllType DEF CloseNotifyNotEmpty, CallState
      <3> QED BY <2>7, <3>2 DEF TypeOK, CloseNotifyNotEmpty
    <2>8. ASSUME NEW t \in Threads,
                 CloseNotifyNotFull(t) \/ ClearNotifyNotFull(t)
          PROVE  TypeOK'
      <3>1. [call EXCEPT ![t] = "idle"] \in [Threads -> CallState]
        BY DEF TypeOK, CallState
      <3>2. call' \in [Threads -> CallState]
        <4>1. call' = NotifyAll([call EXCEPT ![t] = "idle"],
                                "notFull", "notFullWoken")
          BY <2>8 DEF CloseNotifyNotFull, ClearNotifyNotFull
        <4> QED BY <3>1, <4>1, NotifyAllType DEF CallState
      <3>3. CASE CloseNotifyNotFull(t)
        BY <3>2, <3>3 DEF TypeOK, CloseNotifyNotFull
      <3>4. CASE ClearNotifyNotFull(t)
        BY <3>2, <3>4 DEF TypeOK, ClearNotifyNotFull
      <3> QED BY <2>8, <3>3, <3>4
    <2>9. ASSUME NEW t \in Threads, SpuriousWakeup(t)
          PROVE  TypeOK'
      BY <2>9, GotoType DEF SpuriousWakeup, CallState, TypeOK
    <2>10. CASE UNCHANGED vars
      BY <2>10 DEF TypeOK, vars
    <2> QED
      BY <2>1, <2>2, <2>3, <2>4, <2>5, <2>6, <2>7, <2>8, <2>9, <2>10
         DEF Next, Continue
  <1> QED BY <1>1, <1>2, PTL DEF Spec

-----------------------------------------------------------------------------
(* Order and accounting.                                                   *)
(*                                                                         *)
(* Seen from the deque, every step pushes at the back, pops at the front,  *)
(* clears, or leaves the contents alone.                                   *)

QueueUntouched ==
    UNCHANGED <<m_queue, m_nextSequenceId, delivered, cleared>>

QueuePushed ==
    /\ ~IsFullLocked
    /\ \E item \in Items :
           m_queue' = Append(m_queue, MakeQueuedItemLocked(item))
    /\ m_nextSequenceId' = m_nextSequenceId + 1
    /\ UNCHANGED <<delivered, cleared>>

QueuePopped ==
    /\ m_queue # <<>>
    /\ m_queue' = Tail(m_queue)
    /\ delivered' = Append(delivered, Head(m_queue).queue_sequence_id)
    /\ UNCHANGED <<m_nextSequenceId, cleared>>

QueueCleared ==
    /\ m_queue' = <<>>
    /\ cleared' = cleared + Len(m_queue)
    /\ UNCHANGED <<m_nextSequenceId, delivered>>

\* Whatever a thread does, the deque sees one of four things: nothing, a
\* push, a pop or a clear.
LEMMA StepsOnTheDeque ==
    ASSUME TypeOK, [Next]_vars
    PROVE  QueueUntouched \/ QueuePushed \/ QueuePopped \/ QueueCleared
  <1>1. ASSUME NEW t \in Threads, NEW item \in Items, TryPush(t, item)
        PROVE  QueueUntouched \/ QueuePushed
    BY <1>1 DEF TryPush, TryPushBody, PushLocked, QueueUntouched, QueuePushed
  <1>2. ASSUME NEW t \in Threads, NEW item \in Items, WaitPushBody(t, item)
        PROVE  QueueUntouched \/ QueuePushed
    BY <1>2 DEF WaitPushBody, Goto, PushLocked, QueueUntouched, QueuePushed
  <1>3. ASSUME NEW t \in Threads, WaitPushResume(t)
        PROVE  QueueUntouched \/ QueuePushed
    BY <1>2, <1>3 DEF WaitPushResume, TypeOK
  <1>4. ASSUME NEW t \in Threads, TryPop(t)
        PROVE  QueuePopped
    BY <1>4 DEF TryPop, PopLocked, QueuePopped
  <1>5. ASSUME NEW t \in Threads, WaitPop(t) \/ WaitPopResume(t)
        PROVE  QueueUntouched \/ QueuePopped
    BY <1>5 DEF WaitPop, WaitPopResume, WaitPopBody, Goto, PopLocked,
                QueueUntouched, QueuePopped
  <1>6. ASSUME NEW t \in Threads, Clear(t)
        PROVE  QueueCleared
    BY <1>6 DEF Clear, QueueCleared
  <1>7. ASSUME NEW t \in Threads, Close(t) \/ CloseNotifyNotEmpty(t)
        PROVE  QueueUntouched
    BY <1>7 DEF Close, CloseNotifyNotEmpty, QueueUntouched
  <1>8. ASSUME NEW t \in Threads,
               CloseNotifyNotFull(t) \/ ClearNotifyNotFull(t)
        PROVE  QueueUntouched
    BY <1>8 DEF CloseNotifyNotFull, ClearNotifyNotFull, QueueUntouched
  <1>9. ASSUME NEW t \in Threads, SpuriousWakeup(t)
        PROVE  QueueUntouched
    BY <1>9 DEF SpuriousWakeup, Goto, QueueUntouched
  <1>10. CASE UNCHANGED vars
    BY <1>10 DEF vars, QueueUntouched
  <1> QED
    BY <1>1, <1>2, <1>3, <1>4, <1>5, <1>6, <1>7, <1>8, <1>9, <1>10
       DEF Next, Continue, WaitPush

\* The four facts are inductive together: the order of what was popped
\* rests on the ids still queued, and those on the counter.
FifoInv ==
    /\ CapacityBound
    /\ ConsecutiveIds
    /\ DeliveredInOrder
    /\ Conservation

\* A push with a fresh id, when there is room, keeps FifoInv.
LEMMA PushKeepsFifo ==
    ASSUME TypeOK, FifoInv, QueuePushed
    PROVE  FifoInv'
  <1> USE CapacityAssumption
  <1>1. PICK item \in Items :
            m_queue' = Append(m_queue, MakeQueuedItemLocked(item))
    BY DEF QueuePushed
  <1> DEFINE e == MakeQueuedItemLocked(item)
  <1>2. e \in Queued /\ e.queue_sequence_id = m_nextSequenceId + 1
    BY DEF TypeOK, MakeQueuedItemLocked, Queued
  <1> HIDE DEF e
  <1>3. /\ Len(m_queue') = Len(m_queue) + 1
        /\ \A i \in 1..Len(m_queue) : m_queue'[i] = m_queue[i]
        /\ m_queue'[Len(m_queue) + 1] = e
        /\ Len(m_queue) \in Nat
    BY <1>1, <1>2 DEF TypeOK, e
  <1>4. CapacityBound'
    BY <1>3 DEF CapacityBound, QueuePushed, IsFullLocked
  <1>5. ConsecutiveIds'
    <2> SUFFICES ASSUME NEW i \in 1..Len(m_queue')
                 PROVE  m_queue'[i].queue_sequence_id
                            = m_nextSequenceId' - Len(m_queue') + i
      BY DEF ConsecutiveIds
    <2>1. CASE i = Len(m_queue) + 1
      BY <1>2, <1>3, <2>1 DEF QueuePushed, TypeOK
    <2>2. CASE i \in 1..Len(m_queue)
      BY <1>3, <2>2 DEF QueuePushed, TypeOK, FifoInv, ConsecutiveIds
    <2> QED BY <1>3, <2>1, <2>2
  <1>6. DeliveredInOrder'
    BY <1>3 DEF QueuePushed, TypeOK, FifoInv, DeliveredInOrder
  <1>7. Conservation'
    BY <1>3 DEF QueuePushed, TypeOK, FifoInv, Conservation
  <1> QED BY <1>4, <1>5, <1>6, <1>7 DEF FifoInv

\* A pop delivers the oldest id, above all delivered ones, and keeps FifoInv.
LEMMA PopKeepsFifo ==
    ASSUME TypeOK, FifoInv, QueuePopped
    PROVE  FifoInv'
  <1> USE CapacityAssumption
  <1> DEFINE id == Head(m_queue).queue_sequence_id
  <1>1. /\ Len(m_queue) \in Nat \ {0}
        /\ Len(m_queue') = Len(m_queue) - 1
        /\ \A i \in 1..Len(m_queue') : m_queue'[i] = m_queue[i + 1]
        /\ Head(m_queue) = m_queue[1]
    BY DEF TypeOK, QueuePopped
  <1>2. id = m_nextSequenceId - Len(m_queue) + 1
    BY <1>1 DEF FifoInv, ConsecutiveIds
  <1>3. id \in Nat
    <2>1. Head(m_queue) \in Queued
      BY DEF TypeOK, QueuePopped
    <2> QED BY <2>1 DEF Queued
  <1> HIDE DEF id
  <1>4. /\ Len(delivered') = Len(delivered) + 1
        /\ \A i \in 1..Len(delivered) : delivered'[i] = delivered[i]
        /\ delivered'[Len(delivered) + 1] = id
        /\ Len(delivered) \in Nat
        /\ \A i \in 1..Len(delivered) : delivered[i] \in Nat
    BY <1>3 DEF TypeOK, QueuePopped, id
  <1>5. CapacityBound'
    BY <1>1 DEF CapacityBound, FifoInv
  <1>6. ConsecutiveIds'
    <2> SUFFICES ASSUME NEW i \in 1..Len(m_queue')
                 PROVE  m_queue'[i].queue_sequence_id
                            = m_nextSequenceId' - Len(m_queue') + i
      BY DEF ConsecutiveIds
    <2>1. i + 1 \in 1..Len(m_queue)
      BY <1>1
    <2>2. m_queue[i + 1].queue_sequence_id
              = m_nextSequenceId - Len(m_queue) + (i + 1)
      BY <2>1 DEF FifoInv, ConsecutiveIds
    <2> QED BY <1>1, <2>2 DEF QueuePopped, TypeOK
  <1>7. DeliveredInOrder'
    <2>1. \A i \in 1..Len(delivered') :
              delivered'[i] <= m_nextSequenceId' - Len(m_queue')
      BY <1>1, <1>2, <1>4
         DEF QueuePopped, TypeOK, FifoInv, DeliveredInOrder
    <2>2. \A i, j \in 1..Len(delivered') :
              i < j => delivered'[i] < delivered'[j]
      <3> SUFFICES ASSUME NEW i \in 1..Len(delivered'),
                          NEW j \in 1..Len(delivered'), i < j
                   PROVE  delivered'[i] < delivered'[j]
        OBVIOUS
      <3>1. i \in 1..Len(delivered)
        BY <1>4
      <3>2. CASE j = Len(delivered) + 1
        <4>1. delivered[i] <= m_nextSequenceId - Len(m_queue)
          BY <3>1 DEF FifoInv, DeliveredInOrder
        <4>2. delivered[i] < id
          BY <1>1, <1>2, <1>4, <3>1, <4>1 DEF TypeOK
        <4> QED BY <1>4, <3>1, <3>2, <4>2
      <3>3. CASE j \in 1..Len(delivered)
        BY <1>4, <3>1, <3>3 DEF FifoInv, DeliveredInOrder
      <3> QED BY <1>4, <3>2, <3>3
    <2> QED BY <2>1, <2>2 DEF DeliveredInOrder
  <1>8. Conservation'
    BY <1>1, <1>4 DEF QueuePopped, TypeOK, FifoInv, Conservation
  <1> QED BY <1>5, <1>6, <1>7, <1>8 DEF FifoInv

\* Clear empties the deque and keeps FifoInv.
LEMMA ClearKeepsFifo ==
    ASSUME TypeOK, FifoInv, QueueCleared
    PROVE  FifoInv'
  <1> USE CapacityAssumption
  <1>1. Len(m_queue') = 0 /\ Len(m_queue) \in Nat
    BY DEF TypeOK, QueueCleared
  <1>2. \A i \in 1..Len(delivered) : delivered[i] \in Nat
    BY DEF TypeOK
  <1>3. CapacityBound' /\ ConsecutiveIds'
    BY <1>1 DEF CapacityBound, ConsecutiveIds
  <1>4. DeliveredInOrder'
    BY <1>1, <1>2 DEF QueueCleared, TypeOK, FifoInv, DeliveredInOrder
  <1>5. Conservation'
    <2>1. Len(delivered) \in Nat
      BY DEF TypeOK
    <2> QED
      BY <1>1, <2>1 DEF QueueCleared, TypeOK, FifoInv, Conservation
  <1> QED BY <1>3, <1>4, <1>5 DEF FifoInv

\* FifoInv holds in every reachable state.
LEMMA FifoInvariant == Spec => []FifoInv
  <1>1. Init => FifoInv
    BY CapacityAssumption
       DEF Init, FifoInv, CapacityBound, ConsecutiveIds, DeliveredInOrder,
           Conservation
  <1>2. TypeOK /\ FifoInv /\ [Next]_vars => FifoInv'
    <2> SUFFICES ASSUME TypeOK, FifoInv, [Next]_vars PROVE FifoInv'
      OBVIOUS
    <2>1. CASE QueueUntouched
      BY <2>1 DEF QueueUntouched, FifoInv, CapacityBound, ConsecutiveIds,
                  DeliveredInOrder, Conservation
    <2> QED
      BY <2>1, StepsOnTheDeque, PushKeepsFifo, PopKeepsFifo, ClearKeepsFifo
  <1> QED BY <1>1, <1>2, TypeCorrect, PTL DEF Spec

\* For every capacity and every number of threads the queue never holds more
\* than m_capacity items.
THEOREM CapacityBoundHolds == Spec => []CapacityBound
  BY FifoInvariant, PTL DEF FifoInv

\* What consumers pop, through TryPop or WaitPop and around any Clear, is in
\* the order in which it was pushed.
THEOREM DeliveredInOrderHolds == Spec => []DeliveredInOrder
  BY FifoInvariant, PTL DEF FifoInv

\* No accepted item is lost or delivered twice.
THEOREM ConservationHolds == Spec => []Conservation
  BY FifoInvariant, PTL DEF FifoInv

-----------------------------------------------------------------------------
(* Wakeups.                                                                *)
(*                                                                         *)
(* NoLostWakeup is inductive with TypeOK: each operation changes the       *)
(* number of queued items and the number of woken threads together.  What  *)
(* the proof needs is how moving one thread, notify_one and notify_all     *)
(* change the set of the threads in a call state.                          *)

At(c, s) == {u \in Threads : c[u] = s}

\* The sets of threads are finite, so they can be counted.
LEMMA AtFinite ==
    ASSUME NEW c, NEW s
    PROVE  IsFiniteSet(At(c, s)) /\ Cardinality(At(c, s)) \in Nat
  <1>1. At(c, s) \subseteq Threads
    BY DEF At
  <1> QED BY <1>1, ThreadsAssumption, FS_Subset, FS_CardinalityType

\* A thread that moves takes at most itself away from a state it does not
\* go to.
LEMMA MovedAway ==
    ASSUME NEW c \in [Threads -> CallState], NEW t \in Threads, NEW to, NEW s,
           s # to
    PROVE  Cardinality(At([c EXCEPT ![t] = to], s))
               >= Cardinality(At(c, s)) - 1
  <1>1. CASE c[t] # s
    <2>1. At([c EXCEPT ![t] = to], s) = At(c, s)
      BY <1>1 DEF At
    <2> QED BY <2>1, AtFinite
  <1>2. CASE c[t] = s
    <2>1. t \in At(c, s) /\ At([c EXCEPT ![t] = to], s) = At(c, s) \ {t}
      BY <1>2 DEF At
    <2>2. Cardinality(At([c EXCEPT ![t] = to], s)) = Cardinality(At(c, s)) - 1
      BY <2>1, AtFinite, FS_RemoveElement
    <2> QED BY <2>2, AtFinite
  <1> QED BY <1>1, <1>2

\* It adds itself to the state it goes to.
LEMMA MovedTo ==
    ASSUME NEW c \in [Threads -> CallState], NEW t \in Threads, NEW to,
           c[t] # to
    PROVE  Cardinality(At([c EXCEPT ![t] = to], to))
               = Cardinality(At(c, to)) + 1
  <1>1. t \notin At(c, to) /\ At([c EXCEPT ![t] = to], to) = At(c, to) \cup {t}
    BY DEF At
  <1> QED BY <1>1, AtFinite, FS_AddElement

\* notify_one moves one waiter, if there is one.
LEMMA NotifiedOne ==
    ASSUME NEW c \in [Threads -> CallState],
           NEW b \in CallState, NEW w \in CallState, b # w,
           NEW d \in NotifyOne(c, b, w)
    PROVE  /\ \A s \in CallState \ {b, w} : At(d, s) = At(c, s)
           /\ At(c, b) = {} => d = c
           /\ At(c, b) # {} =>
                  Cardinality(At(d, w)) = Cardinality(At(c, w)) + 1
           /\ Cardinality(At(d, w)) >= Cardinality(At(c, w))
  <1>1. CASE At(c, b) = {}
    <2>1. d = c
      BY <1>1 DEF NotifyOne, At
    <2> QED BY <1>1, <2>1, AtFinite
  <1>2. CASE At(c, b) # {}
    <2>1. PICK u \in At(c, b) : d = [c EXCEPT ![u] = w]
      BY <1>2 DEF NotifyOne, At
    <2>2. u \in Threads /\ c[u] = b
      BY <2>1 DEF At
    <2>3. ASSUME NEW s \in CallState \ {b, w} PROVE At(d, s) = At(c, s)
      <3>1. s \in CallState /\ s # w /\ c[u] # s
        BY <2>2, <2>3
      <3> QED BY <2>1, <2>2, <3>1 DEF At
    <2>4. Cardinality(At(d, w)) = Cardinality(At(c, w)) + 1
      BY <2>1, <2>2, MovedTo
    <2> QED BY <1>2, <2>3, <2>4, AtFinite
  <1> QED BY <1>1, <1>2

\* notify_all leaves no waiter.
LEMMA NotifiedAll ==
    ASSUME NEW c \in [Threads -> CallState],
           NEW b \in CallState, NEW w \in CallState, b # w
    PROVE  LET d == NotifyAll(c, b, w)
           IN  /\ \A s \in CallState \ {b, w} : At(d, s) = At(c, s)
               /\ At(d, b) = {}
  BY DEF NotifyAll, At

\* The two halves of NoLostWakeup, of any call map, deque and flag.
Consumers(c, q, closed) ==
    At(c, "notEmpty") # {} =>
        /\ Cardinality(At(c, "notEmptyWoken")) >= Len(q)
        /\ closed => At(c, "closeNotEmpty") # {}

Producers(c, q, closed) ==
    At(c, "notFull") # {} =>
        /\ \/ Cardinality(At(c, "notFullWoken")) >= m_capacity - Len(q)
           \/ At(c, "clearNotFull") # {}
           \/ closed
        /\ closed => At(c, "closeNotEmpty") \cup At(c, "closeNotFull") # {}

\* They are NoLostWakeup, before and after a step.
LEMMA WakeupHalves ==
    /\ NoLostWakeup <=> /\ Consumers(call, m_queue, m_closed)
                        /\ Producers(call, m_queue, m_closed)
    /\ NoLostWakeup' <=> /\ Consumers(call', m_queue', m_closed')
                         /\ Producers(call', m_queue', m_closed')
  BY DEF NoLostWakeup, NoLostWakeupNotEmpty, NoLostWakeupNotFull, In, At,
         Consumers, Producers

\* A push gives one item to the consumers and takes one place, with the
\* wakeup of the producer that made it when it had been woken.
LEMMA PushWakes ==
    ASSUME TypeOK, NoLostWakeup, NEW t \in Threads, NEW item \in Items,
           call[t] \in {"idle", "notFullWoken"}, ~m_closed,
           PushLocked(t, item)
    PROVE  NoLostWakeup'
  <1> USE CapacityAssumption
  <1> DEFINE c == [call EXCEPT ![t] = "idle"]
  <1>1. call \in [Threads -> CallState] /\ c \in [Threads -> CallState]
    BY DEF TypeOK, CallState
  <1>2. call' \in NotifyOne(c, "notEmpty", "notEmptyWoken")
    BY DEF PushLocked
  <1>3. Len(m_queue) \in Nat /\ Len(m_queue') = Len(m_queue) + 1
    BY DEF PushLocked, TypeOK, MakeQueuedItemLocked, Queued
  <1>4. m_closed' = m_closed
    BY DEF PushLocked
  <1>5. \A s \in {"notEmpty", "notEmptyWoken", "notFull", "clearNotFull"} :
            At(c, s) = At(call, s)
    <2> SUFFICES ASSUME NEW s \in CallState, call[t] # s, s # "idle"
                 PROVE  At(c, s) = At(call, s)
      BY DEF CallState
    <2> QED BY <1>1 DEF At
  <1>6. Cardinality(At(c, "notFullWoken"))
            >= Cardinality(At(call, "notFullWoken")) - 1
    BY <1>1, MovedAway
  <1> HIDE DEF c
  <1>7. /\ At(call', "notFull") = At(c, "notFull")
        /\ At(call', "notFullWoken") = At(c, "notFullWoken")
        /\ At(call', "clearNotFull") = At(c, "clearNotFull")
        /\ At(c, "notEmpty") = {} => call' = c
        /\ At(c, "notEmpty") # {} =>
               Cardinality(At(call', "notEmptyWoken"))
                   = Cardinality(At(c, "notEmptyWoken")) + 1
    BY <1>1, <1>2, NotifiedOne DEF CallState
  <1>8. Consumers(call', m_queue', m_closed')
    BY <1>3, <1>4, <1>5, <1>7, AtFinite, WakeupHalves DEF Consumers
  <1>9. Producers(call', m_queue', m_closed')
    BY <1>3, <1>4, <1>5, <1>6, <1>7, AtFinite, WakeupHalves DEF Producers
  <1> QED BY <1>8, <1>9, WakeupHalves

\* A pop takes one item, with the wakeup of the consumer that made it when
\* it had been woken, and gives one place to the producers.
LEMMA PopWakes ==
    ASSUME TypeOK, NoLostWakeup, NEW t \in Threads, m_queue # <<>>,
           call[t] \in {"idle", "notEmptyWoken"}, PopLocked(t)
    PROVE  NoLostWakeup'
  <1> USE CapacityAssumption
  <1> DEFINE c == [call EXCEPT ![t] = "idle"]
  <1>1. call \in [Threads -> CallState] /\ c \in [Threads -> CallState]
    BY DEF TypeOK, CallState
  <1>2. call' \in NotifyOne(c, "notFull", "notFullWoken")
    BY DEF PopLocked
  <1>3. Len(m_queue) \in Nat /\ Len(m_queue') = Len(m_queue) - 1
    BY DEF PopLocked, TypeOK
  <1>4. m_closed' = m_closed
    BY DEF PopLocked
  <1>5. \A s \in {"notEmpty", "notFull", "notFullWoken", "clearNotFull",
                  "closeNotEmpty", "closeNotFull"} : At(c, s) = At(call, s)
    <2> SUFFICES ASSUME NEW s \in CallState, call[t] # s, s # "idle"
                 PROVE  At(c, s) = At(call, s)
      BY DEF CallState
    <2> QED BY <1>1 DEF At
  <1>6. Cardinality(At(c, "notEmptyWoken"))
            >= Cardinality(At(call, "notEmptyWoken")) - 1
    BY <1>1, MovedAway
  <1> HIDE DEF c
  <1>7. /\ At(call', "notEmpty") = At(c, "notEmpty")
        /\ At(call', "notEmptyWoken") = At(c, "notEmptyWoken")
        /\ At(call', "clearNotFull") = At(c, "clearNotFull")
        /\ At(call', "closeNotEmpty") = At(c, "closeNotEmpty")
        /\ At(call', "closeNotFull") = At(c, "closeNotFull")
        /\ At(c, "notFull") = {} => call' = c
        /\ At(c, "notFull") # {} =>
               Cardinality(At(call', "notFullWoken"))
                   = Cardinality(At(c, "notFullWoken")) + 1
    BY <1>1, <1>2, NotifiedOne DEF CallState
  <1>8. Consumers(call', m_queue', m_closed')
    BY <1>3, <1>4, <1>5, <1>6, <1>7, AtFinite, WakeupHalves DEF Consumers
  <1>9. Producers(call', m_queue', m_closed')
    BY <1>3, <1>4, <1>5, <1>7, AtFinite, WakeupHalves DEF Producers
  <1> QED BY <1>8, <1>9, WakeupHalves

\* A caller that blocks, or returns from a closed queue, loses no wakeup.
LEMMA GotoWakes ==
    ASSUME TypeOK, NoLostWakeup, NEW t \in Threads, NEW s \in CallState,
           Goto(t, s),
           \/ s = "notFull" /\ ~m_closed /\ IsFullLocked
              /\ call[t] \in {"idle", "notFullWoken"}
           \/ s = "idle" /\ m_closed /\ call[t] \in {"idle", "notFullWoken"}
           \/ s = "notEmpty" /\ ~m_closed /\ m_queue = <<>>
              /\ call[t] \in {"idle", "notEmptyWoken"}
           \/ s = "idle" /\ m_closed /\ m_queue = <<>>
              /\ call[t] \in {"idle", "notEmptyWoken"}
           \/ s = "notFullWoken" /\ call[t] = "notFull"
           \/ s = "notEmptyWoken" /\ call[t] = "notEmpty"
    PROVE  NoLostWakeup'
  <1> USE CapacityAssumption
  <1>1. /\ call \in [Threads -> CallState] /\ Len(m_queue) \in Nat
        /\ m_queue = <<>> => Len(m_queue) = 0
        /\ IsFullLocked => m_capacity - Len(m_queue) <= 0
    BY DEF TypeOK, IsFullLocked
  <1>2. /\ call' = [call EXCEPT ![t] = s]
        /\ m_queue' = m_queue /\ m_closed' = m_closed
    BY DEF Goto
  <1>3. ASSUME NEW x \in CallState, x # s, x # call[t]
        PROVE  At(call', x) = At(call, x)
    BY <1>1, <1>2, <1>3 DEF At
  <1>4. ASSUME NEW x \in CallState, x # s
        PROVE  /\ At(call', x) # {} => At(call, x) # {}
               /\ Cardinality(At(call', x)) >= Cardinality(At(call, x)) - 1
    <2>1. At(call', x) # {} => At(call, x) # {}
      BY <1>1, <1>2, <1>4 DEF At
    <2> QED BY <1>1, <1>2, <1>4, <2>1, MovedAway
  <1>5. call[t] # s => Cardinality(At(call', s)) = Cardinality(At(call, s)) + 1
    BY <1>1, <1>2, MovedTo
  <1>6. /\ \A x \in CallState : x # s /\ x # call[t] => At(call', x) = At(call, x)
        /\ \A x \in CallState : x # s => (At(call', x) # {} => At(call, x) # {})
        /\ call[t] = s => call' = call
    BY <1>1, <1>2, <1>3, <1>4
  <1>7. /\ Cardinality(At(call, "notEmptyWoken")) \in Nat
        /\ Cardinality(At(call', "notEmptyWoken")) \in Nat
        /\ Cardinality(At(call, "notFullWoken")) \in Nat
        /\ Cardinality(At(call', "notFullWoken")) \in Nat
    BY AtFinite
  <1>8. Consumers(call', m_queue', m_closed')
    <2>1. CASE s = "notEmpty"
      BY <1>1, <1>2, <1>7, <2>1 DEF Consumers
    <2>2. CASE s = "notEmptyWoken"
      <3>1. /\ At(call', "notEmpty") # {} => At(call, "notEmpty") # {}
            /\ At(call', "closeNotEmpty") = At(call, "closeNotEmpty")
        BY <1>6, <2>2 DEF CallState
      <3>2. Cardinality(At(call', s)) = Cardinality(At(call, s)) + 1
        BY <1>5, <2>2
      <3>3. Cardinality(At(call, s)) >= Len(m_queue)
                => Cardinality(At(call', s)) >= Len(m_queue')
        BY <1>1, <1>2, <1>7, <2>2, <3>2
      <3> QED BY <1>2, <2>2, <3>1, <3>3, WakeupHalves DEF Consumers
    <2>3. CASE s \notin {"notEmpty", "notEmptyWoken"}
      <3>1. /\ At(call', "notEmpty") = At(call, "notEmpty")
            /\ At(call', "closeNotEmpty") = At(call, "closeNotEmpty")
        BY <1>6, <2>3 DEF CallState
      <3>2. CASE m_queue = <<>>
        <4>1. Cardinality(At(call', "notEmptyWoken")) >= Len(m_queue')
          BY <1>1, <1>2, <1>7, <3>2
        <4> QED BY <1>2, <3>1, <4>1, WakeupHalves DEF Consumers
      <3>3. CASE m_queue # <<>>
        <4>1. At(call', "notEmptyWoken") = At(call, "notEmptyWoken")
          BY <1>6, <2>3, <3>3 DEF CallState
        <4> QED BY <1>2, <3>1, <4>1, WakeupHalves DEF Consumers
      <3> QED BY <3>2, <3>3
    <2> QED BY <2>1, <2>2, <2>3
  <1>9. Producers(call', m_queue', m_closed')
    <2>1. CASE s = "notFull"
      BY <1>1, <1>2, <1>7, <2>1 DEF Producers
    <2>2. CASE s # "notFull"
      <3>1. /\ At(call', "notFull") # {} => At(call, "notFull") # {}
            /\ At(call', "closeNotEmpty") = At(call, "closeNotEmpty")
            /\ At(call', "closeNotFull") = At(call, "closeNotFull")
            /\ At(call', "clearNotFull") = At(call, "clearNotFull")
        BY <1>6, <2>2 DEF CallState
      <3>2. CASE s = "notFullWoken"
        <4>1. Cardinality(At(call', s)) = Cardinality(At(call, s)) + 1
          BY <1>5, <3>2
        <4>2. Cardinality(At(call, s)) >= m_capacity - Len(m_queue)
                  => Cardinality(At(call', s)) >= m_capacity - Len(m_queue')
          BY <1>1, <1>2, <1>7, <3>2, <4>1
        <4> QED BY <1>2, <3>1, <3>2, <4>2, WakeupHalves DEF Producers
      <3>3. CASE m_closed
        BY <1>2, <3>1, <3>3, WakeupHalves DEF Producers
      <3>4. CASE s # "notFullWoken" /\ ~m_closed
        <4>1. At(call', "notFullWoken") = At(call, "notFullWoken")
          BY <1>6, <2>2, <3>4 DEF CallState
        <4> QED BY <1>2, <3>1, <4>1, WakeupHalves DEF Producers
      <3> QED BY <3>2, <3>3, <3>4
    <2> QED BY <2>1, <2>2
  <1> QED BY <1>8, <1>9, WakeupHalves

\* The bodies of WaitPush and WaitPop, entered or resumed.
LEMMA WaitPushWakes ==
    ASSUME TypeOK, NoLostWakeup, NEW t \in Threads, NEW item \in Items,
           call[t] \in {"idle", "notFullWoken"}, WaitPushBody(t, item)
    PROVE  NoLostWakeup'
  <1>1. CASE ~m_closed /\ IsFullLocked /\ Goto(t, "notFull")
    BY <1>1, GotoWakes DEF CallState
  <1>2. CASE m_closed /\ Goto(t, "idle")
    BY <1>2, GotoWakes DEF CallState
  <1>3. CASE ~m_closed /\ PushLocked(t, item)
    BY <1>3, PushWakes
  <1> QED BY <1>1, <1>2, <1>3 DEF WaitPushBody

LEMMA WaitPopWakes ==
    ASSUME TypeOK, NoLostWakeup, NEW t \in Threads,
           call[t] \in {"idle", "notEmptyWoken"}, WaitPopBody(t)
    PROVE  NoLostWakeup'
  <1>1. CASE m_queue = <<>> /\ ~m_closed /\ Goto(t, "notEmpty")
    BY <1>1, GotoWakes DEF CallState
  <1>2. CASE m_queue = <<>> /\ m_closed /\ Goto(t, "idle")
    BY <1>2, GotoWakes DEF CallState
  <1>3. CASE m_queue # <<>> /\ PopLocked(t)
    BY <1>3, PopWakes
  <1> QED BY <1>1, <1>2, <1>3 DEF WaitPopBody

\* Close and Clear change the state under the lock and notify later: in
\* between, the thread that is about to notify is the promise.
LEMMA CloseClearWakes ==
    ASSUME TypeOK, NoLostWakeup, NEW t \in Threads,
           \/ Close(t) \/ CloseNotifyNotEmpty(t) \/ CloseNotifyNotFull(t)
           \/ Clear(t) \/ ClearNotifyNotFull(t)
    PROVE  NoLostWakeup'
  <1> USE CapacityAssumption
  <1>1. call \in [Threads -> CallState] /\ Len(m_queue) \in Nat
    BY DEF TypeOK
  <1>2. CASE Close(t)
    <2>1. /\ call' = [call EXCEPT ![t] = "closeNotEmpty"]
          /\ m_queue' = m_queue /\ m_closed' /\ call[t] = "idle"
      BY <1>2 DEF Close
    <2>2. /\ t \in At(call', "closeNotEmpty")
          /\ \A x \in CallState \ {"idle", "closeNotEmpty"} :
                 At(call', x) = At(call, x)
      BY <1>1, <2>1 DEF At, CallState
    <2>3. /\ Consumers(call', m_queue', m_closed')
          /\ Producers(call', m_queue', m_closed')
      BY <2>1, <2>2, WakeupHalves DEF Consumers, Producers, CallState
    <2> QED BY <2>3, WakeupHalves
  <1>3. CASE Clear(t)
    <2>1. /\ call' = [call EXCEPT ![t] = "clearNotFull"]
          /\ Len(m_queue') = 0 /\ m_closed' = m_closed /\ call[t] = "idle"
      BY <1>3 DEF Clear
    <2>2. /\ t \in At(call', "clearNotFull")
          /\ \A x \in CallState \ {"idle", "clearNotFull"} :
                 At(call', x) = At(call, x)
      BY <1>1, <2>1 DEF At, CallState
    <2>3. /\ At(call', "notEmpty") = At(call, "notEmpty")
          /\ At(call', "notEmptyWoken") = At(call, "notEmptyWoken")
          /\ At(call', "notFull") = At(call, "notFull")
          /\ At(call', "closeNotEmpty") = At(call, "closeNotEmpty")
          /\ At(call', "closeNotFull") = At(call, "closeNotFull")
      BY <2>2 DEF CallState
    <2>4. Consumers(call', m_queue', m_closed')
      <3>1. Cardinality(At(call', "notEmptyWoken")) \in Nat
        BY AtFinite
      <3>2. Cardinality(At(call', "notEmptyWoken")) >= Len(m_queue')
        BY <2>1, <3>1
      <3> QED BY <2>1, <2>3, <3>2, WakeupHalves DEF Consumers
    <2>5. Producers(call', m_queue', m_closed')
      BY <2>1, <2>2, <2>3, WakeupHalves DEF Producers
    <2> QED BY <2>4, <2>5, WakeupHalves
  <1>4. CASE CloseNotifyNotEmpty(t)
    <2> DEFINE c == [call EXCEPT ![t] = "closeNotFull"]
    <2>1. /\ call' = NotifyAll(c, "notEmpty", "notEmptyWoken")
          /\ m_queue' = m_queue /\ m_closed' = m_closed
          /\ call[t] = "closeNotEmpty"
      BY <1>4 DEF CloseNotifyNotEmpty
    <2>2. /\ c \in [Threads -> CallState] /\ t \in At(c, "closeNotFull")
          /\ \A x \in CallState \ {"closeNotFull", "closeNotEmpty"} :
                 At(c, x) = At(call, x)
      BY <1>1, <2>1 DEF At, CallState
    <2> HIDE DEF c
    <2>3. /\ \A x \in CallState \ {"notEmpty", "notEmptyWoken"} :
                 At(call', x) = At(c, x)
          /\ At(call', "notEmpty") = {}
      BY <2>1, <2>2, NotifiedAll DEF CallState
    <2>4. /\ At(call', "notFull") = At(call, "notFull")
          /\ At(call', "notFullWoken") = At(call, "notFullWoken")
          /\ At(call', "clearNotFull") = At(call, "clearNotFull")
          /\ t \in At(call', "closeNotFull")
      BY <2>2, <2>3 DEF CallState
    <2>5. /\ Consumers(call', m_queue', m_closed')
          /\ Producers(call', m_queue', m_closed')
      BY <2>1, <2>3, <2>4, WakeupHalves DEF Consumers, Producers
    <2> QED BY <2>5, WakeupHalves
  <1>5. CASE CloseNotifyNotFull(t) \/ ClearNotifyNotFull(t)
    <2> DEFINE c == [call EXCEPT ![t] = "idle"]
    <2>1. /\ call' = NotifyAll(c, "notFull", "notFullWoken")
          /\ m_queue' = m_queue /\ m_closed' = m_closed
          /\ call[t] \in {"closeNotFull", "clearNotFull"}
      BY <1>5 DEF CloseNotifyNotFull, ClearNotifyNotFull
    <2>2. /\ c \in [Threads -> CallState]
          /\ At(c, "notEmpty") = At(call, "notEmpty")
          /\ At(c, "notEmptyWoken") = At(call, "notEmptyWoken")
          /\ At(c, "closeNotEmpty") = At(call, "closeNotEmpty")
      BY <1>1, <2>1 DEF At, CallState
    <2> HIDE DEF c
    <2>3. /\ \A x \in CallState \ {"notFull", "notFullWoken"} :
                 At(call', x) = At(c, x)
          /\ At(call', "notFull") = {}
      BY <2>1, <2>2, NotifiedAll DEF CallState
    <2>4. /\ At(call', "notEmpty") = At(call, "notEmpty")
          /\ At(call', "notEmptyWoken") = At(call, "notEmptyWoken")
          /\ At(call', "closeNotEmpty") = At(call, "closeNotEmpty")
      BY <2>2, <2>3 DEF CallState
    <2>5. /\ Consumers(call', m_queue', m_closed')
          /\ Producers(call', m_queue', m_closed')
      BY <2>1, <2>3, <2>4, WakeupHalves DEF Consumers, Producers
    <2> QED BY <2>5, WakeupHalves
  <1> QED BY <1>2, <1>3, <1>4, <1>5

\* No wakeup is lost, for every number of producers and consumers and every
\* capacity: a thread sleeps in m_notEmpty or m_notFull only while there are
\* as many woken threads as items or places, or while the thread that closed
\* or cleared the queue has still to make its notify_all.
THEOREM NoLostWakeupHolds == Spec => []NoLostWakeup
  <1>1. Init => NoLostWakeup
    BY DEF Init, NoLostWakeup, NoLostWakeupNotEmpty, NoLostWakeupNotFull, In
  <1>2. TypeOK /\ NoLostWakeup /\ [Next]_vars => NoLostWakeup'
    <2> SUFFICES ASSUME TypeOK, NoLostWakeup, [Next]_vars PROVE NoLostWakeup'
      OBVIOUS
    <2>1. ASSUME NEW t \in Threads, NEW item \in Items, TryPush(t, item)
          PROVE  NoLostWakeup'
      <3>1. CASE ~m_closed /\ PushLocked(t, item)
        BY <2>1, <3>1, PushWakes DEF TryPush
      <3>2. CASE UNCHANGED <<m_queue, m_closed, call>>
        BY <3>2 DEF NoLostWakeup, NoLostWakeupNotEmpty, NoLostWakeupNotFull, In
      <3> QED BY <2>1, <3>1, <3>2 DEF TryPush, TryPushBody
    <2>2. ASSUME NEW t \in Threads, NEW item \in Items, WaitPush(t, item)
          PROVE  NoLostWakeup'
      BY <2>2, WaitPushWakes DEF WaitPush
    <2>3. ASSUME NEW t \in Threads, WaitPushResume(t)
          PROVE  NoLostWakeup'
      <3>1. arg[t] \in Items
        BY DEF TypeOK
      <3> QED BY <2>3, <3>1, WaitPushWakes DEF WaitPushResume
    <2>4. ASSUME NEW t \in Threads, TryPop(t)
          PROVE  NoLostWakeup'
      BY <2>4, PopWakes DEF TryPop
    <2>5. ASSUME NEW t \in Threads, WaitPop(t) \/ WaitPopResume(t)
          PROVE  NoLostWakeup'
      BY <2>5, WaitPopWakes DEF WaitPop, WaitPopResume
    <2>6. ASSUME NEW t \in Threads, SpuriousWakeup(t)
          PROVE  NoLostWakeup'
      BY <2>6, GotoWakes DEF SpuriousWakeup, CallState
    <2>7. CASE UNCHANGED vars
      BY <2>7 DEF vars, NoLostWakeup, NoLostWakeupNotEmpty,
                  NoLostWakeupNotFull, In
    <2> QED
      BY <2>1, <2>2, <2>3, <2>4, <2>5, <2>6, <2>7, CloseClearWakes
         DEF Next, Continue
  <1> QED BY <1>1, <1>2, TypeCorrect, PTL DEF Spec

-----------------------------------------------------------------------------
(* Refinement of FeatureChannel.                                           *)
(*                                                                         *)
(* The channel's content is the deque without the ids.  Every step is one  *)
(* channel operation or leaves the three channel variables alone; threads, *)
(* condition variables and the notify_all outside the lock are invisible.  *)

\* What the channel sees of a deque.
Content(q) == [i \in 1..Len(q) |-> q[i].item]

\* The items of a queue form a sequence of the same length.
LEMMA ContentIsSeq ==
    ASSUME NEW q \in Seq(Queued)
    PROVE  /\ Content(q) \in Seq(Items)
           /\ Len(Content(q)) = Len(q)
           /\ \A i \in 1..Len(q) : Content(q)[i] = q[i].item
  <1>1. ASSUME NEW i \in 1..Len(q) PROVE q[i].item \in Items
    <2>1. q[i] \in Queued
      OBVIOUS
    <2> QED BY <2>1 DEF Queued
  <1> QED BY <1>1 DEF Content

\* push_back appends to the content.
LEMMA ContentAppend ==
    ASSUME NEW q \in Seq(Queued), NEW e \in Queued
    PROVE  Content(Append(q, e)) = Append(Content(q), e.item)
  <1>1. Append(q, e) \in Seq(Queued) /\ e.item \in Items
    BY DEF Queued
  <1>2. /\ Content(q) \in Seq(Items) /\ Len(Content(q)) = Len(q)
        /\ \A i \in 1..Len(q) : Content(q)[i] = q[i].item
    BY ContentIsSeq
  <1>3. /\ Content(Append(q, e)) \in Seq(Items)
        /\ Len(Content(Append(q, e))) = Len(q) + 1
        /\ \A i \in 1..Len(q) : Content(Append(q, e))[i] = q[i].item
        /\ Content(Append(q, e))[Len(q) + 1] = e.item
    <2>1. /\ Content(Append(q, e)) \in Seq(Items)
          /\ Len(Content(Append(q, e))) = Len(Append(q, e))
          /\ \A i \in 1..Len(Append(q, e)) :
                 Content(Append(q, e))[i] = Append(q, e)[i].item
      BY <1>1, ContentIsSeq
    <2> QED BY <2>1
  <1> QED BY <1>1, <1>2, <1>3

\* pop_front takes the head of the content.
LEMMA ContentTail ==
    ASSUME NEW q \in Seq(Queued), q # <<>>
    PROVE  Content(q) # <<>> /\ Content(Tail(q)) = Tail(Content(q))
  <1>1. Tail(q) \in Seq(Queued) /\ Len(q) \in Nat \ {0}
        /\ Len(Tail(q)) = Len(q) - 1
    OBVIOUS
  <1>2. /\ Content(q) \in Seq(Items) /\ Len(Content(q)) = Len(q)
        /\ \A i \in 1..Len(q) : Content(q)[i] = q[i].item
    BY ContentIsSeq
  <1>3. /\ Content(Tail(q)) \in Seq(Items)
        /\ Len(Content(Tail(q))) = Len(q) - 1
        /\ \A i \in 1..(Len(q) - 1) : Content(Tail(q))[i] = q[i + 1].item
    <2>1. /\ Content(Tail(q)) \in Seq(Items)
          /\ Len(Content(Tail(q))) = Len(Tail(q))
          /\ \A i \in 1..Len(Tail(q)) : Content(Tail(q))[i] = Tail(q)[i].item
      BY <1>1, ContentIsSeq
    <2>2. \A i \in 1..(Len(q) - 1) :
              i \in 1..Len(Tail(q)) /\ Tail(q)[i] = q[i + 1]
      BY <1>1
    <2>3. \A i \in 1..(Len(q) - 1) : Content(Tail(q))[i] = q[i + 1].item
      BY <2>1, <2>2
    <2> QED BY <1>1, <2>1, <2>3
  <1> QED BY <1>1, <1>2, <1>3

\* The queue implements the FIFO channel its users rely on, for every
\* capacity, every number of threads and every interleaving of their calls.
THEOREM QueueImplementsChannel == Spec => ImplementsChannel
  <1>1. Init => Channel!ChanInit
    BY DEF Init, Channel!ChanInit
  <1>2. TypeOK /\ [Next]_vars => [Channel!ChanNext]_(Channel!chanVars)
    <2> SUFFICES ASSUME TypeOK, [Next]_vars
                 PROVE  Channel!ChanNext \/ UNCHANGED Channel!chanVars
      OBVIOUS
    <2>0. m_queue \in Seq(Queued) /\ Len(Content(m_queue)) = Len(m_queue)
      BY ContentIsSeq DEF TypeOK
    <2>1. ASSUME NEW t \in Threads, NEW item \in Items, PushLocked(t, item),
                 ~m_closed, ~IsFullLocked
          PROVE  Channel!Push(item)
      <3>1. MakeQueuedItemLocked(item) \in Queued
            /\ MakeQueuedItemLocked(item).item = item
        BY DEF MakeQueuedItemLocked, Queued, TypeOK
      <3>2. Content(m_queue') = Append(Content(m_queue), item)
        BY <2>0, <2>1, <3>1, ContentAppend DEF PushLocked
      <3>3. Channel!CanPush
        BY <2>0, <2>1, CapacityAssumption
           DEF Channel!CanPush, IsFullLocked, Content
      <3> QED BY <2>1, <3>2, <3>3 DEF Channel!Push, Content, PushLocked
    <2>2. ASSUME NEW t \in Threads, PopLocked(t), m_queue # <<>>
          PROVE  Channel!Pop
      <3>1. Content(m_queue) # <<>>
            /\ Content(m_queue') = Tail(Content(m_queue))
        BY <2>0, <2>2, ContentTail DEF PopLocked
      <3> QED BY <2>2, <3>1 DEF Channel!Pop, Content, PopLocked
    <2>3. ASSUME UNCHANGED <<m_queue, m_closed, m_droppedCount>>
          PROVE  UNCHANGED Channel!chanVars
      BY <2>3 DEF Channel!chanVars
    <2>4. ASSUME NEW t \in Threads, NEW item \in Items, TryPush(t, item)
          PROVE  Channel!Push(item) \/ Channel!Drop
      <3>1. CASE /\ m_closed \/ IsFullLocked
                 /\ m_droppedCount' = m_droppedCount + 1
                 /\ UNCHANGED <<m_queue, m_closed>>
        <4>1. ~Channel!CanPush
          BY <2>0, <3>1, CapacityAssumption
             DEF Channel!CanPush, IsFullLocked, Content
        <4> QED BY <3>1, <4>1 DEF Channel!Drop
      <3> QED BY <2>1, <2>4, <3>1 DEF TryPush, TryPushBody
    <2>5. ASSUME NEW t \in Threads, NEW item \in Items, WaitPushBody(t, item)
          PROVE  Channel!Push(item) \/ UNCHANGED Channel!chanVars
      BY <2>1, <2>3, <2>5 DEF WaitPushBody, Goto
    <2>6. ASSUME NEW t \in Threads, WaitPushResume(t)
          PROVE  Channel!ChanNext \/ UNCHANGED Channel!chanVars
      <3>1. arg[t] \in Items
        BY DEF TypeOK
      <3> QED BY <2>5, <2>6, <3>1 DEF WaitPushResume, Channel!ChanNext
    <2>7. ASSUME NEW t \in Threads,
                 TryPop(t) \/ WaitPop(t) \/ WaitPopResume(t)
          PROVE  Channel!Pop \/ UNCHANGED Channel!chanVars
      BY <2>2, <2>3, <2>7
         DEF TryPop, WaitPop, WaitPopResume, WaitPopBody, Goto
    <2>8. ASSUME NEW t \in Threads, Close(t)
          PROVE  Channel!CloseChannel
      BY <2>8 DEF Close, Channel!CloseChannel
    <2>9. ASSUME NEW t \in Threads, Clear(t)
          PROVE  Channel!ClearChannel
      BY <2>9 DEF Clear, Channel!ClearChannel
    <2>10. ASSUME NEW t \in Threads,
                  \/ CloseNotifyNotEmpty(t) \/ CloseNotifyNotFull(t)
                  \/ ClearNotifyNotFull(t) \/ SpuriousWakeup(t)
           PROVE  UNCHANGED Channel!chanVars
      BY <2>3, <2>10 DEF CloseNotifyNotEmpty, CloseNotifyNotFull,
                         ClearNotifyNotFull, SpuriousWakeup, Goto
    <2>11. CASE UNCHANGED vars
      BY <2>3, <2>11 DEF vars
    <2> QED
      BY <2>4, <2>5, <2>6, <2>7, <2>8, <2>9, <2>10, <2>11
         DEF Next, Continue, WaitPush, Channel!ChanNext
  <1> QED
    BY <1>1, <1>2, TypeCorrect, PTL
       DEF Spec, ImplementsChannel, Channel!ChanSpec
=============================================================================
