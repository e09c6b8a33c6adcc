------------------------- MODULE AsyncFeatureQueue -------------------------
(***************************************************************************)
(* The bounded multi-producer/multi-consumer queue between the network     *)
(* threads and the inference worker                                        *)
(* (src/Server/FeatureExtraction/AsyncFeatureQueue.{h,cpp}).               *)
(*                                                                         *)
(* m_mutex is held during the whole body of every operation, so a body is  *)
(* one atomic step.  What is not atomic is what the code does outside the  *)
(* lock: a thread blocked in a condition variable and woken later, and the *)
(* notify_all calls of Close and Clear, made after m_mutex is released.    *)
(* call[t] says where thread t is in such an operation.  Condition         *)
(* variables may wake spuriously.                                          *)
(***************************************************************************)
EXTENDS Integers, Sequences, FiniteSets

CONSTANTS
    Threads,      \* the threads that call the queue
    Items,        \* payloads: a message snapshot or a session summary
    m_capacity,   \* the constructor's argument
    MaxPushes     \* bound: push calls started in a behaviour

ASSUME ThreadsAssumption == IsFiniteSet(Threads)

\* The constructor throws std::invalid_argument on a zero capacity.
ASSUME CapacityAssumption == m_capacity \in Nat \ {0}

VARIABLES
    m_queue,            \* std::deque: [item, queue_sequence_id] records
    m_closed,
    m_nextSequenceId,
    m_droppedCount,
    call,               \* where each thread is in its call
    arg,                \* the item a thread blocked in WaitPush carries
    delivered,          \* history: sequence ids popped, in pop order
    cleared             \* history: number of items discarded by Clear

vars == <<m_queue, m_closed, m_nextSequenceId, m_droppedCount, call, arg,
          delivered, cleared>>

Queued == [item : Items, queue_sequence_id : Nat]

CallState ==
    {"idle",
     "notFull", "notFullWoken",       \* WaitPush: blocked, woken
     "notEmpty", "notEmptyWoken",     \* WaitPop: blocked, woken
     "closeNotEmpty", "closeNotFull", \* Close: the two notify_all to come
     "clearNotFull"}                  \* Clear: its notify_all to come

In(state) == {t \in Threads : call[t] = state}

-----------------------------------------------------------------------------

IsFullLocked == Len(m_queue) >= m_capacity

MakeQueuedItemLocked(item) ==
    [item |-> item, queue_sequence_id |-> m_nextSequenceId + 1]

\* Condition variables: external (std::condition_variable).  Each operator
\* gives the values call may have after notifying in the map c.
NotifyOne(c, blocked, woken) ==
    LET waiting == {t \in Threads : c[t] = blocked}
    IN  IF waiting = {} THEN {c}
        ELSE {[c EXCEPT ![w] = woken] : w \in waiting}

NotifyAll(c, blocked, woken) ==
    [t \in Threads |-> IF c[t] = blocked THEN woken ELSE c[t]]

\* Mutant: the consumer is not notified.
MutPushSilent(t, item) ==
    /\ m_queue' = Append(m_queue, MakeQueuedItemLocked(item))
    /\ m_nextSequenceId' = m_nextSequenceId + 1
    /\ call' = [call EXCEPT ![t] = "idle"]
    /\ UNCHANGED <<m_closed, m_droppedCount, delivered, cleared>>

\* Mutant: push_front for push_back.
MutPushFront(t, item) ==
    /\ m_queue' = <<MakeQueuedItemLocked(item)>> \o m_queue
    /\ m_nextSequenceId' = m_nextSequenceId + 1
    /\ call' \in NotifyOne([call EXCEPT ![t] = "idle"],
                           "notEmpty", "notEmptyWoken")
    /\ UNCHANGED <<m_closed, m_droppedCount, delivered, cleared>>

\* push_back(MakeQueuedItemLocked(item)); m_notEmpty.notify_one()
PushLocked(t, item) ==
    /\ m_queue' = Append(m_queue, MakeQueuedItemLocked(item))
    /\ m_nextSequenceId' = m_nextSequenceId + 1
    /\ call' \in NotifyOne([call EXCEPT ![t] = "idle"],
                           "notEmpty", "notEmptyWoken")
    /\ UNCHANGED <<m_closed, m_droppedCount, delivered, cleared>>

\* Mutant: front() is copied but pop_front() forgotten.
MutPopKeeps(t) ==
    /\ delivered' = Append(delivered, Head(m_queue).queue_sequence_id)
    /\ call' \in NotifyOne([call EXCEPT ![t] = "idle"],
                           "notFull", "notFullWoken")
    /\ UNCHANGED <<m_queue, m_closed, m_nextSequenceId, m_droppedCount, arg,
                   cleared>>

\* outItem = front(); pop_front(); m_notFull.notify_one()
PopLocked(t) ==
    /\ m_queue' = Tail(m_queue)
    /\ delivered' = Append(delivered, Head(m_queue).queue_sequence_id)
    /\ call' \in NotifyOne([call EXCEPT ![t] = "idle"],
                           "notFull", "notFullWoken")
    /\ UNCHANGED <<m_closed, m_nextSequenceId, m_droppedCount, arg, cleared>>

\* The calling thread moves from its state to another; nothing else changes.
Goto(t, state) ==
    /\ call' = [call EXCEPT ![t] = state]
    /\ UNCHANGED <<m_queue, m_closed, m_nextSequenceId, m_droppedCount,
                   delivered, cleared>>

-----------------------------------------------------------------------------
Init ==
    /\ m_queue = <<>>
    /\ m_closed = FALSE
    /\ m_nextSequenceId = 0
    /\ m_droppedCount = 0
    /\ call = [t \in Threads |-> "idle"]
    /\ arg \in [Threads -> Items]
    /\ delivered = <<>>
    /\ cleared = 0

BelowBound == m_nextSequenceId + m_droppedCount < MaxPushes

TryPushBody(t, item) ==
    /\ UNCHANGED arg
    /\ \/ /\ m_closed \/ IsFullLocked
          /\ m_droppedCount' = m_droppedCount + 1
          /\ UNCHANGED <<m_queue, m_closed, m_nextSequenceId, call,
                         delivered, cleared>>
       \/ /\ ~m_closed /\ ~IsFullLocked
          /\ PushLocked(t, item)

TryPush(t, item) ==
    /\ call[t] = "idle" /\ BelowBound
    /\ TryPushBody(t, item)

\* Mutant: m_closed is tested only before waiting, not after the wakeup.
MutWaitPushBody(t, item) ==
    /\ arg' = [arg EXCEPT ![t] = item]
    /\ \/ /\ ~m_closed /\ IsFullLocked
          /\ Goto(t, "notFull")
       \/ /\ m_closed /\ call[t] = "idle"
          /\ Goto(t, "idle")
       \/ /\ ~m_closed \/ call[t] = "notFullWoken"
          /\ ~IsFullLocked
          /\ PushLocked(t, item)

\* The predicate loop of m_notFull.wait and what follows it.
WaitPushBody(t, item) ==
    /\ arg' = [arg EXCEPT ![t] = item]
    /\ \/ /\ ~m_closed /\ IsFullLocked
          /\ Goto(t, "notFull")
       \/ /\ m_closed
          /\ Goto(t, "idle")
       \/ /\ ~m_closed /\ ~IsFullLocked
          /\ PushLocked(t, item)

WaitPush(t, item) ==
    /\ call[t] = "idle" /\ BelowBound
    /\ WaitPushBody(t, item)

WaitPushResume(t) ==
    /\ call[t] = "notFullWoken"
    /\ WaitPushBody(t, arg[t])

\* TryPop on an empty queue returns false and changes nothing.
TryPop(t) ==
    /\ call[t] = "idle"
    /\ m_queue # <<>>
    /\ PopLocked(t)

WaitPopBody(t) ==
    \/ /\ m_queue = <<>> /\ ~m_closed
       /\ Goto(t, "notEmpty")
       /\ UNCHANGED arg
    \/ /\ m_queue = <<>> /\ m_closed
       /\ Goto(t, "idle")
       /\ UNCHANGED arg
    \/ /\ m_queue # <<>>
       /\ PopLocked(t)

WaitPop(t) ==
    /\ call[t] = "idle"
    /\ WaitPopBody(t)

WaitPopResume(t) ==
    /\ call[t] = "notEmptyWoken"
    /\ WaitPopBody(t)

\* Close: the flag under the lock ...
Close(t) ==
    /\ call[t] = "idle"
    /\ m_closed' = TRUE
    /\ call' = [call EXCEPT ![t] = "closeNotEmpty"]
    /\ UNCHANGED <<m_queue, m_nextSequenceId, m_droppedCount, arg,
                   delivered, cleared>>

\* ... and the two notify_all after the unlock.
CloseNotifyNotEmpty(t) ==
    /\ call[t] = "closeNotEmpty"
    /\ call' = NotifyAll([call EXCEPT ![t] = "closeNotFull"],
                         "notEmpty", "notEmptyWoken")
    /\ UNCHANGED <<m_queue, m_closed, m_nextSequenceId, m_droppedCount, arg,
                   delivered, cleared>>

\* Mutant: Close notifies m_notEmpty only.
MutCloseNotifyNotFull(t) ==
    /\ call[t] = "closeNotFull"
    /\ call' = [call EXCEPT ![t] = "idle"]
    /\ UNCHANGED <<m_queue, m_closed, m_nextSequenceId, m_droppedCount, arg,
                   delivered, cleared>>

CloseNotifyNotFull(t) ==
    /\ call[t] = "closeNotFull"
    /\ call' = NotifyAll([call EXCEPT ![t] = "idle"],
                         "notFull", "notFullWoken")
    /\ UNCHANGED <<m_queue, m_closed, m_nextSequenceId, m_droppedCount, arg,
                   delivered, cleared>>

Clear(t) ==
    /\ call[t] = "idle"
    /\ m_queue' = <<>>
    /\ cleared' = cleared + Len(m_queue)
    /\ call' = [call EXCEPT ![t] = "clearNotFull"]
    /\ UNCHANGED <<m_closed, m_nextSequenceId, m_droppedCount, arg, delivered>>

ClearNotifyNotFull(t) ==
    /\ call[t] = "clearNotFull"
    /\ call' = NotifyAll([call EXCEPT ![t] = "idle"],
                         "notFull", "notFullWoken")
    /\ UNCHANGED <<m_queue, m_closed, m_nextSequenceId, m_droppedCount, arg,
                   delivered, cleared>>

\* A condition variable may return without having been notified.
SpuriousWakeup(t) ==
    /\ UNCHANGED arg
    /\ \/ call[t] = "notFull"  /\ Goto(t, "notFullWoken")
       \/ call[t] = "notEmpty" /\ Goto(t, "notEmptyWoken")

\* Steps a thread takes by itself once it is inside a call.
Continue(t) ==
    \/ WaitPushResume(t) \/ WaitPopResume(t)
    \/ CloseNotifyNotEmpty(t) \/ CloseNotifyNotFull(t)
    \/ ClearNotifyNotFull(t)

Next ==
    \E t \in Threads :
        \/ \E item \in Items : TryPush(t, item) \/ WaitPush(t, item)
        \/ TryPop(t) \/ WaitPop(t)
        \/ Close(t) \/ Clear(t)
        \/ SpuriousWakeup(t)
        \/ Continue(t)

Spec == Init /\ [][Next]_vars

\* A thread inside a call is scheduled: the operating system lets a woken
\* thread take the mutex, and nothing in the code keeps the mutex.
FairSpec == Spec /\ \A t \in Threads : WF_vars(Continue(t))

-----------------------------------------------------------------------------
(* Properties *)

TypeOK ==
    /\ m_queue \in Seq(Queued)
    /\ m_closed \in BOOLEAN
    /\ m_nextSequenceId \in Nat
    /\ m_droppedCount \in Nat
    /\ call \in [Threads -> CallState]
    /\ arg \in [Threads -> Items]
    /\ delivered \in Seq(Nat)
    /\ cleared \in Nat

\* The queue never holds more than m_capacity items, whichever mix of
\* TryPush and woken WaitPush calls fills it (IsFullLocked is re-tested by
\* every producer after it was woken).
CapacityBound == Len(m_queue) <= m_capacity

\* The ids in the queue are consecutive and end at m_nextSequenceId: nothing
\* is queued twice, out of order, or without its id, also after Clear.
ConsecutiveIds ==
    \A i \in 1..Len(m_queue) :
        m_queue[i].queue_sequence_id = m_nextSequenceId - Len(m_queue) + i

\* Consumers together pop in push order, and what is popped is older than
\* all that is still queued: one FIFO across TryPop, WaitPop and Clear.
DeliveredInOrder ==
    /\ \A i, j \in 1..Len(delivered) : i < j => delivered[i] < delivered[j]
    /\ \A i \in 1..Len(delivered) :
           delivered[i] <= m_nextSequenceId - Len(m_queue)

\* Every accepted item is queued, was popped once or was discarded by Clear.
Conservation ==
    m_nextSequenceId = Len(delivered) + cleared + Len(m_queue)

\* No wakeup is lost by consumers.  While a consumer sleeps in m_notEmpty
\* there are at least as many woken consumers as queued items, and after
\* m_closed the closing thread still has its notify_all to make.
NoLostWakeupNotEmpty ==
    In("notEmpty") # {} =>
        /\ Cardinality(In("notEmptyWoken")) >= Len(m_queue)
        /\ m_closed => In("closeNotEmpty") # {}

\* The same of producers in m_notFull: as many are awake as there are free
\* places, unless a Clear is between its unlock and its notify_all.
NoLostWakeupNotFull ==
    In("notFull") # {} =>
        /\ \/ Cardinality(In("notFullWoken")) >= m_capacity - Len(m_queue)
           \/ In("clearNotFull") # {}
           \/ m_closed
        /\ m_closed => In("closeNotEmpty") \cup In("closeNotFull") # {}

\* Close releases every thread blocked in WaitPush or WaitPop.
CloseReleasesWaiters ==
    \A t \in Threads :
        m_closed ~> call[t] \notin {"notFull", "notFullWoken",
                                    "notEmpty", "notEmptyWoken"}

\* No wakeup is lost, neither by consumers nor by producers.
NoLostWakeup == NoLostWakeupNotEmpty /\ NoLostWakeupNotFull

\* The queue implements the abstract FIFO channel: every step, seen without
\* ids, threads and condition variables, is one channel operation or none.
Channel == INSTANCE FeatureChannel WITH
    Capacity <- m_capacity,
    content <- [i \in 1..Len(m_queue) |-> m_queue[i].item],
    closed <- m_closed,
    dropped <- m_droppedCount

ImplementsChannel == Channel!ChanSpec
=============================================================================
