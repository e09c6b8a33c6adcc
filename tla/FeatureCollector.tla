-------------------------- MODULE FeatureCollector --------------------------
(***************************************************************************)
(* The observer that turns the network events of the TCP sessions into     *)
(* message snapshots and session summaries                                 *)
(* (src/Server/FeatureExtraction/FeatureCollector.{h,cpp}).                *)
(*                                                                         *)
(* A thread calls OnNetworkEvent in three steps: it stamps the event when  *)
(* it is made, it updates the session under m_mutex, and it pushes the     *)
(* snapshot after the mutex is released.  Other threads act in between.    *)
(* The queue is the abstract channel that AsyncFeatureQueue implements.    *)
(***************************************************************************)
EXTENDS Integers, Sequences, FiniteSets

CONSTANTS
    Threads,       \* threads that notify the observer
    Sessions,      \* ids given by g_ullNextSessionId, never 0
    Emitters,      \* Emitters[s]: the threads that dispatch completions of s
    Capacity,      \* capacity of the feature queue
    MaxEvents,     \* bound: events made in a behaviour
    MaxTime,       \* bound: readings of the monotonic clock
    MaxDetach,     \* bound: calls of SetFeatureQueue after start-up
    MaxRemovals    \* bound: calls of RemoveSession and Clear

ASSUME EmittersAssumption ==
    IsFiniteSet(Threads) /\ Emitters \in [Sessions -> SUBSET Threads]

VARIABLES
    m_sessions,       \* the unordered_map, NoSession where there is no entry
    m_featureQueue,   \* TRUE while a queue is set
    m_ignoredAfterCloseEventCount,
    content, closed, dropped,   \* the queue
    pc, event, queueItem,       \* per thread: step, event, snapshot to push
    now,              \* steady_clock
    phase,            \* per session: what its socket has reported so far
    made, detached, removed,    \* bounded counters
    offered           \* history: what was given to TryPush, in that order

chan == <<content, closed, dropped>>
collector == <<m_sessions, m_featureQueue, m_ignoredAfterCloseEventCount>>
threadVars == <<pc, event, queueItem>>
bounds == <<made, detached, removed>>
vars == <<collector, chan, threadVars, now, phase, bounds, offered>>

EventType == {"SessionStarted", "SessionClosed", "RecvCompleted",
              "SendCompleted", "PacketParsed", "ProtocolError"}

Item == [kind : {"message", "summary"}, session : Sessions,
         request_index : Nat, request_count : Nat, recv : Nat, send : Nat,
         error_count : Nat, interval : Int, interval_sum : Int, duration : Int,
         is_started : BOOLEAN, is_closed : BOOLEAN]

Channel == INSTANCE FeatureChannel WITH Items <- Item

-----------------------------------------------------------------------------
(* The session map *)

NoSession == [exists |-> FALSE]

\* SessionState after the first event of a session.
NewSession(e) ==
    [exists |-> TRUE, is_started |-> FALSE, is_closed |-> FALSE,
     start |-> e.time, duration |-> 0, recv |-> 0, send |-> 0,
     request_count |-> 0, error_count |-> 0, last_message_time |-> 0,
     interval |-> 0, interval_sum |-> 0]

GetOrCreateSessionLocked(e) ==
    IF m_sessions[e.session].exists THEN m_sessions[e.session]
    ELSE NewSession(e)

UpdateConnectionDurationLocked(state, e) ==
    [state EXCEPT !.duration = e.time - state.start]

HandleSessionStartedLocked(state, e) ==
    [state EXCEPT !.is_started = TRUE, !.start = e.time]

\* Mutant: the entry of the session stays open.
MutHandleSessionClosedLocked(state, e) == state

HandleSessionClosedLocked(state, e) ==
    [state EXCEPT !.is_closed = TRUE]

HandleRecvCompletedLocked(state, e) == [state EXCEPT !.recv = @ + 1]

HandleSendCompletedLocked(state, e) == [state EXCEPT !.send = @ + 1]

HandleProtocolErrorLocked(state, e) == [state EXCEPT !.error_count = @ + 1]

\* Mutant: the first interval is measured from the start of the connection.
MutHandlePacketParsedLocked(state, e) ==
    LET interval == e.time - (IF state.request_count > 0
                              THEN state.last_message_time ELSE state.start)
    IN  [state EXCEPT
            !.request_count = @ + 1,
            !.interval = interval,
            !.interval_sum = @ + interval,
            !.last_message_time = e.time]

\* has_last_message_time is request_count > 0: both are set here only.
HandlePacketParsedLocked(state, e) ==
    LET interval == IF state.request_count > 0
                    THEN e.time - state.last_message_time ELSE 0
    IN  [state EXCEPT
            !.request_count = @ + 1,
            !.interval = interval,
            !.interval_sum = @ + interval,
            !.last_message_time = e.time]

\* The branch of OnNetworkEvent on event.type.  A restart measures the
\* duration from the new start, any other event before its own handler.
Handle(state, e) ==
    LET timed == UpdateConnectionDurationLocked(state, e)
    IN  CASE e.type = "SessionStarted" ->
                 UpdateConnectionDurationLocked(
                     HandleSessionStartedLocked(state, e), e)
          [] e.type = "SessionClosed"  -> HandleSessionClosedLocked(timed, e)
          [] e.type = "RecvCompleted"  -> HandleRecvCompletedLocked(timed, e)
          [] e.type = "SendCompleted"  -> HandleSendCompletedLocked(timed, e)
          [] e.type = "PacketParsed"   -> HandlePacketParsedLocked(timed, e)
          [] e.type = "ProtocolError"  -> HandleProtocolErrorLocked(timed, e)

\* A message snapshot carries request_index; a summary leaves it at 0 and
\* carries request_count instead.
Snapshot(state, e) ==
    [kind |-> IF e.type = "PacketParsed" THEN "message" ELSE "summary",
     session |-> e.session,
     request_index |->
         IF e.type = "PacketParsed" THEN state.request_count ELSE 0,
     request_count |-> state.request_count,
     recv |-> state.recv, send |-> state.send,
     error_count |-> state.error_count,
     interval |-> state.interval, interval_sum |-> state.interval_sum,
     duration |-> state.duration,
     is_started |-> state.is_started, is_closed |-> state.is_closed]

\* Mutant: a protocol error also sends the session record.
MutShouldEnqueue(e) ==
    e.type \in {"PacketParsed", "SessionClosed", "ProtocolError"}

ShouldEnqueue(e) == e.type \in {"PacketParsed", "SessionClosed"}

-----------------------------------------------------------------------------
(* The threads *)

NoEvent == [session |-> 0, type |-> "none", time |-> 0]

Init ==
    /\ m_sessions = [s \in Sessions |-> NoSession]
    /\ m_featureQueue = TRUE
    /\ m_ignoredAfterCloseEventCount = 0
    /\ Channel!ChanInit
    /\ pc = [t \in Threads |-> "idle"]
    /\ event = [t \in Threads |-> NoEvent]
    /\ queueItem = [t \in Threads |-> <<>>]
    /\ now = 0
    /\ phase = [s \in Sessions |-> "new"]
    /\ made = 0 /\ detached = 0 /\ removed = 0
    /\ offered = <<>>

\* The events a session makes: SessionStarted comes from Start, before the
\* first WSARecv.  CloseSocket reports SessionClosed once, also for a session
\* that was never started; completions that were already queued then still
\* report bytes, packets and errors (EventProtocol in module Session).
Possible(s) ==
    CASE phase[s] = "new"     -> {"SessionStarted", "SessionClosed"}
      [] phase[s] = "started" -> EventType \ {"SessionStarted"}
      [] phase[s] = "closed"  -> EventType \ {"SessionStarted", "SessionClosed"}
      [] phase[s] = "unused"  -> {}

\* These come from the completions of the session, on a thread that
\* dispatches them.  The worker that accepts the session starts it, and any
\* thread may fail to post one of its packets and close it.
OfCompletion == {"RecvCompleted", "SendCompleted", "PacketParsed"}

MakeNetworkEvent(t, s, type) ==
    /\ pc[t] = "idle"
    /\ type \in OfCompletion => t \in Emitters[s]
    /\ made < MaxEvents
    /\ type \in Possible(s)
    \* Start returns from its notification before it posts the first recv
    /\ ~\E u \in Threads : /\ pc[u] = "notify" /\ event[u].session = s
                           /\ event[u].type = "SessionStarted"
    /\ event' = [event EXCEPT ![t] =
                     [session |-> s, type |-> type, time |-> now]]
    /\ pc' = [pc EXCEPT ![t] = "notify"]
    /\ phase' = [phase EXCEPT ![s] =
                     CASE type = "SessionStarted" -> "started"
                       [] type = "SessionClosed"  ->
                              IF @ = "new" THEN "unused" ELSE "closed"
                       [] OTHER                   -> @]
    /\ made' = made + 1
    /\ UNCHANGED <<collector, chan, queueItem, now, detached, removed, offered>>

\* The critical section of OnNetworkEvent.
OnNetworkEvent(t) ==
    LET e == event[t]
        found == GetOrCreateSessionLocked(e)
        state == IF found.is_closed THEN found ELSE Handle(found, e)
    IN  /\ pc[t] = "notify"
        /\ m_sessions' = [m_sessions EXCEPT ![e.session] = state]
        /\ m_ignoredAfterCloseEventCount' =
               m_ignoredAfterCloseEventCount + (IF found.is_closed THEN 1 ELSE 0)
        /\ IF ~found.is_closed /\ m_featureQueue /\ ShouldEnqueue(e)
           THEN /\ pc' = [pc EXCEPT ![t] = "push"]
                /\ queueItem' = [queueItem EXCEPT ![t] = Snapshot(state, e)]
           ELSE /\ pc' = [pc EXCEPT ![t] = "idle"]
                /\ UNCHANGED queueItem
        /\ UNCHANGED <<m_featureQueue, chan, event, now, phase, bounds, offered>>

\* featureQueue->TryPush(queueItem), with the queue read under the lock.
PushSnapshot(t) ==
    /\ pc[t] = "push"
    /\ Channel!Push(queueItem[t]) \/ Channel!Drop
    /\ offered' = Append(offered, queueItem[t])
    /\ pc' = [pc EXCEPT ![t] = "idle"]
    /\ UNCHANGED <<collector, event, queueItem, now, phase, bounds>>

SetFeatureQueue(isSet) ==
    /\ detached < MaxDetach
    /\ m_featureQueue' = isSet
    /\ detached' = detached + 1
    /\ UNCHANGED <<m_sessions, m_ignoredAfterCloseEventCount, chan, threadVars,
                   now, phase, made, removed, offered>>

RemoveSession(s) ==
    /\ removed < MaxRemovals
    /\ m_sessions' = [m_sessions EXCEPT ![s] = NoSession]
    /\ removed' = removed + 1
    /\ UNCHANGED <<m_featureQueue, m_ignoredAfterCloseEventCount, chan,
                   threadVars, now, phase, made, detached, offered>>

Clear ==
    /\ removed < MaxRemovals
    /\ m_sessions' = [s \in Sessions |-> NoSession]
    /\ m_ignoredAfterCloseEventCount' = 0
    /\ removed' = removed + 1
    /\ UNCHANGED <<m_featureQueue, chan, threadVars, now, phase, made,
                   detached, offered>>

\* The consumer of the queue.
Consume ==
    /\ Channel!Pop
    /\ UNCHANGED <<collector, threadVars, now, phase, bounds, offered>>

Tick ==
    /\ now < MaxTime
    /\ now' = now + 1
    /\ UNCHANGED <<collector, chan, threadVars, phase, bounds, offered>>

Next ==
    \/ \E t \in Threads, s \in Sessions, type \in EventType :
           MakeNetworkEvent(t, s, type)
    \/ \E t \in Threads : OnNetworkEvent(t) \/ PushSnapshot(t)
    \/ \E isSet \in BOOLEAN : SetFeatureQueue(isSet)
    \/ \E s \in Sessions : RemoveSession(s)
    \/ Clear
    \/ Consume
    \/ Tick

Spec == Init /\ [][Next]_vars

-----------------------------------------------------------------------------
(* Properties *)

TypeOK ==
    /\ \A s \in Sessions : m_sessions[s].exists => m_sessions[s].request_count \in Nat
    /\ m_featureQueue \in BOOLEAN
    /\ m_ignoredAfterCloseEventCount \in Nat
    /\ \A i \in 1..Len(content) : content[i] \in Item
    /\ closed \in BOOLEAN /\ dropped \in Nat
    /\ pc \in [Threads -> {"idle", "notify", "push"}]
    /\ phase \in [Sessions -> {"new", "started", "closed", "unused"}]

\* A session is summarised at most once, even when its entry is removed
\* before its last completions arrive.  Its socket is closed once, so there is
\* one closing event (EventProtocol in module Session).
OneSummaryPerSession ==
    \A s \in Sessions :
        Cardinality({i \in 1..Len(offered) :
            offered[i].session = s /\ offered[i].kind = "summary"}) <= 1

\* Snapshot x was made before y, and y is of no less.
Before(x, y) ==
    /\ x.kind = "message"
    /\ y.kind = "message" => x.request_index < y.request_index
    /\ x.request_count <= y.request_count
    /\ x.recv <= y.recv
    /\ x.error_count <= y.error_count

\* The summary x overtook y, the last message it counts.
Overtook(x, y) ==
    Before(y, x) /\ x.kind = "summary" /\ y.request_index = x.request_count

\* A session whose completions one thread dispatches, as IOCPWorkerPool binds
\* it, and whose entry was not removed: its messages reach the queue in their
\* order, with totals that never decrease, although TryPush runs outside
\* m_mutex.  Nothing that comes after the close changes what the summary says.
\* When another thread closes the session the summary may overtake one
\* message, the last that it counts.
PerSessionOrder ==
    removed = 0 => \A s \in {r \in Sessions : Cardinality(Emitters[r]) = 1} :
        \A i, j \in {k \in 1..Len(offered) : offered[k].session = s} : i < j =>
            Before(offered[i], offered[j]) \/ Overtook(offered[i], offered[j])
=============================================================================
