----------------------- MODULE FeatureCollectorProofs -----------------------
(***************************************************************************)
(* FeatureCollector gives every session one summary, and the messages of   *)
(* a session that one thread dispatches in their order, for any threads,   *)
(* sessions, queue capacity and number of events.                          *)
(*                                                                         *)
(* A snapshot is pushed after m_mutex is released, so the properties of    *)
(* what was offered rest on what the threads still carry: the one closing  *)
(* event of a session (ClosesOnce), wherever it is made, and the one       *)
(* message of the thread that dispatches the session, between the entry it *)
(* was made from and the messages before it (Follows).                     *)
(***************************************************************************)
EXTENDS FeaturePayload, FiniteSetTheorems, TLAPS

Entry == [exists : {TRUE}, is_started : BOOLEAN, is_closed : BOOLEAN,
          start : Int, duration : Int, recv : Nat, send : Nat,
          request_count : Nat, error_count : Nat, last_message_time : Int,
          interval : Int, interval_sum : Int]

EventShape(e) ==
    e.session \in Sessions /\ e.type \in EventType /\ e.time \in Int

ThreadShapes ==
    /\ pc \in [Threads -> {"idle", "notify", "push"}]
    /\ event = [t \in Threads |-> event[t]]
    /\ queueItem = [t \in Threads |-> queueItem[t]]
    /\ \A t \in Threads : pc[t] = "notify" => EventShape(event[t])
    /\ \A t \in Threads : pc[t] = "push" => queueItem[t] \in Item

SessionShapes ==
    /\ m_sessions = [s \in Sessions |-> m_sessions[s]]
    /\ \A s \in Sessions : m_sessions[s] = NoSession \/ m_sessions[s] \in Entry
    /\ phase \in [Sessions -> {"new", "started", "closed", "unused"}]

QueueShapes ==
    /\ offered \in Seq(Item) /\ content \in Seq(Item)
    /\ now \in Nat /\ removed \in Nat /\ dropped \in Nat
    /\ m_ignoredAfterCloseEventCount \in Nat

Flags == m_featureQueue \in BOOLEAN /\ closed \in BOOLEAN

Shapes == ThreadShapes /\ SessionShapes /\ QueueShapes /\ Flags

-----------------------------------------------------------------------------
(* The handlers *)

\* The entry an event finds: the session's, or a new one.
LEMMA FoundIsEntry ==
  ASSUME SessionShapes, NEW e, EventShape(e)
  PROVE  GetOrCreateSessionLocked(e) \in Entry
<1>1. CASE m_sessions[e.session].exists
  BY <1>1 DEF SessionShapes, EventShape, GetOrCreateSessionLocked, NoSession
<1>2. CASE ~m_sessions[e.session].exists
  BY <1>2 DEF EventShape, GetOrCreateSessionLocked, NewSession, Entry
<1> QED
  BY <1>1, <1>2

\* What every handler does: counters grow, a closing event closes and nothing
\* else does.
LEMMA EntryUpdates ==
  ASSUME NEW st \in Entry, NEW n \in Nat, NEW i \in Int, NEW sum \in Int, NEW time \in Int
  PROVE  /\ [st EXCEPT !.is_closed = TRUE] \in Entry
         /\ [st EXCEPT !.recv = n] \in Entry /\ [st EXCEPT !.send = n] \in Entry
         /\ [st EXCEPT !.error_count = n] \in Entry
         /\ [st EXCEPT !.request_count = n, !.interval = i, !.interval_sum = sum,
                       !.last_message_time = time] \in Entry
<1>1. [st EXCEPT !.is_closed = TRUE] \in Entry
  BY DEF Entry
<1>2. [st EXCEPT !.recv = n] \in Entry
  BY DEF Entry
<1>3. [st EXCEPT !.send = n] \in Entry
  BY DEF Entry
<1>4. [st EXCEPT !.error_count = n] \in Entry
  BY DEF Entry
<1>5. [st EXCEPT !.request_count = n, !.interval = i, !.interval_sum = sum,
                 !.last_message_time = time] \in Entry
  BY DEF Entry
<1> QED
  BY <1>1, <1>2, <1>3, <1>4, <1>5

LEMMA HandleFacts ==
  ASSUME NEW state \in Entry, NEW e, EventShape(e)
  PROVE  /\ Handle(state, e) \in Entry
         /\ Handle(state, e).request_count =
                IF e.type = "PacketParsed" THEN state.request_count + 1
                ELSE state.request_count
         /\ Handle(state, e).recv >= state.recv
         /\ Handle(state, e).error_count >= state.error_count
         /\ Handle(state, e).is_closed <=> e.type = "SessionClosed" \/ state.is_closed
<1> USE DEF EventShape
<1> DEFINE Timed(st) == UpdateConnectionDurationLocked(st, e)
           Same(new, st) == /\ new.recv = st.recv /\ new.error_count = st.error_count
                            /\ new.request_count = st.request_count
                            /\ new.is_closed = st.is_closed
<1>1. ASSUME NEW st \in Entry PROVE Timed(st) \in Entry /\ Same(Timed(st), st)
  <2> DEFINE v == e.time - st.start
  <2>1. st.start \in Int /\ v \in Int
    BY DEF Entry
  <2>2. Timed(st) = [st EXCEPT !.duration = v]
    BY DEF UpdateConnectionDurationLocked
  <2> HIDE DEF v, Timed
  <2>3. Timed(st) \in Entry
    BY <2>1, <2>2 DEF Entry
  <2> QED
    BY <2>2, <2>3 DEF Entry
<1> DEFINE timed == Timed(state)
<1>2. timed \in Entry /\ Same(timed, state)
  BY <1>1
<1>3. /\ state.recv \in Nat /\ state.error_count \in Nat /\ state.request_count \in Nat
      /\ timed.recv \in Nat /\ timed.error_count \in Nat /\ timed.request_count \in Nat
      /\ timed.send \in Nat /\ timed.last_message_time \in Int /\ timed.interval_sum \in Int
  BY <1>2 DEF Entry
<1> HIDE DEF timed, Timed
<1>4. CASE e.type = "SessionStarted"
  <2> DEFINE started == HandleSessionStartedLocked(state, e)
  <2>1. Handle(state, e) = Timed(started)
    BY <1>4 DEF Handle, Timed
  <2>2. started = [state EXCEPT !.is_started = TRUE, !.start = e.time]
    BY DEF HandleSessionStartedLocked
  <2> HIDE DEF started
  <2>3. started \in Entry /\ Same(started, state)
    BY <2>2 DEF Entry
  <2>4. Handle(state, e) \in Entry /\ Same(Handle(state, e), state)
    BY <1>1, <2>1, <2>3
  <2> QED
    BY <1>3, <1>4, <2>4
<1>5. CASE e.type = "SessionClosed"
  <2>1. Handle(state, e) = [timed EXCEPT !.is_closed = TRUE]
    BY <1>5 DEF Handle, HandleSessionClosedLocked, timed, Timed
  <2>2. Handle(state, e) \in Entry
    BY <1>2, <2>1, EntryUpdates
  <2>3. /\ Handle(state, e).recv = timed.recv /\ Handle(state, e).error_count = timed.error_count
        /\ Handle(state, e).request_count = timed.request_count
        /\ Handle(state, e).is_closed = TRUE
    BY <1>2, <2>1 DEF Entry
  <2> QED
    BY <1>2, <1>3, <1>5, <2>2, <2>3
<1>6. CASE e.type = "RecvCompleted"
  <2>0. timed.recv + 1 \in Nat
    BY <1>3
  <2>1. Handle(state, e) = [timed EXCEPT !.recv = timed.recv + 1]
    BY <1>6 DEF Handle, HandleRecvCompletedLocked, timed, Timed
  <2>2. Handle(state, e) \in Entry
    BY <1>2, <2>0, <2>1, EntryUpdates
  <2>3. /\ Handle(state, e).recv = timed.recv + 1 /\ Handle(state, e).error_count = timed.error_count
        /\ Handle(state, e).request_count = timed.request_count
        /\ Handle(state, e).is_closed = timed.is_closed
    BY <1>2, <2>1 DEF Entry
  <2> QED
    BY <1>2, <1>3, <1>6, <2>2, <2>3
<1>7. CASE e.type = "SendCompleted"
  <2>0. timed.send + 1 \in Nat
    BY <1>3
  <2>1. Handle(state, e) = [timed EXCEPT !.send = timed.send + 1]
    BY <1>7 DEF Handle, HandleSendCompletedLocked, timed, Timed
  <2>2. Handle(state, e) \in Entry
    BY <1>2, <2>0, <2>1, EntryUpdates
  <2>3. Same(Handle(state, e), timed)
    BY <1>2, <2>1 DEF Entry
  <2> QED
    BY <1>2, <1>3, <1>7, <2>2, <2>3
<1>8. CASE e.type = "PacketParsed"
  <2> DEFINE interval == IF timed.request_count > 0
                         THEN e.time - timed.last_message_time ELSE 0
  <2>1. Handle(state, e) = [timed EXCEPT !.request_count = timed.request_count + 1,
                                         !.interval = interval,
                                         !.interval_sum = timed.interval_sum + interval,
                                         !.last_message_time = e.time]
    BY <1>8 DEF Handle, HandlePacketParsedLocked, timed, Timed
  <2>2. interval \in Int /\ timed.interval_sum + interval \in Int
    BY <1>3
  <2> HIDE DEF interval
  <2>3. Handle(state, e) \in Entry
    <3>1. timed.request_count + 1 \in Nat /\ e.time \in Int
      BY <1>3
    <3>2. [timed EXCEPT !.request_count = timed.request_count + 1,
                        !.interval = interval,
                        !.interval_sum = timed.interval_sum + interval,
                        !.last_message_time = e.time] \in Entry
      BY <1>2, <2>2, <3>1, EntryUpdates, Zenon
    <3> QED
      BY <2>1, <3>2
  <2>4. /\ Handle(state, e).recv = timed.recv /\ Handle(state, e).error_count = timed.error_count
        /\ Handle(state, e).request_count = timed.request_count + 1
        /\ Handle(state, e).is_closed = timed.is_closed
    BY <1>2, <2>1 DEF Entry
  <2> QED
    BY <1>2, <1>3, <1>8, <2>3, <2>4
<1>9. CASE e.type = "ProtocolError"
  <2>0. timed.error_count + 1 \in Nat
    BY <1>3
  <2>1. Handle(state, e) = [timed EXCEPT !.error_count = timed.error_count + 1]
    BY <1>9 DEF Handle, HandleProtocolErrorLocked, timed, Timed
  <2>2. Handle(state, e) \in Entry
    BY <1>2, <2>0, <2>1, EntryUpdates
  <2>3. /\ Handle(state, e).recv = timed.recv /\ Handle(state, e).error_count = timed.error_count + 1
        /\ Handle(state, e).request_count = timed.request_count
        /\ Handle(state, e).is_closed = timed.is_closed
    BY <1>2, <2>1 DEF Entry
  <2> QED
    BY <1>2, <1>3, <1>9, <2>2, <2>3
<1> QED
  BY <1>4, <1>5, <1>6, <1>7, <1>8, <1>9 DEF EventType

LEMMA SnapshotFacts ==
  ASSUME NEW state \in Entry, NEW e, EventShape(e)
  PROVE  /\ Snapshot(state, e) \in Item
         /\ Snapshot(state, e).session = e.session
         /\ Snapshot(state, e).kind = IF e.type = "PacketParsed" THEN "message" ELSE "summary"
         /\ Snapshot(state, e).request_count = state.request_count
         /\ e.type = "PacketParsed" => Snapshot(state, e).request_index = state.request_count
         /\ Snapshot(state, e).recv = state.recv
         /\ Snapshot(state, e).error_count = state.error_count
BY DEF EventShape, Snapshot, Item, Entry

-----------------------------------------------------------------------------
(* Types *)

LEMMA InitShapes == Init => Shapes
<1> SUFFICES ASSUME Init PROVE Shapes
  OBVIOUS
<1>1. ThreadShapes /\ SessionShapes
  BY DEF Init, ThreadShapes, SessionShapes
<1>2. QueueShapes
  BY DEF Init, Channel!ChanInit, QueueShapes
<1>3. Flags
  BY DEF Init, Channel!ChanInit, Flags
<1> QED
  BY <1>1, <1>2, <1>3 DEF Shapes

LEMMA MakeShapes ==
  ASSUME Shapes, NEW t \in Threads, NEW s \in Sessions, NEW type \in EventType,
         MakeNetworkEvent(t, s, type)
  PROVE  Shapes'
<1> USE DEF Shapes, MakeNetworkEvent
<1>1. SessionShapes'
  <2>1. phase' \in [Sessions -> {"new", "started", "closed", "unused"}]
    BY DEF SessionShapes
  <2> QED
    BY <2>1 DEF SessionShapes, collector
<1>2. QueueShapes' /\ Flags'
  BY DEF QueueShapes, Flags, collector, chan
<1>3. ThreadShapes'
  <2>1. pc' \in [Threads -> {"idle", "notify", "push"}] /\ queueItem' = queueItem
        /\ event' = [u \in Threads |-> event'[u]]
    BY DEF ThreadShapes
  <2>2. event'[t] = [session |-> s, type |-> type, time |-> now]
        /\ \A u \in Threads \ {t} : event'[u] = event[u]
    BY DEF ThreadShapes
  <2>3. EventShape(event'[t])
    BY <2>2 DEF EventShape, QueueShapes
  <2>4. pc'[t] = "notify" /\ \A u \in Threads \ {t} : pc'[u] = pc[u]
    BY DEF ThreadShapes
  <2> QED
    BY <2>1, <2>2, <2>3, <2>4 DEF ThreadShapes
<1> QED
  BY <1>1, <1>2, <1>3

\* The critical section: the entry it leaves, and the snapshot it hands on.
LEMMA CriticalFacts ==
  ASSUME Shapes, NEW t \in Threads, OnNetworkEvent(t)
  PROVE  LET e == event[t]
             found == GetOrCreateSessionLocked(e)
             state == m_sessions'[e.session]
         IN  /\ pc[t] = "notify" /\ EventShape(e) /\ found \in Entry /\ state \in Entry
             /\ m_sessions' = [m_sessions EXCEPT ![e.session] = state]
             /\ found.is_closed => state = found
             /\ ~found.is_closed => state = Handle(found, e)
             /\ \/ pc' = [pc EXCEPT ![t] = "idle"] /\ queueItem' = queueItem
                \/ /\ pc' = [pc EXCEPT ![t] = "push"] /\ ~found.is_closed
                   /\ queueItem' = [queueItem EXCEPT ![t] = Snapshot(state, e)]
                   /\ e.type \in {"PacketParsed", "SessionClosed"}
<1> DEFINE e == event[t]
           found == GetOrCreateSessionLocked(e)
           new == IF found.is_closed THEN found ELSE Handle(found, e)
<1>1. pc[t] = "notify" /\ m_sessions' = [m_sessions EXCEPT ![e.session] = new]
  BY DEF OnNetworkEvent
<1>2. EventShape(e)
  BY <1>1 DEF Shapes, ThreadShapes
<1>3. found \in Entry
  BY <1>2, FoundIsEntry DEF Shapes
<1>4. new \in Entry
  BY <1>2, <1>3, HandleFacts
<1>5. \/ pc' = [pc EXCEPT ![t] = "idle"] /\ queueItem' = queueItem
      \/ /\ pc' = [pc EXCEPT ![t] = "push"] /\ ~found.is_closed
         /\ queueItem' = [queueItem EXCEPT ![t] = Snapshot(new, e)]
         /\ e.type \in {"PacketParsed", "SessionClosed"}
  BY DEF OnNetworkEvent, ShouldEnqueue
<1>6. (found.is_closed => new = found) /\ (~found.is_closed => new = Handle(found, e))
  OBVIOUS
<1> HIDE DEF e, found, new
<1>7. m_sessions'[e.session] = new
  BY <1>1, <1>2 DEF Shapes, SessionShapes, EventShape
<1>8. QED
  BY <1>1, <1>2, <1>3, <1>4, <1>5, <1>6, <1>7 DEF e, found

LEMMA CriticalShapes ==
  ASSUME Shapes, NEW t \in Threads, OnNetworkEvent(t)
  PROVE  Shapes'
<1> DEFINE e == event[t]
           found == GetOrCreateSessionLocked(e)
           state == m_sessions'[e.session]
<1>1. /\ EventShape(e) /\ state \in Entry
      /\ m_sessions' = [m_sessions EXCEPT ![e.session] = state]
      /\ \/ pc' = [pc EXCEPT ![t] = "idle"] /\ queueItem' = queueItem
         \/ /\ pc' = [pc EXCEPT ![t] = "push"]
            /\ queueItem' = [queueItem EXCEPT ![t] = Snapshot(state, e)]
  BY CriticalFacts
<1>2. /\ UNCHANGED <<m_featureQueue, chan, event, now, phase, bounds, offered>>
      /\ m_ignoredAfterCloseEventCount' \in Nat
  BY DEF OnNetworkEvent, Shapes, QueueShapes
<1>3. Snapshot(state, e) \in Item
  BY <1>1, SnapshotFacts
<1> HIDE DEF e, state
<1>4. SessionShapes'
  BY <1>1, <1>2 DEF Shapes, SessionShapes, EventShape
<1>5. ThreadShapes'
  <2>1. CASE pc' = [pc EXCEPT ![t] = "idle"] /\ queueItem' = queueItem
    BY <1>2, <2>1 DEF Shapes, ThreadShapes
  <2>2. CASE /\ pc' = [pc EXCEPT ![t] = "push"]
             /\ queueItem' = [queueItem EXCEPT ![t] = Snapshot(state, e)]
    <3>1. /\ queueItem' = [u \in Threads |-> queueItem'[u]]
          /\ queueItem'[t] = Snapshot(state, e)
          /\ \A u \in Threads \ {t} : queueItem'[u] = queueItem[u] /\ pc'[u] = pc[u]
          /\ pc' \in [Threads -> {"idle", "notify", "push"}] /\ pc'[t] = "push"
      BY <2>2 DEF Shapes, ThreadShapes
    <3> QED
      BY <1>2, <1>3, <3>1 DEF Shapes, ThreadShapes
  <2> QED
    BY <1>1, <2>1, <2>2
<1>6. QueueShapes' /\ Flags'
  BY <1>2 DEF Shapes, QueueShapes, Flags, chan, bounds
<1> QED
  BY <1>4, <1>5, <1>6 DEF Shapes

LEMMA PushFacts ==
  ASSUME Shapes, NEW t \in Threads, PushSnapshot(t)
  PROVE  /\ pc[t] = "push" /\ pc' = [pc EXCEPT ![t] = "idle"]
         /\ queueItem[t] \in Item /\ offered' = Append(offered, queueItem[t])
         /\ offered' \in Seq(Item) /\ Len(offered') = Len(offered) + 1
         /\ offered'[Len(offered) + 1] = queueItem[t]
         /\ \A i \in 1..Len(offered) : offered'[i] = offered[i]
         /\ UNCHANGED <<collector, event, queueItem, now, phase, bounds>>
<1>1. pc[t] = "push" /\ queueItem[t] \in Item /\ offered \in Seq(Item)
  BY DEF PushSnapshot, Shapes, ThreadShapes, QueueShapes
<1> QED
  BY <1>1 DEF PushSnapshot

LEMMA PushShapes ==
  ASSUME Shapes, NEW t \in Threads, PushSnapshot(t)
  PROVE  Shapes'
<1>1. ThreadShapes'
  BY PushFacts DEF Shapes, ThreadShapes
<1>2. SessionShapes'
  BY PushFacts DEF Shapes, SessionShapes, collector
<1>3. content' \in Seq(Item) /\ dropped' \in Nat /\ closed' = closed
  <2>1. queueItem[t] \in Item /\ content \in Seq(Item) /\ dropped \in Nat
    BY PushFacts DEF Shapes, QueueShapes
  <2>2. CASE Channel!Push(queueItem[t])
    BY <2>1, <2>2 DEF Channel!Push
  <2>3. CASE Channel!Drop
    BY <2>1, <2>3 DEF Channel!Drop
  <2> QED
    BY <2>2, <2>3 DEF PushSnapshot
<1>4. QueueShapes' /\ Flags'
  BY <1>3, PushFacts DEF Shapes, QueueShapes, Flags, collector, bounds
<1> QED
  BY <1>1, <1>2, <1>4 DEF Shapes

LEMMA OtherShapes ==
  ASSUME Shapes,
         \/ \E isSet \in BOOLEAN : SetFeatureQueue(isSet)
         \/ \E s \in Sessions : RemoveSession(s)
         \/ Clear \/ Consume \/ Tick \/ UNCHANGED vars
  PROVE  Shapes'
<1> USE DEF Shapes
<1>1. CASE \E isSet \in BOOLEAN : SetFeatureQueue(isSet)
  BY <1>1 DEF SetFeatureQueue, ThreadShapes, SessionShapes, QueueShapes, Flags, chan, threadVars
<1>2. CASE \E s \in Sessions : RemoveSession(s)
  <2>1. PICK s \in Sessions : RemoveSession(s)
    BY <1>2
  <2>2. SessionShapes'
    BY <2>1 DEF RemoveSession, SessionShapes
  <2> QED
    BY <2>1, <2>2 DEF RemoveSession, ThreadShapes, QueueShapes, Flags, chan, threadVars
<1>3. CASE Clear
  BY <1>3 DEF Clear, ThreadShapes, SessionShapes, QueueShapes, Flags, chan, threadVars
<1>4. CASE Consume
  <2>1. content' \in Seq(Item) /\ closed' = closed /\ dropped' = dropped
    BY <1>4 DEF Consume, Channel!Pop, QueueShapes
  <2> QED
    BY <1>4, <2>1 DEF Consume, ThreadShapes, SessionShapes, QueueShapes, Flags, collector,
       threadVars, bounds
<1>5. CASE Tick
  BY <1>5 DEF Tick, ThreadShapes, SessionShapes, QueueShapes, Flags, collector, chan,
     threadVars, bounds
<1>6. CASE UNCHANGED vars
  BY <1>6 DEF vars, ThreadShapes, SessionShapes, QueueShapes, Flags, collector, chan,
     threadVars, bounds
<1> QED
  BY <1>1, <1>2, <1>3, <1>4, <1>5, <1>6

LEMMA ShapesStep == Shapes /\ [Next]_vars => Shapes'
BY MakeShapes, CriticalShapes, PushShapes, OtherShapes DEF Next
\* The variables have their types; above all, what is queued and offered are
\* snapshots, whatever was removed from the map in between.
THEOREM CollectorTypeCorrect == Spec => []TypeOK
<1>1. Init => Shapes
  BY InitShapes
<1>2. Shapes /\ [Next]_vars => Shapes'
  BY ShapesStep
<1>3. Shapes => TypeOK
  <2> SUFFICES ASSUME Shapes PROVE TypeOK
    OBVIOUS
  <2>1. \A s \in Sessions : m_sessions[s].exists => m_sessions[s].request_count \in Nat
    <3> SUFFICES ASSUME NEW s \in Sessions, m_sessions[s].exists
                 PROVE  m_sessions[s].request_count \in Nat
      OBVIOUS
    <3>1. m_sessions[s] # NoSession
      BY DEF NoSession
    <3>2. m_sessions[s] \in Entry
      BY <3>1 DEF Shapes, SessionShapes
    <3> QED
      BY <3>2 DEF Entry
  <2>2. \A i \in 1..Len(content) : content[i] \in Item
    BY DEF Shapes, QueueShapes
  <2> QED
    BY <2>1, <2>2 DEF TypeOK, Shapes, ThreadShapes, SessionShapes, QueueShapes, Flags
<1> QED
  BY <1>1, <1>2, <1>3, PTL DEF Spec

-----------------------------------------------------------------------------
(* One summary *)

\* Thread t is about to summarise session s: it has the closing event, or
\* the snapshot made from it.
Summarises(t, s) ==
    \/ pc[t] = "notify" /\ event[t].session = s /\ event[t].type = "SessionClosed"
    \/ pc[t] = "push" /\ queueItem[t].session = s /\ queueItem[t].kind = "summary"

SummaryAt(i, s) == offered[i].session = s /\ offered[i].kind = "summary"

\* A closing event is made once, goes from thread to queue, and leaves the
\* session's socket closed.
ClosesOnce ==
    \A s \in Sessions :
        /\ \A t, u \in Threads : Summarises(t, s) /\ Summarises(u, s) => t = u
        /\ \A i, j \in 1..Len(offered) : SummaryAt(i, s) /\ SummaryAt(j, s) => i = j
        /\ \A t \in Threads, i \in 1..Len(offered) : ~(Summarises(t, s) /\ SummaryAt(i, s))
        /\ (\E t \in Threads : Summarises(t, s)) \/ (\E i \in 1..Len(offered) : SummaryAt(i, s))
               => phase[s] \in {"closed", "unused"}

\* Who summarises after a step of t: t, only if it did or makes the closing
\* event now; the others as before.
LEMMA SummarisersOfOthers ==
  ASSUME Shapes, NEW t \in Threads,
         \A u \in Threads \ {t} : pc'[u] = pc[u]
                                  /\ event'[u] = event[u] /\ queueItem'[u] = queueItem[u]
  PROVE  \A u \in Threads \ {t}, s \in Sessions : Summarises(u, s)' <=> Summarises(u, s)
BY DEF Summarises

LEMMA ClosesOnceStep ==
  ASSUME Shapes, ClosesOnce, [Next]_vars
  PROVE  ClosesOnce'
<1>1. ASSUME NEW t \in Threads, NEW s \in Sessions, NEW type \in EventType,
             MakeNetworkEvent(t, s, type)
      PROVE  ClosesOnce'
  <2>1. /\ pc[t] = "idle" /\ pc'[t] = "notify"
        /\ event'[t].session = s /\ event'[t].type = type
        /\ offered' = offered
        /\ \A u \in Threads \ {t} : pc'[u] = pc[u]
                                  /\ event'[u] = event[u] /\ queueItem'[u] = queueItem[u]
    BY <1>1 DEF MakeNetworkEvent, Shapes, ThreadShapes
  <2>2. \A r \in Sessions : Summarises(t, r)' => r = s /\ type = "SessionClosed"
    BY <2>1 DEF Summarises
  <2>3. \A r \in Sessions \ {s} : phase'[r] = phase[r]
    BY <1>1 DEF MakeNetworkEvent, Shapes, SessionShapes
  <2>4. phase[s] \in {"closed", "unused"} => type # "SessionClosed" /\ phase'[s] = phase[s]
    BY <1>1 DEF MakeNetworkEvent, Possible, Shapes, SessionShapes, EventType
  <2>5. type = "SessionClosed" => phase'[s] \in {"closed", "unused"}
    BY <1>1 DEF MakeNetworkEvent, Shapes, SessionShapes
  <2>6. \A u \in Threads \ {t}, r \in Sessions : Summarises(u, r)' <=> Summarises(u, r)
    BY <2>1, SummarisersOfOthers
  <2>7. \A r \in Sessions, i \in 1..Len(offered) : SummaryAt(i, r)' <=> SummaryAt(i, r)
    BY <2>1 DEF SummaryAt
  <2>8. type = "SessionClosed" => phase[s] \notin {"closed", "unused"}
    BY <2>4
  <2> HIDE DEF Summarises, SummaryAt
  <2> QED
    BY <2>1, <2>2, <2>3, <2>4, <2>5, <2>6, <2>7, <2>8 DEF ClosesOnce
<1>2. ASSUME NEW t \in Threads, OnNetworkEvent(t)
      PROVE  ClosesOnce'
  <2> DEFINE e == event[t]
             state == m_sessions'[e.session]
  <2>1. /\ pc[t] = "notify" /\ EventShape(e) /\ state \in Entry
        /\ \/ pc' = [pc EXCEPT ![t] = "idle"] /\ queueItem' = queueItem
           \/ /\ pc' = [pc EXCEPT ![t] = "push"]
              /\ queueItem' = [queueItem EXCEPT ![t] = Snapshot(state, e)]
              /\ e.type \in {"PacketParsed", "SessionClosed"}
    BY <1>2, CriticalFacts
  <2>2. event' = event /\ phase' = phase /\ offered' = offered
    BY <1>2 DEF OnNetworkEvent
  <2>3. /\ Snapshot(state, e).session = e.session
        /\ Snapshot(state, e).kind = IF e.type = "PacketParsed" THEN "message" ELSE "summary"
    BY <2>1, SnapshotFacts
  <2> HIDE DEF state
  <2>4. \A s \in Sessions : Summarises(t, s)' => Summarises(t, s)
    BY <2>1, <2>2, <2>3 DEF Summarises, Shapes, ThreadShapes
  <2>5. \A u \in Threads \ {t} : pc'[u] = pc[u]
                                  /\ event'[u] = event[u] /\ queueItem'[u] = queueItem[u]
    BY <2>1, <2>2 DEF Shapes, ThreadShapes
  <2>6. \A u \in Threads \ {t}, r \in Sessions : Summarises(u, r)' <=> Summarises(u, r)
    BY <2>5, SummarisersOfOthers
  <2>7. \A r \in Sessions, i \in 1..Len(offered) : SummaryAt(i, r)' <=> SummaryAt(i, r)
    BY <2>2 DEF SummaryAt
  <2> QED
    BY <2>2, <2>4, <2>6, <2>7 DEF ClosesOnce
<1>3. ASSUME NEW t \in Threads, PushSnapshot(t)
      PROVE  ClosesOnce'
  <2>1. /\ pc[t] = "push" /\ pc' = [pc EXCEPT ![t] = "idle"]
        /\ Len(offered') = Len(offered) + 1 /\ Len(offered) \in Nat
        /\ offered'[Len(offered) + 1] = queueItem[t]
        /\ \A i \in 1..Len(offered) : offered'[i] = offered[i]
        /\ UNCHANGED <<event, queueItem, phase>>
    BY <1>3, PushFacts DEF Shapes, QueueShapes
  <2>2. \A s \in Sessions : ~Summarises(t, s)'
    BY <2>1 DEF Summarises, Shapes, ThreadShapes
  <2>3. \A u \in Threads \ {t} : pc'[u] = pc[u]
                                  /\ event'[u] = event[u] /\ queueItem'[u] = queueItem[u]
    BY <2>1 DEF Shapes, ThreadShapes
  <2>4. \A u \in Threads \ {t}, r \in Sessions : Summarises(u, r)' <=> Summarises(u, r)
    BY <2>3, SummarisersOfOthers
  <2>5. \A r \in Sessions, i \in 1..Len(offered) : SummaryAt(i, r)' <=> SummaryAt(i, r)
    BY <2>1 DEF SummaryAt
  <2> DEFINE last == Len(offered')
  <2>6. last \notin 1..Len(offered)
        /\ \A i \in 1..Len(offered') : i \in 1..Len(offered) \/ i = last
    BY <2>1
  <2>7. \A r \in Sessions, i \in 1..Len(offered') :
            i = last /\ SummaryAt(i, r)' => Summarises(t, r)
    BY <2>1 DEF SummaryAt, Summarises
  <2> HIDE DEF last
  <2> SUFFICES ASSUME NEW s \in Sessions
               PROVE  /\ \A v, u \in Threads : Summarises(v, s)' /\ Summarises(u, s)' => v = u
                      /\ \A i, j \in 1..Len(offered') :
                             SummaryAt(i, s)' /\ SummaryAt(j, s)' => i = j
                      /\ \A v \in Threads, i \in 1..Len(offered') :
                             ~(Summarises(v, s)' /\ SummaryAt(i, s)')
                      /\ \/ \E v \in Threads : Summarises(v, s)'
                         \/ \E i \in 1..Len(offered') : SummaryAt(i, s)'
                         => phase'[s] \in {"closed", "unused"}
    BY DEF ClosesOnce
  <2>8. \A v, u \in Threads : Summarises(v, s)' /\ Summarises(u, s)' => v = u
    BY <2>2, <2>4 DEF ClosesOnce
  <2>9. \A i, j \in 1..Len(offered') : SummaryAt(i, s)' /\ SummaryAt(j, s)' => i = j
    BY <2>5, <2>6, <2>7 DEF ClosesOnce
  <2>10. \A v \in Threads, i \in 1..Len(offered') : ~(Summarises(v, s)' /\ SummaryAt(i, s)')
    BY <2>2, <2>4, <2>5, <2>6, <2>7 DEF ClosesOnce
  <2>11. \/ \E v \in Threads : Summarises(v, s)'
         \/ \E i \in 1..Len(offered') : SummaryAt(i, s)'
         => phase'[s] \in {"closed", "unused"}
    BY <2>1, <2>2, <2>4, <2>5, <2>6, <2>7 DEF ClosesOnce
  <2> QED
    BY <2>8, <2>9, <2>10, <2>11
<1>4. CASE \/ \E isSet \in BOOLEAN : SetFeatureQueue(isSet)
           \/ \E s \in Sessions : RemoveSession(s)
           \/ Clear \/ Consume \/ Tick \/ UNCHANGED vars
  <2>1. UNCHANGED <<pc, event, queueItem, phase, offered>>
    BY <1>4 DEF SetFeatureQueue, RemoveSession, Clear, Consume, Tick, vars, threadVars
  <2> QED
    BY <2>1 DEF ClosesOnce, Summarises, SummaryAt
<1> QED
  BY <1>1, <1>2, <1>3, <1>4 DEF Next

\* Every session is summarised at most once: its socket reports one close,
\* on whatever thread, and neither the completions that report after it nor
\* the removal of the entry in between make a second summary.
THEOREM OneSummaryHolds == Spec => []OneSummaryPerSession
<1>1. Init => Shapes /\ ClosesOnce
  BY InitShapes DEF Init, ClosesOnce, Summarises, SummaryAt
<1>2. Shapes /\ ClosesOnce /\ [Next]_vars => (Shapes /\ ClosesOnce)'
  BY ShapesStep, ClosesOnceStep
<1>3. ClosesOnce => OneSummaryPerSession
  <2> SUFFICES ASSUME ClosesOnce, NEW s \in Sessions
               PROVE  Cardinality({i \in 1..Len(offered) :
                          offered[i].session = s /\ offered[i].kind = "summary"}) <= 1
    BY DEF OneSummaryPerSession
  <2> DEFINE those == {i \in 1..Len(offered) :
                           offered[i].session = s /\ offered[i].kind = "summary"}
  <2>1. \A i, j \in those : i = j
    BY DEF ClosesOnce, SummaryAt
  <2>2. CASE those = {}
    <3> HIDE DEF those
    <3>1. Cardinality(those) = 0
      BY <2>2, FS_EmptySet
    <3> QED
      BY <3>1 DEF those
  <2>3. CASE those # {}
    <3>1. PICK i : i \in those
      BY <2>3
    <3>2. those = {i}
      BY <2>1, <3>1
    <3> HIDE DEF those
    <3>3. Cardinality(those) = 1
      BY <3>2, FS_Singleton
    <3> QED
      BY <3>3 DEF those
  <2> QED
    BY <2>2, <2>3
<1> QED
  BY <1>1, <1>2, <1>3, PTL DEF Spec
-----------------------------------------------------------------------------
(* The order of the snapshots of a session that one thread dispatches *)

Bound(s) == \A t, u \in Emitters[s] : t = u

FromEmitters ==
    \A t \in Threads :
        /\ pc[t] = "notify" /\ event[t].type \in OfCompletion =>
               t \in Emitters[event[t].session]
        /\ pc[t] = "push" /\ queueItem[t].kind = "message" =>
               t \in Emitters[queueItem[t].session]

\* Snapshot x was made from the entry or from an earlier value of it; the
\* summary from the value that its close left for good.
AsCounted(x, state) ==
    /\ state \in Entry
    /\ x.request_count <= state.request_count
    /\ x.recv <= state.recv /\ x.error_count <= state.error_count
    /\ x.kind = "message" => x.request_index = x.request_count
    /\ x.kind # "message" => /\ state.is_closed
                             /\ x.request_count = state.request_count
                             /\ x.recv = state.recv
                             /\ x.error_count = state.error_count

Message(x) == x.kind = "message"

OfferedCounted(s) ==
    \A i \in 1..Len(offered) :
        offered[i].session = s => AsCounted(offered[i], m_sessions[s])
CarriedCounted(s) ==
    \A t \in Threads : pc[t] = "push" /\ queueItem[t].session = s =>
        AsCounted(queueItem[t], m_sessions[s])
CarriedNext(s) ==
    \A t \in Threads :
        pc[t] = "push" /\ queueItem[t].session = s /\ Message(queueItem[t]) =>
            /\ queueItem[t].request_count = m_sessions[s].request_count
            /\ \A i \in 1..Len(offered) :
                   offered[i].session = s /\ Message(offered[i]) =>
                       Before(offered[i], queueItem[t])
OfferedOrdered(s) ==
    \A i, j \in 1..Len(offered) :
        offered[i].session = s /\ offered[j].session = s /\ i < j /\ Message(offered[j]) =>
            IF Message(offered[i]) THEN Before(offered[i], offered[j])
            ELSE offered[j].request_count = m_sessions[s].request_count

\* The entry is ahead of what was made from it, by nothing of the message
\* that the session's thread still carries or that its summary overtook.
InTurn(s) ==
    OfferedCounted(s) /\ CarriedCounted(s) /\ CarriedNext(s) /\ OfferedOrdered(s)
Follows == removed = 0 => \A s \in Sessions : Bound(s) => InTurn(s)

LEMMA FromEmittersStep ==
  ASSUME Shapes, FromEmitters, [Next]_vars
  PROVE  FromEmitters'
<1>1. ASSUME NEW t \in Threads, NEW s \in Sessions, NEW type \in EventType,
             MakeNetworkEvent(t, s, type)
      PROVE  FromEmitters'
  <2>1. /\ event'[t].session = s /\ event'[t].type = type /\ pc'[t] = "notify"
        /\ type \in OfCompletion => t \in Emitters[s]
        /\ \A u \in Threads \ {t} : pc'[u] = pc[u] /\ event'[u] = event[u]
        /\ queueItem' = queueItem
    BY <1>1 DEF MakeNetworkEvent, Shapes, ThreadShapes
  <2> QED
    BY <2>1 DEF FromEmitters
<1>2. ASSUME NEW t \in Threads, OnNetworkEvent(t)
      PROVE  FromEmitters'
  <2> DEFINE e == event[t]
             state == m_sessions'[e.session]
  <2>1. /\ pc[t] = "notify" /\ EventShape(e) /\ state \in Entry
        /\ \/ pc' = [pc EXCEPT ![t] = "idle"] /\ queueItem' = queueItem
           \/ /\ pc' = [pc EXCEPT ![t] = "push"]
              /\ queueItem' = [queueItem EXCEPT ![t] = Snapshot(state, e)]
    BY <1>2, CriticalFacts
  <2>2. /\ event' = event /\ Snapshot(state, e).session = e.session
        /\ Snapshot(state, e).kind = "message" => e.type \in OfCompletion
    BY <1>2, <2>1, SnapshotFacts DEF OnNetworkEvent, OfCompletion
  <2> HIDE DEF state
  <2> QED
    BY <2>1, <2>2 DEF FromEmitters, Shapes, ThreadShapes
<1>3. ASSUME NEW t \in Threads, PushSnapshot(t)
      PROVE  FromEmitters'
  BY <1>3, PushFacts DEF FromEmitters, Shapes, ThreadShapes
<1>4. CASE \/ \E isSet \in BOOLEAN : SetFeatureQueue(isSet)
           \/ \E s \in Sessions : RemoveSession(s)
           \/ Clear \/ Consume \/ Tick \/ UNCHANGED vars
  <2>1. UNCHANGED <<pc, event, queueItem>>
    BY <1>4 DEF SetFeatureQueue, RemoveSession, Clear, Consume, Tick, vars, threadVars
  <2> QED
    BY <2>1 DEF FromEmitters
<1> QED
  BY <1>1, <1>2, <1>3, <1>4 DEF Next

\* A later entry covers what an earlier one covered.
LEMMA CountedLater ==
  ASSUME NEW x \in Item, NEW old \in Entry, NEW new \in Entry, AsCounted(x, old),
         new.request_count >= old.request_count, new.recv >= old.recv,
         new.error_count >= old.error_count, old.is_closed => new = old
  PROVE  AsCounted(x, new)
<1>1. /\ old.request_count \in Nat /\ new.request_count \in Nat
      /\ old.recv \in Nat /\ new.recv \in Nat
      /\ old.error_count \in Nat /\ new.error_count \in Nat
  BY DEF Entry
<1>2. x.request_count \in Nat /\ x.recv \in Nat /\ x.error_count \in Nat
  BY DEF Item
<1> QED
  BY <1>1, <1>2 DEF AsCounted

\* The message of the next packet comes after all that an open entry covers.
LEMMA MessageIsNext ==
  ASSUME NEW x \in Item, Message(x), NEW old \in Entry, NEW e, EventShape(e),
         AsCounted(x, old), e.type = "PacketParsed"
  PROVE  Before(x, Snapshot(Handle(old, e), e))
<1> DEFINE new == Handle(old, e)
           y == Snapshot(new, e)
<1>1. /\ new \in Entry /\ new.recv >= old.recv /\ new.error_count >= old.error_count
      /\ new.request_count = old.request_count + 1
  BY HandleFacts
<1> HIDE DEF new
<1>2. /\ y.kind = "message" /\ y.request_index = new.request_count
      /\ y.request_count = new.request_count /\ y.recv = new.recv
      /\ y.error_count = new.error_count
  BY <1>1, SnapshotFacts
<1>3. /\ old.request_count \in Nat /\ new.request_count \in Nat
      /\ old.recv \in Nat /\ new.recv \in Nat
      /\ old.error_count \in Nat /\ new.error_count \in Nat
      /\ x.request_count \in Nat /\ x.recv \in Nat /\ x.error_count \in Nat
  BY <1>1 DEF Entry, Item
<1> HIDE DEF y
<1>4. /\ x.kind = "message" /\ x.request_index = x.request_count
      /\ x.request_count <= old.request_count
      /\ x.recv <= old.recv /\ x.error_count <= old.error_count
  BY DEF AsCounted, Message
<1>5. Before(x, y)
  BY <1>1, <1>2, <1>3, <1>4 DEF Before
<1> QED
  BY <1>5 DEF y, new

LEMMA SnapshotCounted ==
  ASSUME NEW old \in Entry, NEW e, EventShape(e), e.type \in {"PacketParsed", "SessionClosed"}
  PROVE  /\ AsCounted(Snapshot(Handle(old, e), e), Handle(old, e))
         /\ Snapshot(Handle(old, e), e).request_count = Handle(old, e).request_count
<1> DEFINE new == Handle(old, e)
           y == Snapshot(new, e)
<1>1. new \in Entry /\ (e.type = "SessionClosed" => new.is_closed)
  BY HandleFacts
<1> HIDE DEF new
<1>2. /\ y.kind = IF e.type = "PacketParsed" THEN "message" ELSE "summary"
      /\ y.request_count = new.request_count /\ y.recv = new.recv
      /\ y.error_count = new.error_count
      /\ e.type = "PacketParsed" => y.request_index = new.request_count
  BY <1>1, SnapshotFacts
<1>3. new.request_count \in Nat /\ new.recv \in Nat /\ new.error_count \in Nat
  BY <1>1 DEF Entry
<1> HIDE DEF y
<1>4. AsCounted(y, new) /\ y.request_count = new.request_count
  BY <1>1, <1>2, <1>3 DEF AsCounted
<1> QED
  BY <1>4 DEF y, new

\* Thread t has a packet of session s in hand, or the message made of it.
Parses(t, s) ==
    \/ pc[t] = "notify" /\ event[t].session = s /\ event[t].type = "PacketParsed"
    \/ pc[t] = "push" /\ queueItem[t].session = s /\ Message(queueItem[t])

Alone(s) == \A t, u \in Threads : Parses(t, s) /\ Parses(u, s) => t = u

LEMMA BoundIsAlone ==
  ASSUME FromEmitters, NEW s \in Sessions, Bound(s)
  PROVE  Alone(s)
BY DEF FromEmitters, Bound, Alone, Parses, Message, OfCompletion

LEMMA MakeInTurn ==
  ASSUME Shapes, NEW s \in Sessions, InTurn(s), NEW t \in Threads, NEW r \in Sessions,
         NEW type \in EventType, MakeNetworkEvent(t, r, type)
  PROVE  InTurn(s)'
<1>a. OfferedCounted(s) /\ CarriedCounted(s) /\ CarriedNext(s) /\ OfferedOrdered(s)
  BY DEF InTurn
<1>1. /\ pc[t] = "idle" /\ pc'[t] = "notify"
      /\ \A u \in Threads \ {t} : pc'[u] = pc[u]
      /\ UNCHANGED <<m_sessions, queueItem, offered>>
  BY DEF MakeNetworkEvent, Shapes, ThreadShapes, collector
<1>2. OfferedCounted(s)' /\ OfferedOrdered(s)'
  BY <1>a, <1>1 DEF OfferedCounted, OfferedOrdered
<1>3. CarriedCounted(s)' /\ CarriedNext(s)'
  BY <1>a, <1>1 DEF CarriedCounted, CarriedNext
<1> QED
  BY <1>2, <1>3 DEF InTurn

\* No other thread may hold a packet of the session meanwhile: its message
\* would be pushed after this one and describe an earlier entry.
LEMMA CriticalInTurn ==
  ASSUME Shapes, NEW s \in Sessions, InTurn(s), Alone(s), NEW t \in Threads,
         OnNetworkEvent(t)
  PROVE  InTurn(s)'
<1>a. OfferedCounted(s) /\ CarriedCounted(s) /\ CarriedNext(s) /\ OfferedOrdered(s)
  BY DEF InTurn
<1>b. /\ \A i \in 1..Len(offered) : offered[i] \in Item
      /\ \A u \in Threads : pc[u] = "push" => queueItem[u] \in Item
  BY DEF Shapes, QueueShapes, ThreadShapes
<1> DEFINE e == event[t]
           found == GetOrCreateSessionLocked(e)
           state == m_sessions'[e.session]
           pushes == /\ pc' = [pc EXCEPT ![t] = "push"] /\ ~found.is_closed
                     /\ queueItem' = [queueItem EXCEPT ![t] = Snapshot(state, e)]
                     /\ e.type \in {"PacketParsed", "SessionClosed"}
<1>1. /\ pc[t] = "notify" /\ EventShape(e) /\ found \in Entry /\ state \in Entry
      /\ m_sessions' = [m_sessions EXCEPT ![e.session] = state]
      /\ found.is_closed => state = found
      /\ ~found.is_closed => state = Handle(found, e)
      /\ \/ pc' = [pc EXCEPT ![t] = "idle"] /\ queueItem' = queueItem
         \/ pushes
  BY CriticalFacts
<1>2. offered' = offered
  BY DEF OnNetworkEvent
<1>4. \A u \in Threads \ {t} : pc'[u] = pc[u] /\ queueItem'[u] = queueItem[u]
  BY <1>1 DEF Shapes, ThreadShapes
<1>5. pushes => queueItem'[t] = Snapshot(state, e) /\ pc'[t] = "push"
  BY DEF Shapes, ThreadShapes
<1>6. ~pushes => pc'[t] = "idle"
  BY <1>1 DEF Shapes, ThreadShapes
<1>7. /\ Snapshot(state, e).session = e.session
      /\ Snapshot(state, e).kind = IF e.type = "PacketParsed" THEN "message" ELSE "summary"
  BY <1>1, SnapshotFacts
<1>8. CASE e.session # s
  <2>1. m_sessions'[s] = m_sessions[s]
    BY <1>1, <1>8 DEF Shapes, SessionShapes
  <2>2. OfferedCounted(s)' /\ OfferedOrdered(s)'
    BY <1>a, <1>2, <2>1 DEF OfferedCounted, OfferedOrdered
  <2> HIDE DEF pushes, state, e
  <2>3. CarriedCounted(s)' /\ CarriedNext(s)'
    BY <1>a, <1>2, <1>4, <1>5, <1>6, <1>7, <1>8, <2>1 DEF CarriedCounted, CarriedNext
  <2> QED
    BY <2>2, <2>3 DEF InTurn
<1>9. CASE e.session = s
  <2>0. ASSUME NEW x, AsCounted(x, m_sessions[s]) PROVE found = m_sessions[s]
    <3>1. m_sessions[s].exists
      BY <2>0 DEF AsCounted, Entry
    <3> QED
      BY <1>9, <3>1 DEF GetOrCreateSessionLocked
  <2>1. /\ \A i \in 1..Len(offered) : offered[i].session = s =>
               AsCounted(offered[i], found) /\ found = m_sessions[s]
        /\ \A u \in Threads : pc[u] = "push" /\ queueItem[u].session = s =>
               AsCounted(queueItem[u], found) /\ found = m_sessions[s]
    BY <1>a, <2>0 DEF OfferedCounted, CarriedCounted
  <2>2. /\ state.request_count >= found.request_count /\ state.recv >= found.recv
        /\ state.error_count >= found.error_count /\ (found.is_closed => state = found)
        /\ e.type # "PacketParsed" => state.request_count = found.request_count
    <3>1. found.request_count \in Nat /\ found.recv \in Nat /\ found.error_count \in Nat
      BY <1>1 DEF Entry
    <3>2. CASE found.is_closed
      BY <1>1, <3>1, <3>2
    <3>3. CASE ~found.is_closed
      BY <1>1, <3>1, <3>3, HandleFacts
    <3> QED
      BY <3>2, <3>3
  <2>3. OfferedCounted(s)'
    <3>1. \A i \in 1..Len(offered) : offered[i].session = s => AsCounted(offered[i], state)
      BY <1>b, <1>1, <2>1, <2>2, CountedLater
    <3> QED
      BY <1>2, <1>9, <3>1 DEF OfferedCounted
  <2>4. OfferedOrdered(s)'
    <3> SUFFICES ASSUME NEW i \in 1..Len(offered), NEW j \in 1..Len(offered),
                        offered[i].session = s, offered[j].session = s, i < j,
                        Message(offered[j])
                 PROVE  IF Message(offered[i]) THEN Before(offered[i], offered[j])
                        ELSE offered[j].request_count = m_sessions'[s].request_count
      BY <1>2 DEF OfferedOrdered
    <3>1. CASE Message(offered[i])
      BY <1>a, <3>1 DEF OfferedOrdered
    <3>2. CASE ~Message(offered[i])
      <4>1. offered[j].request_count = m_sessions[s].request_count
        BY <1>a, <3>2 DEF OfferedOrdered
      <4>2. AsCounted(offered[i], found) /\ found = m_sessions[s]
        BY <2>1
      <4>3. found.is_closed
        BY <3>2, <4>2 DEF AsCounted, Message
      <4> QED
        BY <1>9, <2>2, <3>2, <4>1, <4>2, <4>3
    <3> QED
      BY <3>1, <3>2
  <2>5. pushes => /\ AsCounted(Snapshot(state, e), state)
                  /\ Snapshot(state, e).request_count = state.request_count
                  /\ Message(Snapshot(state, e)) =>
                         \A i \in 1..Len(offered) :
                             offered[i].session = s /\ Message(offered[i]) =>
                                 Before(offered[i], Snapshot(state, e))
    <3> SUFFICES ASSUME pushes
                 PROVE  /\ AsCounted(Snapshot(state, e), state)
                        /\ Snapshot(state, e).request_count = state.request_count
                        /\ Message(Snapshot(state, e)) =>
                               \A i \in 1..Len(offered) :
                                   offered[i].session = s /\ Message(offered[i]) =>
                                       Before(offered[i], Snapshot(state, e))
      OBVIOUS
    <3>1. ~found.is_closed /\ e.type \in {"PacketParsed", "SessionClosed"}
      OBVIOUS
    <3>2. state = Handle(found, e)
      BY <1>1, <3>1
    <3>3. /\ AsCounted(Snapshot(state, e), state)
          /\ Snapshot(state, e).request_count = state.request_count
      BY <1>1, <3>1, <3>2, SnapshotCounted
    <3>4. ASSUME NEW i \in 1..Len(offered), offered[i].session = s, Message(offered[i]),
                 Message(Snapshot(state, e))
          PROVE  Before(offered[i], Snapshot(state, e))
      <4>1. e.type = "PacketParsed"
        BY <1>7, <3>4 DEF Message
      <4>2. offered[i] \in Item /\ AsCounted(offered[i], found)
        BY <1>b, <2>1, <3>4
      <4> QED
        BY <1>1, <3>2, <3>4, <4>1, <4>2, MessageIsNext
    <3> QED
      BY <3>3, <3>4
  <2>6. ASSUME NEW u \in Threads \ {t}, pc'[u] = "push", queueItem'[u].session = s
        PROVE  /\ AsCounted(queueItem'[u], state)
               /\ Message(queueItem'[u]) =>
                      /\ queueItem'[u].request_count = state.request_count
                      /\ \A i \in 1..Len(offered) :
                             offered[i].session = s /\ Message(offered[i]) =>
                                 Before(offered[i], queueItem'[u])
    <3>1. pc[u] = "push" /\ queueItem'[u] = queueItem[u] /\ queueItem[u] \in Item
      BY <1>b, <1>4, <2>6
    <3>2. AsCounted(queueItem[u], found) /\ found = m_sessions[s]
      BY <2>1, <2>6, <3>1
    <3>3. AsCounted(queueItem[u], state)
      BY <1>1, <2>2, <3>1, <3>2, CountedLater
    <3>4. Message(queueItem[u]) => e.type # "PacketParsed"
      BY <1>1, <1>9, <2>6, <3>1 DEF Alone, Parses
    <3>5. Message(queueItem[u]) =>
              /\ queueItem[u].request_count = m_sessions[s].request_count
              /\ \A i \in 1..Len(offered) :
                     offered[i].session = s /\ Message(offered[i]) =>
                         Before(offered[i], queueItem[u])
      BY <1>a, <2>6, <3>1 DEF CarriedNext
    <3> QED
      BY <2>2, <3>1, <3>2, <3>3, <3>4, <3>5
  <2> HIDE DEF pushes
  <2>7. CarriedCounted(s)' /\ CarriedNext(s)'
    BY <1>2, <1>5, <1>6, <1>9, <2>5, <2>6 DEF CarriedCounted, CarriedNext
  <2> QED
    BY <2>3, <2>4, <2>7 DEF InTurn
<1> QED
  BY <1>8, <1>9

LEMMA PushInTurn ==
  ASSUME Shapes, NEW s \in Sessions, InTurn(s), Alone(s), NEW t \in Threads,
         PushSnapshot(t)
  PROVE  InTurn(s)'
<1>a. OfferedCounted(s) /\ CarriedCounted(s) /\ CarriedNext(s) /\ OfferedOrdered(s)
  BY DEF InTurn
<1>1. /\ pc[t] = "push" /\ pc' = [pc EXCEPT ![t] = "idle"] /\ queueItem[t] \in Item
      /\ Len(offered') = Len(offered) + 1 /\ Len(offered) \in Nat
      /\ offered'[Len(offered) + 1] = queueItem[t]
      /\ \A i \in 1..Len(offered) : offered'[i] = offered[i]
      /\ UNCHANGED <<m_sessions, queueItem>>
  BY PushFacts DEF Shapes, QueueShapes, collector
<1>2. \A i \in 1..Len(offered') :
          \/ i \in 1..Len(offered) /\ offered'[i] = offered[i]
          \/ i = Len(offered) + 1 /\ offered'[i] = queueItem[t]
  BY <1>1
<1>3. OfferedCounted(s)'
  BY <1>a, <1>1, <1>2 DEF OfferedCounted, CarriedCounted
<1>4. OfferedOrdered(s)'
  <2> SUFFICES ASSUME NEW i \in 1..Len(offered'), NEW j \in 1..Len(offered'),
                      offered'[i].session = s, offered'[j].session = s, i < j,
                      Message(offered'[j])
               PROVE  IF Message(offered'[i]) THEN Before(offered'[i], offered'[j])
                      ELSE offered'[j].request_count = m_sessions[s].request_count
    BY <1>1 DEF OfferedOrdered
  <2>1. i \in 1..Len(offered) /\ offered'[i] = offered[i]
    BY <1>1, <1>2
  <2>2. CASE j \in 1..Len(offered) /\ offered'[j] = offered[j]
    BY <1>a, <2>1, <2>2 DEF OfferedOrdered
  <2>3. CASE j = Len(offered) + 1 /\ offered'[j] = queueItem[t]
    BY <1>a, <1>1, <2>1, <2>3 DEF CarriedNext
  <2> QED
    BY <1>2, <2>2, <2>3
<1>5. \A u \in Threads : pc'[u] = "push" => u # t /\ pc[u] = "push"
  BY <1>1 DEF Shapes, ThreadShapes
<1>6. CarriedCounted(s)'
  BY <1>a, <1>1, <1>5 DEF CarriedCounted
<1>7. CarriedNext(s)'
  <2> SUFFICES ASSUME NEW u \in Threads, pc'[u] = "push", queueItem'[u].session = s,
                      Message(queueItem'[u])
               PROVE  /\ queueItem'[u].request_count = m_sessions'[s].request_count
                      /\ \A i \in 1..Len(offered') :
                             offered'[i].session = s /\ Message(offered'[i]) =>
                                 Before(offered'[i], queueItem'[u])
    BY DEF CarriedNext
  <2>1. ~(queueItem[t].session = s /\ Message(queueItem[t]))
    BY <1>1, <1>5 DEF Alone, Parses
  <2>2. /\ queueItem[u].request_count = m_sessions[s].request_count
        /\ \A i \in 1..Len(offered) :
               offered[i].session = s /\ Message(offered[i]) =>
                   Before(offered[i], queueItem[u])
    BY <1>a, <1>1, <1>5 DEF CarriedNext
  <2> QED
    BY <1>1, <1>2, <2>1, <2>2
<1> QED
  BY <1>3, <1>4, <1>6, <1>7 DEF InTurn

LEMMA FollowsStep ==
  ASSUME Shapes, FromEmitters, Follows, [Next]_vars
  PROVE  Follows'
<1> SUFFICES ASSUME removed' = 0, NEW s \in Sessions, Bound(s)
             PROVE  InTurn(s)'
  BY DEF Follows, Bound
<1>0. removed = 0 /\ removed \in Nat
  BY DEF Shapes, QueueShapes, Next, MakeNetworkEvent, OnNetworkEvent, PushSnapshot,
     SetFeatureQueue, RemoveSession, Clear, Consume, Tick, vars, bounds
<1>1. InTurn(s)
  BY <1>0 DEF Follows
<1>2. Alone(s)
  BY BoundIsAlone
<1>3. ASSUME NEW t \in Threads, NEW r \in Sessions, NEW type \in EventType,
             MakeNetworkEvent(t, r, type)
      PROVE  InTurn(s)'
  BY <1>1, <1>3, MakeInTurn
<1>4. ASSUME NEW t \in Threads, OnNetworkEvent(t) \/ PushSnapshot(t)
      PROVE  InTurn(s)'
  BY <1>1, <1>2, <1>4, CriticalInTurn, PushInTurn
<1>5. CASE (\E isSet \in BOOLEAN : SetFeatureQueue(isSet)) \/ Consume \/ Tick \/ UNCHANGED vars
  <2>1. UNCHANGED <<pc, queueItem, m_sessions, offered>>
    BY <1>5 DEF SetFeatureQueue, Consume, Tick, vars, threadVars, collector
  <2> QED
    BY <1>1, <2>1 DEF InTurn, OfferedCounted, CarriedCounted, CarriedNext, OfferedOrdered
<1>6. CASE (\E r \in Sessions : RemoveSession(r)) \/ Clear
  BY <1>0, <1>6 DEF RemoveSession, Clear
<1> QED
  BY <1>3, <1>4, <1>5, <1>6 DEF Next

\* The two orders in which a message and the summary may be offered.
LEMMA SummaryOrder ==
  ASSUME NEW state, NEW x \in Item, NEW y \in Item, AsCounted(x, state), AsCounted(y, state),
         Message(x), ~Message(y)
  PROVE  /\ Before(x, y)
         /\ x.request_count = state.request_count => Overtook(y, x)
<1>1. x.kind = "message" /\ y.kind = "summary"
  BY DEF Message, Item
<1>2. /\ x.request_count <= y.request_count /\ x.recv <= y.recv
      /\ x.error_count <= y.error_count /\ x.request_index = x.request_count
      /\ y.request_count = state.request_count
  BY <1>1 DEF AsCounted
<1>3. Before(x, y)
  BY <1>1, <1>2 DEF Before
<1> QED
  BY <1>1, <1>2, <1>3 DEF Overtook

\* A session whose completions one thread dispatches and whose entry is not
\* removed: its messages are offered in their order, with totals that never
\* decrease, although TryPush runs after the mutex is released and any other
\* thread reports errors and the close.  The summary counts them all and may
\* overtake only the last.
THEOREM PerSessionOrderHolds == Spec => []PerSessionOrder
<1> DEFINE IInv == Shapes /\ FromEmitters /\ ClosesOnce /\ Follows
<1>1. Init => IInv
  <2> SUFFICES ASSUME Init PROVE FromEmitters /\ ClosesOnce /\ Follows
    BY InitShapes
  <2>1. FromEmitters /\ ClosesOnce
    BY DEF Init, FromEmitters, ClosesOnce, Summarises, SummaryAt
  <2>2. Follows
    BY DEF Init, Follows, InTurn, OfferedCounted, CarriedCounted, CarriedNext, OfferedOrdered
  <2> QED
    BY <2>1, <2>2
<1>2. IInv /\ [Next]_vars => IInv'
  BY ShapesStep, FromEmittersStep, ClosesOnceStep, FollowsStep
<1>3. IInv => PerSessionOrder
  <2> SUFFICES ASSUME IInv, removed = 0, NEW s \in Sessions, Cardinality(Emitters[s]) = 1,
                      NEW i \in 1..Len(offered), NEW j \in 1..Len(offered), i < j,
                      offered[i].session = s, offered[j].session = s
               PROVE  Before(offered[i], offered[j]) \/ Overtook(offered[i], offered[j])
    BY DEF PerSessionOrder
  <2>1. IsFiniteSet(Emitters[s])
    BY EmittersAssumption, FS_Subset
  <2>2. PICK t : Emitters[s] = {t}
    BY <2>1, FS_Singleton
  <2>3. Bound(s)
    BY <2>2 DEF Bound
  <2>4. OfferedCounted(s) /\ OfferedOrdered(s)
    BY <2>3 DEF Follows, InTurn
  <2>5. /\ offered[i] \in Item /\ offered[j] \in Item
        /\ AsCounted(offered[i], m_sessions[s]) /\ AsCounted(offered[j], m_sessions[s])
    BY <2>4 DEF OfferedCounted, Shapes, QueueShapes
  <2>6. CASE Message(offered[i]) /\ Message(offered[j])
    BY <2>4, <2>6 DEF OfferedOrdered
  <2>7. CASE Message(offered[i]) /\ ~Message(offered[j])
    BY <2>5, <2>7, SummaryOrder
  <2>8. CASE ~Message(offered[i]) /\ Message(offered[j])
    <3>1. offered[j].request_count = m_sessions[s].request_count
      BY <2>4, <2>8 DEF OfferedOrdered
    <3> QED
      BY <2>5, <2>8, <3>1, SummaryOrder
  <2>9. CASE ~Message(offered[i]) /\ ~Message(offered[j])
    <3>1. SummaryAt(i, s) /\ SummaryAt(j, s)
      BY <2>5, <2>9 DEF SummaryAt, Message, Item
    <3>2. i = j
      BY <3>1 DEF ClosesOnce
    <3> QED
      BY <3>2
  <2> QED
    BY <2>6, <2>7, <2>8, <2>9
<1> HIDE DEF IInv
<1> QED
  BY <1>1, <1>2, <1>3, PTL DEF Spec
-----------------------------------------------------------------------------
(* What the API makes of the snapshots *)

\* No duration or interval of an entry is negative, and the first message
\* has no interval.
InOrder(state) ==
    /\ state.duration >= 0 /\ state.interval >= 0 /\ state.interval_sum >= 0
    /\ state.request_count <= 1 => state.interval = 0

\* Event e was made after the entry was, and a packet after the one before
\* it: an error or a close of another thread may be older than that.
After(e, state) ==
    /\ state.start <= e.time
    /\ e.type = "PacketParsed" => state.last_message_time <= e.time

Notifies(t, s) == pc[t] = "notify" /\ event[t].session = s

\* The entry of a session whose completions one thread dispatches is older
\* than the events under way.
Timed(s) ==
    /\ m_sessions[s].exists =>
           /\ InOrder(m_sessions[s])
           /\ m_sessions[s].start <= now /\ m_sessions[s].last_message_time <= now
    /\ \A t \in Threads : Notifies(t, s) =>
           /\ 0 <= event[t].time /\ event[t].time <= now
           /\ m_sessions[s].exists => After(event[t], m_sessions[s])

\* The first event of a session is under way alone.
OneOpens ==
    \A s \in Sessions :
        /\ phase[s] = "new" => \A t \in Threads : ~Notifies(t, s)
        /\ \A t, u \in Threads :
               /\ Notifies(t, s) /\ Notifies(u, s)
               /\ phase[s] = "unused" \/ event[t].type = "SessionStarted"
               => t = u

\* Only SessionClosed closes an entry, and nothing else is under way while
\* SessionStarted is: so a session that was started is known to be.
StartKnown ==
    /\ \A s \in Sessions :
           m_sessions[s].exists /\ m_sessions[s].is_closed => phase[s] \in {"closed", "unused"}
    /\ \A t \in Threads : pc[t] = "notify" /\ event[t].type = "SessionStarted" =>
           phase[event[t].session] = "started"
    /\ \A s \in Sessions : removed = 0 /\ phase[s] \in {"started", "closed"} =>
           \/ m_sessions[s].exists /\ m_sessions[s].is_started
           \/ \E t \in Threads : /\ pc[t] = "notify" /\ event[t].session = s
                                 /\ event[t].type = "SessionStarted"

\* What a snapshot must say to be accepted, or why it cannot.
Valid(x) ==
    /\ x.duration >= 0 /\ x.interval >= 0 /\ x.interval_sum >= 0
    /\ x.kind = "message" => x.request_index >= 1 /\ (x.request_index = 1 => x.interval = 0)
    /\ x.kind = "summary" => x.is_closed

Explained(x) ==
    x.kind = "summary" /\ ~x.is_started => phase[x.session] = "unused"

SnapshotsValid ==
    /\ \A i \in 1..Len(offered) : /\ Explained(offered[i])
                                  /\ Bound(offered[i].session) => Valid(offered[i])
    /\ \A t \in Threads : pc[t] = "push" =>
           /\ Explained(queueItem[t])
           /\ Bound(queueItem[t].session) => Valid(queueItem[t])

ValidInv ==
    removed = 0 => (\A s \in Sessions : Bound(s) => Timed(s)) /\ SnapshotsValid

\* A handler run at a time that is not before the entry keeps it in order.
LEMMA HandleTimes ==
  ASSUME NEW state \in Entry, NEW e, EventShape(e), InOrder(state), After(e, state)
  PROVE  /\ InOrder(Handle(state, e))
         /\ Handle(state, e).start =
                IF e.type = "SessionStarted" THEN e.time ELSE state.start
         /\ Handle(state, e).last_message_time =
                IF e.type = "PacketParsed" THEN e.time ELSE state.last_message_time
<1> USE DEF EventShape
<1> DEFINE new == Handle(state, e)
           Keeps(x, y) == /\ x.last_message_time = y.last_message_time
                          /\ x.interval = y.interval /\ x.interval_sum = y.interval_sum
                          /\ x.request_count = y.request_count
           timed == UpdateConnectionDurationLocked(state, e)
<1>1. /\ state.start \in Int /\ state.last_message_time \in Int /\ e.time \in Int
      /\ state.interval \in Int /\ state.interval_sum \in Int /\ state.request_count \in Nat
      /\ state.start <= e.time
      /\ e.type = "PacketParsed" => state.last_message_time <= e.time
      /\ state.interval >= 0 /\ state.interval_sum >= 0
      /\ state.request_count <= 1 => state.interval = 0
  BY DEF Entry, InOrder, After
<1>2. timed = [state EXCEPT !.duration = e.time - state.start]
  BY DEF UpdateConnectionDurationLocked
<1> HIDE DEF timed
<1>3. /\ timed.start = state.start /\ timed.duration = e.time - state.start
      /\ Keeps(timed, state)
      /\ timed = [f \in DOMAIN state |-> timed[f]] /\ DOMAIN timed = DOMAIN state
  BY <1>2 DEF Entry
<1>4. CASE e.type = "SessionStarted"
  <2> DEFINE opened == [state EXCEPT !.is_started = TRUE, !.start = e.time]
  <2>1. new = [opened EXCEPT !.duration = e.time - opened.start]
    BY <1>4 DEF Handle, HandleSessionStartedLocked, UpdateConnectionDurationLocked
  <2>2. /\ opened.start = e.time /\ Keeps(opened, state)
        /\ opened = [f \in DOMAIN state |-> opened[f]]
    BY DEF Entry
  <2> HIDE DEF opened
  <2>3. new.start = e.time /\ new.duration = 0 /\ Keeps(new, state)
    BY <1>1, <2>1, <2>2 DEF Entry
  <2> QED
    BY <1>1, <1>4, <2>3 DEF InOrder
<1>5. CASE e.type \in {"SessionClosed", "RecvCompleted", "SendCompleted", "ProtocolError"}
  <2>1. \/ new = [timed EXCEPT !.is_closed = TRUE]
        \/ new = [timed EXCEPT !.recv = @ + 1]
        \/ new = [timed EXCEPT !.send = @ + 1]
        \/ new = [timed EXCEPT !.error_count = @ + 1]
    BY <1>5 DEF Handle, HandleSessionClosedLocked, HandleRecvCompletedLocked,
                HandleSendCompletedLocked, HandleProtocolErrorLocked, timed
  <2>2. new.start = timed.start /\ new.duration = timed.duration /\ Keeps(new, timed)
    BY <1>3, <2>1 DEF Entry
  <2> HIDE DEF new
  <2>3. InOrder(new)
    BY <1>1, <1>3, <2>2 DEF InOrder
  <2> QED
    BY <1>3, <1>5, <2>2, <2>3 DEF new
<1>6. CASE e.type = "PacketParsed"
  <2> DEFINE interval == IF timed.request_count > 0
                         THEN e.time - timed.last_message_time ELSE 0
  <2>1. new = [timed EXCEPT !.request_count = timed.request_count + 1,
                            !.interval = interval,
                            !.interval_sum = timed.interval_sum + interval,
                            !.last_message_time = e.time]
    BY <1>6 DEF Handle, HandlePacketParsedLocked, timed
  <2>2. /\ interval \in Int /\ interval >= 0
        /\ timed.request_count = 0 => interval = 0
    BY <1>1, <1>3, <1>6
  <2> HIDE DEF interval
  <2>3. /\ new.start = timed.start /\ new.duration = timed.duration
        /\ new.request_count = timed.request_count + 1 /\ new.interval = interval
        /\ new.interval_sum = timed.interval_sum + interval
        /\ new.last_message_time = e.time
    BY <1>3, <2>1 DEF Entry
  <2> HIDE DEF new
  <2>4. InOrder(new)
    BY <1>1, <1>3, <2>2, <2>3 DEF InOrder
  <2> QED
    BY <1>3, <1>6, <2>3, <2>4 DEF new
<1> QED
  BY <1>4, <1>5, <1>6 DEF EventType

\* Only SessionStarted starts an entry, and nothing takes it back.
LEMMA HandleStarted ==
  ASSUME NEW state \in Entry, NEW e, EventShape(e)
  PROVE  Handle(state, e).is_started = (state.is_started \/ e.type = "SessionStarted")
<1> USE DEF EventShape
<1> DEFINE new == Handle(state, e)
           timed == UpdateConnectionDurationLocked(state, e)
<1>1. timed = [state EXCEPT !.duration = e.time - state.start]
  BY DEF UpdateConnectionDurationLocked
<1> HIDE DEF timed
<1>2. /\ timed.is_started = state.is_started /\ state.is_started \in BOOLEAN
      /\ timed = [f \in DOMAIN state |-> timed[f]] /\ DOMAIN timed = DOMAIN state
  BY <1>1 DEF Entry
<1>3. CASE e.type = "SessionStarted"
  <2> DEFINE opened == [state EXCEPT !.is_started = TRUE, !.start = e.time]
  <2>1. new = [opened EXCEPT !.duration = e.time - opened.start]
    BY <1>3 DEF Handle, HandleSessionStartedLocked, UpdateConnectionDurationLocked
  <2>2. opened.is_started = TRUE /\ opened = [f \in DOMAIN state |-> opened[f]]
    BY DEF Entry
  <2> HIDE DEF opened
  <2> QED
    BY <1>3, <2>1, <2>2 DEF Entry
<1>4. CASE e.type \in EventType \ {"SessionStarted", "PacketParsed"}
  <2>1. \/ new = [timed EXCEPT !.is_closed = TRUE]
        \/ new = [timed EXCEPT !.recv = @ + 1]
        \/ new = [timed EXCEPT !.send = @ + 1]
        \/ new = [timed EXCEPT !.error_count = @ + 1]
    BY <1>4 DEF EventType, Handle, HandleSessionClosedLocked, HandleRecvCompletedLocked,
                HandleSendCompletedLocked, HandleProtocolErrorLocked, timed
  <2>2. new.is_started = timed.is_started
    BY <1>2, <2>1 DEF Entry
  <2> QED
    BY <1>2, <1>4, <2>2
<1>5. CASE e.type = "PacketParsed"
  <2> DEFINE interval == IF timed.request_count > 0
                         THEN e.time - timed.last_message_time ELSE 0
  <2>1. new = [timed EXCEPT !.request_count = timed.request_count + 1,
                            !.interval = interval,
                            !.interval_sum = timed.interval_sum + interval,
                            !.last_message_time = e.time]
    BY <1>5 DEF Handle, HandlePacketParsedLocked, timed
  <2> HIDE DEF interval
  <2>2. new.is_started = timed.is_started
    BY <1>2, <2>1 DEF Entry
  <2> QED
    BY <1>2, <1>5, <2>2
<1> QED
  BY <1>3, <1>4, <1>5

\* The entry an event of such a session finds is not later than it.
LEMMA FoundTimed ==
  ASSUME Shapes, NEW t \in Threads, pc[t] = "notify", Timed(event[t].session)
  PROVE  LET found == GetOrCreateSessionLocked(event[t])
         IN  /\ InOrder(found) /\ After(event[t], found)
             /\ found.last_message_time <= now
             /\ event[t].time \in Int /\ 0 <= event[t].time /\ event[t].time <= now
<1> DEFINE e == event[t]
<1>1. EventShape(e) /\ 0 <= e.time /\ e.time <= now /\ now \in Nat
  BY DEF Shapes, ThreadShapes, QueueShapes, Timed, Notifies
<1>2. CASE m_sessions[e.session].exists
  <2>1. /\ InOrder(m_sessions[e.session]) /\ After(e, m_sessions[e.session])
        /\ m_sessions[e.session].last_message_time <= now
    BY <1>2 DEF Timed, Notifies
  <2> QED
    BY <1>1, <1>2, <2>1 DEF GetOrCreateSessionLocked, EventShape
<1>3. CASE ~m_sessions[e.session].exists
  <2>1. /\ InOrder(NewSession(e)) /\ After(e, NewSession(e))
        /\ NewSession(e).last_message_time <= now
    BY <1>1 DEF InOrder, After, NewSession, EventShape
  <2> QED
    BY <1>1, <1>3, <2>1 DEF GetOrCreateSessionLocked, EventShape
<1> QED
  BY <1>2, <1>3

LEMMA OneOpensStep ==
  ASSUME Shapes, OneOpens, [Next]_vars
  PROVE  OneOpens'
<1>1. ASSUME NEW t \in Threads, NEW r \in Sessions, NEW type \in EventType,
             MakeNetworkEvent(t, r, type)
      PROVE  OneOpens'
  <2>1. /\ pc[t] = "idle" /\ event'[t].session = r /\ event'[t].type = type
        /\ \A u \in Threads \ {t} : pc'[u] = pc[u] /\ event'[u] = event[u]
        /\ \A s \in Sessions \ {r} : phase'[s] = phase[s]
    BY <1>1 DEF MakeNetworkEvent, Shapes, ThreadShapes, SessionShapes
  <2>2. /\ phase[r] # "unused" /\ phase'[r] # "new"
        /\ type = "SessionStarted" \/ phase'[r] = "unused" => phase[r] = "new"
    BY <1>1 DEF MakeNetworkEvent, Possible, Shapes, SessionShapes, EventType
  <2>3. \A u \in Threads : ~(Notifies(u, r) /\ event[u].type = "SessionStarted")
    BY <1>1 DEF MakeNetworkEvent, Notifies
  <2>4. \A u \in Threads, s \in Sessions :
            Notifies(u, s)' => (u = t /\ s = r) \/ (u # t /\ Notifies(u, s))
    BY <2>1 DEF Notifies
  <2> SUFFICES ASSUME NEW s \in Sessions
               PROVE  /\ phase'[s] = "new" => \A u \in Threads : ~Notifies(u, s)'
                      /\ \A v, u \in Threads :
                             /\ Notifies(v, s)' /\ Notifies(u, s)'
                             /\ phase'[s] = "unused" \/ event'[v].type = "SessionStarted"
                             => v = u
    BY DEF OneOpens
  <2>5. CASE s # r
    BY <2>1, <2>4, <2>5 DEF OneOpens
  <2>6. CASE s = r
    <3>1. ASSUME NEW v \in Threads, NEW u \in Threads, Notifies(v, s)', Notifies(u, s)',
                 phase'[s] = "unused" \/ event'[v].type = "SessionStarted"
          PROVE  v = u
      <4>1. CASE phase[r] = "new"
        BY <2>4, <2>6, <3>1, <4>1 DEF OneOpens
      <4>2. CASE phase[r] # "new"
        <5>1. event'[v].type = "SessionStarted" /\ type # "SessionStarted"
          BY <2>2, <2>6, <3>1, <4>2
        <5>2. v # t
          BY <2>1, <5>1
        <5>3. Notifies(v, r) /\ event[v].type = "SessionStarted"
          BY <2>1, <2>4, <2>6, <3>1, <5>1, <5>2
        <5> QED
          BY <2>3, <5>3
      <4> QED
        BY <4>1, <4>2
    <3> QED
      BY <2>2, <2>6, <3>1
  <2> QED
    BY <2>5, <2>6
<1>2. ASSUME NEW t \in Threads, OnNetworkEvent(t) \/ PushSnapshot(t)
      PROVE  OneOpens'
  <2>1. CASE OnNetworkEvent(t)
    <3>1. \A u \in Threads : pc'[u] = "notify" => pc[u] = "notify"
      BY <2>1, CriticalFacts DEF Shapes, ThreadShapes
    <3>2. event' = event /\ phase' = phase
      BY <2>1 DEF OnNetworkEvent
    <3> QED
      BY <3>1, <3>2 DEF OneOpens, Notifies
  <2>2. CASE PushSnapshot(t)
    <3>1. \A u \in Threads : pc'[u] = "notify" => pc[u] = "notify"
      BY <2>2, PushFacts DEF Shapes, ThreadShapes
    <3>2. event' = event /\ phase' = phase
      BY <2>2, PushFacts
    <3> QED
      BY <3>1, <3>2 DEF OneOpens, Notifies
  <2> QED
    BY <1>2, <2>1, <2>2
<1>3. CASE \/ \E isSet \in BOOLEAN : SetFeatureQueue(isSet)
           \/ \E r \in Sessions : RemoveSession(r)
           \/ Clear \/ Consume \/ Tick \/ UNCHANGED vars
  <2>1. UNCHANGED <<pc, event, phase>>
    BY <1>3 DEF SetFeatureQueue, RemoveSession, Clear, Consume, Tick, vars, threadVars
  <2> QED
    BY <2>1 DEF OneOpens, Notifies
<1> QED
  BY <1>1, <1>2, <1>3 DEF Next

\* The entry of a session is made, and its start set, by an event that no
\* other event of the session passes.
LEMMA OpensAlone ==
  ASSUME Shapes, OneOpens, StartKnown, removed = 0, NEW t \in Threads, NEW s \in Sessions,
         Notifies(t, s),
         event[t].type = "SessionStarted" \/ ~m_sessions[s].exists,
         NEW u \in Threads, Notifies(u, s)
  PROVE  t = u
<1>1. phase[s] \in {"new", "started", "closed", "unused"}
  BY DEF Shapes, SessionShapes
<1>2. CASE event[t].type = "SessionStarted" \/ phase[s] = "unused"
  BY <1>2 DEF OneOpens
<1>3. CASE event[t].type # "SessionStarted" /\ phase[s] # "unused"
  <2>1. phase[s] \in {"started", "closed"}
    BY <1>1, <1>3 DEF OneOpens
  <2>2. PICK v \in Threads : Notifies(v, s) /\ event[v].type = "SessionStarted"
    BY <1>3, <2>1 DEF StartKnown, Notifies
  <2>3. v = t
    BY <2>2 DEF OneOpens
  <2> QED
    BY <1>3, <2>2, <2>3
<1> QED
  BY <1>2, <1>3

LEMMA TimedStep ==
  ASSUME Shapes, FromEmitters, OneOpens, StartKnown, removed = 0, removed' = 0,
         NEW s \in Sessions, Bound(s), Timed(s), [Next]_vars
  PROVE  Timed(s)'
<1>0. now \in Nat /\ \A r \in Sessions : m_sessions[r].exists => m_sessions[r] \in Entry
  BY DEF Shapes, QueueShapes, SessionShapes, NoSession
<1>1. ASSUME NEW t \in Threads, NEW r \in Sessions, NEW type \in EventType,
             MakeNetworkEvent(t, r, type)
      PROVE  Timed(s)'
  <2>1. /\ event'[t] = [session |-> r, type |-> type, time |-> now]
        /\ \A u \in Threads \ {t} : pc'[u] = pc[u] /\ event'[u] = event[u]
        /\ UNCHANGED <<m_sessions, now>>
    BY <1>1 DEF MakeNetworkEvent, Shapes, ThreadShapes, collector
  <2>2. ASSUME NEW u \in Threads, Notifies(u, s)'
        PROVE  /\ 0 <= event'[u].time /\ event'[u].time <= now
               /\ m_sessions[s].exists => After(event'[u], m_sessions[s])
    <3>1. CASE u = t
      BY <1>0, <2>1, <3>1 DEF Timed, After
    <3>2. CASE u # t
      BY <2>1, <2>2, <3>2 DEF Timed, Notifies
    <3> QED
      BY <3>1, <3>2
  <2> QED
    BY <2>1, <2>2 DEF Timed
<1>2. ASSUME NEW t \in Threads, OnNetworkEvent(t)
      PROVE  Timed(s)'
  <2> DEFINE e == event[t]
             found == GetOrCreateSessionLocked(e)
             state == m_sessions'[e.session]
  <2>1. /\ pc[t] = "notify" /\ EventShape(e) /\ found \in Entry /\ state \in Entry
        /\ m_sessions' = [m_sessions EXCEPT ![e.session] = state]
        /\ found.is_closed => state = found
        /\ ~found.is_closed => state = Handle(found, e)
        /\ \/ pc' = [pc EXCEPT ![t] = "idle"]
           \/ pc' = [pc EXCEPT ![t] = "push"]
    BY <1>2, CriticalFacts
  <2>2. event' = event /\ now' = now
    BY <1>2 DEF OnNetworkEvent
  <2>3. /\ pc'[t] # "notify"
        /\ \A u \in Threads \ {t} : pc'[u] = pc[u]
        /\ \A r \in Sessions \ {e.session} : m_sessions'[r] = m_sessions[r]
    BY <2>1 DEF Shapes, ThreadShapes, SessionShapes, EventShape
  <2>4. CASE e.session # s
    <3>1. m_sessions'[s] = m_sessions[s]
      BY <2>3, <2>4
    <3>2. \A u \in Threads : Notifies(u, s)' => Notifies(u, s)
      BY <2>2, <2>3 DEF Notifies
    <3> QED
      BY <2>2, <3>1, <3>2 DEF Timed
  <2>5. CASE e.session = s
    <3>1. /\ InOrder(found) /\ After(e, found) /\ found.last_message_time <= now
          /\ e.time \in Int /\ e.time <= now
      BY <2>1, <2>5, FoundTimed
    <3>2. /\ InOrder(state)
          /\ state.start \in {found.start, e.time}
          /\ e.type # "SessionStarted" => state.start = found.start
          /\ state.last_message_time \in {found.last_message_time, e.time}
          /\ e.type # "PacketParsed" => state.last_message_time = found.last_message_time
      BY <2>1, <3>1, HandleTimes
    <3>3. found.start <= e.time /\ found.start \in Int /\ found.last_message_time \in Int
      BY <2>1, <3>1 DEF After, Entry
    <3>4. state.start <= now /\ state.last_message_time <= now
      BY <1>0, <3>1, <3>2, <3>3
    <3>5. ASSUME NEW u \in Threads, Notifies(u, s)'
          PROVE  /\ 0 <= event[u].time /\ event[u].time <= now
                 /\ After(event[u], state)
      <4>1. u # t /\ Notifies(u, s) /\ Notifies(t, s)
        BY <2>1, <2>2, <2>3, <2>5, <3>5 DEF Notifies
      <4>2. e.type # "SessionStarted" /\ m_sessions[s].exists
        BY <4>1, OpensAlone
      <4>3. found = m_sessions[s]
        BY <2>5, <4>2 DEF GetOrCreateSessionLocked
      <4>4. /\ 0 <= event[u].time /\ event[u].time <= now
            /\ After(event[u], found)
        BY <4>1, <4>2, <4>3 DEF Timed
      <4>5. event[u].type = "PacketParsed" => e.type # "PacketParsed"
        BY <2>1, <2>5, <4>1 DEF FromEmitters, Bound, OfCompletion, Notifies
      <4> QED
        BY <3>2, <4>2, <4>4, <4>5 DEF After
    <3> QED
      BY <2>2, <2>5, <3>2, <3>4, <3>5 DEF Timed
  <2> QED
    BY <2>4, <2>5
<1>3. ASSUME NEW t \in Threads, PushSnapshot(t)
      PROVE  Timed(s)'
  <2>1. /\ \A u \in Threads : pc'[u] = "notify" => pc[u] = "notify"
        /\ UNCHANGED <<m_sessions, event, now>>
    BY <1>3, PushFacts DEF Shapes, ThreadShapes, collector
  <2> QED
    BY <2>1 DEF Timed, Notifies
<1>4. CASE (\E isSet \in BOOLEAN : SetFeatureQueue(isSet)) \/ Consume \/ UNCHANGED vars
  <2>1. UNCHANGED <<pc, event, m_sessions, now>>
    BY <1>4 DEF SetFeatureQueue, Consume, vars, threadVars, collector
  <2> QED
    BY <2>1 DEF Timed, Notifies
<1>5. CASE (\E r \in Sessions : RemoveSession(r)) \/ Clear
  BY <1>5 DEF RemoveSession, Clear
<1>6. CASE Tick
  <2>1. UNCHANGED <<pc, event, m_sessions>> /\ now' = now + 1
    BY <1>6 DEF Tick, threadVars, collector
  <2>2. m_sessions[s].exists =>
            /\ InOrder(m_sessions[s]) /\ m_sessions[s].start <= now + 1
            /\ m_sessions[s].last_message_time <= now + 1
    <3>1. m_sessions[s].exists =>
              /\ InOrder(m_sessions[s]) /\ m_sessions[s].start <= now
              /\ m_sessions[s].last_message_time <= now
      BY DEF Timed
    <3>2. m_sessions[s].exists =>
              m_sessions[s].start \in Int /\ m_sessions[s].last_message_time \in Int
      BY <1>0 DEF Entry
    <3> QED
      BY <1>0, <3>1, <3>2
  <2>3. \A t \in Threads : Notifies(t, s) =>
            /\ 0 <= event[t].time /\ event[t].time <= now + 1
            /\ m_sessions[s].exists => After(event[t], m_sessions[s])
    BY <1>0 DEF Timed, Notifies, Shapes, ThreadShapes, EventShape
  <2> QED
    BY <2>1, <2>2, <2>3 DEF Timed, Notifies
<1> QED
  BY <1>1, <1>2, <1>3, <1>4, <1>5, <1>6 DEF Next

\* Start returns from its notification before anything else of the session
\* is reported, so the entry has seen it unless it was removed since.
LEMMA StartKnownStep ==
  ASSUME Shapes, ClosesOnce, StartKnown, [Next]_vars
  PROVE  StartKnown'
<1> DEFINE Starts(t, s) == /\ pc[t] = "notify" /\ event[t].session = s
                           /\ event[t].type = "SessionStarted"
<1>0. /\ phase \in [Sessions -> {"new", "started", "closed", "unused"}]
      /\ \A t \in Threads : pc[t] = "notify" => event[t].session \in Sessions
  BY DEF Shapes, SessionShapes, ThreadShapes, EventShape
<1>1. ASSUME NEW t \in Threads, NEW r \in Sessions, NEW type \in EventType,
             MakeNetworkEvent(t, r, type)
      PROVE  StartKnown'
  <2>1. /\ pc[t] = "idle" /\ pc'[t] = "notify"
        /\ event'[t].session = r /\ event'[t].type = type
        /\ \A u \in Threads \ {t} : pc'[u] = pc[u] /\ event'[u] = event[u]
        /\ UNCHANGED <<m_sessions, removed>>
    BY <1>1 DEF MakeNetworkEvent, Shapes, ThreadShapes, collector
  <2>2. /\ \A s \in Sessions \ {r} : phase'[s] = phase[s]
        /\ phase[r] \in {"closed", "unused"} => phase'[r] = phase[r]
        /\ phase'[r] \in {"started", "closed"} =>
               phase[r] \in {"started", "closed"} \/ type = "SessionStarted"
        /\ type = "SessionStarted" => phase'[r] = "started"
    BY <1>0, <1>1 DEF MakeNetworkEvent, Possible, EventType
  <2>3. \A u \in Threads : ~Starts(u, r)
    BY <1>1 DEF MakeNetworkEvent
  <2>4. \A s \in Sessions :
            m_sessions'[s].exists /\ m_sessions'[s].is_closed => phase'[s] \in {"closed", "unused"}
    BY <2>1, <2>2 DEF StartKnown
  <2>5. \A u \in Threads : pc'[u] = "notify" /\ event'[u].type = "SessionStarted" =>
            phase'[event'[u].session] = "started"
    BY <1>0, <2>1, <2>2, <2>3 DEF StartKnown
  <2>6. ASSUME NEW s \in Sessions, removed' = 0, phase'[s] \in {"started", "closed"}
        PROVE  \/ m_sessions'[s].exists /\ m_sessions'[s].is_started
               \/ \E u \in Threads : Starts(u, s)'
    <3>1. CASE s = r /\ type = "SessionStarted"
      BY <2>1, <3>1
    <3>2. CASE ~(s = r /\ type = "SessionStarted")
      <4>1. phase[s] \in {"started", "closed"}
        BY <2>2, <2>6, <3>2
      <4>2. CASE m_sessions[s].exists /\ m_sessions[s].is_started
        BY <2>1, <4>2
      <4>3. CASE \E u \in Threads : Starts(u, s)
        BY <2>1, <2>3, <4>3
      <4> QED
        BY <2>1, <2>6, <4>1, <4>2, <4>3 DEF StartKnown
    <3> QED
      BY <3>1, <3>2
  <2> QED
    BY <2>4, <2>5, <2>6 DEF StartKnown
<1>2. ASSUME NEW t \in Threads, OnNetworkEvent(t)
      PROVE  StartKnown'
  <2> DEFINE e == event[t]
             found == GetOrCreateSessionLocked(e)
             state == m_sessions'[e.session]
  <2>1. /\ pc[t] = "notify" /\ EventShape(e) /\ found \in Entry /\ state \in Entry
        /\ m_sessions' = [m_sessions EXCEPT ![e.session] = state]
        /\ found.is_closed => state = found
        /\ ~found.is_closed => state = Handle(found, e)
        /\ \/ pc' = [pc EXCEPT ![t] = "idle"]
           \/ pc' = [pc EXCEPT ![t] = "push"]
    BY <1>2, CriticalFacts
  <2>2. event' = event /\ phase' = phase /\ removed' = removed
    BY <1>2 DEF OnNetworkEvent, bounds
  <2>3. /\ pc'[t] # "notify"
        /\ \A u \in Threads \ {t} : pc'[u] = pc[u]
        /\ \A r \in Sessions \ {e.session} : m_sessions'[r] = m_sessions[r]
        /\ e.session \in Sessions
    BY <2>1 DEF Shapes, ThreadShapes, SessionShapes, EventShape
  <2>4. found.is_closed => m_sessions[e.session].exists /\ m_sessions[e.session].is_closed
    BY DEF GetOrCreateSessionLocked, NewSession
  <2>5. found.is_closed => phase[e.session] \in {"closed", "unused"}
    BY <2>3, <2>4 DEF StartKnown
  <2>6. state.is_closed => phase[e.session] \in {"closed", "unused"}
    <3>1. CASE found.is_closed
      BY <2>5, <3>1
    <3>2. CASE ~found.is_closed
      <4>1. state.is_closed => e.type = "SessionClosed"
        BY <2>1, <3>2, HandleFacts
      <4>2. e.type = "SessionClosed" => Summarises(t, e.session)
        BY <2>1 DEF Summarises
      <4> QED
        BY <2>3, <4>1, <4>2 DEF ClosesOnce
    <3> QED
      BY <3>1, <3>2
  <2>7. Starts(t, e.session) => state.is_started
    <3> SUFFICES ASSUME e.type = "SessionStarted" PROVE state.is_started
      OBVIOUS
    <3>1. phase[e.session] = "started"
      BY <2>1 DEF StartKnown
    <3>2. ~found.is_closed
      BY <2>5, <3>1
    <3>3. Handle(found, e).is_started
      BY <2>1, HandleStarted
    <3> QED
      BY <2>1, <3>2, <3>3
  <2>8. m_sessions[e.session].exists /\ m_sessions[e.session].is_started => state.is_started
    <3> SUFFICES ASSUME m_sessions[e.session].exists, m_sessions[e.session].is_started
                 PROVE  state.is_started
      OBVIOUS
    <3>1. found.is_started
      BY DEF GetOrCreateSessionLocked
    <3>2. Handle(found, e).is_started
      BY <2>1, <3>1, HandleStarted
    <3> QED
      BY <2>1, <3>1, <3>2
  <2>9. state.exists
    BY <2>1 DEF Entry
  <2>10. \A s \in Sessions :
            m_sessions'[s].exists /\ m_sessions'[s].is_closed => phase'[s] \in {"closed", "unused"}
    <3> HIDE DEF e, state, found
    <3> QED
      BY <2>2, <2>3, <2>6 DEF StartKnown, state
  <2>11. \A u \in Threads : pc'[u] = "notify" /\ event'[u].type = "SessionStarted" =>
            phase'[event'[u].session] = "started"
    BY <2>2, <2>3 DEF StartKnown
  <2>12. ASSUME NEW s \in Sessions, removed' = 0, phase'[s] \in {"started", "closed"}
         PROVE  \/ m_sessions'[s].exists /\ m_sessions'[s].is_started
                \/ \E u \in Threads : Starts(u, s)'
    <3>1. \/ m_sessions[s].exists /\ m_sessions[s].is_started
          \/ \E u \in Threads : Starts(u, s)
      BY <2>2, <2>12 DEF StartKnown
    <3>2. CASE s = e.session /\ state.is_started
      BY <2>9, <3>2
    <3>3. CASE s # e.session /\ m_sessions[s].exists /\ m_sessions[s].is_started
      BY <2>3, <3>3
    <3>4. CASE \E u \in Threads \ {t} : Starts(u, s)
      BY <2>2, <2>3, <3>4
    <3> QED
      BY <2>7, <2>8, <3>1, <3>2, <3>3, <3>4
  <2> QED
    BY <2>10, <2>11, <2>12 DEF StartKnown
<1>3. ASSUME NEW t \in Threads, PushSnapshot(t)
      PROVE  StartKnown'
  <2>1. /\ \A u \in Threads : pc'[u] = "notify" <=> pc[u] = "notify"
        /\ UNCHANGED <<m_sessions, event, phase, removed>>
    BY <1>3, PushFacts DEF Shapes, ThreadShapes, collector, bounds
  <2> QED
    BY <2>1 DEF StartKnown
<1>4. CASE (\E isSet \in BOOLEAN : SetFeatureQueue(isSet)) \/ Consume \/ Tick \/ UNCHANGED vars
  <2>1. UNCHANGED <<pc, event, m_sessions, phase, removed>>
    BY <1>4 DEF SetFeatureQueue, Consume, Tick, vars, threadVars, collector, bounds
  <2> QED
    BY <2>1 DEF StartKnown
<1>5. CASE (\E r \in Sessions : RemoveSession(r)) \/ Clear
  <2>1. /\ UNCHANGED <<pc, event, phase>> /\ removed' # 0
        /\ \A s \in Sessions : m_sessions'[s].exists => m_sessions'[s] = m_sessions[s]
    BY <1>5 DEF RemoveSession, Clear, NoSession, threadVars, Shapes, SessionShapes, QueueShapes
  <2> QED
    BY <2>1 DEF StartKnown
<1> QED
  BY <1>1, <1>2, <1>3, <1>4, <1>5 DEF Next

\* What a handler leaves in order makes a snapshot in order.
LEMMA SnapshotValid ==
  ASSUME NEW state \in Entry, NEW e, EventShape(e), InOrder(state),
         e.type = "PacketParsed" => state.request_count >= 1,
         e.type = "SessionClosed" => state.is_closed,
         e.type \in {"PacketParsed", "SessionClosed"}
  PROVE  Valid(Snapshot(state, e))
<1> DEFINE x == Snapshot(state, e)
<1>1. /\ x.kind = IF e.type = "PacketParsed" THEN "message" ELSE "summary"
      /\ x.request_index = IF e.type = "PacketParsed" THEN state.request_count ELSE 0
      /\ x.duration = state.duration /\ x.interval = state.interval
      /\ x.interval_sum = state.interval_sum /\ x.is_closed = state.is_closed
  BY DEF Snapshot
<1>2. state.request_count \in Nat
  BY DEF Entry
<1> HIDE DEF x
<1>3. Valid(x)
  BY <1>1, <1>2 DEF InOrder, Valid
<1> QED
  BY <1>3 DEF x

LEMMA SnapshotsValidStep ==
  ASSUME Shapes, ClosesOnce, StartKnown, ValidInv, removed = 0, removed' = 0, [Next]_vars
  PROVE  SnapshotsValid'
<1>a. SnapshotsValid
  BY DEF ValidInv
<1>b. \A x \in Item : x.session \in Sessions
  BY DEF Item
<1>0. /\ phase \in [Sessions -> {"new", "started", "closed", "unused"}]
      /\ \A i \in 1..Len(offered) : offered[i].session \in Sessions
      /\ \A t \in Threads : pc[t] = "push" => queueItem[t].session \in Sessions
  BY <1>b DEF Shapes, SessionShapes, QueueShapes, ThreadShapes
<1>1. ASSUME NEW t \in Threads, NEW r \in Sessions, NEW type \in EventType,
             MakeNetworkEvent(t, r, type)
      PROVE  SnapshotsValid'
  <2>1. /\ \A u \in Threads : pc'[u] = "push" => pc[u] = "push"
        /\ UNCHANGED <<queueItem, offered>>
    BY <1>1 DEF MakeNetworkEvent, Shapes, ThreadShapes
  <2>2. \A s \in Sessions : phase[s] = "unused" => phase'[s] = "unused"
    BY <1>a, <1>0, <1>1 DEF MakeNetworkEvent, Possible
  <2> QED
    BY <1>a, <1>0, <2>1, <2>2 DEF SnapshotsValid, Explained
<1>2. ASSUME NEW t \in Threads, OnNetworkEvent(t)
      PROVE  SnapshotsValid'
  <2> DEFINE e == event[t]
             found == GetOrCreateSessionLocked(e)
             state == m_sessions'[e.session]
  <2>1. /\ pc[t] = "notify" /\ EventShape(e) /\ found \in Entry /\ state \in Entry
        /\ ~found.is_closed => state = Handle(found, e)
        /\ \/ pc' = [pc EXCEPT ![t] = "idle"] /\ queueItem' = queueItem
           \/ /\ pc' = [pc EXCEPT ![t] = "push"] /\ ~found.is_closed
              /\ queueItem' = [queueItem EXCEPT ![t] = Snapshot(state, e)]
              /\ e.type \in {"PacketParsed", "SessionClosed"}
    BY <1>2, CriticalFacts
  <2>2. UNCHANGED <<offered, phase>>
    BY <1>2 DEF OnNetworkEvent
  <2>3. \A i \in 1..Len(offered') : /\ Explained(offered[i])'
                                    /\ Bound(offered'[i].session) => Valid(offered'[i])
    BY <1>a, <1>0, <2>2 DEF SnapshotsValid, Explained
  <2>4. \A u \in Threads \ {t} : pc'[u] = pc[u] /\ queueItem'[u] = queueItem[u]
    BY <2>1 DEF Shapes, ThreadShapes
  <2>5. CASE pc' = [pc EXCEPT ![t] = "idle"] /\ queueItem' = queueItem
    <3>1. pc'[t] = "idle"
      BY <2>5 DEF Shapes, ThreadShapes
    <3> QED
      BY <1>a, <1>0, <2>2, <2>3, <2>4, <3>1 DEF SnapshotsValid, Explained
  <2>6. CASE /\ pc' = [pc EXCEPT ![t] = "push"] /\ ~found.is_closed
             /\ queueItem' = [queueItem EXCEPT ![t] = Snapshot(state, e)]
             /\ e.type \in {"PacketParsed", "SessionClosed"}
    <3> DEFINE x == Snapshot(state, e)
    <3>1. state = Handle(found, e) /\ e.session \in Sessions /\ found.request_count \in Nat
      BY <2>1, <2>6 DEF EventShape, Entry
    <3>2. /\ x.session = e.session
          /\ x.kind = IF e.type = "PacketParsed" THEN "message" ELSE "summary"
      BY <2>1, SnapshotFacts
    <3>3. Bound(e.session) => Valid(x)
      <4> SUFFICES ASSUME Bound(e.session) PROVE Valid(x)
        OBVIOUS
      <4>1. InOrder(found) /\ After(e, found)
        BY <2>1, <3>1, FoundTimed DEF ValidInv
      <4>2. InOrder(state)
        BY <2>1, <3>1, <4>1, HandleTimes
      <4>3. /\ e.type = "PacketParsed" => state.request_count >= 1
            /\ e.type = "SessionClosed" => state.is_closed
        BY <2>1, <3>1, HandleFacts
      <4> QED
        BY <2>1, <2>6, <4>2, <4>3, SnapshotValid
    <3>4. Explained(x)
      <4> SUFFICES ASSUME x.kind = "summary", ~x.is_started
                   PROVE  phase[e.session] = "unused"
        BY <1>a, <1>0, <3>2 DEF Explained
      <4>1. e.type = "SessionClosed"
        BY <2>6, <3>2
      <4>2. phase[e.session] \in {"closed", "unused"}
        BY <2>1, <3>1, <4>1 DEF ClosesOnce, Summarises
      <4>3. ~state.is_started
        BY DEF Snapshot
      <4>a. Handle(found, e).is_started = (found.is_started \/ e.type = "SessionStarted")
        BY <2>1, HandleStarted
      <4>4. ~found.is_started
        BY <3>1, <4>3, <4>a
      <4>5. ~(m_sessions[e.session].exists /\ m_sessions[e.session].is_started)
        BY <4>4 DEF GetOrCreateSessionLocked
      <4>6. ~\E u \in Threads : /\ pc[u] = "notify" /\ event[u].session = e.session
                                /\ event[u].type = "SessionStarted"
        BY <1>0, <4>2 DEF StartKnown
      <4> QED
        BY <1>0, <3>1, <4>2, <4>5, <4>6 DEF StartKnown
    <3>5. queueItem'[t] = x /\ pc'[t] = "push"
      BY <2>6 DEF Shapes, ThreadShapes
    <3> HIDE DEF x
    <3>6. /\ Explained(queueItem[t])'
          /\ Bound(queueItem'[t].session) => Valid(queueItem'[t])
      BY <2>2, <3>2, <3>3, <3>4, <3>5 DEF Explained
    <3>7. \A u \in Threads \ {t} : pc'[u] = "push" =>
              /\ Explained(queueItem[u])'
              /\ Bound(queueItem'[u].session) => Valid(queueItem'[u])
      BY <1>a, <1>0, <2>2, <2>4 DEF SnapshotsValid, Explained
    <3> QED
      BY <2>3, <3>6, <3>7 DEF SnapshotsValid
  <2> QED
    BY <2>1, <2>5, <2>6
<1>3. ASSUME NEW t \in Threads, PushSnapshot(t)
      PROVE  SnapshotsValid'
  <2>1. /\ pc[t] = "push" /\ Len(offered) \in Nat
        /\ Len(offered') = Len(offered) + 1 /\ offered'[Len(offered) + 1] = queueItem[t]
        /\ \A i \in 1..Len(offered) : offered'[i] = offered[i]
        /\ \A u \in Threads : pc'[u] = "push" => pc[u] = "push"
        /\ UNCHANGED <<queueItem, phase>>
    BY <1>3, PushFacts DEF Shapes, ThreadShapes, QueueShapes
  <2>2. \A i \in 1..Len(offered') :
            \/ i \in 1..Len(offered) /\ offered'[i] = offered[i]
            \/ offered'[i] = queueItem[t]
    BY <2>1
  <2> QED
    BY <1>a, <1>0, <2>1, <2>2 DEF SnapshotsValid, Explained
<1>4. CASE \/ \E isSet \in BOOLEAN : SetFeatureQueue(isSet)
           \/ \E r \in Sessions : RemoveSession(r)
           \/ Clear \/ Consume \/ Tick \/ UNCHANGED vars
  <2>1. UNCHANGED <<pc, queueItem, offered, phase>>
    BY <1>4 DEF SetFeatureQueue, RemoveSession, Clear, Consume, Tick, vars, threadVars
  <2> QED
    BY <1>a, <1>0, <2>1 DEF SnapshotsValid, Explained
<1> QED
  BY <1>1, <1>2, <1>3, <1>4 DEF Next

LEMMA FeatureNames ==
  /\ Names("message") = {"packet_size", "payload_size", "connection_duration_ms",
         "message_interval_ms", "bytes_received_total", "bytes_sent_total",
         "error_count_total"}
  /\ Names("session_summary") = {"connection_duration_ms", "bytes_received_total",
         "bytes_sent_total", "recv_event_count", "send_event_count", "request_count",
         "error_count", "avg_message_interval_ms"}
<1>1. Len(MESSAGE_FEATURE_ORDER) = 7 /\ 1..7 = {1, 2, 3, 4, 5, 6, 7}
  BY DEF MESSAGE_FEATURE_ORDER
<1>2. Len(SESSION_SUMMARY_FEATURE_ORDER) = 8 /\ 1..8 = {1, 2, 3, 4, 5, 6, 7, 8}
  BY DEF SESSION_SUMMARY_FEATURE_ORDER
<1>3. Names("message") = {MESSAGE_FEATURE_ORDER[i] : i \in {1, 2, 3, 4, 5, 6, 7}}
  BY <1>1 DEF Names, Order
<1>4. Names("session_summary") =
          {SESSION_SUMMARY_FEATURE_ORDER[i] : i \in {1, 2, 3, 4, 5, 6, 7, 8}}
  BY <1>2 DEF Names, Order
<1> QED
  BY <1>3, <1>4 DEF MESSAGE_FEATURE_ORDER, SESSION_SUMMARY_FEATURE_ORDER

\* Every number BuildJson writes, of a snapshot that is in order.
LEMMA ValuesOf ==
  ASSUME NEW x \in Item, Valid(x)
  PROVE  /\ \A f \in Names("message") \cup Names("session_summary") :
                Value(x)[f] \in Int /\ Value(x)[f] >= 0
         /\ Value(x)["packet_size"] = Value(x)["payload_size"] + HeaderSize
         /\ Value(x)["message_interval_ms"] = x.interval
         /\ Value(x)["request_count"] = x.request_count
         /\ x.request_count <= 1 => Value(x)["avg_message_interval_ms"] = 0
<1> DEFINE all == {"packet_size", "payload_size", "connection_duration_ms",
                   "message_interval_ms", "bytes_received_total", "bytes_sent_total",
                   "error_count_total", "recv_event_count", "send_event_count",
                   "request_count", "error_count", "avg_message_interval_ms"}
           mean == IF x.request_count > 1
                   THEN x.interval_sum \div (x.request_count - 1) ELSE 0
<1>1. /\ x.recv \in Nat /\ x.send \in Nat /\ x.error_count \in Nat /\ x.request_count \in Nat
      /\ x.duration \in Int /\ x.interval \in Int /\ x.interval_sum \in Int
      /\ x.duration >= 0 /\ x.interval >= 0 /\ x.interval_sum >= 0
  BY DEF Item, Valid
<1>2. mean \in Int /\ mean >= 0 /\ (x.request_count <= 1 => mean = 0)
  BY <1>1
<1>3. Names("message") \cup Names("session_summary") = all
  BY FeatureNames
<1>4. /\ Value(x) = [f \in all |-> Value(x)[f]]
      /\ Value(x)["packet_size"] = 10 /\ Value(x)["payload_size"] = 2
      /\ Value(x)["connection_duration_ms"] = x.duration
      /\ Value(x)["message_interval_ms"] = x.interval
      /\ Value(x)["bytes_received_total"] = x.recv /\ Value(x)["recv_event_count"] = x.recv
      /\ Value(x)["bytes_sent_total"] = x.send /\ Value(x)["send_event_count"] = x.send
      /\ Value(x)["error_count_total"] = x.error_count
      /\ Value(x)["error_count"] = x.error_count
      /\ Value(x)["request_count"] = x.request_count
      /\ Value(x)["avg_message_interval_ms"] = mean
  BY <1>3 DEF Value
<1> HIDE DEF mean
<1>5. \A f \in all : Value(x)[f] \in Int /\ Value(x)[f] >= 0
  BY <1>1, <1>2, <1>4
<1> QED
  BY <1>2, <1>3, <1>4, <1>5 DEF HeaderSize

\* The validation of the API accepts what BuildJson makes of such a snapshot,
\* a summary only of a session that is known to have started.
LEMMA ValidIsAccepted ==
  ASSUME NEW x \in Item, Valid(x), x.kind = "summary" => x.is_started
  PROVE  InferenceRequest(BuildJson(x))
<1> DEFINE p == BuildJson(x)
           V == Value(x)
           type == IF x.kind = "message" THEN "message" ELSE "session_summary"
           session == [f \in SessionFields(type) |->
                          CASE f = "session_id" -> x.session
                            [] f = "is_started" -> AsNumber(x.is_started)
                            [] f = "is_closed" -> AsNumber(x.is_closed)
                            [] OTHER -> V[f]]
           message == [f \in InMessage \cup {"request_index"} |->
                          IF f = "request_index" THEN x.request_index ELSE V[f]]
           features == [n \in Names(type) |-> V[n]]
<1>1. p = [event_type |-> type, feature_contract_id |-> type, utc |-> TRUE,
           features |-> features, session |-> session, message |-> message]
  BY DEF BuildJson
<1>2. /\ x.session \in Nat /\ x.session > 0 /\ x.request_index \in Nat
      /\ x.kind \in {"message", "summary"}
  <2>1. x.session \in Sessions /\ x.request_index \in Nat /\ x.kind \in {"message", "summary"}
    BY DEF Item
  <2>2. x.session \in Nat \ {0}
    BY <2>1, SessionsAssumption
  <2> QED
    BY <2>1, <2>2
<1>3. /\ \A f \in Names("message") \cup Names("session_summary") : V[f] \in Int /\ V[f] >= 0
      /\ V["packet_size"] = V["payload_size"] + HeaderSize
      /\ V["message_interval_ms"] = x.interval
      /\ V["request_count"] = x.request_count
      /\ x.request_count <= 1 => V["avg_message_interval_ms"] = 0
  BY ValuesOf
<1> HIDE DEF V
<1>4. /\ p.event_type = type /\ p.feature_contract_id = type /\ p.utc
      /\ p.features = features /\ p.session = session /\ p.message = message
      /\ p["session"] = session /\ p["message"] = message
  BY <1>1
<1> HIDE DEF p
<1>5. validate_feature_values(type, features)
  BY <1>2, <1>3 DEF validate_feature_values
<1>6. CASE x.kind = "message"
  <2>1. type = "message" /\ x.request_index >= 1 /\ (x.request_index = 1 => x.interval = 0)
    BY <1>6 DEF Valid
  <2>2. SessionFields("message") = {"session_id", "connection_duration_ms",
            "bytes_received_total", "bytes_sent_total", "error_count_total"}
    BY FeatureNames DEF SessionFields, InMessage
  <2>3. /\ DOMAIN session = SessionFields("message") /\ session["session_id"] = x.session
        /\ \A f \in Names("message") \ InMessage : session[f] = V[f]
        /\ \A f \in DOMAIN session : session[f] >= 0
    BY <1>2, <1>3, <2>1, <2>2, FeatureNames DEF InMessage
  <2>4. /\ DOMAIN message = InMessage \cup {"request_index"}
        /\ message["request_index"] = x.request_index
        /\ \A f \in InMessage : message[f] = V[f]
    BY DEF InMessage
  <2>5. \A f \in DOMAIN message : message[f] >= 0
    BY <1>2, <1>3, <2>4, FeatureNames DEF InMessage
  <2> HIDE DEF session, message
  <2>6. \A name \in Names("message") :
            features[name] = p[SectionOf("message", name)][name]
    BY <1>4, <2>1, <2>3, <2>4 DEF SectionOf
  <2>7. InMessage = {"packet_size", "payload_size", "message_interval_ms"}
    BY DEF InMessage
  <2> HIDE DEF features
  <2>8. validate_snapshot_relations(p)
    BY <1>2, <1>3, <1>4, <1>5, <2>1, <2>3, <2>4, <2>6, <2>7 DEF validate_snapshot_relations
  <2> QED
    BY <1>4, <2>1, <2>3, <2>4, <2>5, <2>8 DEF InferenceRequest, MessageInferenceRequest, p
<1>7. CASE x.kind = "summary"
  <2>1. type = "session_summary" /\ AsNumber(x.is_started) = 1 /\ AsNumber(x.is_closed) = 1
    BY <1>7 DEF Valid, AsNumber
  <2>2. SessionFields("session_summary") = {"session_id", "connection_duration_ms",
            "bytes_received_total", "bytes_sent_total", "recv_event_count",
            "send_event_count", "request_count", "error_count",
            "avg_message_interval_ms", "is_started", "is_closed"}
    BY FeatureNames DEF SessionFields
  <2>3. /\ DOMAIN session = SessionFields("session_summary")
        /\ session["session_id"] = x.session
        /\ session["is_started"] = 1 /\ session["is_closed"] = 1
        /\ \A f \in Names("session_summary") : session[f] = V[f]
    BY <2>1, <2>2, FeatureNames
  <2>4. \A f \in DOMAIN session : session[f] >= 0
    BY <1>2, <1>3, <2>2, <2>3, FeatureNames
  <2> HIDE DEF session, message
  <2>5. \A name \in Names("session_summary") :
            features[name] = p[SectionOf("session_summary", name)][name]
    BY <1>4, <2>1, <2>3 DEF SectionOf
  <2>6. session["request_count"] <= 1 => session["avg_message_interval_ms"] = 0
    BY <1>3, <2>3, FeatureNames
  <2> HIDE DEF features
  <2>7. validate_snapshot_relations(p)
    BY <1>2, <1>4, <1>5, <2>1, <2>3, <2>5, <2>6 DEF validate_snapshot_relations
  <2> QED
    BY <1>4, <2>1, <2>3, <2>4, <2>7 DEF InferenceRequest, SessionSummaryInferenceRequest, p
<1> QED
  BY <1>2, <1>6, <1>7

\* A session whose completions one thread dispatches and whose entry is not
\* removed: every snapshot of it passes the validation of the API, except the
\* summary of a session that never started, although any thread may report an
\* error or the close and come to the mutex after later events did.
THEOREM AcceptedByApiHolds == Spec => []AcceptedByApi
<1> DEFINE IInv == Shapes /\ FromEmitters /\ ClosesOnce /\ OneOpens /\ StartKnown /\ ValidInv
<1>1. Init => IInv
  <2> SUFFICES ASSUME Init
               PROVE  FromEmitters /\ ClosesOnce /\ OneOpens /\ StartKnown /\ ValidInv
    BY InitShapes
  <2>1. FromEmitters /\ ClosesOnce /\ OneOpens
    BY DEF Init, FromEmitters, ClosesOnce, Summarises, SummaryAt, OneOpens, Notifies
  <2>2. StartKnown /\ ValidInv
    BY DEF Init, ValidInv, Timed, Notifies, StartKnown, SnapshotsValid, NoSession
  <2> QED
    BY <2>1, <2>2
<1>2. IInv /\ [Next]_vars => IInv'
  <2> SUFFICES ASSUME IInv, [Next]_vars PROVE IInv'
    OBVIOUS
  <2>1. Shapes' /\ FromEmitters' /\ ClosesOnce' /\ OneOpens' /\ StartKnown'
    BY ShapesStep, FromEmittersStep, ClosesOnceStep, OneOpensStep, StartKnownStep
  <2>2. ASSUME removed' = 0
        PROVE  /\ \A s \in Sessions : Bound(s) => Timed(s)'
               /\ SnapshotsValid'
    <3>1. removed = 0
      BY <2>2 DEF Shapes, QueueShapes, Next, MakeNetworkEvent, OnNetworkEvent, PushSnapshot,
         SetFeatureQueue, RemoveSession, Clear, Consume, Tick, vars, bounds
    <3>2. SnapshotsValid'
      BY <2>2, <3>1, SnapshotsValidStep
    <3>3. \A s \in Sessions : Bound(s) => Timed(s)'
      BY <2>2, <3>1, TimedStep DEF ValidInv
    <3> QED
      BY <3>2, <3>3
  <2> QED
    BY <2>1, <2>2 DEF ValidInv, Bound
<1>3. IInv => AcceptedByApi
  <2> SUFFICES ASSUME IInv, removed = 0, NEW i \in 1..Len(offered),
                      Cardinality(Emitters[offered[i].session]) = 1
               PROVE  \/ InferenceRequest(BuildJson(offered[i]))
                      \/ /\ offered[i].kind = "summary" /\ ~offered[i].is_started
                         /\ phase[offered[i].session] = "unused"
    BY DEF AcceptedByApi
  <2> DEFINE s == offered[i].session
  <2>1. offered[i] \in Item
    BY DEF Shapes, QueueShapes
  <2>2. s \in Sessions
    BY <2>1 DEF Item
  <2>3. IsFiniteSet(Emitters[s])
    BY <2>2, EmittersAssumption, FS_Subset
  <2>4. PICK t : Emitters[s] = {t}
    BY <2>3, FS_Singleton
  <2>5. Bound(s)
    BY <2>4 DEF Bound
  <2>6. Valid(offered[i]) /\ Explained(offered[i])
    BY <2>5 DEF ValidInv, SnapshotsValid
  <2> QED
    BY <2>1, <2>6, ValidIsAccepted DEF Explained
<1> HIDE DEF IInv
<1> QED
  BY <1>1, <1>2, <1>3, PTL DEF Spec
=============================================================================
