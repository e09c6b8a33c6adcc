----------------------- MODULE InferenceRuntimeProofs -----------------------
(***************************************************************************)
(* The report that wmain writes last is right about all that was offered   *)
(* to the queue, for any sessions, network threads, capacity and number of *)
(* events, and however the worker, its deadline and the teardown           *)
(* interleave.                                                             *)
(*                                                                         *)
(* What holds of the collector alone is taken from FeatureCollectorProofs  *)
(* (CP), whose actions are those of Collector.                             *)
(***************************************************************************)
EXTENDS InferenceRuntime, FiniteSetTheorems, TLAPS

Notifiers == Producers \cup {main}

CP == INSTANCE FeatureCollectorProofs WITH
          Threads <- Notifiers,
          MaxTime <- 0, MaxDetach <- 1, MaxRemovals <- 0

-----------------------------------------------------------------------------
(* The collector in the process *)

\* The assumptions of FeatureCollector and FeaturePayload.
LEMMA NotifiersAssumption ==
  /\ CP!IsFiniteSet(Notifiers) /\ Emitters \in [Sessions -> SUBSET Notifiers]
  /\ Sessions \subseteq Nat \ {0}
<1>1. IsFiniteSet(Notifiers)
  BY RuntimeAssumption, FS_AddElement DEF Notifiers
<1>2. CP!IsFiniteSet(Notifiers)
  BY <1>1 DEF CP!IsFiniteSet, IsFiniteSet
<1> QED
  BY <1>2, RuntimeAssumption DEF Notifiers

LEMMA SameHandlers ==
  ASSUME NEW state, NEW e
  PROVE  /\ CP!Handle(state, e) = Collector!Handle(state, e)
         /\ CP!Snapshot(state, e) = Collector!Snapshot(state, e)
         /\ CP!GetOrCreateSessionLocked(e) = Collector!GetOrCreateSessionLocked(e)
<1>1. CP!Handle(state, e) = Collector!Handle(state, e)
  BY DEF CP!Handle, CP!UpdateConnectionDurationLocked, CP!HandleSessionStartedLocked,
     CP!HandleSessionClosedLocked, CP!HandleRecvCompletedLocked,
     CP!HandleSendCompletedLocked, CP!HandlePacketParsedLocked,
     CP!HandleProtocolErrorLocked,
     Collector!Handle, Collector!UpdateConnectionDurationLocked,
     Collector!HandleSessionStartedLocked, Collector!HandleSessionClosedLocked,
     Collector!HandleRecvCompletedLocked, Collector!HandleSendCompletedLocked,
     Collector!HandlePacketParsedLocked, Collector!HandleProtocolErrorLocked
<1>2. CP!Snapshot(state, e) = Collector!Snapshot(state, e)
  BY DEF CP!Snapshot, Collector!Snapshot
<1>3. CP!GetOrCreateSessionLocked(e) = Collector!GetOrCreateSessionLocked(e)
  BY DEF CP!GetOrCreateSessionLocked, Collector!GetOrCreateSessionLocked,
     CP!NewSession, Collector!NewSession
<1> QED
  BY <1>1, <1>2, <1>3

LEMMA SameActions ==
  /\ CP!EventType = Collector!EventType
  /\ CP!Item = Collector!Item
  /\ Collector!Init => CP!Init
  /\ \A t, s, type : Collector!MakeNetworkEvent(t, s, type) => CP!MakeNetworkEvent(t, s, type)
  /\ \A t : Collector!OnNetworkEvent(t) => CP!OnNetworkEvent(t)
  /\ \A t : Collector!PushSnapshot(t) => CP!PushSnapshot(t)
  /\ Collector!SetFeatureQueue(FALSE) => CP!SetFeatureQueue(FALSE)
<1>1. CP!EventType = Collector!EventType
  BY DEF CP!EventType, Collector!EventType
<1>2. CP!Item = Collector!Item
  BY DEF CP!Item, Collector!Item
<1>3. Collector!Init => CP!Init
  BY DEF Collector!Init, CP!Init, Collector!NoSession, CP!NoSession, Collector!NoEvent,
     CP!NoEvent, Collector!Channel!ChanInit, CP!Channel!ChanInit, Notifiers
<1>4. ASSUME NEW t, NEW s, NEW type, Collector!MakeNetworkEvent(t, s, type)
      PROVE  CP!MakeNetworkEvent(t, s, type)
  BY <1>1, <1>4 DEF Collector!MakeNetworkEvent, CP!MakeNetworkEvent, Collector!Possible,
     CP!Possible, Collector!OfCompletion, CP!OfCompletion, Collector!collector, CP!collector, Collector!chan, CP!chan, Notifiers
<1>5. ASSUME NEW t, Collector!OnNetworkEvent(t)
      PROVE  CP!OnNetworkEvent(t)
  <2> DEFINE found == Collector!GetOrCreateSessionLocked(event[t])
             state == IF found.is_closed THEN found
                      ELSE Collector!Handle(found, event[t])
             same == IF CP!GetOrCreateSessionLocked(event[t]).is_closed
                     THEN CP!GetOrCreateSessionLocked(event[t])
                     ELSE CP!Handle(CP!GetOrCreateSessionLocked(event[t]), event[t])
  <2>1. CP!GetOrCreateSessionLocked(event[t]) = found
    BY SameHandlers
  <2>2. CP!Handle(found, event[t]) = Collector!Handle(found, event[t])
    BY SameHandlers
  <2>3. same = state
    BY <2>1, <2>2
  <2>4. CP!Snapshot(same, event[t]) = Collector!Snapshot(state, event[t])
    BY <2>3, SameHandlers
  <2>5. /\ pc[t] = "notify"
        /\ m_sessions' = [m_sessions EXCEPT ![event[t].session] = state]
        /\ m_ignoredAfterCloseEventCount' =
               m_ignoredAfterCloseEventCount + (IF found.is_closed THEN 1 ELSE 0)
        /\ IF ~found.is_closed /\ m_featureQueue /\ CP!ShouldEnqueue(event[t])
           THEN /\ pc' = [pc EXCEPT ![t] = "push"]
                /\ queueItem' = [queueItem EXCEPT ![t] = Collector!Snapshot(state, event[t])]
           ELSE /\ pc' = [pc EXCEPT ![t] = "idle"]
                /\ UNCHANGED queueItem
        /\ UNCHANGED <<m_featureQueue, CP!chan, event, now, phase, CP!bounds, offered>>
    BY <1>5 DEF Collector!OnNetworkEvent, Collector!ShouldEnqueue, CP!ShouldEnqueue,
       Collector!chan, CP!chan, Collector!bounds, CP!bounds
  <2> HIDE DEF found, state
  <2>6. m_sessions' = [m_sessions EXCEPT ![event[t].session] = same]
    BY <2>3, <2>5
  <2> HIDE DEF same
  <2>7. /\ IF ~CP!GetOrCreateSessionLocked(event[t]).is_closed
              /\ m_featureQueue /\ CP!ShouldEnqueue(event[t])
           THEN /\ pc' = [pc EXCEPT ![t] = "push"]
                /\ queueItem' = [queueItem EXCEPT ![t] = CP!Snapshot(same, event[t])]
           ELSE /\ pc' = [pc EXCEPT ![t] = "idle"]
                /\ UNCHANGED queueItem
        /\ m_ignoredAfterCloseEventCount' = m_ignoredAfterCloseEventCount
               + (IF CP!GetOrCreateSessionLocked(event[t]).is_closed THEN 1 ELSE 0)
    BY <2>1, <2>4, <2>5
  <2> QED
    BY <2>5, <2>6, <2>7 DEF CP!OnNetworkEvent, same
<1>6. ASSUME NEW t, Collector!PushSnapshot(t)
      PROVE  CP!PushSnapshot(t)
  BY <1>6 DEF Collector!PushSnapshot, CP!PushSnapshot, Collector!Channel!Push,
     CP!Channel!Push, Collector!Channel!Drop, CP!Channel!Drop, Collector!Channel!CanPush,
     CP!Channel!CanPush, Collector!collector, CP!collector, Collector!bounds, CP!bounds
<1>7. Collector!SetFeatureQueue(FALSE) => CP!SetFeatureQueue(FALSE)
  BY DEF Collector!SetFeatureQueue, CP!SetFeatureQueue, Collector!chan, CP!chan,
     Collector!threadVars, CP!threadVars
<1> QED
  BY <1>1, <1>2, <1>3, <1>4, <1>5, <1>6, <1>7

\* A step of the process that is a step of the collector...
Makes ==
    \E t \in Notifiers, s \in Sessions, type \in CP!EventType :
        CP!MakeNetworkEvent(t, s, type)
Updates == \E t \in Notifiers : CP!OnNetworkEvent(t)
Pushes == \E t \in Notifiers : CP!PushSnapshot(t)

\* ... and one that is not.
WorkerOrMain ==
    \/ StartWorker \/ Initialize \/ Quit \/ CloseListener
    \/ WaitForAllAcceptEventsReturned \/ JoinProducers \/ EndTeardown
    \/ StopWorker \/ WriteAiRuntimeReport
    \/ WorkerThread \/ Deadline \/ UNCHANGED vars

LEMMA StepCases ==
  ASSUME [Next]_vars
  PROVE  \/ (Makes \/ Updates \/ Pushes) /\ UNCHANGED <<mainPc, workerVars>>
         \/ CP!SetFeatureQueue(FALSE) /\ MainGoto("detach", "closing") /\ UNCHANGED workerVars
         \/ WorkerOrMain
<1>1. ASSUME NEW s \in Sessions, DestroySession(s)
      PROVE  Makes /\ UNCHANGED <<mainPc, workerVars>>
  <2>1. CP!MakeNetworkEvent(main, s, "SessionClosed")
    BY <1>1, SameActions DEF DestroySession
  <2> QED
    BY <1>1, <2>1 DEF DestroySession, Makes, Notifiers, CP!EventType
<1>2. ASSUME NEW t \in Producers, NetworkThread(t)
      PROVE  (Makes \/ Updates \/ Pushes) /\ UNCHANGED <<mainPc, workerVars>>
  <2>0. t \in Notifiers
    BY DEF Notifiers
  <2>1. ASSUME NEW s \in Sessions, NEW type \in Collector!EventType,
               Collector!MakeNetworkEvent(t, s, type)
        PROVE  Makes
    BY <2>0, <2>1, SameActions DEF Makes
  <2> QED
    BY <1>2, <2>0, <2>1, SameActions DEF NetworkThread, Updates, Pushes
<1>3. MainNotify => (Updates \/ Pushes) /\ UNCHANGED <<mainPc, workerVars>>
  BY SameActions DEF MainNotify, Updates, Pushes, Notifiers
<1>4. Detach => /\ CP!SetFeatureQueue(FALSE) /\ MainGoto("detach", "closing")
                /\ UNCHANGED workerVars
  BY SameActions DEF Detach
<1> QED
  BY <1>1, <1>2, <1>3, <1>4 DEF Next, MainExit, WorkerOrMain

\* What a step that is not the collector's leaves alone.
LEMMA OutsideCollector ==
  ASSUME WorkerOrMain
  PROVE  UNCHANGED collectorVars
BY DEF WorkerOrMain, StartWorker, Initialize, Quit, CloseListener,
   WaitForAllAcceptEventsReturned, JoinProducers, EndTeardown, StopWorker,
   WriteAiRuntimeReport, WorkerThread, Deadline, vars

-----------------------------------------------------------------------------
(* wmain and the worker thread *)

LifeShapes ==
    /\ mainPc \in MainState /\ thread \in Worker!ThreadState
    /\ callerPc \in [{main} -> {"idle", "close", "join"}]
    /\ initFailed \in BOOLEAN

\* Between Start and Stop.
Up == {"init", "serving", "detach", "closing", "waiting", "joining", "teardown",
       "stopping", "abort"}

\* The worker thread exists from Start to the join in Stop.
Life ==
    /\ mainPc = "start" => thread = "none"
    /\ mainPc \in Up => thread # "none"
    /\ callerPc[main] # "idle" => mainPc \in {"report", "aborting"} /\ thread # "none"
    /\ mainPc \in {"report", "aborting", "done"} /\ callerPc[main] = "idle"
           => thread = "none"
    /\ initFailed => thread \in {"none", "exited"} /\ mainPc # "start"

\* A worker that ended left the queue closed, and empty if it ever ran.
Drained ==
    thread = "exited" \/ (thread = "none" /\ mainPc \notin {"start", "failed"})
        => closed /\ (initFailed \/ content = <<>>)

LifeInv == LifeShapes /\ Life /\ Drained

LEMMA LifeStep ==
  ASSUME LifeInv, closed \in BOOLEAN, [Next]_vars
  PROVE  LifeInv'
<1> USE DEF LifeInv, LifeShapes, Life, Drained, Up, MainState, Worker!ThreadState
<1>1. CASE (Makes \/ Updates \/ Pushes) /\ UNCHANGED <<mainPc, workerVars>>
  <2>1. closed' = closed /\ (closed => content' = content)
    BY <1>1 DEF Makes, Updates, Pushes, CP!MakeNetworkEvent, CP!OnNetworkEvent,
       CP!PushSnapshot, CP!Channel!Push, CP!Channel!CanPush, CP!Channel!Drop, CP!chan
  <2> QED
    BY <1>1, <2>1 DEF workerVars
<1>2. CASE CP!SetFeatureQueue(FALSE) /\ MainGoto("detach", "closing") /\ UNCHANGED workerVars
  BY <1>2 DEF CP!SetFeatureQueue, CP!chan, MainGoto, workerVars
<1>3. CASE StartWorker
  BY <1>3 DEF StartWorker, MainGoto, Worker!Start, Worker!chan, Worker!workerVars, chan,
     workerVars
<1>4. CASE Initialize \/ Quit \/ CloseListener \/ WaitForAllAcceptEventsReturned
           \/ JoinProducers \/ EndTeardown
  BY <1>4 DEF Initialize, Quit, CloseListener, WaitForAllAcceptEventsReturned,
     JoinProducers, EndTeardown, MainGoto, chan, workerVars
<1>5. CASE StopWorker
  <2>1. CASE Worker!StopRequest(main) /\ (MainGoto("stopping", "report") \/ MainGoto("abort", "aborting"))
    BY <2>1 DEF MainGoto, Worker!StopRequest, Worker!chan, Worker!workerVars
  <2>2. CASE Worker!StopClose(main) /\ UNCHANGED mainPc
    <3>1. /\ callerPc[main] = "close" /\ callerPc' = [callerPc EXCEPT ![main] = "join"]
          /\ UNCHANGED <<mainPc, thread, initFailed>>
      BY <2>2 DEF Worker!StopClose, Worker!workerVars
    <3>2. content' = content /\ (closed' = closed \/ closed' = TRUE)
      BY <2>2 DEF Worker!StopClose, Worker!Channel!CloseChannel, Worker!chan
    <3>3. LifeShapes' /\ Life'
      BY <3>1
    <3>4. Drained'
      BY <3>1, <3>2
    <3> QED
      BY <3>3, <3>4
  <2>3. CASE Worker!StopJoin(main) /\ UNCHANGED mainPc
    <3>1. /\ callerPc[main] = "join" /\ callerPc' = [callerPc EXCEPT ![main] = "idle"]
          /\ thread \in {"none", "exited"} /\ thread' = "none"
          /\ UNCHANGED <<mainPc, initFailed, closed, content>>
      BY <2>3 DEF Worker!StopJoin, Worker!chan, Worker!workerVars
    <3>2. LifeShapes' /\ Life'
      BY <3>1
    <3>3. Drained'
      BY <3>1
    <3> QED
      BY <3>2, <3>3
  <2> QED
    BY <1>5, <2>1, <2>2, <2>3 DEF StopWorker, Worker!StopStep
<1>6. CASE WriteAiRuntimeReport
  BY <1>6 DEF WriteAiRuntimeReport, MainGoto, chan, workerVars
<1>7. CASE WorkerThread
  <2>1. CASE Worker!WorkerEnter /\ UNCHANGED mainPc
    <3>1. CASE thread' = "loop" /\ UNCHANGED <<closed, content, initFailed>>
      BY <2>1, <3>1 DEF Worker!WorkerEnter
    <3>2. CASE closed' = TRUE /\ thread' = "exited" /\ initFailed' = TRUE
      BY <2>1, <3>2 DEF Worker!WorkerEnter
    <3>3. \/ thread' = "loop" /\ UNCHANGED <<closed, content, initFailed>>
          \/ closed' = TRUE /\ thread' = "exited" /\ initFailed' = TRUE
      BY <2>1 DEF Worker!WorkerEnter, Worker!Channel!CloseChannel, Worker!chan,
         Worker!workerVars
    <3> QED
      BY <3>1, <3>2, <3>3
  <2>2. CASE Worker!WorkerPop /\ UNCHANGED mainPc
    BY <2>2 DEF Worker!WorkerPop, Worker!Channel!Pop
  <2>3. CASE Worker!WorkerExit /\ UNCHANGED mainPc
    BY <2>3 DEF Worker!WorkerExit, Worker!chan, Worker!workerVars
  <2>4. CASE (\E outcome \in Worker!Outcome : Worker!ProcessItem(outcome)) /\ UNCHANGED mainPc
    BY <2>4 DEF Worker!ProcessItem, Worker!chan
  <2> QED
    BY <1>7, <2>1, <2>2, <2>3, <2>4 DEF WorkerThread, Worker!WorkerStep
<1>8. CASE Deadline
  BY <1>8 DEF Deadline, Worker!DeadlinePasses, Worker!chan, Worker!workerVars
<1>9. CASE UNCHANGED vars
  BY <1>9 DEF vars, chan, workerVars
<1> QED
  BY <1>1, <1>2, <1>3, <1>4, <1>5, <1>6, <1>7, <1>8, <1>9, StepCases DEF WorkerOrMain

-----------------------------------------------------------------------------
(* The counters *)

\* The counters of the report that say what became of an item.
Accounted ==
    stats.stored + stats.parseFailed + stats.failed + stats.skipped + stats.discarded

\* The keys that one item bumps.
ItemKeys == {{"discarded"}, {"skipped"}, {"failed"}, {"sent", "stored"},
             {"sent", "parseFailed"}, {"late", "failed"}, {"sent", "failed"}}

LEMMA BumpFacts ==
  ASSUME stats \in Worker!Stats, NEW keys, stats' = Worker!Bump(keys)
  PROVE  /\ stats' \in Worker!Stats
         /\ stats'.stored = stats.stored + (IF "stored" \in keys THEN 1 ELSE 0)
         /\ stats'.parseFailed = stats.parseFailed + (IF "parseFailed" \in keys THEN 1 ELSE 0)
         /\ stats'.failed = stats.failed + (IF "failed" \in keys THEN 1 ELSE 0)
         /\ stats'.skipped = stats.skipped + (IF "skipped" \in keys THEN 1 ELSE 0)
         /\ stats'.discarded = stats.discarded + (IF "discarded" \in keys THEN 1 ELSE 0)
<1>1. PICK old \in Worker!Stats : old = stats
  OBVIOUS
<1>2. PICK new : new = stats'
  OBVIOUS
<1>3. new = [k \in DOMAIN old |-> old[k] + (IF k \in keys THEN 1 ELSE 0)]
  BY <1>1, <1>2 DEF Worker!Bump
<1>4. /\ new \in Worker!Stats
      /\ new.stored = old.stored + (IF "stored" \in keys THEN 1 ELSE 0)
      /\ new.parseFailed = old.parseFailed + (IF "parseFailed" \in keys THEN 1 ELSE 0)
      /\ new.failed = old.failed + (IF "failed" \in keys THEN 1 ELSE 0)
      /\ new.skipped = old.skipped + (IF "skipped" \in keys THEN 1 ELSE 0)
      /\ new.discarded = old.discarded + (IF "discarded" \in keys THEN 1 ELSE 0)
  BY <1>3 DEF Worker!Stats
<1> QED
  BY <1>1, <1>2, <1>4

LEMMA AccountedFacts ==
  ASSUME stats \in Worker!Stats
  PROVE  /\ Accounted \in Nat
         /\ stats.stored \in Nat /\ stats.parseFailed \in Nat /\ stats.failed \in Nat
         /\ stats.skipped \in Nat /\ stats.discarded \in Nat
BY DEF Worker!Stats, Accounted

LEMMA OneMore ==
  ASSUME stats \in Worker!Stats, NEW keys \in ItemKeys, stats' = Worker!Bump(keys)
  PROVE  stats' \in Worker!Stats /\ Accounted' = Accounted + 1
<1> DEFINE Bit(k) == IF k \in keys THEN 1 ELSE 0
<1>1. /\ stats' \in Worker!Stats
      /\ stats'.stored = stats.stored + Bit("stored")
      /\ stats'.parseFailed = stats.parseFailed + Bit("parseFailed")
      /\ stats'.failed = stats.failed + Bit("failed")
      /\ stats'.skipped = stats.skipped + Bit("skipped")
      /\ stats'.discarded = stats.discarded + Bit("discarded")
  BY BumpFacts
<1>2. /\ Bit("stored") \in Nat /\ Bit("parseFailed") \in Nat /\ Bit("failed") \in Nat
      /\ Bit("skipped") \in Nat /\ Bit("discarded") \in Nat
      /\ Bit("stored") + Bit("parseFailed") + Bit("failed") + Bit("skipped")
             + Bit("discarded") = 1
  BY DEF ItemKeys
<1> HIDE DEF Bit
<1>3. /\ stats.stored \in Nat /\ stats.parseFailed \in Nat /\ stats.failed \in Nat
      /\ stats.skipped \in Nat /\ stats.discarded \in Nat
  BY DEF Worker!Stats
<1>4. Accounted' = (stats.stored + Bit("stored"))
                   + (stats.parseFailed + Bit("parseFailed"))
                   + (stats.failed + Bit("failed")) + (stats.skipped + Bit("skipped"))
                   + (stats.discarded + Bit("discarded"))
  BY <1>1 DEF Accounted
<1>5. (stats.stored + Bit("stored")) + (stats.parseFailed + Bit("parseFailed"))
          + (stats.failed + Bit("failed")) + (stats.skipped + Bit("skipped"))
          + (stats.discarded + Bit("discarded")) = Accounted + 1
  BY <1>2, <1>3 DEF Accounted
<1> QED
  BY <1>1, <1>4, <1>5

-----------------------------------------------------------------------------
(* The way of an item through the process *)

Still == UNCHANGED <<content, dropped, offered>>

Elsewhere ==
    /\ Still /\ UNCHANGED <<item, stats, store, initFailed>>
    /\ thread' = "posting" <=> thread = "posting"

Offers(t) ==
    /\ pc[t] = "push" /\ offered' = Append(offered, queueItem[t])
    /\ \/ content' = Append(content, queueItem[t]) /\ dropped' = dropped
       \/ content' = content /\ dropped' = dropped + 1
    /\ UNCHANGED <<thread, item, stats, store, initFailed>>

Pops ==
    /\ thread = "loop" /\ content # <<>> /\ content' = Tail(content)
    /\ UNCHANGED <<dropped, offered, store, initFailed>>
Discards == Pops /\ stats' = Worker!Bump({"discarded"}) /\ UNCHANGED <<thread, item>>
Skips ==
    /\ Pops /\ stats' = Worker!Bump({"skipped"}) /\ UNCHANGED <<thread, item>>
    /\ Head(content).kind = "summary"
Takes ==
    /\ Pops /\ UNCHANGED stats /\ thread' = "posting" /\ item' = Head(content)
    /\ ~(MessageOnly /\ Head(content).kind = "summary")

KeysOf(outcome) ==
    CASE outcome = "stored" -> {"sent", "stored"}
      [] outcome = "parseFailed" -> {"sent", "parseFailed"}
      [] outcome = "late" -> {"late", "failed"}
      [] outcome = "unsupported" -> {"skipped"}
      [] outcome = "failed" -> {"failed"}
      [] outcome = "throwsAfterSent" -> {"sent", "failed"}

Ends(outcome) ==
    /\ Still /\ thread = "posting" /\ thread' = "loop" /\ UNCHANGED initFailed
    /\ stats' = Worker!Bump(KeysOf(outcome))
    /\ outcome = "unsupported" => item.kind = "summary"
    /\ IF outcome = "stored" THEN Worker!Update(item) ELSE UNCHANGED store

NeverRuns ==
    /\ Still /\ thread = "starting" /\ thread' = "exited" /\ initFailed' = TRUE
    /\ stats' = Worker!Bump({"failed"}) /\ UNCHANGED store

LEMMA FlowCases ==
  ASSUME [Next]_vars, LifeShapes
  PROVE  \/ Elsewhere
         \/ \E t \in Notifiers : Offers(t)
         \/ Discards \/ Skips \/ Takes
         \/ \E outcome \in Worker!Outcome : Ends(outcome)
         \/ NeverRuns
<1>1. CASE (Makes \/ Updates) /\ UNCHANGED <<mainPc, workerVars>>
  BY <1>1 DEF Makes, Updates, CP!MakeNetworkEvent, CP!OnNetworkEvent, CP!chan, workerVars,
     Elsewhere, Still
<1>2. CASE Pushes /\ UNCHANGED <<mainPc, workerVars>>
  <2>1. PICK t \in Notifiers : CP!PushSnapshot(t)
    BY <1>2 DEF Pushes
  <2>2. Offers(t)
    BY <1>2, <2>1 DEF CP!PushSnapshot, CP!Channel!Push, CP!Channel!Drop, workerVars, Offers
  <2> QED
    BY <2>2
<1>3. CASE CP!SetFeatureQueue(FALSE) /\ MainGoto("detach", "closing") /\ UNCHANGED workerVars
  BY <1>3 DEF CP!SetFeatureQueue, CP!chan, workerVars, Elsewhere, Still
<1>4. CASE StartWorker
  BY <1>4 DEF StartWorker, Worker!Start, Worker!joinable, Worker!chan, Worker!workerVars,
     chan, collectorVars, workerVars, Elsewhere, Still
<1>5. CASE Initialize \/ Quit \/ CloseListener \/ WaitForAllAcceptEventsReturned
           \/ JoinProducers \/ EndTeardown \/ WriteAiRuntimeReport
  BY <1>5 DEF Initialize, Quit, CloseListener, WaitForAllAcceptEventsReturned,
     JoinProducers, EndTeardown, WriteAiRuntimeReport, chan, collectorVars, workerVars,
     Elsewhere, Still
<1>6. CASE StopWorker
  BY <1>6 DEF StopWorker, Worker!StopStep, Worker!StopRequest, Worker!StopClose,
     Worker!StopJoin, Worker!Channel!CloseChannel, Worker!chan, Worker!workerVars,
     collectorVars, Elsewhere, Still
<1>7. CASE WorkerThread
  <2>0. offered' = offered
    BY <1>7 DEF WorkerThread, collectorVars
  <2>1. CASE Worker!WorkerEnter
    BY <2>0, <2>1 DEF Worker!WorkerEnter, Worker!Channel!CloseChannel, Worker!chan,
       Worker!workerVars, Elsewhere, NeverRuns, Still
  <2>2. CASE Worker!WorkerPop
    <3>1. Pops
      BY <2>0, <2>2 DEF Worker!WorkerPop, Worker!Channel!Pop, Pops
    <3> QED
      BY <2>2, <3>1 DEF Worker!WorkerPop, Discards, Skips, Takes
  <2>3. CASE Worker!WorkerExit
    BY <2>0, <2>3 DEF Worker!WorkerExit, Worker!chan, Worker!workerVars, Elsewhere, Still
  <2>4. ASSUME NEW outcome \in Worker!Outcome, Worker!ProcessItem(outcome)
        PROVE  Ends(outcome)
    BY <2>0, <2>4 DEF Worker!ProcessItem, Worker!chan, KeysOf, Ends, Still
  <2> QED
    BY <1>7, <2>1, <2>2, <2>3, <2>4 DEF WorkerThread, Worker!WorkerStep
<1>8. CASE Deadline \/ UNCHANGED vars
  BY <1>8 DEF Deadline, Worker!DeadlinePasses, Worker!chan, Worker!workerVars, vars, chan,
     collectorVars, workerVars, Elsewhere, Still
<1> QED
  BY <1>1, <1>2, <1>3, <1>4, <1>5, <1>6, <1>7, <1>8, StepCases DEF WorkerOrMain

LEMMA ChannelStep ==
  ASSUME WorkerOrMain, closed \in BOOLEAN
  PROVE  /\ content' = content \/ (content # <<>> /\ content' = Tail(content))
         /\ closed' \in BOOLEAN /\ dropped' = dropped
<1>1. CASE \/ StartWorker \/ Initialize \/ Quit \/ CloseListener
           \/ WaitForAllAcceptEventsReturned \/ JoinProducers \/ EndTeardown
           \/ WriteAiRuntimeReport \/ Deadline \/ UNCHANGED vars
  BY <1>1 DEF StartWorker, Initialize, Quit, CloseListener,
     WaitForAllAcceptEventsReturned, JoinProducers, EndTeardown, WriteAiRuntimeReport, Deadline, Worker!Start, Worker!DeadlinePasses, Worker!chan, chan,
     vars
<1>2. CASE StopWorker
  BY <1>2 DEF StopWorker, Worker!StopStep, Worker!StopRequest, Worker!StopClose,
     Worker!StopJoin, Worker!Channel!CloseChannel, Worker!chan
<1>3. CASE WorkerThread
  <2>1. CASE Worker!WorkerEnter \/ Worker!WorkerExit
    BY <2>1 DEF Worker!WorkerEnter, Worker!WorkerExit, Worker!Channel!CloseChannel,
       Worker!chan
  <2>2. CASE Worker!WorkerPop \/ \E outcome \in Worker!Outcome : Worker!ProcessItem(outcome)
    BY <2>2 DEF Worker!WorkerPop, Worker!ProcessItem, Worker!Channel!Pop, Worker!chan
  <2> QED
    BY <1>3, <2>1, <2>2 DEF WorkerThread, Worker!WorkerStep
<1> QED
  BY <1>1, <1>2, <1>3 DEF WorkerOrMain

LEMMA RuntimeShapes ==
  ASSUME CP!Shapes, [Next]_vars
  PROVE  CP!Shapes'
<1>1. CASE Makes
  BY <1>1, NotifiersAssumption, CP!MakeShapes DEF Makes
<1>2. CASE Updates \/ Pushes
  BY <1>2, NotifiersAssumption, CP!CriticalShapes, CP!PushShapes DEF Updates, Pushes
<1>3. CASE CP!SetFeatureQueue(FALSE)
  BY <1>3, NotifiersAssumption, CP!OtherShapes
<1>4. CASE WorkerOrMain
  <2>1. UNCHANGED <<m_sessions, m_featureQueue, m_ignoredAfterCloseEventCount, pc, event,
                    queueItem, now, phase, removed, offered>>
    BY <1>4, OutsideCollector DEF collectorVars
  <2>2. /\ content' = content \/ (content # <<>> /\ content' = Tail(content))
        /\ closed' \in BOOLEAN /\ dropped' = dropped
    BY <1>4, ChannelStep DEF CP!Shapes, CP!Flags
  <2>3. content' \in Seq(CP!Item)
    BY <2>2 DEF CP!Shapes, CP!QueueShapes
  <2>4. CP!ThreadShapes' /\ CP!SessionShapes'
    BY <2>1 DEF CP!Shapes, CP!ThreadShapes, CP!SessionShapes, CP!EventShape
  <2>5. CP!QueueShapes' /\ CP!Flags'
    BY <2>1, <2>2, <2>3 DEF CP!Shapes, CP!QueueShapes, CP!Flags
  <2> QED
    BY <2>4, <2>5 DEF CP!Shapes
<1> QED
  BY <1>1, <1>2, <1>3, <1>4, StepCases

-----------------------------------------------------------------------------
(* Every item is accounted for *)

Held == IF thread = "posting" THEN 1 ELSE 0
Failure == IF initFailed THEN 1 ELSE 0

\* An item that was offered was dropped, is queued or in the worker's hands,
\* or is counted; a worker that never ran is counted as a failure too.
Balance == Len(offered) + Failure = dropped + Len(content) + Held + Accounted

BalanceInv == stats \in Worker!Stats /\ Balance

LEMMA BalanceStep ==
  ASSUME CP!Shapes, LifeInv, BalanceInv, [Next]_vars
  PROVE  BalanceInv'
<1>1. /\ offered \in Seq(CP!Item) /\ content \in Seq(CP!Item) /\ dropped \in Nat
      /\ Len(offered) \in Nat /\ Len(content) \in Nat /\ Accounted \in Nat
      /\ stats \in Worker!Stats /\ Held \in Nat /\ Failure \in Nat
  BY AccountedFacts DEF CP!Shapes, CP!QueueShapes, BalanceInv, Held, Failure
<1>2. CASE Elsewhere
  <2>1. /\ UNCHANGED <<content, dropped, offered, stats, initFailed>> /\ Held' = Held
    BY <1>2 DEF Elsewhere, Still, Held
  <2> QED
    BY <2>1 DEF BalanceInv, Balance, Failure, Accounted
<1>3. ASSUME NEW t \in Notifiers, Offers(t) PROVE BalanceInv'
  <2>1. queueItem[t] \in CP!Item
    BY <1>3 DEF Offers, CP!Shapes, CP!ThreadShapes
  <2>2. UNCHANGED <<Accounted, Held, Failure, stats>>
    BY <1>3 DEF Offers, Accounted, Held, Failure
  <2>3. Len(offered') = Len(offered) + 1
    BY <1>1, <1>3, <2>1 DEF Offers
  <2>4. CASE content' = Append(content, queueItem[t]) /\ dropped' = dropped
    <3>1. Len(content') = Len(content) + 1
      BY <1>1, <2>1, <2>4
    <3>2. (Len(offered) + 1) + Failure = dropped + (Len(content) + 1) + Held + Accounted
      BY <1>1 DEF BalanceInv, Balance
    <3> QED
      BY <1>1, <2>2, <2>3, <2>4, <3>1, <3>2 DEF BalanceInv, Balance
  <2>5. CASE content' = content /\ dropped' = dropped + 1
    BY <1>1, <2>2, <2>3, <2>5 DEF BalanceInv, Balance
  <2> QED
    BY <1>3, <2>4, <2>5 DEF Offers
<1>4. CASE Discards \/ Skips
  <2>1. PICK keys \in ItemKeys : stats' = Worker!Bump(keys)
    BY <1>4 DEF Discards, Skips, ItemKeys
  <2>2. stats' \in Worker!Stats /\ Accounted' = Accounted + 1
    BY <1>1, <2>1, OneMore
  <2>3. UNCHANGED <<offered, dropped, Held, Failure>> /\ Len(content') = Len(content) - 1
    BY <1>1, <1>4 DEF Discards, Skips, Pops, Held, Failure
  <2> QED
    BY <1>1, <2>2, <2>3 DEF BalanceInv, Balance
<1>5. CASE Takes
  <2>1. UNCHANGED <<offered, dropped, Failure, stats, Accounted>>
        /\ Len(content') = Len(content) - 1
    BY <1>1, <1>5 DEF Takes, Pops, Failure, Accounted
  <2>2. Held = 0 /\ Held' = 1
    BY <1>5 DEF Takes, Pops, Held
  <2> QED
    BY <1>1, <2>1, <2>2 DEF BalanceInv, Balance
<1>6. ASSUME NEW outcome \in Worker!Outcome, Ends(outcome) PROVE BalanceInv'
  <2>1. KeysOf(outcome) \in ItemKeys
    BY DEF Worker!Outcome, KeysOf, ItemKeys
  <2>2. stats' \in Worker!Stats /\ Accounted' = Accounted + 1
    BY <1>1, <1>6, <2>1, OneMore DEF Ends
  <2>3. UNCHANGED <<offered, content, dropped, Failure>> /\ Held = 1 /\ Held' = 0
    BY <1>6 DEF Ends, Still, Held, Failure
  <2> QED
    BY <1>1, <2>2, <2>3 DEF BalanceInv, Balance
<1>7. CASE NeverRuns
  <2>1. stats' \in Worker!Stats /\ Accounted' = Accounted + 1
    <3>1. {"failed"} \in ItemKeys
      BY DEF ItemKeys
    <3> QED
      BY <1>1, <1>7, <3>1, OneMore DEF NeverRuns
  <2>2. Failure = 0 /\ Failure' = 1
    BY <1>7 DEF NeverRuns, Failure, LifeInv, Life
  <2>3. UNCHANGED <<offered, content, dropped>> /\ Held = 0 /\ Held' = 0
    BY <1>7 DEF NeverRuns, Still, Held
  <2> QED
    BY <1>1, <2>1, <2>2, <2>3 DEF BalanceInv, Balance
<1> QED
  BY <1>2, <1>3, <1>4, <1>5, <1>6, <1>7, FlowCases DEF LifeInv

-----------------------------------------------------------------------------
(* The order of the teardown *)

\* The network threads are back when the pool was joined, and the main thread
\* reports events only in Initialize and in the teardown of ServerApp; the
\* queue of a worker that runs is closed after both.
Quiet ==
    /\ mainPc \notin {"serving", "detach", "closing", "waiting", "joining"}
           => \A t \in Producers : pc[t] = "idle"
    /\ mainPc \notin {"init", "teardown"} => pc[main] = "idle"
    /\ closed /\ ~initFailed => mainPc \in {"report", "aborting", "done", "failed"}

\* A thread that is in OnNetworkEvent changes its own place only.
LEMMA NotifySteps ==
  ASSUME CP!Shapes, NEW t \in Notifiers,
         Collector!OnNetworkEvent(t) \/ Collector!PushSnapshot(t)
  PROVE  /\ pc[t] # "idle" /\ \A u \in Notifiers \ {t} : pc'[u] = pc[u]
         /\ closed' = closed
<1>1. pc \in [Notifiers -> {"idle", "notify", "push"}]
  BY DEF CP!Shapes, CP!ThreadShapes
<1>2. CASE Collector!OnNetworkEvent(t)
  <2>1. /\ pc[t] = "notify" /\ closed' = closed
        /\ \/ pc' = [pc EXCEPT ![t] = "push"]
           \/ pc' = [pc EXCEPT ![t] = "idle"]
    BY <1>2 DEF Collector!OnNetworkEvent, Collector!chan
  <2> QED
    BY <1>1, <2>1
<1>3. CASE Collector!PushSnapshot(t)
  BY <1>1, <1>3 DEF Collector!PushSnapshot, Collector!Channel!Push, Collector!Channel!Drop
<1> QED
  BY <1>2, <1>3

LEMMA QuietStep ==
  ASSUME CP!Shapes, LifeInv, Quiet, [Next]_vars
  PROVE  Quiet'
<1>1. /\ pc \in [Notifiers -> {"idle", "notify", "push"}]
      /\ main \notin Producers /\ Notifiers = Producers \cup {main}
  BY RuntimeAssumption DEF CP!Shapes, CP!ThreadShapes, Notifiers
<1>2. ASSUME NEW s \in Sessions, DestroySession(s)
      PROVE  Quiet'
  BY <1>1, <1>2 DEF DestroySession, Collector!MakeNetworkEvent, Collector!chan, workerVars,
     Quiet
<1>3. ASSUME NEW t \in Producers, NetworkThread(t)
      PROVE  Quiet'
  <2>1. ASSUME NEW s \in Sessions, NEW type \in Collector!EventType,
               Collector!MakeNetworkEvent(t, s, type)
        PROVE  /\ \A u \in Notifiers \ {t} : pc'[u] = pc[u]
               /\ closed' = closed
    BY <1>1, <2>1 DEF Collector!MakeNetworkEvent, Collector!chan
  <2>2. /\ \A u \in Notifiers \ {t} : pc'[u] = pc[u]
        /\ closed' = closed
        /\ pc[t] # "idle" \/ mainPc \in {"serving", "detach", "closing", "waiting", "joining"}
    BY <1>1, <1>3, <2>1, NotifySteps DEF NetworkThread
  <2>3. UNCHANGED <<mainPc, initFailed>>
    BY <1>3 DEF NetworkThread, workerVars
  <2> QED
    BY <1>1, <2>2, <2>3 DEF Quiet
<1>4. CASE MainNotify
  <2>1. UNCHANGED <<mainPc, initFailed>>
    BY <1>4 DEF MainNotify, workerVars
  <2> QED
    BY <1>1, <1>4, <2>1, NotifySteps DEF MainNotify, Quiet
<1>5. CASE Detach
  BY <1>5 DEF Detach, MainGoto, Collector!SetFeatureQueue, Collector!chan,
     Collector!threadVars, workerVars, Quiet
<1>6. CASE WorkerOrMain
  <2>1. pc' = pc
    BY <1>6, OutsideCollector DEF collectorVars
  <2>2. CASE \/ Initialize \/ Quit \/ CloseListener \/ WaitForAllAcceptEventsReturned
             \/ JoinProducers \/ EndTeardown \/ WriteAiRuntimeReport
    BY <2>1, <2>2 DEF Initialize, Quit, CloseListener, WaitForAllAcceptEventsReturned,
       JoinProducers, EndTeardown, WriteAiRuntimeReport, MainGoto, chan, workerVars, Quiet
  <2>3. CASE StartWorker
    BY <2>1, <2>3 DEF StartWorker, MainGoto, Worker!Start, Worker!chan, chan, workerVars,
       Quiet
  <2>4. CASE StopWorker
    <3>1. CASE Worker!StopRequest(main)
               /\ (MainGoto("stopping", "report") \/ MainGoto("abort", "aborting"))
      BY <2>1, <3>1 DEF MainGoto, Worker!StopRequest, Worker!chan, Quiet
    <3>2. CASE Worker!StopClose(main) /\ UNCHANGED mainPc
      <4>1. mainPc \in {"report", "aborting"}
        BY <3>2 DEF Worker!StopClose, LifeInv, Life
      <4> QED
        BY <2>1, <3>2, <4>1 DEF Quiet
    <3>3. CASE Worker!StopJoin(main) /\ UNCHANGED mainPc
      BY <2>1, <3>3 DEF Worker!StopJoin, Worker!chan, Worker!workerVars, Quiet
    <3> QED
      BY <2>4, <3>1, <3>2, <3>3 DEF StopWorker, Worker!StopStep
  <2>5. CASE WorkerThread
    <3>1. /\ mainPc' = mainPc
          /\ initFailed' = TRUE \/ (closed' = closed /\ initFailed' = initFailed)
      BY <2>5 DEF WorkerThread, Worker!WorkerStep, Worker!WorkerEnter, Worker!WorkerPop,
         Worker!WorkerExit, Worker!ProcessItem, Worker!Channel!Pop, Worker!chan,
         Worker!workerVars
    <3> QED
      BY <2>1, <3>1 DEF Quiet
  <2>6. CASE Deadline \/ UNCHANGED vars
    BY <2>1, <2>6 DEF Deadline, Worker!DeadlinePasses, Worker!chan, Worker!workerVars,
       vars, chan, workerVars, Quiet
  <2> QED
    BY <1>6, <2>2, <2>3, <2>4, <2>5, <2>6 DEF WorkerOrMain
<1> QED
  BY <1>2, <1>3, <1>4, <1>5, <1>6 DEF Next, MainExit, WorkerOrMain

-----------------------------------------------------------------------------
LEMMA InitInv == Init => CP!Shapes /\ LifeInv /\ BalanceInv /\ Quiet
<1> SUFFICES ASSUME Init PROVE CP!Shapes /\ LifeInv /\ BalanceInv /\ Quiet
  OBVIOUS
<1>1. CP!Init
  BY SameActions DEF Init
<1>2. CP!Shapes
  BY <1>1, NotifiersAssumption, CP!InitShapes
<1>3. LifeInv
  BY DEF Init, Worker!WorkerInit, LifeInv, LifeShapes, Life, Drained, Up, MainState,
     Worker!ThreadState
<1>4. stats \in Worker!Stats
  BY DEF Init, Worker!WorkerInit, Worker!Stats
<1>5. Accounted = 0
  BY DEF Init, Worker!WorkerInit, Accounted
<1>6. Held = 0 /\ Failure = 0
  BY DEF Init, Worker!WorkerInit, Held, Failure
<1>7. offered = <<>> /\ content = <<>> /\ dropped = 0
  BY <1>1 DEF CP!Init, CP!Channel!ChanInit
<1>8. Quiet
  BY <1>1 DEF Init, CP!Init, CP!Channel!ChanInit, Notifiers, Quiet
<1> QED
  BY <1>2, <1>3, <1>4, <1>5, <1>6, <1>7, <1>8 DEF BalanceInv, Balance

\* When wmain has written its report, the counters in it account for every
\* snapshot offered to the queue, once; the queue is empty unless the worker
\* never ran, and none was refused by a queue that Stop had closed.  Producers,
\* the worker, Stop and the deadline may interleave in any way before.
THEOREM ReportAccountsForAllHolds == Spec => []ReportAccountsForAll
<1> DEFINE IInv == CP!Shapes /\ LifeInv /\ BalanceInv /\ Quiet
<1>1. Init => IInv
  BY InitInv
<1>2. IInv /\ [Next]_vars => IInv'
  BY RuntimeShapes, LifeStep, BalanceStep, QuietStep DEF CP!Shapes, CP!Flags
<1>3. IInv /\ closed /\ ~initFailed => \A t \in Producers \cup {main} : pc[t] # "push"
  BY DEF Quiet
<1>4. IInv => ReportAccountsForAll
  <2> SUFFICES ASSUME IInv, mainPc = "done"
               PROVE  /\ Len(offered) = dropped + Len(content) + stats.stored
                             + stats.parseFailed + stats.failed + stats.skipped
                             + stats.discarded - (IF initFailed THEN 1 ELSE 0)
                      /\ ~initFailed => content = <<>>
    BY <1>3 DEF ReportAccountsForAll
  <2>1. thread = "none" /\ (~initFailed => content = <<>>)
    BY DEF LifeInv, LifeShapes, Life, Drained
  <2>2. Held = 0
    BY <2>1 DEF Held
  <2>3. /\ Len(offered) \in Nat /\ Len(content) \in Nat /\ dropped \in Nat
        /\ Failure \in Nat /\ stats \in Worker!Stats
    BY DEF CP!Shapes, CP!QueueShapes, BalanceInv, Failure
  <2>4. /\ stats.stored \in Nat /\ stats.parseFailed \in Nat /\ stats.failed \in Nat
        /\ stats.skipped \in Nat /\ stats.discarded \in Nat
    BY <2>3, AccountedFacts
  <2>5. Len(offered) + Failure = dropped + Len(content) + Accounted
    BY <2>2, <2>3, <2>4 DEF BalanceInv, Balance, Accounted
  <2>6. Len(offered) = dropped + Len(content) + stats.stored + stats.parseFailed
                           + stats.failed + stats.skipped + stats.discarded - Failure
    <3>1. Len(offered) = dropped + Len(content) + Accounted - Failure
      <4>1. Accounted \in Nat
        BY <2>3, AccountedFacts
      <4>2. /\ Len(offered) \in Nat /\ Len(content) \in Nat
            /\ dropped \in Nat /\ Failure \in Nat
        BY <2>3
      <4> QED
        BY <2>5, <4>1, <4>2
    <3>2. dropped + Len(content) + Accounted - Failure =
              dropped + Len(content) + stats.stored + stats.parseFailed
                  + stats.failed + stats.skipped + stats.discarded - Failure
      <4>1. PICK v, w, x, y, z \in Nat :
                /\ v = stats.stored /\ w = stats.parseFailed /\ x = stats.failed
                /\ y = stats.skipped /\ z = stats.discarded
        BY <2>4
      <4>2. PICK d, c, f \in Nat : d = dropped /\ c = Len(content) /\ f = Failure
        BY <2>3
      <4>3. d + c + (v + w + x + y + z) - f = d + c + v + w + x + y + z - f
        OBVIOUS
      <4> QED
        BY <4>1, <4>2, <4>3, Zenon DEF Accounted
    <3> QED
      BY <3>1, <3>2
  <2> QED
    BY <2>1, <2>6 DEF Failure
<1> HIDE DEF IInv
<1> QED
  BY <1>1, <1>2, <1>4, PTL DEF Spec

-----------------------------------------------------------------------------
(* The order of a session's snapshots in the process *)

LEMMA RuntimeFromEmitters ==
  ASSUME CP!Shapes, CP!FromEmitters, [Next]_vars
  PROVE  CP!FromEmitters'
<1>1. CASE Makes \/ Updates \/ Pushes \/ CP!SetFeatureQueue(FALSE)
  <2>1. CP!Next
    BY <1>1 DEF Makes, Updates, Pushes, CP!Next
  <2> QED
    BY <2>1, NotifiersAssumption, CP!FromEmittersStep
<1>2. CASE WorkerOrMain
  <2>1. UNCHANGED <<pc, event, queueItem>>
    BY <1>2, OutsideCollector DEF collectorVars
  <2> QED
    BY <2>1 DEF CP!FromEmitters
<1> QED
  BY <1>1, <1>2, StepCases

\* One thread at a time has a packet of a session, or the message made of it.
LEMMA NeverTwo ==
  ASSUME CP!FromEmitters, NEW s \in Sessions
  PROVE  CP!Alone(s)
<1>1. CP!Bound(s)
  BY RuntimeAssumption DEF CP!Bound
<1> QED
  BY <1>1, NotifiersAssumption, CP!BoundIsAlone

Ordered == \A s \in Sessions : CP!InTurn(s)

LEMMA OrderedStep ==
  ASSUME CP!Shapes, CP!FromEmitters, Ordered, [Next]_vars
  PROVE  Ordered'
<1> SUFFICES ASSUME NEW s \in Sessions PROVE CP!InTurn(s)'
  BY DEF Ordered
<1>1. CP!InTurn(s) /\ CP!Alone(s)
  BY NeverTwo DEF Ordered
<1>2. CASE Makes
  BY <1>1, <1>2, NotifiersAssumption, CP!MakeInTurn DEF Makes
<1>3. CASE Updates \/ Pushes
  BY <1>1, <1>3, NotifiersAssumption, CP!CriticalInTurn, CP!PushInTurn DEF Updates, Pushes
<1>4. CASE CP!SetFeatureQueue(FALSE) \/ WorkerOrMain
  <2>1. UNCHANGED <<pc, queueItem, m_sessions, offered>>
    BY <1>4, OutsideCollector DEF collectorVars, CP!SetFeatureQueue, CP!threadVars
  <2> QED
    BY <1>1, <2>1 DEF CP!InTurn, CP!OfferedCounted, CP!CarriedCounted, CP!CarriedNext,
       CP!OfferedOrdered
<1> QED
  BY <1>2, <1>3, <1>4, StepCases

\* Messages are numbered from 1.
FromOne(x) == x.kind = "message" => x.request_index > 0

Numbered ==
    /\ \A t \in Notifiers : pc[t] = "push" => FromOne(queueItem[t])
    /\ \A i \in 1..Len(offered) : FromOne(offered[i])

LEMMA PushedIs ==
  ASSUME CP!Shapes, NEW t \in Notifiers, Offers(t)
  PROVE  /\ queueItem[t] \in CP!Item /\ offered' \in Seq(CP!Item)
         /\ Len(offered) \in Nat /\ Len(offered') = Len(offered) + 1
         /\ offered'[Len(offered) + 1] = queueItem[t]
         /\ \A i \in 1..Len(offered) : offered'[i] = offered[i]
         /\ \A i \in 1..Len(offered') : i \in 1..Len(offered) \/ i = Len(offered) + 1
<1>1. queueItem[t] \in CP!Item /\ offered \in Seq(CP!Item)
  BY DEF Offers, CP!Shapes, CP!ThreadShapes, CP!QueueShapes
<1> QED
  BY <1>1 DEF Offers

LEMMA NumberedStep ==
  ASSUME CP!Shapes, Numbered, [Next]_vars
  PROVE  Numbered'
<1>0. pc \in [Notifiers -> {"idle", "notify", "push"}]
  BY DEF CP!Shapes, CP!ThreadShapes
<1>1. CASE Makes
  <2>1. /\ \A t \in Notifiers : pc'[t] = "push" => pc[t] = "push"
        /\ queueItem' = queueItem /\ offered' = offered
    BY <1>0, <1>1 DEF Makes, CP!MakeNetworkEvent
  <2> QED
    BY <2>1 DEF Numbered, FromOne
<1>2. ASSUME NEW t \in Notifiers, CP!OnNetworkEvent(t) PROVE Numbered'
  <2> DEFINE e == event[t]
             found == CP!GetOrCreateSessionLocked(e)
             state == m_sessions'[e.session]
             pushes == /\ pc' = [pc EXCEPT ![t] = "push"] /\ ~found.is_closed
                       /\ queueItem' = [queueItem EXCEPT ![t] = CP!Snapshot(state, e)]
                       /\ e.type \in {"PacketParsed", "SessionClosed"}
  <2>1. /\ CP!EventShape(e) /\ found \in CP!Entry /\ state \in CP!Entry
        /\ ~found.is_closed => state = CP!Handle(found, e)
        /\ \/ pc' = [pc EXCEPT ![t] = "idle"] /\ queueItem' = queueItem
           \/ pushes
    BY <1>2, NotifiersAssumption, CP!CriticalFacts
  <2>2. offered' = offered
    BY <1>2 DEF CP!OnNetworkEvent
  <2>3. CASE pc' = [pc EXCEPT ![t] = "idle"] /\ queueItem' = queueItem
    BY <1>0, <2>2, <2>3 DEF Numbered, FromOne
  <2>4. CASE pushes
    <3>1. e.type = "PacketParsed" => state.request_count = found.request_count + 1
      BY <2>1, <2>4, NotifiersAssumption, CP!HandleFacts
    <3>2. found.request_count \in Nat
      BY <2>1 DEF CP!Entry
    <3>3. /\ CP!Snapshot(state, e).kind = IF e.type = "PacketParsed" THEN "message" ELSE "summary"
          /\ e.type = "PacketParsed"
                 => CP!Snapshot(state, e).request_index = state.request_count
      BY <2>1, NotifiersAssumption, CP!SnapshotFacts
    <3>4. FromOne(CP!Snapshot(state, e))
      BY <3>1, <3>2, <3>3 DEF FromOne
    <3>5. queueItem'[t] = CP!Snapshot(state, e)
          /\ \A u \in Notifiers \ {t} : pc'[u] = pc[u] /\ queueItem'[u] = queueItem[u]
      BY <2>4 DEF CP!Shapes, CP!ThreadShapes
    <3> HIDE DEF state, e, found
    <3> QED
      BY <2>2, <3>4, <3>5 DEF Numbered, FromOne
  <2> QED
    BY <2>1, <2>3, <2>4
<1>3. ASSUME NEW t \in Notifiers, CP!PushSnapshot(t), Offers(t) PROVE Numbered'
  <2>1. /\ pc[t] = "push" /\ queueItem' = queueItem
        /\ \A u \in Notifiers : pc'[u] = "push" => pc[u] = "push"
    BY <1>0, <1>3 DEF CP!PushSnapshot
  <2>2. \A i \in 1..Len(offered') : FromOne(offered'[i])
    BY <1>3, <2>1, PushedIs DEF Numbered
  <2> QED
    BY <2>1, <2>2 DEF Numbered, FromOne
<1>4. CASE Pushes /\ UNCHANGED <<mainPc, workerVars>>
  <2>1. PICK t \in Notifiers : CP!PushSnapshot(t)
    BY <1>4 DEF Pushes
  <2>2. Offers(t)
    BY <1>4, <2>1 DEF CP!PushSnapshot, CP!Channel!Push, CP!Channel!Drop, workerVars, Offers
  <2> QED
    BY <1>3, <2>1, <2>2
<1>5. CASE CP!SetFeatureQueue(FALSE) \/ WorkerOrMain
  <2>1. UNCHANGED <<pc, queueItem, offered>>
    BY <1>5, OutsideCollector DEF collectorVars, CP!SetFeatureQueue, CP!threadVars
  <2> QED
    BY <2>1 DEF Numbered, FromOne
<1> QED
  BY <1>1, <1>2, <1>4, <1>5, StepCases DEF Updates

\* No more messages are offered than the highest number says.
CountBounded(s) ==
    \A m \in Nat : (\A i \in MessagesOffered(s) : offered[i].request_index <= m)
                       => Cardinality(MessagesOffered(s)) <= m

LEMMA CountStep ==
  ASSUME CP!Shapes, LifeShapes, Ordered, Numbered, NEW s \in Sessions, CountBounded(s),
         [Next]_vars
  PROVE  CountBounded(s)'
<1>1. CASE offered' = offered
  BY <1>1 DEF CountBounded, MessagesOffered
<1>2. ASSUME NEW t \in Notifiers, Offers(t) PROVE CountBounded(s)'
  <2> DEFINE n == Len(offered) + 1
             x == queueItem[t]
             old == MessagesOffered(s)
             new == MessagesOffered(s)'
  <2>1. /\ x \in CP!Item /\ Len(offered) \in Nat /\ Len(offered') = n /\ offered'[n] = x
        /\ \A i \in 1..Len(offered) : offered'[i] = offered[i]
        /\ \A i \in 1..Len(offered') : i \in 1..Len(offered) \/ i = n
    BY <1>2, PushedIs
  <2>2. \A i \in old : i \in 1..Len(offered) /\ offered'[i] = offered[i]
    BY <2>1 DEF MessagesOffered
  <2>3. CASE ~(x.session = s /\ x.kind = "message")
    <3>1. new = old
      BY <2>1, <2>3 DEF MessagesOffered
    <3> HIDE DEF new, old
    <3>2. SUFFICES ASSUME NEW m \in Nat, \A i \in new : offered'[i].request_index <= m
                   PROVE  Cardinality(new) <= m
      BY DEF CountBounded, new
    <3>3. \A i \in old : offered[i].request_index <= m
      BY <2>2, <3>1, <3>2
    <3> QED
      BY <3>1, <3>3 DEF CountBounded, old
  <2>4. CASE x.session = s /\ x.kind = "message"
    <3>1. new = old \cup {n} /\ n \notin old
      BY <2>1, <2>4 DEF MessagesOffered
    <3>2. IsFiniteSet(old)
      <4>1. old \subseteq 1..Len(offered)
        BY DEF MessagesOffered
      <4>2. IsFiniteSet(1..Len(offered))
        BY <2>1, FS_Interval
      <4> HIDE DEF old
      <4> QED
        BY <4>1, <4>2, FS_Subset
    <3>3. \A i \in old : offered[i].request_index < x.request_index
      <4>1. CP!CarriedNext(s) /\ pc[t] = "push"
        BY <1>2 DEF Ordered, CP!InTurn, Offers
      <4> QED
        BY <2>4, <4>1 DEF CP!CarriedNext, CP!Message, CP!Before, MessagesOffered
    <3>4. x.request_index > 0 /\ x.request_index \in Nat
      BY <1>2, <2>1, <2>4 DEF Numbered, FromOne, Offers, CP!Item
    <3>5. \A i \in old : offered[i].request_index \in Nat
      <4>1. \A i \in 1..Len(offered) : offered[i] \in CP!Item
        BY DEF CP!Shapes, CP!QueueShapes
      <4> HIDE DEF old
      <4> QED
        BY <2>2, <4>1 DEF CP!Item
    <3> HIDE DEF new, old, x
    <3>6. SUFFICES ASSUME NEW m \in Nat, \A i \in new : offered'[i].request_index <= m
                   PROVE  Cardinality(new) <= m
      BY DEF CountBounded, new
    <3>7. x.request_index <= m
      BY <2>1, <3>1, <3>6
    <3>8. m - 1 \in Nat /\ \A i \in old : offered[i].request_index <= m - 1
      BY <3>3, <3>4, <3>5, <3>7
    <3>9. Cardinality(old) <= m - 1
      BY <3>8 DEF CountBounded, old
    <3>10. Cardinality(new) = Cardinality(old) + 1 /\ Cardinality(old) \in Nat
      BY <3>1, <3>2, FS_AddElement, FS_CardinalityType
    <3> QED
      BY <3>9, <3>10
  <2> QED
    BY <2>3, <2>4
<1> QED
  BY <1>1, <1>2, FlowCases DEF Elsewhere, Still, Discards, Skips, Takes, Pops, Ends, NeverRuns

-----------------------------------------------------------------------------
(* The results the worker keeps *)

Lossless ==
    /\ dropped = 0 /\ stats.failed = 0 /\ stats.parseFailed = 0 /\ stats.discarded = 0

Popped == Len(offered) - Len(content)
Done == Popped - Held

\* What the worker holds, and the queue, are the last of what was offered.
InFlight ==
    /\ thread = "posting" => /\ item \in CP!Item
                             /\ ~(MessageOnly /\ item.kind = "summary")
    /\ dropped = 0 =>
           /\ Done >= 0
           /\ \A k \in 1..Len(content) : content[k] = offered[Popped + k]
           /\ thread = "posting" => item = offered[Popped]

IsLast(seq, i, s, n) ==
    /\ i \in 1..n /\ seq[i].session = s /\ seq[i].kind = "message"
    /\ \A j \in 1..n : j > i => ~(seq[j].session = s /\ seq[j].kind = "message")

\* The results are those of the last message of each session among the
\* first n items.
Judged(seq, results, n) ==
    \A s \in Sessions, i \in 1..n :
        IsLast(seq, i, s, n) => /\ results[s].has
                                /\ results[s].request_index = seq[i].request_index

StoreInv ==
    /\ store = [s \in Sessions |-> store[s]]
    /\ InFlight
    /\ Lossless => Judged(offered, store, Done)

LEMMA JudgedPrefix ==
  ASSUME NEW seq, NEW longer, NEW results, NEW n \in Nat,
         \A i \in 1..n : longer[i] = seq[i], Judged(seq, results, n)
  PROVE  Judged(longer, results, n)
BY DEF Judged, IsLast

LEMMA JudgedSkips ==
  ASSUME NEW seq, NEW results, NEW n \in Nat, seq[n + 1].kind # "message",
         Judged(seq, results, n)
  PROVE  Judged(seq, results, n + 1)
<1> SUFFICES ASSUME NEW s \in Sessions, NEW i \in 1..(n + 1), IsLast(seq, i, s, n + 1)
             PROVE  results[s].has /\ results[s].request_index = seq[i].request_index
  BY DEF Judged
<1>1. i \in 1..n
  BY DEF IsLast
<1>2. IsLast(seq, i, s, n)
  BY <1>1 DEF IsLast
<1> QED
  BY <1>1, <1>2 DEF Judged

LEMMA JudgedStores ==
  ASSUME NEW seq, NEW results, NEW later, NEW n \in Nat, NEW total,
         results = [s \in Sessions |-> results[s]],
         seq[n + 1].session \in Sessions, seq[n + 1].kind = "message",
         later = [results EXCEPT ![seq[n + 1].session] =
                     [has |-> TRUE, request_index |-> seq[n + 1].request_index,
                      total |-> total]],
         Judged(seq, results, n)
  PROVE  Judged(seq, later, n + 1)
<1> SUFFICES ASSUME NEW s \in Sessions, NEW i \in 1..(n + 1), IsLast(seq, i, s, n + 1)
             PROVE  later[s].has /\ later[s].request_index = seq[i].request_index
  BY DEF Judged
<1>1. CASE s = seq[n + 1].session
  <2>1. i = n + 1
    BY <1>1 DEF IsLast
  <2> QED
    BY <1>1, <2>1
<1>2. CASE s # seq[n + 1].session
  <2>1. i \in 1..n /\ later[s] = results[s]
    BY <1>2 DEF IsLast
  <2>2. IsLast(seq, i, s, n)
    BY <2>1 DEF IsLast
  <2> QED
    BY <2>1, <2>2 DEF Judged
<1> QED
  BY <1>1, <1>2

LEMMA PopShifts ==
  ASSUME NEW seq, NEW c \in Seq(CP!Item), c # <<>>, NEW p \in Int,
         \A k \in 1..Len(c) : c[k] = seq[p + k]
  PROVE  /\ Head(c) = seq[p + 1] /\ Head(c) \in CP!Item
         /\ Len(Tail(c)) = Len(c) - 1
         /\ \A k \in 1..Len(Tail(c)) : Tail(c)[k] = seq[(p + 1) + k]
<1>1. Head(c) = seq[p + 1] /\ Head(c) \in CP!Item /\ Len(Tail(c)) = Len(c) - 1
  OBVIOUS
<1>2. ASSUME NEW k \in 1..Len(Tail(c)) PROVE Tail(c)[k] = seq[(p + 1) + k]
  <2>1. Tail(c)[k] = c[k + 1] /\ k + 1 \in 1..Len(c)
    BY <1>1
  <2>2. p + (k + 1) = (p + 1) + k
    OBVIOUS
  <2> QED
    BY <2>1, <2>2
<1> QED
  BY <1>1, <1>2

LEMMA StoreStep ==
  ASSUME MessageOnly, CP!Shapes, LifeShapes, stats \in Worker!Stats, StoreInv, [Next]_vars
  PROVE  StoreInv'
<1>1. /\ offered \in Seq(CP!Item) /\ content \in Seq(CP!Item) /\ dropped \in Nat
      /\ Len(offered) \in Nat /\ Len(content) \in Nat /\ Popped \in Int
      /\ Held \in {0, 1} /\ Done \in Int /\ Done = Popped - Held
  BY DEF CP!Shapes, CP!QueueShapes, Held, Popped, Done
<1>2. store = [s \in Sessions |-> store[s]] /\ InFlight
  BY DEF StoreInv
<1>3. CASE Elsewhere
  <2>1. UNCHANGED <<content, dropped, offered, item, stats, store, Held>>
    BY <1>3 DEF Elsewhere, Still, Held
  <2>2. UNCHANGED <<Popped, Done, Lossless>> /\ (thread' = "posting" <=> thread = "posting")
    BY <1>3, <2>1 DEF Elsewhere, Popped, Done, Lossless
  <2>3. InFlight'
    BY <1>2, <2>1, <2>2 DEF InFlight
  <2> QED
    BY <2>1, <2>2, <2>3 DEF StoreInv
<1>4. ASSUME NEW t \in Notifiers, Offers(t) PROVE StoreInv'
  <2>1. /\ queueItem[t] \in CP!Item /\ Len(offered') = Len(offered) + 1
        /\ offered'[Len(offered) + 1] = queueItem[t]
        /\ \A i \in 1..Len(offered) : offered'[i] = offered[i]
    BY <1>4, PushedIs
  <2>2. UNCHANGED <<thread, item, stats, store, Held>>
    BY <1>4 DEF Offers, Held
  <2>3. CASE content' = content /\ dropped' = dropped + 1
    <3>1. dropped' # 0 /\ ~Lossless'
      BY <1>1, <2>3 DEF Lossless
    <3>2. InFlight'
      BY <1>2, <2>2, <3>1 DEF InFlight
    <3> QED
      BY <1>2, <2>2, <3>1, <3>2 DEF StoreInv
  <2>4. CASE content' = Append(content, queueItem[t]) /\ dropped' = dropped
    <3>1. /\ Len(content') = Len(content) + 1
          /\ \A k \in 1..Len(content) : content'[k] = content[k]
          /\ content'[Len(content) + 1] = queueItem[t]
      BY <1>1, <2>1, <2>4
    <3>2. Popped' = Popped /\ Done' = Done /\ Lossless' = Lossless
      BY <1>1, <2>1, <2>2, <2>4, <3>1 DEF Popped, Done, Lossless
    <3>3. ASSUME dropped = 0
          PROVE  /\ \A k \in 1..Len(content') : content'[k] = offered'[Popped + k]
                 /\ thread = "posting" => item = offered'[Popped]
                 /\ Done >= 0 /\ Done <= Len(offered)
      <4>1. /\ Done >= 0 /\ Popped >= 0 /\ Popped + Len(content) = Len(offered)
            /\ \A k \in 1..Len(content) : content[k] = offered[Popped + k]
            /\ thread = "posting" => item = offered[Popped]
        BY <1>1, <1>2, <3>3 DEF InFlight, Popped
      <4>2. thread = "posting" => Popped >= 1
        BY <1>1, <4>1 DEF Held
      <4>3. \A k \in 1..Len(content) : Popped + k \in 1..Len(offered)
        BY <1>1, <4>1
      <4>4. \A k \in 1..Len(content) : content'[k] = offered'[Popped + k]
        BY <2>1, <3>1, <4>1, <4>3
      <4>5. Popped + (Len(content) + 1) = Len(offered) + 1
        BY <1>1, <4>1
      <4>6. content'[Len(content) + 1] = offered'[Popped + (Len(content) + 1)]
        BY <2>1, <3>1, <4>5
      <4>7. \A k \in 1..Len(content') : k \in 1..Len(content) \/ k = Len(content) + 1
        BY <1>1, <3>1
      <4>8. thread = "posting" => Popped \in 1..Len(offered)
        BY <1>1, <4>1, <4>2
      <4>9. \A k \in 1..Len(content') : content'[k] = offered'[Popped + k]
        BY <4>4, <4>6, <4>7
      <4>10. thread = "posting" => item = offered'[Popped]
        BY <2>1, <4>1, <4>8
      <4>11. Done <= Len(offered)
        BY <1>1, <4>1
      <4> QED
        BY <4>1, <4>9, <4>10, <4>11
    <3>4. InFlight'
      BY <1>2, <2>2, <2>4, <3>2, <3>3 DEF InFlight
    <3>5. Lossless' => Judged(offered', store', Done')
      <4> SUFFICES ASSUME Lossless' PROVE Judged(offered', store', Done')
        OBVIOUS
      <4>1. Judged(offered, store, Done) /\ dropped = 0
        BY <3>2 DEF StoreInv, Lossless
      <4>2. Done \in Nat /\ \A i \in 1..Done : offered'[i] = offered[i]
        BY <1>1, <2>1, <3>3, <4>1
      <4>3. Judged(offered', store, Done)
        BY <4>1, <4>2, JudgedPrefix
      <4> QED
        BY <2>2, <3>2, <4>3
    <3> QED
      BY <1>2, <2>2, <3>4, <3>5 DEF StoreInv
  <2> QED
    BY <1>4, <2>3, <2>4 DEF Offers
<1>5. CASE Discards \/ Skips \/ Takes
  <2>0. Pops /\ UNCHANGED <<offered, store, dropped>>
    BY <1>5 DEF Discards, Skips, Takes, Pops
  <2>1. /\ content' = Tail(content) /\ content # <<>> /\ thread = "loop"
    BY <2>0 DEF Pops
  <2>2. Len(content') = Len(content) - 1 /\ Held = 0
    BY <1>1, <2>1 DEF Held
  <2>3. Popped' = Popped + 1 /\ Done = Popped
    BY <1>1, <2>0, <2>2 DEF Popped
  <2>4. ASSUME dropped = 0
        PROVE  /\ Done >= 0 /\ Head(content) = offered[Popped + 1]
               /\ \A k \in 1..Len(content') : content'[k] = offered[Popped' + k]
    <3>1. Done >= 0 /\ \A k \in 1..Len(content) : content[k] = offered[Popped + k]
      BY <1>2, <2>4 DEF InFlight
    <3>2. /\ Head(content) = offered[Popped + 1]
          /\ \A k \in 1..Len(Tail(content)) :
                 Tail(content)[k] = offered[(Popped + 1) + k]
      BY <1>1, <2>1, <3>1, PopShifts
    <3> QED
      BY <2>1, <2>3, <3>1, <3>2
  <2>5. CASE (Discards \/ Skips) /\ Held' = 0
    <3>1. thread' = "loop" /\ Done' = Done + 1
      BY <1>1, <2>1, <2>2, <2>3, <2>5 DEF Discards, Skips, Done
    <3>2. InFlight'
      BY <1>1, <2>0, <2>4, <3>1 DEF InFlight
    <3>3. CASE Discards
      <4>1. stats'.discarded = stats.discarded + 1
        BY <3>3, BumpFacts DEF Discards
      <4>2. ~Lossless'
        BY <4>1, AccountedFacts DEF Lossless
      <4> QED
        BY <1>2, <2>0, <3>2, <4>2 DEF StoreInv
    <3>4. CASE Skips
      <4>1. /\ stats'.failed = stats.failed /\ stats'.parseFailed = stats.parseFailed
            /\ stats'.discarded = stats.discarded
        BY <3>4, BumpFacts, AccountedFacts DEF Skips
      <4>2. Lossless' => Lossless
        BY <2>0, <4>1 DEF Lossless
      <4>3. ASSUME Lossless PROVE Judged(offered, store, Done + 1)
        <5>1. dropped = 0 /\ Judged(offered, store, Done)
          BY <4>3 DEF StoreInv, Lossless
        <5>2. Done \in Nat /\ offered[Done + 1].kind = "summary"
          BY <1>1, <2>3, <2>4, <3>4, <5>1 DEF Skips
        <5> QED
          BY <5>1, <5>2, JudgedSkips
      <4> QED
        BY <1>2, <2>0, <3>1, <3>2, <4>2, <4>3 DEF StoreInv
    <3> QED
      BY <2>5, <3>3, <3>4
  <2>6. CASE Takes
    <3>1. /\ thread' = "posting" /\ item' = Head(content) /\ stats' = stats
          /\ ~(MessageOnly /\ Head(content).kind = "summary")
      BY <2>6 DEF Takes
    <3>2. Done' = Done /\ Held' = 1 /\ Lossless' = Lossless
      BY <1>1, <2>0, <2>2, <2>3, <3>1 DEF Held, Done, Lossless
    <3>3. Head(content) \in CP!Item
      BY <1>1, <2>1
    <3>4. InFlight'
      BY <2>0, <2>3, <2>4, <3>1, <3>2, <3>3 DEF InFlight
    <3> QED
      BY <1>2, <2>0, <3>2, <3>4 DEF StoreInv
  <2>7. (Discards \/ Skips) => Held' = 0
    BY <2>1 DEF Discards, Skips, Held
  <2> QED
    BY <1>5, <2>5, <2>6, <2>7
<1>6. ASSUME NEW outcome \in Worker!Outcome, Ends(outcome) PROVE StoreInv'
  <2>1. /\ UNCHANGED <<content, dropped, offered>> /\ thread = "posting" /\ thread' = "loop"
        /\ stats' = Worker!Bump(KeysOf(outcome))
        /\ Held = 1 /\ Held' = 0
    BY <1>6 DEF Ends, Still, Held
  <2>2. Popped' = Popped /\ Done' = Done + 1 /\ Done + 1 = Popped
    BY <1>1, <2>1 DEF Popped, Done
  <2>3. item \in CP!Item /\ item.kind # "summary"
    BY <1>2, <2>1 DEF InFlight
  <2>4. item.kind = "message" /\ item.session \in Sessions
    BY <2>3 DEF CP!Item
  <2>5. InFlight'
    BY <1>1, <1>2, <2>1, <2>2 DEF InFlight
  <2>6. store' = [s \in Sessions |-> store'[s]]
    BY <1>2, <1>6 DEF Ends, Worker!Update
  <2>7. CASE outcome = "stored"
    <3>1. KeysOf(outcome) = {"sent", "stored"}
      BY <2>7 DEF KeysOf
    <3>2. /\ stats'.failed = stats.failed /\ stats'.parseFailed = stats.parseFailed
          /\ stats'.discarded = stats.discarded
      BY <2>1, <3>1, BumpFacts, AccountedFacts
    <3>3. Lossless' => Lossless
      BY <2>1, <3>2 DEF Lossless
    <3>4. store' = [store EXCEPT ![item.session] =
                       [has |-> TRUE, request_index |-> item.request_index,
                        total |-> store[item.session].total + 1]]
      BY <1>6, <2>7 DEF Ends, Worker!Update
    <3>5. ASSUME Lossless PROVE Judged(offered, store', Done + 1)
      <4>1. /\ Judged(offered, store, Done) /\ Done \in Nat
            /\ item = offered[Done + 1]
        BY <1>1, <1>2, <2>1, <2>2, <3>5 DEF StoreInv, InFlight, Lossless
      <4> QED
        BY <1>2, <2>4, <3>4, <4>1, JudgedStores
    <3> QED
      BY <2>1, <2>2, <2>5, <2>6, <3>3, <3>5 DEF StoreInv
  <2>8. CASE outcome # "stored"
    <3>1. outcome \in {"parseFailed", "late", "failed", "throwsAfterSent"}
      BY <1>6, <2>3, <2>8 DEF Ends, Worker!Outcome
    <3>2. "failed" \in KeysOf(outcome) \/ "parseFailed" \in KeysOf(outcome)
      BY <3>1 DEF KeysOf
    <3>3. stats'.failed = stats.failed + 1 \/ stats'.parseFailed = stats.parseFailed + 1
      BY <2>1, <3>2, BumpFacts
    <3>4. ~Lossless'
      BY <3>3, AccountedFacts DEF Lossless
    <3> QED
      BY <2>5, <2>6, <3>4 DEF StoreInv
  <2> QED
    BY <2>7, <2>8
<1>7. CASE NeverRuns
  <2>1. stats'.failed = stats.failed + 1
    BY <1>7, BumpFacts DEF NeverRuns
  <2>2. ~Lossless'
    BY <2>1, AccountedFacts DEF Lossless
  <2>3. /\ UNCHANGED <<content, dropped, offered, store>>
        /\ thread' # "posting" /\ Held' = Held
    BY <1>7 DEF NeverRuns, Still, Held
  <2>4. Popped' = Popped /\ Done' = Done
    BY <2>3 DEF Popped, Done
  <2>5. InFlight'
    BY <1>2, <2>3, <2>4 DEF InFlight
  <2> QED
    BY <1>2, <2>2, <2>3, <2>5 DEF StoreInv
<1> QED
  BY <1>3, <1>4, <1>5, <1>6, <1>7, FlowCases

\* A worker that never ran is counted in stats.failed.
FailureCounted == initFailed => stats.failed > 0

LEMMA FailureStep ==
  ASSUME LifeShapes, stats \in Worker!Stats, FailureCounted, [Next]_vars
  PROVE  FailureCounted'
<1>1. stats.failed \in Nat
  BY AccountedFacts
<1>2. CASE UNCHANGED <<stats, initFailed>>
  BY <1>2 DEF FailureCounted
<1>3. ASSUME NEW keys, stats' = Worker!Bump(keys), initFailed' = initFailed \/ "failed" \in keys
      PROVE  FailureCounted'
  <2>1. stats'.failed = stats.failed + (IF "failed" \in keys THEN 1 ELSE 0)
    BY <1>3, BumpFacts
  <2>2. CASE "failed" \in keys
    BY <1>1, <2>1, <2>2 DEF FailureCounted
  <2>3. CASE "failed" \notin keys
    <3>1. stats'.failed = stats.failed
      BY <1>1, <2>1, <2>3
    <3> QED
      BY <1>3, <2>3, <3>1 DEF FailureCounted
  <2> QED
    BY <2>2, <2>3
<1>4. CASE Elsewhere \/ (\E t \in Notifiers : Offers(t)) \/ Takes
  BY <1>2, <1>4 DEF Elsewhere, Offers, Takes, Pops
<1>5. CASE Discards \/ Skips \/ NeverRuns
  BY <1>3, <1>5 DEF Discards, Skips, Pops, NeverRuns
<1>6. CASE \E outcome \in Worker!Outcome : Ends(outcome)
  BY <1>3, <1>6 DEF Ends
<1> QED
  BY <1>4, <1>5, <1>6, FlowCases

JudgeInv ==
    /\ CP!Shapes /\ LifeInv /\ BalanceInv /\ FailureCounted
    /\ CP!FromEmitters /\ Ordered /\ Numbered
    /\ \A s \in Sessions : CountBounded(s)
    /\ StoreInv

LEMMA InitJudge == Init => JudgeInv
<1> SUFFICES ASSUME Init PROVE JudgeInv
  OBVIOUS
<1>1. CP!Shapes /\ LifeInv /\ BalanceInv
  BY InitInv
<1>2. CP!Init
  BY SameActions DEF Init
<1>3. /\ offered = <<>> /\ content = <<>> /\ \A t \in Notifiers : pc[t] = "idle"
  BY <1>2 DEF CP!Init, CP!Channel!ChanInit
<1>4. /\ thread = "none" /\ ~initFailed
      /\ store = [s \in Sessions |-> [has |-> FALSE, request_index |-> 0, total |-> 0]]
  BY DEF Init, Worker!WorkerInit
<1>5. FailureCounted
  BY <1>4 DEF FailureCounted
<1>6. CP!FromEmitters /\ Numbered
  BY <1>3 DEF CP!FromEmitters, Numbered
<1>7. Ordered
  BY <1>3 DEF Ordered, CP!InTurn, CP!OfferedCounted, CP!CarriedCounted, CP!CarriedNext,
     CP!OfferedOrdered
<1>8. ASSUME NEW s \in Sessions PROVE CountBounded(s)
  <2>1. MessagesOffered(s) = {}
    BY <1>3 DEF MessagesOffered
  <2>2. Cardinality({}) = 0
    BY FS_EmptySet
  <2>3. Cardinality(MessagesOffered(s)) = 0
    BY <2>1, <2>2
  <2> QED
    BY <2>3 DEF CountBounded
<1>9. StoreInv
  <2>1. Popped = 0 /\ Done = 0 /\ Len(content) = 0
    BY <1>3, <1>4 DEF Popped, Done, Held
  <2>2. InFlight
    BY <1>4, <2>1 DEF InFlight
  <2>3. Judged(offered, store, Done)
    BY <2>1 DEF Judged
  <2> QED
    BY <1>4, <2>2, <2>3 DEF StoreInv
<1> QED
  BY <1>1, <1>5, <1>6, <1>7, <1>8, <1>9 DEF JudgeInv

LEMMA JudgeCovers ==
  ASSUME JudgeInv
  PROVE  AllJudgedCoversLatest
<1> SUFFICES ASSUME mainPc = "done", Lossless, NEW s \in Sessions, m_sessions[s].exists,
                    m_sessions[s].request_count > 0,
                    Cardinality(MessagesOffered(s)) = m_sessions[s].request_count
             PROVE  covers_latest_message(s)
  BY DEF AllJudgedCoversLatest, Lossless
<1> DEFINE count == m_sessions[s].request_count
           n == Len(offered)
<1>1. content = <<>> /\ Held = 0
  <2>1. ~initFailed
    <3>1. stats.failed = 0
      BY DEF Lossless
    <3> QED
      BY <3>1 DEF JudgeInv, FailureCounted
  <2> QED
    BY <2>1 DEF JudgeInv, LifeInv, LifeShapes, Life, Drained, Held
<1>2. n \in Nat /\ offered \in Seq(CP!Item)
  BY DEF JudgeInv, CP!Shapes, CP!QueueShapes
<1>3. Done = n
  BY <1>1, <1>2 DEF Done, Popped
<1>4. m_sessions[s] \in CP!Entry
  BY DEF JudgeInv, CP!Shapes, CP!SessionShapes, CP!NoSession
<1>5. count \in Nat
  BY <1>4 DEF CP!Entry
<1>6. CP!OfferedCounted(s) /\ CP!OfferedOrdered(s)
  BY DEF JudgeInv, Ordered, CP!InTurn
<1>7. \A i \in MessagesOffered(s) :
          /\ i \in 1..n /\ offered[i].session = s /\ offered[i].kind = "message"
          /\ offered[i].request_index <= count
  BY <1>6 DEF CP!OfferedCounted, CP!AsCounted, MessagesOffered
<1>8. \A i \in 1..n : offered[i].request_index \in Nat
  <2>1. \A i \in 1..n : offered[i] \in CP!Item
    BY <1>2
  <2> QED
    BY <2>1 DEF CP!Item
<1> HIDE DEF count
<1>9. PICK i \in MessagesOffered(s) : offered[i].request_index = count
  <2>1. count - 1 \in Nat /\ ~(count <= count - 1)
    BY <1>5 DEF count
  <2>2. ~\A i \in MessagesOffered(s) : offered[i].request_index <= count - 1
    <3>1. CountBounded(s)
      BY DEF JudgeInv
    <3> QED
      BY <2>1, <3>1 DEF CountBounded, count
  <2>3. PICK i \in MessagesOffered(s) : ~(offered[i].request_index <= count - 1)
    BY <2>2
  <2>4. offered[i].request_index = count
    BY <1>5, <1>7, <1>8, <2>3
  <2> QED
    BY <2>4
<1>10. IsLast(offered, i, s, n)
  <2> SUFFICES ASSUME NEW j \in 1..n, j > i, offered[j].session = s,
                      offered[j].kind = "message"
               PROVE  FALSE
    BY <1>7 DEF IsLast
  <2>1. offered[i].request_index < offered[j].request_index
    BY <1>6, <1>7 DEF CP!OfferedOrdered, CP!Message, CP!Before
  <2>2. offered[j].request_index <= count
    BY <1>7 DEF MessagesOffered
  <2> QED
    BY <1>5, <1>8, <1>9, <2>1, <2>2
<1>11. Judged(offered, store, n)
  BY <1>3 DEF JudgeInv, StoreInv
<1>12. store[s].has /\ store[s].request_index = offered[i].request_index
  BY <1>7, <1>10, <1>11 DEF Judged
<1> QED
  BY <1>9, <1>12 DEF covers_latest_message, count

\* With --ai-rf, a report in which nothing was dropped, refused, discarded
\* or failed says of every session, all of whose messages were offered, that
\* its latest message was judged: the result kept last is that of the last
\* message, although network threads push without the mutex, any of them may
\* start, close or fault the session, and results are stored by another
\* thread.  Only the completions of a session are taken to come from one.
THEOREM AllJudgedHolds ==
  ASSUME MessageOnly
  PROVE  Spec => []AllJudgedCoversLatest
<1>1. Init => JudgeInv
  BY InitJudge
<1>2. JudgeInv /\ [Next]_vars => JudgeInv'
  <2> SUFFICES ASSUME JudgeInv, [Next]_vars PROVE JudgeInv'
    OBVIOUS
  <2> USE DEF JudgeInv
  <2>1. CP!Shapes' /\ CP!FromEmitters'
    BY RuntimeShapes, RuntimeFromEmitters
  <2>2. LifeInv' /\ BalanceInv'
    BY LifeStep, BalanceStep DEF CP!Shapes, CP!Flags
  <2>3. Ordered' /\ Numbered'
    BY OrderedStep, NumberedStep
  <2>4. (\A s \in Sessions : CountBounded(s))'
    BY CountStep DEF LifeInv
  <2>5. StoreInv' /\ FailureCounted'
    BY StoreStep, FailureStep DEF LifeInv, BalanceInv
  <2> QED
    BY <2>1, <2>2, <2>3, <2>4, <2>5
<1>3. JudgeInv => AllJudgedCoversLatest
  BY JudgeCovers
<1> QED
  BY <1>1, <1>2, <1>3, PTL DEF Spec
=============================================================================
