-------------------------- MODULE InferenceRuntime --------------------------
(***************************************************************************)
(* The server process: the network threads that feed FeatureCollector, the *)
(* queue, AiInferenceWorker and wmain, which starts them and takes them    *)
(* down again (src/Server/Server/main.cpp, AiRuntimeSupport.h).            *)
(*                                                                         *)
(* mainPc follows wmain.  The collector and the worker are the modules of  *)
(* those names; they share the channel variables.                          *)
(***************************************************************************)
EXTENDS Integers, Sequences, FiniteSets

CONSTANTS
    Producers,     \* the network threads of ServerApp
    main,          \* the thread of wmain
    Sessions, Emitters,
    Capacity,      \* options.queue_capacity
    MessageOnly,   \* --ai-rf
    MaxEvents      \* bound: network events made in a behaviour

\* One logic worker dispatches all completions of a session (its binding,
\* SessionOnOneWorker in module IOCPWorkerPool); who starts the session, closes
\* it or meets an error of it is not restricted.  g_ullNextSessionId starts at 1.
ASSUME RuntimeAssumption ==
    /\ IsFiniteSet(Producers) /\ main \notin Producers
    /\ Sessions \subseteq Nat \ {0}
    /\ Emitters \in [Sessions -> SUBSET Producers]
    /\ \A s \in Sessions : \E w \in Producers : Emitters[s] \subseteq {w}

VARIABLES
    mainPc,
    \* FeatureCollector
    m_sessions, m_featureQueue, m_ignoredAfterCloseEventCount,
    pc, event, queueItem, now, phase, made, detached, removed, offered,
    \* the queue
    content, closed, dropped,
    \* AiInferenceWorker
    m_running, m_stopRequested, deadlinePassed, thread, lifecycle, callerPc,
    item, stats, store, initFailed

collectorVars == <<m_sessions, m_featureQueue, m_ignoredAfterCloseEventCount,
                   pc, event, queueItem, now, phase, made, detached, removed,
                   offered>>
chan == <<content, closed, dropped>>
workerVars == <<m_running, m_stopRequested, deadlinePassed, thread, lifecycle,
                callerPc, item, stats, store, initFailed>>
vars == <<mainPc, collectorVars, chan, workerVars>>

Collector == INSTANCE FeatureCollector WITH
                 Threads <- Producers \cup {main},
                 MaxTime <- 0, MaxDetach <- 1, MaxRemovals <- 0

Worker == INSTANCE AiInferenceWorker WITH
              Callers <- {main}, WorkerItems <- Collector!Item,
              WorkerSessions <- Sessions

MainState == {"start", "init", "serving", "detach", "closing", "waiting",
              "joining", "teardown", "stopping", "report", "done", "abort",
              "aborting", "failed"}

-----------------------------------------------------------------------------
Init ==
    /\ mainPc = "start"
    /\ Collector!Init
    /\ Worker!WorkerInit

MainGoto(from, to) == mainPc = from /\ mainPc' = to

\* inferenceWorker->Start(), which fails when no thread can be created.
StartWorker ==
    \/ /\ MainGoto("start", "init")
       /\ Worker!Start(main)
       /\ UNCHANGED collectorVars
    \/ /\ MainGoto("start", "failed")
       /\ UNCHANGED <<collectorVars, chan, workerVars>>

\* app.Initialize() and the start of the worker pool.
Initialize ==
    /\ MainGoto("init", "serving") \/ MainGoto("init", "abort")
    /\ pc[main] = "idle"
    /\ UNCHANGED <<collectorVars, chan, workerVars>>

\* app.Run() returns when the console reads quit.
Quit ==
    /\ MainGoto("serving", "detach")
    /\ UNCHANGED <<collectorVars, chan, workerVars>>

\* Mutant: the worker is stopped before the server.
MutDetach ==
    /\ MainGoto("detach", "stopping")
    /\ Collector!SetFeatureQueue(FALSE)
    /\ UNCHANGED workerVars

\* featureCollector->SetFeatureQueue(nullptr)
Detach ==
    /\ MainGoto("detach", "closing")
    /\ Collector!SetFeatureQueue(FALSE)
    /\ UNCHANGED workerVars

\* ~ServerApp calls Finalize.  Listener::Close first joins the retry thread,
\* which may never end (CloseReturns in module Listener); if it does,
CloseListener ==
    /\ MainGoto("closing", "waiting")
    /\ UNCHANGED <<collectorVars, chan, workerVars>>

\* the accept events are waited for, with a limit of a second,
WaitForAllAcceptEventsReturned ==
    /\ MainGoto("waiting", "joining")
    /\ UNCHANGED <<collectorVars, chan, workerVars>>

\* and IOCPWorkerPool::Stop joins the threads of the pool.
JoinProducers ==
    /\ MainGoto("joining", "teardown")
    /\ \A t \in Producers : pc[t] = "idle"
    /\ UNCHANGED <<collectorVars, chan, workerVars>>

\* When the members of ServerApp are destroyed the sessions still alive, those
\* waiting in AcceptEx among them, report SessionClosed from this thread.  So
\* does a session whose AcceptEx fails in Initialize.
DestroySession(s) ==
    /\ mainPc \in {"init", "teardown"} /\ UNCHANGED mainPc
    /\ Collector!MakeNetworkEvent(main, s, "SessionClosed")
    /\ UNCHANGED workerVars

EndTeardown ==
    /\ MainGoto("teardown", "stopping")
    /\ pc[main] = "idle"
    /\ UNCHANGED <<collectorVars, chan, workerVars>>

\* inferenceWorker->Stop(), on the way out or after a failed Initialize.
StopWorker ==
    \/ /\ MainGoto("stopping", "report") \/ MainGoto("abort", "aborting")
       /\ Worker!StopRequest(main)
       /\ UNCHANGED collectorVars
    \/ /\ Worker!StopStep(main)
       /\ UNCHANGED <<mainPc, collectorVars>>

\* WriteAiRuntimeReport: an existing file or a failed write ends in "failed".
WriteAiRuntimeReport ==
    /\ callerPc[main] = "idle"
    /\ \/ MainGoto("report", "done")
       \/ MainGoto("report", "failed")
       \/ MainGoto("aborting", "failed")
    /\ UNCHANGED <<collectorVars, chan, workerVars>>

\* The field of a session in the report.
covers_latest_message(s) ==
    store[s].has /\ store[s].request_index = m_sessions[s].request_count

-----------------------------------------------------------------------------
\* A network thread between Run and the end of Finalize.
NetworkThread(t) ==
    /\ \/ /\ mainPc \in {"serving", "detach", "closing", "waiting", "joining"}
          /\ \E s \in Sessions, type \in Collector!EventType :
                 Collector!MakeNetworkEvent(t, s, type)
       \/ Collector!OnNetworkEvent(t)
       \/ Collector!PushSnapshot(t)
    /\ UNCHANGED <<mainPc, workerVars>>

MainNotify ==
    /\ Collector!OnNetworkEvent(main) \/ Collector!PushSnapshot(main)
    /\ UNCHANGED <<mainPc, workerVars>>

WorkerThread == Worker!WorkerStep /\ UNCHANGED <<mainPc, collectorVars>>

Deadline == Worker!DeadlinePasses /\ UNCHANGED <<mainPc, collectorVars>>

MainExit ==
    \/ WaitForAllAcceptEventsReturned \/ JoinProducers \/ EndTeardown
    \/ StopWorker \/ WriteAiRuntimeReport

Next ==
    \/ StartWorker \/ Initialize \/ Quit \/ Detach \/ CloseListener
    \/ \E s \in Sessions : DestroySession(s)
    \/ MainExit \/ MainNotify
    \/ \E t \in Producers : NetworkThread(t)
    \/ WorkerThread
    \/ Deadline

Spec == Init /\ [][Next]_vars

\* Every thread is scheduled, and an HTTP exchange ends (WinHttpSetTimeouts).
\* Nothing makes clients send, the console read quit or Listener::Close return.
FairSpec ==
    /\ Spec
    /\ WF_vars(Detach) /\ WF_vars(MainExit) /\ WF_vars(MainNotify)
    /\ WF_vars(WorkerThread)
    /\ \A t \in Producers :
           WF_vars(/\ Collector!OnNetworkEvent(t) \/ Collector!PushSnapshot(t)
                   /\ UNCHANGED <<mainPc, workerVars>>)

-----------------------------------------------------------------------------
(* Properties *)

TypeOK == mainPc \in MainState /\ Collector!TypeOK /\ Worker!TypeOK

\* The counters of the report add up: each item offered to the queue is in
\* exactly one of them, and none is left in the queue of a worker that ran.
\* Nor was one refused because Stop had closed the queue already: whoever may
\* still push has returned before.
ReportAccountsForAll ==
    /\ mainPc = "done" =>
           /\ Len(offered) = dropped + Len(content) + stats.stored
                                 + stats.parseFailed + stats.failed
                                 + stats.skipped + stats.discarded
                                 - (IF initFailed THEN 1 ELSE 0)
           /\ ~initFailed => content = <<>>
    /\ closed /\ ~initFailed => \A t \in Producers \cup {main} : pc[t] # "push"

MessagesOffered(s) ==
    {i \in 1..Len(offered) : offered[i].session = s /\ offered[i].kind = "message"}

\* When every message of a session was offered, and nothing was lost,
\* refused or late, the report says that its latest message was judged.
AllJudgedCoversLatest ==
    (/\ mainPc = "done"
     /\ dropped = 0 /\ stats.failed = 0 /\ stats.parseFailed = 0
     /\ stats.discarded = 0)
        => \A s \in Sessions :
               (/\ m_sessions[s].exists
                /\ m_sessions[s].request_count > 0
                /\ Cardinality(MessagesOffered(s)) = m_sessions[s].request_count)
                   => covers_latest_message(s)

\* Once Listener::Close has returned after quit, the process ends: the network
\* threads, the worker and the queue do not wait for each other.
QuitEnds == mainPc = "waiting" ~> mainPc \in {"done", "failed"}
=============================================================================
