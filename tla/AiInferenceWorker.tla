------------------------- MODULE AiInferenceWorker -------------------------
(***************************************************************************)
(* The thread that pops snapshots, posts them to the inference service and *)
(* keeps the latest result of every session, with the Start/Stop lifecycle *)
(* (src/Server/FeatureExtraction/AiInferenceWorker.cpp,                    *)
(* InferenceResultStore.cpp).  InferenceRuntime says who calls it, offers  *)
(* the items and schedules the thread.                                     *)
(*                                                                         *)
(* The HTTP exchange is external: PostJson returns any of the outcomes the *)
(* code distinguishes.  Time is the one bit DeadlinePassed: the moment     *)
(* m_stopDeadline, set by the first Stop, lies in the past.                *)
(***************************************************************************)
EXTENDS Integers, Sequences, FiniteSets, FiniteSetsExt

CONSTANTS
    Callers,        \* threads that call Start and Stop
    WorkerItems,    \* items producers may queue
    WorkerSessions, \* session ids
    Capacity,       \* capacity of the queue
    MessageOnly     \* m_config.message_only: --ai-rf

VARIABLES
    content, closed, dropped,   \* the queue
    m_running, m_stopRequested, deadlinePassed,
    thread,         \* m_workerThread: "none" when it is not joinable
    lifecycle,      \* holder of m_lifecycleMutex, or "free"
    callerPc,       \* where a caller is inside Stop
    item,           \* the item the worker holds, <<>> when none
    stats,          \* the counters
    store,          \* InferenceResultStore: latest result per session
    initFailed      \* history: init_apartment threw

chan == <<content, closed, dropped>>
workerVars == <<item, stats, store, initFailed>>

Channel == INSTANCE FeatureChannel WITH Items <- WorkerItems

ThreadState == {"none", "starting", "loop", "posting", "exited"}

Stats == [sent : Nat, failed : Nat, stored : Nat, parseFailed : Nat,
          skipped : Nat, discarded : Nat, late : Nat]

Bump(keys) == [k \in DOMAIN stats |-> stats[k] + (IF k \in keys THEN 1 ELSE 0)]

joinable == thread # "none"

-----------------------------------------------------------------------------
WorkerInit ==
    /\ m_running = FALSE /\ m_stopRequested = FALSE /\ deadlinePassed = FALSE
    /\ thread = "none" /\ lifecycle = "free"
    /\ callerPc = [c \in Callers |-> "idle"]
    /\ item = <<>>
    /\ stats = [sent |-> 0, failed |-> 0, stored |-> 0, parseFailed |-> 0,
                skipped |-> 0, discarded |-> 0, late |-> 0]
    /\ store = [s \in WorkerSessions |->
                    [has |-> FALSE, request_index |-> 0, total |-> 0]]
    /\ initFailed = FALSE

\* Start never blocks while it holds m_lifecycleMutex, so it is one step.
\* It refuses a joinable thread, a closed queue or a running worker, and
\* gives up when the thread cannot be created (which changes nothing).
Start(c) ==
    /\ callerPc[c] = "idle" /\ lifecycle = "free"
    /\ ~joinable /\ ~closed /\ ~m_running
    /\ m_running' = TRUE
    /\ thread' = "starting"
    /\ UNCHANGED <<chan, m_stopRequested, deadlinePassed, lifecycle, callerPc,
                   workerVars>>

\* Stop: the mutex, the deadline and m_stopRequested.
StopRequest(c) ==
    /\ callerPc[c] = "idle" /\ lifecycle = "free"
    /\ lifecycle' = c
    /\ m_stopRequested' = TRUE
    /\ callerPc' = [callerPc EXCEPT ![c] = "close"]
    /\ UNCHANGED <<chan, m_running, deadlinePassed, thread, workerVars>>

\* Mutant: the queue is closed only when m_running was still set.
MutStopClose(c) ==
    /\ callerPc[c] = "close"
    /\ m_running' = FALSE
    /\ IF m_running /\ ~m_stopRequested
       THEN Channel!CloseChannel ELSE UNCHANGED chan
    /\ callerPc' = [callerPc EXCEPT ![c] = "join"]
    /\ UNCHANGED <<m_stopRequested, deadlinePassed, thread, lifecycle,
                   workerVars>>

\* m_running.exchange(false), and the queue is closed if there was a worker.
StopClose(c) ==
    /\ callerPc[c] = "close"
    /\ m_running' = FALSE
    /\ IF m_running \/ joinable
       THEN Channel!CloseChannel ELSE UNCHANGED chan
    /\ callerPc' = [callerPc EXCEPT ![c] = "join"]
    /\ UNCHANGED <<m_stopRequested, deadlinePassed, thread, lifecycle,
                   workerVars>>

\* join() waits for the thread function to return, then the mutex is free.
StopJoin(c) ==
    /\ callerPc[c] = "join"
    /\ thread \in {"none", "exited"}
    /\ thread' = "none"
    /\ lifecycle' = "free"
    /\ callerPc' = [callerPc EXCEPT ![c] = "idle"]
    /\ UNCHANGED <<chan, m_running, m_stopRequested, deadlinePassed,
                   workerVars>>

\* shutdown_drain_ms have passed since the first Stop.
DeadlinePasses ==
    /\ m_stopRequested /\ ~deadlinePassed
    /\ deadlinePassed' = TRUE
    /\ UNCHANGED <<chan, m_running, m_stopRequested, thread, lifecycle,
                   callerPc, workerVars>>

-----------------------------------------------------------------------------
(* The worker thread *)

\* init_apartment succeeds, or the worker closes the queue and ends.
WorkerEnter ==
    /\ thread = "starting"
    /\ \/ /\ thread' = "loop"
          /\ UNCHANGED <<chan, m_running, workerVars>>
       \/ /\ stats' = Bump({"failed"})
          /\ Channel!CloseChannel
          /\ m_running' = FALSE
          /\ thread' = "exited"
          /\ initFailed' = TRUE
          /\ UNCHANGED <<item, store>>
    /\ UNCHANGED <<m_stopRequested, deadlinePassed, lifecycle, callerPc>>

PastDeadline == m_stopRequested /\ deadlinePassed

\* WaitPop returns an item; past the deadline it is discarded, a summary is
\* skipped in message_only mode, anything else is posted.
WorkerPop ==
    /\ thread = "loop" /\ content # <<>>
    /\ Channel!Pop
    /\ IF PastDeadline
       THEN stats' = Bump({"discarded"}) /\ UNCHANGED <<thread, item>>
       ELSE IF MessageOnly /\ Head(content).kind = "summary"
       THEN stats' = Bump({"skipped"}) /\ UNCHANGED <<thread, item>>
       ELSE /\ item' = Head(content)
            /\ thread' = "posting"
            /\ UNCHANGED stats
    /\ UNCHANGED <<m_running, m_stopRequested, deadlinePassed, lifecycle,
                   callerPc, store, initFailed>>

\* WaitPop returns false: closed and empty.
WorkerExit ==
    /\ thread = "loop" /\ content = <<>> /\ closed
    /\ m_running' = FALSE
    /\ thread' = "exited"
    /\ UNCHANGED <<chan, m_stopRequested, deadlinePassed, lifecycle, callerPc,
                   workerVars>>

\* Mutant: Update keeps the first result.
MutUpdate(result) ==
    store' = [store EXCEPT ![result.session] =
                 IF @.has THEN [@ EXCEPT !.total = @ + 1]
                 ELSE [has |-> TRUE, request_index |-> result.request_index,
                       total |-> @.total + 1]]

\* InferenceResultStore::Update: the latest result replaces the former one.
\* A summary item carries request_index 0.
Update(result) ==
    store' = [store EXCEPT ![result.session] =
                 [has |-> TRUE, request_index |-> result.request_index,
                  total |-> @.total + 1]]

\* The outcomes of PostJson and ParseInferenceResponse.
Outcome ==
    {"stored",            \* 2xx in time and an acceptable body
     "parseFailed",       \* 2xx in time, body, id or policy rejected
     "late",              \* 2xx after the sum of the three timeouts
     "unsupported",       \* 422 with code unsupported_event_type
     "failed",            \* any other status, connection error or exception
     "throwsAfterSent"}   \* an exception after m_sentCount was incremented

ProcessItem(outcome) ==
    /\ thread = "posting"
    /\ outcome = "unsupported" => item.kind = "summary"
    /\ IF outcome = "stored" THEN Update(item) ELSE UNCHANGED store
    /\ stats' = Bump(CASE outcome = "stored" -> {"sent", "stored"}
                       [] outcome = "parseFailed" -> {"sent", "parseFailed"}
                       [] outcome = "late" -> {"late", "failed"}
                       [] outcome = "unsupported" -> {"skipped"}
                       [] outcome = "failed" -> {"failed"}
                       [] outcome = "throwsAfterSent" -> {"sent", "failed"})
    /\ thread' = "loop"
    /\ item' = <<>>
    /\ UNCHANGED <<chan, m_running, m_stopRequested, deadlinePassed, lifecycle,
                   callerPc, initFailed>>

WorkerStep ==
    \/ WorkerEnter
    \/ WorkerPop
    \/ WorkerExit
    \/ \E outcome \in Outcome : ProcessItem(outcome)

\* A caller inside Stop.
StopStep(c) == StopClose(c) \/ StopJoin(c)

-----------------------------------------------------------------------------
(* Properties *)

TypeOK ==
    /\ Len(content) <= Capacity
    /\ closed \in BOOLEAN /\ dropped \in Nat
    /\ m_running \in BOOLEAN /\ m_stopRequested \in BOOLEAN
    /\ deadlinePassed \in BOOLEAN
    /\ thread \in ThreadState
    /\ lifecycle \in Callers \cup {"free"}
    /\ callerPc \in [Callers -> {"idle", "close", "join"}]
    /\ item \in WorkerItems \cup {<<>>}
    /\ stats \in Stats
=============================================================================
