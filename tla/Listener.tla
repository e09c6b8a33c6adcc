------------------------------ MODULE Listener ------------------------------
(***************************************************************************)
(* The accept events of the listener and the retry thread                  *)
(* (src/Server/ServerBase/Listener.cpp: Listener, AcceptRetryScheduler).   *)
(*                                                                         *)
(* where[e] says where an accept event is: free in a pool, held by a       *)
(* thread, posted to the kernel with AcceptEx, completed, in the retry     *)
(* queue, or lost when the queue was cleared.  A thread in PostAccept is   *)
(* at step pc[t] with the event ev[t].                                     *)
(* The retry thread tests m_bRetryRunning outside m_retryMutex and waits   *)
(* on m_cvRetry without a predicate, as the code does.                     *)
(***************************************************************************)
EXTENDS Integers, FiniteSets, SequencesExt

CONSTANTS
    Workers,         \* logic workers, which dispatch accept completions
    mainThread, retryThread,
    AcceptEvents,
    IoIds,           \* the numbers of the IO threads, one pool each
    HomePool,        \* HomePool[e]: the pool Init creates event e for
    InitialAccepts,  \* INITIAL_ACCEPTS_PER_THREAD
    MAX_RETRY

ASSUME PoolsAssumption ==
    /\ HomePool \in [AcceptEvents -> IoIds]
    /\ InitialAccepts \in Nat /\ MAX_RETRY \in Nat \ {0}

ASSUME ThreadsAssumption ==
    mainThread # retryThread /\ {mainThread, retryThread} \cap Workers = {}

VARIABLES
    where, ioThreadID, i32RetryCount,  \* per event
    pc, ev,                            \* per thread in PostAccept
    mainPc, toPost,                    \* the thread of ServerApp
    m_bClosing, listenSocket,
    m_bRetryRunning, retryPc,
    m_retryQueue,                      \* sorted by nextRetryTime
    due,                               \* how many of its items are due
    waitResult                         \* of WaitForAllAcceptEventsReturned

eventVars == <<where, ioThreadID, i32RetryCount>>
postVars == <<pc, ev>>
mainVars == <<mainPc, toPost, m_bClosing, listenSocket, waitResult>>
queueVars == <<m_retryQueue, due>>
retryVars == <<m_bRetryRunning, retryPc, queueVars>>
vars == <<eventVars, postVars, mainVars, retryVars>>

Threads == Workers \cup {mainThread, retryThread}
NoEvent == "none"
Free(p) == {e \in AcceptEvents : where[e] = "free" /\ ioThreadID[e] = p}

-----------------------------------------------------------------------------
Init ==
    /\ where = [e \in AcceptEvents |-> "free"]
    /\ ioThreadID = HomePool
    /\ i32RetryCount = [e \in AcceptEvents |-> 0]
    /\ pc = [t \in Threads |-> "idle"] /\ ev = [t \in Threads |-> NoEvent]
    /\ mainPc = "startAccept"
    /\ toPost = [p \in IoIds |-> InitialAccepts]
    /\ m_bClosing = FALSE /\ listenSocket = "open"
    /\ m_bRetryRunning = FALSE /\ retryPc = "none"
    /\ m_retryQueue = <<>> /\ due = 0
    /\ waitResult = "none"

\* ReleaseAcceptEvent: back to the pool of its IO thread number.
ReleaseAcceptEvent(e) ==
    /\ where' = [where EXCEPT ![e] = "free"]
    /\ i32RetryCount' = [i32RetryCount EXCEPT ![e] = 0]

\* A thread leaves PostAccept; the retry thread goes back to its loop.
Return(t) ==
    /\ pc' = [pc EXCEPT ![t] = "idle"]
    /\ ev' = [ev EXCEPT ![t] = NoEvent]

BackToLoop(t) == IF t = retryThread THEN "test" ELSE retryPc

\* The queue with an item of event e, behind every item that is not later:
\* all that are due and any number of the others.
Scheduled(e) ==
    {InsertAt(m_retryQueue, i, [event |-> e, retryCount |-> i32RetryCount[e] + 1]) :
        i \in due + 1 .. Len(m_retryQueue) + 1}

\* ScheduleRetry, the last call of PostAccept: a permanent error gives the
\* event back, any other queues it and wakes the retry thread.
ScheduleRetry(t, permanent) ==
    LET e == ev[t]
    IN  IF permanent
        THEN ReleaseAcceptEvent(e) /\ retryPc' = BackToLoop(t)
                 /\ UNCHANGED m_retryQueue
        ELSE /\ where' = [where EXCEPT ![e] = "retry"]
             /\ i32RetryCount' = [i32RetryCount EXCEPT ![e] = @ + 1]
             /\ m_retryQueue' \in Scheduled(e)
             /\ retryPc' = IF retryPc \in {"asleep", "timed"} THEN "test"
                           ELSE BackToLoop(t)

-----------------------------------------------------------------------------
(* PostAccept(t), by the main thread, a logic worker or the retry thread *)

PostAcceptCheck(t) ==
    /\ pc[t] = "check"
    /\ IF m_bClosing
       THEN /\ ReleaseAcceptEvent(ev[t]) /\ Return(t)
            /\ retryPc' = BackToLoop(t)
       ELSE /\ pc' = [pc EXCEPT ![t] = "create"]
            /\ UNCHANGED <<where, i32RetryCount, ev, retryPc>>
    /\ UNCHANGED <<ioThreadID, mainVars, m_bRetryRunning, queueVars>>

\* Mutant: a failed PostAccept does not return and goes on with the event.
MutPostAcceptCreateFails(t) ==
    /\ pc[t] = "create"
    /\ \E permanent \in BOOLEAN : ScheduleRetry(t, permanent)
    /\ UNCHANGED postVars
    /\ UNCHANGED <<ioThreadID, mainVars, m_bRetryRunning, due>>

\* WSASocket or AcceptEx fails, or the factory returns no session, which
\* is scheduled as WSAENOBUFS.
PostAcceptCreateFails(t) ==
    /\ pc[t] = "create"
    /\ \E permanent \in BOOLEAN : ScheduleRetry(t, permanent)
    /\ Return(t)
    /\ UNCHANGED <<ioThreadID, mainVars, m_bRetryRunning, due>>

\* AcceptEx is pending; never on a closed socket.
PostAcceptPending(t) ==
    /\ pc[t] = "create" /\ listenSocket = "open"
    /\ where' = [where EXCEPT ![ev[t]] = "posted"]
    /\ pc' = [pc EXCEPT ![t] = "reset"]
    /\ UNCHANGED <<ioThreadID, i32RetryCount, ev, mainVars, retryVars>>

\* i32RetryCount = 0, when the event may already have completed.
PostAcceptReset(t) ==
    /\ pc[t] = "reset"
    /\ i32RetryCount' = [i32RetryCount EXCEPT ![ev[t]] = 0]
    /\ Return(t)
    /\ retryPc' = BackToLoop(t)
    /\ UNCHANGED <<where, ioThreadID, mainVars, m_bRetryRunning, queueVars>>

PostAccept(t) ==
    PostAcceptCheck(t) \/ PostAcceptCreateFails(t) \/ PostAcceptPending(t)
        \/ PostAcceptReset(t)

\* The kernel completes AcceptEx; the IO thread that takes the completion
\* writes its own number into the event.
KernelCompletes(e) ==
    /\ where[e] = "posted"
    /\ where' = [where EXCEPT ![e] = "completed"]
    /\ \E p \in IoIds : ioThreadID' = [ioThreadID EXCEPT ![e] = p]
    /\ UNCHANGED <<i32RetryCount, postVars, mainVars, retryVars>>

\* OnAccept on a worker of the running pool: the session is started or
\* closed, and the event goes back to the pool or into PostAccept.
OnAccept(t, e) ==
    /\ t \in Workers /\ pc[t] = "idle"
    /\ where[e] = "completed"
    /\ mainPc \notin {"startAccept", "stopped"}
    /\ IF m_bClosing
       THEN ReleaseAcceptEvent(e) /\ UNCHANGED postVars
       ELSE /\ where' = [where EXCEPT ![e] = "held"]
            /\ pc' = [pc EXCEPT ![t] = "check"]
            /\ ev' = [ev EXCEPT ![t] = e]
            /\ UNCHANGED i32RetryCount
    /\ UNCHANGED <<ioThreadID, mainVars, retryVars>>

-----------------------------------------------------------------------------
(* AcceptRetryScheduler *)

RetryTest ==
    /\ retryPc = "test"
    /\ retryPc' = IF m_bRetryRunning THEN "lock" ELSE "exited"
    /\ UNCHANGED <<eventVars, postVars, mainVars, m_bRetryRunning, queueVars>>

GiveUp(item) == item.retryCount >= MAX_RETRY

\* The critical section: sleep, or sleep until the first item is due.
RetryWaits ==
    /\ retryPc = "lock" /\ due = 0
    /\ retryPc' = IF m_retryQueue = <<>> THEN "asleep" ELSE "timed"
    /\ UNCHANGED <<eventVars, postVars, mainVars, m_bRetryRunning, queueVars>>

\* Or the first item is due: it is given up or retried.
RetryTakes ==
    /\ retryPc = "lock" /\ due > 0
    /\ m_retryQueue' = Tail(m_retryQueue) /\ due' = due - 1
    /\ LET item == Head(m_retryQueue)
       IN  IF GiveUp(item)
           THEN /\ ReleaseAcceptEvent(item.event) /\ retryPc' = "test"
                /\ UNCHANGED postVars
           ELSE /\ where' = [where EXCEPT ![item.event] = "held"]
                /\ pc' = [pc EXCEPT ![retryThread] = "check"]
                /\ ev' = [ev EXCEPT ![retryThread] = item.event]
                /\ retryPc' = "busy"
                /\ UNCHANGED i32RetryCount
    /\ UNCHANGED <<ioThreadID, mainVars, m_bRetryRunning>>

\* Time passes: the item of event e and those before it are due.
RetryTimeComes(e) ==
    \E i \in due + 1 .. Len(m_retryQueue) :
        /\ m_retryQueue[i].event = e
        /\ due' = i
        /\ UNCHANGED <<eventVars, postVars, mainVars, m_bRetryRunning, retryPc,
                       m_retryQueue>>

WaitUntilExpires ==
    /\ retryPc = "timed" /\ due > 0
    /\ retryPc' = "test"
    /\ UNCHANGED <<eventVars, postVars, mainVars, m_bRetryRunning, queueVars>>

SpuriousWakeup ==
    /\ retryPc \in {"asleep", "timed"}
    /\ retryPc' = "test"
    /\ UNCHANGED <<eventVars, postVars, mainVars, m_bRetryRunning, queueVars>>

-----------------------------------------------------------------------------
(* The thread of ServerApp: StartAccept, then Finalize *)

\* AcquireAcceptEvent and PostAccept, INITIAL_ACCEPTS_PER_THREAD per pool.
StartAcceptOne(p) ==
    /\ mainPc = "startAccept" /\ pc[mainThread] = "idle"
    /\ toPost[p] > 0
    /\ toPost' = [toPost EXCEPT ![p] = @ - 1]
    /\ \/ \E e \in Free(p) :
              /\ where' = [where EXCEPT ![e] = "held"]
              /\ pc' = [pc EXCEPT ![mainThread] = "check"]
              /\ ev' = [ev EXCEPT ![mainThread] = e]
       \/ Free(p) = {} /\ UNCHANGED <<where, postVars>>
    /\ UNCHANGED <<ioThreadID, i32RetryCount, mainPc, m_bClosing,
                   listenSocket, waitResult, retryVars>>

StartRetry ==
    /\ mainPc = "startAccept" /\ pc[mainThread] = "idle"
    /\ \A p \in IoIds : toPost[p] = 0
    /\ m_bRetryRunning' = TRUE /\ retryPc' = "test" /\ UNCHANGED queueVars
    /\ mainPc' = "serving"
    /\ UNCHANGED <<eventVars, postVars, toPost, m_bClosing, listenSocket,
                   waitResult>>

MainGoto(from, to) ==
    /\ mainPc = from /\ mainPc' = to
    /\ UNCHANGED <<ioThreadID, postVars, toPost>>

\* Close: m_bClosing.exchange(true)
CloseFlag ==
    /\ MainGoto("serving", "endRetry")
    /\ m_bClosing' = TRUE
    /\ UNCHANGED <<where, i32RetryCount, listenSocket, waitResult,
                   retryVars>>

EndRetryStore ==
    /\ MainGoto("endRetry", "notify")
    /\ m_bRetryRunning' = FALSE
    /\ UNCHANGED <<where, i32RetryCount, m_bClosing, listenSocket,
                   waitResult, retryPc, queueVars>>

\* notify_all under m_retryMutex.
EndRetryNotify ==
    /\ MainGoto("notify", "join")
    /\ retryPc' = IF retryPc \in {"asleep", "timed"} THEN "test" ELSE retryPc
    /\ UNCHANGED <<where, i32RetryCount, m_bClosing, listenSocket,
                   waitResult, m_bRetryRunning, queueVars>>

EndRetryJoin ==
    /\ MainGoto("join", "walk")
    /\ retryPc = "exited"
    /\ UNCHANGED <<where, i32RetryCount, m_bClosing, listenSocket, waitResult,
                   retryVars>>

\* Mutant: the items left in the queue are not given back.
MutEndRetryRelease ==
    /\ MainGoto("walk", "clear")
    /\ UNCHANGED <<where, i32RetryCount, m_bClosing, listenSocket, waitResult,
                   retryVars>>

\* Without m_retryMutex: the items left in the queue are given back, and stay
\* in it until it is cleared.  A worker may meanwhile schedule a retry; an
\* insert in the middle of the walk counts as one before or after it.
EndRetryRelease ==
    /\ MainGoto("walk", "clear")
    /\ where' = [e \in AcceptEvents |->
                     IF where[e] = "retry" THEN "free" ELSE where[e]]
    /\ i32RetryCount' = [e \in AcceptEvents |->
                     IF where[e] = "retry" THEN 0 ELSE i32RetryCount[e]]
    /\ UNCHANGED <<m_bClosing, listenSocket, waitResult, retryVars>>

\* m_retryQeuue.clear(), also without it: what was scheduled since the walk
\* is not given back, and nothing names its event any more.
EndRetryClear ==
    /\ MainGoto("clear", "closeSocket")
    /\ where' = [e \in AcceptEvents |->
                     IF where[e] = "retry" THEN "lost" ELSE where[e]]
    /\ m_retryQueue' = <<>> /\ due' = 0
    /\ UNCHANGED <<i32RetryCount, m_bClosing, listenSocket, waitResult,
                   m_bRetryRunning, retryPc>>

CloseListenSocket ==
    /\ MainGoto("closeSocket", "waiting")
    /\ listenSocket' = "closed"
    /\ UNCHANGED <<where, i32RetryCount, m_bClosing, waitResult, retryVars>>

\* Mutant: events the kernel still has are not counted.
MutAllReturned == \A e \in AcceptEvents : where[e] # "held"

AllReturned == \A e \in AcceptEvents : where[e] = "free"

\* WaitForAllAcceptEventsReturned, then the worker pool is stopped.
WaitForAllAcceptEventsReturned ==
    /\ MainGoto("waiting", "stopping")
    /\ waitResult' \in (IF AllReturned THEN {"true"} ELSE {"timeout"})
    /\ UNCHANGED <<where, i32RetryCount, m_bClosing, listenSocket,
                   retryVars>>

\* IOCPWorkerPool::Stop joins the workers.
StopPool ==
    /\ MainGoto("stopping", "stopped")
    /\ \A t \in Workers : pc[t] = "idle"
    /\ UNCHANGED <<where, i32RetryCount, m_bClosing, listenSocket,
                   waitResult, retryVars>>

RetryStep == RetryTest \/ RetryWaits \/ RetryTakes \/ WaitUntilExpires

CloseStep == EndRetryStore \/ EndRetryNotify \/ EndRetryJoin
                 \/ EndRetryRelease \/ EndRetryClear \/ CloseListenSocket

Next ==
    \/ \E p \in IoIds : StartAcceptOne(p)
    \/ StartRetry \/ CloseFlag \/ CloseStep
    \/ WaitForAllAcceptEventsReturned \/ StopPool
    \/ \E t \in Threads : PostAccept(t)
    \/ \E e \in AcceptEvents : KernelCompletes(e) \/ RetryTimeComes(e)
    \/ \E t \in Workers, e \in AcceptEvents : OnAccept(t, e)
    \/ RetryStep \/ SpuriousWakeup

Spec == Init /\ [][Next]_vars

\* Threads run, time passes, and the kernel completes every AcceptEx once
\* the listening socket is closed.  Clients need not connect, and condition
\* variables need not wake by themselves.
FairSpec ==
    /\ Spec
    /\ WF_vars(RetryStep) /\ WF_vars(CloseStep)
    /\ \A t \in Threads : WF_vars(PostAccept(t))
    /\ \A t \in Workers :
           WF_vars(\E e \in AcceptEvents : OnAccept(t, e))
    /\ \A e \in AcceptEvents : WF_vars(RetryTimeComes(e))
    /\ \A e \in AcceptEvents :
           WF_vars(KernelCompletes(e) /\ listenSocket = "closed")

-----------------------------------------------------------------------------
(* Properties *)

TypeOK ==
    /\ where \in [AcceptEvents ->
                     {"free", "held", "posted", "completed", "retry", "lost"}]
    /\ ioThreadID \in [AcceptEvents -> IoIds]
    /\ \A e \in AcceptEvents : i32RetryCount[e] \in 0..MAX_RETRY
    /\ pc \in [Threads -> {"idle", "check", "create", "reset"}]
    /\ retryPc \in {"none", "test", "lock", "asleep", "timed", "busy", "exited"}
    /\ due \in 0..Len(m_retryQueue)

Holds(t, e) == pc[t] \in {"check", "create"} /\ ev[t] = e

\* An accept event has one owner: a held event is in the hands of exactly
\* one thread, and a free, posted, completed or queued one of none.
OneOwner ==
    \A e \in AcceptEvents :
        Cardinality({t \in Threads : Holds(t, e)})
            = IF where[e] = "held" THEN 1 ELSE 0

\* When the wait succeeds every event is in its pool and stays there: the
\* pool can be stopped and the events deleted.
WaitTrueIsFinal ==
    [][waitResult = "true" =>
           /\ \A e \in AcceptEvents : where[e] = "free"
           /\ where' = where]_vars

\* A thread tested m_bClosing before Close set it and still has the event.
PastTest(e) == \E t \in Threads : pc[t] = "create" /\ ev[t] = e

\* When the retry thread has ended, every event comes back to a pool, those
\* left in the retry queue too, unless a PostAccept that passed its test of
\* m_bClosing before Close still has it: that one may schedule a retry after
\* EndRetry gave back the others.  Its event is then lost with the queue that
\* EndRetry clears, or stays in it; all others come back after that as well.
EventsComeBack ==
    \A e \in AcceptEvents :
        (/\ \/ mainPc = "walk"
            \/ listenSocket = "closed" /\ where[e] \notin {"retry", "lost"}
         /\ ~PastTest(e))
            ~> (where[e] = "free" \/ mainPc = "stopped")

\* Close returns: EndRetry ends the retry thread.
CloseReturns == mainPc = "endRetry" ~> mainPc = "waiting"
=============================================================================
