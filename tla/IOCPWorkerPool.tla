--------------------------- MODULE IOCPWorkerPool ---------------------------
(***************************************************************************)
(* The threads between the completion port and the sessions                *)
(* (src/Server/ServerBase/IOCPWorkerPool.cpp, IocpCore.cpp).  IO threads   *)
(* take completions from the port and queue them to a logic worker; the    *)
(* first completion of a session binds it to one worker for good.          *)
(*                                                                         *)
(* An event is [id, owner]; owner is a session or the listener.  early is  *)
(* history: the event was queued to a worker before Stop began.            *)
(***************************************************************************)
EXTENDS Integers, Sequences, FiniteSets

CONSTANTS
    IoThreads,
    m_i32LogicThreadCount,
    PoolSessions, Listener,
    MaxPosts                   \* bound: completions posted in a behaviour

ASSUME LogicAssumption == m_i32LogicThreadCount \in Nat \ {0}

LogicThreads == 0..(m_i32LogicThreadCount - 1)

Unbound == -1
Owners == PoolSessions \cup {Listener}

VARIABLES
    port,          \* the completion port: events in completion order
    posted,        \* number of events posted so far
    m_bRunning,
    bound,         \* m_i32BoundWorkerID of every session
    robin,         \* m_ui32LogicRoundRobin, modulo the number of workers
    dqPending,     \* the queue of every logic worker
    ioPc, ioEvent, ioTarget,
    logicPc, logicEvent,
    stopPc,        \* the thread in Start and Stop
    unnotified,    \* queues Stop has still to notify
    dispatched     \* history: ids handed to Dispatch, in order, per owner

poolVars == <<m_bRunning, bound, robin, dqPending>>
ioVars == <<ioPc, ioEvent, ioTarget>>
logicVars == <<logicPc, logicEvent>>
vars == <<port, posted, poolVars, ioVars, logicVars, stopPc, unnotified,
          dispatched>>

NoEvent == [id |-> 0, owner |-> Listener, early |-> FALSE]

-----------------------------------------------------------------------------
Init ==
    /\ port = <<>> /\ posted = 0
    /\ m_bRunning = FALSE
    /\ bound = [s \in PoolSessions |-> Unbound]
    /\ robin = 0
    /\ dqPending = [w \in LogicThreads |-> <<>>]
    /\ ioPc = [i \in IoThreads |-> "none"]
    /\ ioEvent = [i \in IoThreads |-> NoEvent]
    /\ ioTarget = [i \in IoThreads |-> 0]
    /\ logicPc = [w \in LogicThreads |-> "none"]
    /\ logicEvent = [w \in LogicThreads |-> NoEvent]
    /\ stopPc = "new" /\ unnotified = {}
    /\ dispatched = [o \in Owners |-> <<>>]

\* An operation of the owner completes, or QueuePacketToWorker posts one.
Complete(o) ==
    /\ posted < MaxPosts
    /\ posted' = posted + 1
    /\ port' = Append(port, [id |-> posted + 1, owner |-> o, early |-> FALSE])
    /\ UNCHANGED <<poolVars, ioVars, logicVars, stopPc, unnotified, dispatched>>

Start ==
    /\ stopPc = "new" /\ stopPc' = "running"
    /\ m_bRunning' = TRUE
    /\ logicPc' = [w \in LogicThreads |-> "loop"]
    /\ ioPc' = [i \in IoThreads |-> "loop"]
    /\ UNCHANGED <<port, posted, bound, robin, dqPending, ioEvent, ioTarget,
                   logicEvent, unnotified, dispatched>>

-----------------------------------------------------------------------------
(* IO threads *)

\* The loop tests m_bRunning, then waits at most 10 ms in Dequeue, which
\* ignores the empty completions that Stop posts.
IoDequeue(i) ==
    /\ ioPc[i] = "poll" /\ port # <<>>
    /\ ioEvent' = [ioEvent EXCEPT ![i] = Head(port)]
    /\ port' = Tail(port)
    /\ ioPc' = [ioPc EXCEPT ![i] = "select"]
    /\ UNCHANGED <<posted, poolVars, ioTarget, logicVars, stopPc, unnotified,
                   dispatched>>

IoTest(i) ==
    /\ ioPc[i] = "loop"
    /\ ioPc' = [ioPc EXCEPT ![i] = IF m_bRunning THEN "poll" ELSE "exited"]
    /\ UNCHANGED <<port, posted, poolVars, ioEvent, ioTarget, logicVars,
                   stopPc, unnotified, dispatched>>

IoTimeout(i) ==
    /\ ioPc[i] = "poll" /\ port = <<>>
    /\ ioPc' = [ioPc EXCEPT ![i] = "loop"]
    /\ UNCHANGED <<port, posted, poolVars, ioEvent, ioTarget, logicVars,
                   stopPc, unnotified, dispatched>>

NextRobin == (robin + 1) % m_i32LogicThreadCount

\* SelectLogicWorker up to its compare-and-swap: a bound session keeps its
\* worker, otherwise the next worker is the candidate.
SelectLogicWorker(i) ==
    LET o == ioEvent[i].owner
    IN  /\ ioPc[i] = "select"
        /\ IF o \in PoolSessions /\ bound[o] # Unbound
           THEN /\ ioTarget' = [ioTarget EXCEPT ![i] = bound[o]]
                /\ UNCHANGED robin
           ELSE /\ robin' = NextRobin
                /\ ioTarget' = [ioTarget EXCEPT ![i] = robin]
        /\ ioPc' = [ioPc EXCEPT ![i] =
               IF o \in PoolSessions /\ bound[o] = Unbound THEN "bind"
               ELSE "enqueue"]
        /\ UNCHANGED <<port, posted, m_bRunning, bound, dqPending, ioEvent,
                       logicVars, stopPc, unnotified, dispatched>>

\* Mutant: the binding is stored instead of compared and swapped.
MutTryBindWorker(i) ==
    LET o == ioEvent[i].owner
    IN  /\ ioPc[i] = "bind"
        /\ bound' = [bound EXCEPT ![o] = ioTarget[i]]
        /\ ioPc' = [ioPc EXCEPT ![i] = "enqueue"]
        /\ UNCHANGED <<port, posted, m_bRunning, robin, dqPending, ioEvent,
                       ioTarget, logicVars, stopPc, unnotified, dispatched>>

\* The compare-and-swap; whoever loses it takes the winner's choice.
TryBindWorker(i) ==
    LET o == ioEvent[i].owner
    IN  /\ ioPc[i] = "bind"
        /\ IF bound[o] = Unbound
           THEN bound' = [bound EXCEPT ![o] = ioTarget[i]] /\ UNCHANGED ioTarget
           ELSE ioTarget' = [ioTarget EXCEPT ![i] = bound[o]] /\ UNCHANGED bound
        /\ ioPc' = [ioPc EXCEPT ![i] = "enqueue"]
        /\ UNCHANGED <<port, posted, m_bRunning, robin, dqPending, ioEvent,
                       logicVars, stopPc, unnotified, dispatched>>

\* Mutant: nothing is queued once Stop has begun.
MutEnqueueToWorker(i) ==
    /\ ioPc[i] = "enqueue"
    /\ dqPending' = IF m_bRunning
                    THEN [dqPending EXCEPT ![ioTarget[i]] =
                              Append(@, [ioEvent[i] EXCEPT !.early = TRUE])]
                    ELSE dqPending
    /\ ioEvent' = [ioEvent EXCEPT ![i] = NoEvent]
    /\ ioPc' = [ioPc EXCEPT ![i] = "notify"]
    /\ UNCHANGED <<port, posted, m_bRunning, bound, robin, ioTarget,
                   logicVars, stopPc, unnotified, dispatched>>

\* EnqueueToWorker: the push under the lock of the queue.
EnqueueToWorker(i) ==
    /\ ioPc[i] = "enqueue"
    /\ dqPending' = [dqPending EXCEPT ![ioTarget[i]] =
                         Append(@, [ioEvent[i] EXCEPT !.early = m_bRunning])]
    /\ ioEvent' = [ioEvent EXCEPT ![i] = NoEvent]
    /\ ioPc' = [ioPc EXCEPT ![i] = "notify"]
    /\ UNCHANGED <<port, posted, m_bRunning, bound, robin, ioTarget,
                   logicVars, stopPc, unnotified, dispatched>>

Wake(pcs, w) == IF pcs[w] = "asleep" THEN [pcs EXCEPT ![w] = "wait"] ELSE pcs

\* Mutant: the worker is not notified.
MutEnqueueNotify(i) ==
    /\ ioPc[i] = "notify"
    /\ ioPc' = [ioPc EXCEPT ![i] = "loop"]
    /\ UNCHANGED <<port, posted, poolVars, ioEvent, ioTarget, logicVars,
                   stopPc, unnotified, dispatched>>

\* ... and notify_one after it.
EnqueueNotify(i) ==
    /\ ioPc[i] = "notify"
    /\ logicPc' = Wake(logicPc, ioTarget[i])
    /\ ioTarget' = [ioTarget EXCEPT ![i] = 0]
    /\ ioPc' = [ioPc EXCEPT ![i] = "loop"]
    /\ UNCHANGED <<port, posted, poolVars, ioEvent, logicEvent, stopPc,
                   unnotified, dispatched>>

IoStep(i) ==
    IoTest(i) \/ IoDequeue(i) \/ IoTimeout(i) \/ SelectLogicWorker(i)
        \/ TryBindWorker(i) \/ EnqueueToWorker(i) \/ EnqueueNotify(i)

-----------------------------------------------------------------------------
(* Logic workers.  Whether a worker is in its loop or already draining is   *)
(* decided by m_bRunning alone, in both places the same WaitPopLocal runs.  *)

LogicTest(w) ==
    /\ logicPc[w] = "loop"
    /\ logicPc' = [logicPc EXCEPT ![w] = IF m_bRunning THEN "wait" ELSE "drain"]
    /\ UNCHANGED <<port, posted, poolVars, ioVars, logicEvent, stopPc,
                   unnotified, dispatched>>

\* WaitPopLocal under the lock: an event, false once stopped, or asleep.
WaitPopLocal(w) ==
    /\ logicPc[w] \in {"wait", "drain"}
    /\ IF dqPending[w] # <<>>
       THEN /\ logicEvent' = [logicEvent EXCEPT ![w] = Head(dqPending[w])]
            /\ dqPending' = [dqPending EXCEPT ![w] = Tail(@)]
            /\ logicPc' = [logicPc EXCEPT ![w] =
                               IF @ = "wait" THEN "dispatch" ELSE "drainDispatch"]
       ELSE /\ logicPc' = [logicPc EXCEPT ![w] =
                     IF @ = "drain" THEN "exited"
                     ELSE IF m_bRunning THEN "asleep" ELSE "loop"]
            /\ UNCHANGED <<logicEvent, dqPending>>
    /\ UNCHANGED <<port, posted, m_bRunning, bound, robin, ioVars, stopPc,
                   unnotified, dispatched>>

SpuriousWakeup(w) ==
    /\ logicPc[w] = "asleep"
    /\ logicPc' = [logicPc EXCEPT ![w] = "wait"]
    /\ UNCHANGED <<port, posted, poolVars, ioVars, logicEvent, stopPc,
                   unnotified, dispatched>>

\* Where an event belongs: a session not bound yet is bound here.
OwnerWorker(w, o) ==
    IF o \in PoolSessions /\ bound[o] # Unbound THEN bound[o] ELSE w

Back(pc) == IF pc = "dispatch" THEN "loop" ELSE "drain"

\* DispatchOrForward: Dispatch here, or the event goes to its worker.
DispatchOrForward(w) ==
    LET e == logicEvent[w]
        target == OwnerWorker(w, e.owner)
    IN  /\ logicPc[w] \in {"dispatch", "drainDispatch"}
        /\ bound' = IF e.owner \in PoolSessions
                    THEN [bound EXCEPT ![e.owner] = target] ELSE bound
        /\ IF target = w
           THEN /\ dispatched' = [dispatched EXCEPT ![e.owner] = Append(@, e.id)]
                /\ logicPc' = [logicPc EXCEPT ![w] =
                       IF @ = "dispatch" THEN "handler" ELSE "drainHandler"]
                /\ UNCHANGED dqPending
           ELSE /\ dqPending' = [dqPending EXCEPT ![target] =
                                    Append(@, [e EXCEPT !.early = m_bRunning])]
                /\ logicPc' = Wake([logicPc EXCEPT ![w] = Back(@)], target)
                /\ UNCHANGED dispatched
        /\ UNCHANGED <<port, posted, m_bRunning, robin, ioVars, logicEvent,
                       stopPc, unnotified>>

\* The handler of the session or of the listener returns.
HandlerReturns(w) ==
    /\ logicPc[w] \in {"handler", "drainHandler"}
    /\ logicPc' = [logicPc EXCEPT ![w] =
                       IF @ = "handler" THEN "loop" ELSE "drain"]
    /\ logicEvent' = [logicEvent EXCEPT ![w] = NoEvent]
    /\ UNCHANGED <<port, posted, poolVars, ioVars, stopPc, unnotified,
                   dispatched>>

LogicStep(w) ==
    LogicTest(w) \/ WaitPopLocal(w) \/ DispatchOrForward(w) \/ HandlerReturns(w)

-----------------------------------------------------------------------------
(* Stop *)

StopFlag ==
    /\ stopPc = "running" /\ stopPc' = "notify"
    /\ m_bRunning' = FALSE
    /\ unnotified' = LogicThreads
    /\ UNCHANGED <<port, posted, bound, robin, dqPending, ioVars, logicVars,
                   dispatched>>

\* Mutant: the workers are not notified.
MutStopNotify(w) ==
    /\ stopPc = "notify" /\ w \in unnotified
    /\ unnotified' = unnotified \ {w}
    /\ UNCHANGED <<port, posted, poolVars, ioVars, logicVars, stopPc, dispatched>>

StopNotify(w) ==
    /\ stopPc = "notify" /\ w \in unnotified
    /\ unnotified' = unnotified \ {w}
    /\ logicPc' = Wake(logicPc, w)
    /\ UNCHANGED <<port, posted, poolVars, ioVars, logicEvent, stopPc,
                   dispatched>>

\* Both groups of threads are joined.
StopJoin ==
    /\ stopPc = "notify" /\ unnotified = {}
    /\ \A i \in IoThreads : ioPc[i] = "exited"
    /\ \A w \in LogicThreads : logicPc[w] = "exited"
    /\ stopPc' = "stopped"
    /\ UNCHANGED <<port, posted, poolVars, ioVars, logicVars, unnotified,
                   dispatched>>

StopStep == StopJoin \/ \E w \in LogicThreads : StopNotify(w)

Next ==
    \/ \E o \in Owners : Complete(o)
    \/ Start \/ StopFlag \/ StopStep
    \/ \E i \in IoThreads : IoStep(i)
    \/ \E w \in LogicThreads : LogicStep(w) \/ SpuriousWakeup(w)

Spec == Init /\ [][Next]_vars

\* Every thread of the pool is scheduled and every handler returns.  No
\* fairness for completions, for Stop to be called or for spurious wakeups.
FairSpec ==
    /\ Spec
    /\ WF_vars(StopStep)
    /\ \A i \in IoThreads : WF_vars(IoStep(i))
    /\ \A w \in LogicThreads : WF_vars(LogicStep(w))

-----------------------------------------------------------------------------
(* Properties *)

TypeOK ==
    /\ \A k \in 1..Len(port) : port[k].owner \in Owners
    /\ m_bRunning \in BOOLEAN
    /\ bound \in [PoolSessions -> LogicThreads \cup {Unbound}]
    /\ robin \in LogicThreads
    /\ ioTarget \in [IoThreads -> LogicThreads]
    /\ unnotified \subseteq LogicThreads

InHandler(w) == logicPc[w] \in {"handler", "drainHandler"}

\* The handlers of a session never run on two workers at once, although its
\* completions come from several IO threads: Session has no locks.
SessionOnOneWorker ==
    \A v, w \in LogicThreads :
        (v # w /\ InHandler(v) /\ InHandler(w)
            /\ logicEvent[v].owner \in PoolSessions)
                => logicEvent[v].owner # logicEvent[w].owner

\* A binding is for ever.
BoundForever ==
    [][\A s \in PoolSessions : bound[s] # Unbound => bound'[s] = bound[s]]_vars

InFlight ==
    {ioEvent[i].id : i \in {j \in IoThreads : ioPc[j] \in {"select", "bind", "enqueue"}}}
        \cup {logicEvent[w].id : w \in
                 {v \in LogicThreads : logicPc[v] \in {"dispatch", "drainDispatch"}}}

Ids(seq) == {seq[k].id : k \in 1..Len(seq)}

\* No completion is lost or dispatched twice: each is in the port, in the
\* hands of one thread, in one queue or dispatched; and a worker that has
\* exited leaves nothing in its queue that was there before Stop began.
EachOnce ==
    LET done == UNION {{dispatched[o][k] : k \in 1..Len(dispatched[o])} : o \in Owners}
        queued == UNION {Ids(dqPending[w]) : w \in LogicThreads}
    IN  /\ 1..posted = Ids(port) \cup InFlight \cup queued \cup done
        /\ posted = Len(port) + Cardinality(InFlight) + Cardinality(queued)
                        + Cardinality(done)
        /\ \A o \in Owners :
               \A j, k \in 1..Len(dispatched[o]) :
                   j # k => dispatched[o][j] # dispatched[o][k]
        /\ \A w \in LogicThreads :
               logicPc[w] = "exited" =>
                   \A k \in 1..Len(dqPending[w]) : ~dqPending[w][k].early

\* Every completion is dispatched unless the pool is stopped.
EachIsDispatched ==
    \A n \in 1..MaxPosts :
        (posted >= n /\ m_bRunning) ~>
            (~m_bRunning \/ \E o \in Owners : \E k \in 1..Len(dispatched[o]) :
                                dispatched[o][k] = n)

\* Stop returns: no thread sleeps through it.
StopReturns == stopPc = "notify" ~> stopPc = "stopped"
=============================================================================
