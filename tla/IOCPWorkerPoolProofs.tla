------------------------ MODULE IOCPWorkerPoolProofs ------------------------
(***************************************************************************)
(* Proofs about IOCPWorkerPool, for any number of IO threads, workers and  *)
(* sessions.  That two handlers of a session never run at once rests on    *)
(* two facts: a session in a handler is bound to the worker it runs on     *)
(* (HandlerBound), and nobody changes a binding (KeepsBindings).           *)
(***************************************************************************)
EXTENDS IOCPWorkerPool, FiniteSetTheorems, TLAPS

\* The tables of the pool are tables over the sessions and the workers.
Tables ==
    /\ bound = [s \in PoolSessions |-> bound[s]]
    /\ logicPc = [w \in LogicThreads |-> logicPc[w]]
    /\ logicEvent = [w \in LogicThreads |-> logicEvent[w]]

\* A worker inside a handler of a session is the one the session is bound to.
HandlerBound ==
    \A w \in LogicThreads :
        (InHandler(w) /\ logicEvent[w].owner \in PoolSessions)
            => bound[logicEvent[w].owner] = w

PoolInv == Tables /\ HandlerBound

KeepsBindings ==
    \A s \in PoolSessions : bound[s] # Unbound => bound'[s] = bound[s]

-----------------------------------------------------------------------------
\* The mark of an unbound session, -1, is not the number of a worker.
LEMMA UnboundIsNoWorker == Unbound \notin LogicThreads
BY LogicAssumption DEF Unbound, LogicThreads

\* Waking a worker moves no worker into or out of a handler.
LEMMA WakeKeepsHandlers ==
    ASSUME NEW pcs, NEW u, pcs = [w \in LogicThreads |-> pcs[w]]
    PROVE  /\ Wake(pcs, u) = [w \in LogicThreads |-> Wake(pcs, u)[w]]
           /\ \A w \in LogicThreads :
                  Wake(pcs, u)[w] \in {"handler", "drainHandler"}
                      => Wake(pcs, u)[w] = pcs[w]
BY DEF Wake

\* The pool starts with no thread in a handler.
LEMMA PoolInit == Init => PoolInv
BY DEF Init, PoolInv, Tables, HandlerBound, InHandler

\* No step of any thread changes the worker of a session that has one:
\* IO threads compare and swap, and a logic worker only binds the unbound.
LEMMA StepKeepsBindings ==
    ASSUME Tables, [Next]_vars
    PROVE  KeepsBindings
<1>1. CASE UNCHANGED bound
      BY <1>1 DEF KeepsBindings
<1>2. ASSUME NEW i \in IoThreads, TryBindWorker(i)
      PROVE  KeepsBindings
      BY <1>2 DEF TryBindWorker, KeepsBindings, Tables
<1>3. ASSUME NEW w \in LogicThreads, DispatchOrForward(w)
      PROVE  KeepsBindings
      BY <1>3 DEF DispatchOrForward, OwnerWorker, KeepsBindings, Tables
<1>4. QED
      BY <1>1, <1>2, <1>3
      DEF Next, vars, poolVars, Complete, Start, StopFlag, StopStep, StopJoin,
          StopNotify, IoStep, IoTest, IoDequeue, IoTimeout, SelectLogicWorker,
          EnqueueToWorker, EnqueueNotify, LogicStep, LogicTest, WaitPopLocal,
          HandlerReturns, SpuriousWakeup

\* A step that leaves every worker in a handler with the event it had, and
\* the bindings alone or better, keeps the invariant.
LEMMA NobodyEnters ==
    ASSUME HandlerBound, KeepsBindings, Tables',
           \A w \in LogicThreads :
               InHandler(w)' => InHandler(w) /\ logicEvent'[w] = logicEvent[w]
    PROVE  PoolInv'
<1>1. SUFFICES ASSUME NEW w \in LogicThreads, InHandler(w)',
                      logicEvent'[w].owner \in PoolSessions
               PROVE  bound'[logicEvent'[w].owner] = w
      BY DEF PoolInv, HandlerBound
<1>2. InHandler(w) /\ logicEvent'[w] = logicEvent[w]
      BY <1>1
<1>3. bound[logicEvent[w].owner] = w
      BY <1>1, <1>2 DEF HandlerBound
<1>4. QED
      BY <1>1, <1>2, <1>3, UnboundIsNoWorker DEF KeepsBindings

-----------------------------------------------------------------------------
\* Every step keeps the invariant; only DispatchOrForward enters a handler,
\* and it has bound the session to its worker in the same step.
LEMMA PoolStep ==
    ASSUME PoolInv, [Next]_vars
    PROVE  PoolInv'
<1>. USE DEF PoolInv
<1>0. KeepsBindings
      BY StepKeepsBindings
<1>1. CASE UNCHANGED <<bound, logicPc, logicEvent>>
      BY <1>1 DEF Tables, HandlerBound, InHandler
<1>2. CASE Start
      <2>1. Tables'
            BY <1>2 DEF Start, Tables
      <2>2. \A w \in LogicThreads : ~InHandler(w)'
            BY <1>2 DEF Start, InHandler
      <2>3. QED
            BY <1>0, <2>1, <2>2, NobodyEnters
<1>3. ASSUME NEW i \in IoThreads, TryBindWorker(i)
      PROVE  PoolInv'
      <2>1. Tables'
            BY <1>3 DEF TryBindWorker, Tables, logicVars
      <2>2. \A w \in LogicThreads :
                InHandler(w)' => InHandler(w) /\ logicEvent'[w] = logicEvent[w]
            BY <1>3 DEF TryBindWorker, InHandler, logicVars
      <2>3. QED
            BY <1>0, <2>1, <2>2, NobodyEnters
<1>4. ASSUME NEW i \in IoThreads, EnqueueNotify(i)
      PROVE  PoolInv'
      <2>1. Tables'
            BY <1>4, WakeKeepsHandlers DEF EnqueueNotify, Tables, poolVars
      <2>2. \A w \in LogicThreads :
                InHandler(w)' => InHandler(w) /\ logicEvent'[w] = logicEvent[w]
            BY <1>4, WakeKeepsHandlers DEF EnqueueNotify, InHandler, Tables
      <2>3. QED
            BY <1>0, <2>1, <2>2, NobodyEnters
<1>5. ASSUME NEW w \in LogicThreads,
             LogicTest(w) \/ WaitPopLocal(w) \/ SpuriousWakeup(w)
                 \/ HandlerReturns(w)
      PROVE  PoolInv'
      <2>1. Tables'
            BY <1>5 DEF LogicTest, WaitPopLocal, SpuriousWakeup,
                        HandlerReturns, Tables, poolVars
      <2>2. \A v \in LogicThreads :
                InHandler(v)' => InHandler(v) /\ logicEvent'[v] = logicEvent[v]
            BY <1>5 DEF LogicTest, WaitPopLocal, SpuriousWakeup,
                        HandlerReturns, InHandler, Tables
      <2>3. QED
            BY <1>0, <2>1, <2>2, NobodyEnters
<1>6. ASSUME NEW w \in LogicThreads, DispatchOrForward(w)
      PROVE  PoolInv'
      <2>. DEFINE o == logicEvent[w].owner
                  target == OwnerWorker(w, o)
      <2>1. CASE target = w
            <3>1. /\ logicPc' = [logicPc EXCEPT ![w] =
                         IF @ = "dispatch" THEN "handler" ELSE "drainHandler"]
                  /\ logicEvent' = logicEvent
                  /\ bound' = IF o \in PoolSessions
                              THEN [bound EXCEPT ![o] = w] ELSE bound
                  BY <1>6, <2>1 DEF DispatchOrForward
            <3>2. Tables'
                  BY <3>1 DEF Tables
            <3>3. SUFFICES ASSUME NEW v \in LogicThreads, InHandler(v)',
                                  logicEvent'[v].owner \in PoolSessions
                           PROVE  bound'[logicEvent'[v].owner] = v
                  BY <3>2 DEF HandlerBound
            <3>4. CASE v = w
                  BY <3>1, <3>3, <3>4 DEF Tables
            <3>5. CASE v # w
                  <4>1. InHandler(v) /\ logicEvent'[v] = logicEvent[v]
                        BY <3>1, <3>3, <3>5 DEF InHandler, Tables
                  <4>2. bound[logicEvent[v].owner] = v
                        BY <3>3, <4>1 DEF HandlerBound
                  <4>3. QED
                        BY <1>0, <3>3, <4>1, <4>2, UnboundIsNoWorker
                        DEF KeepsBindings
            <3>6. QED
                  BY <3>4, <3>5
      <2>2. CASE target # w
            <3>1. /\ logicPc' = Wake([logicPc EXCEPT ![w] = Back(@)], target)
                  /\ logicEvent' = logicEvent
                  /\ bound' = IF o \in PoolSessions
                              THEN [bound EXCEPT ![o] = target] ELSE bound
                  BY <1>6, <2>2 DEF DispatchOrForward
            <3>2. Tables'
                  BY <3>1, WakeKeepsHandlers DEF Tables
            <3>3. \A v \in LogicThreads :
                      InHandler(v)' =>
                          InHandler(v) /\ logicEvent'[v] = logicEvent[v]
                  BY <3>1, WakeKeepsHandlers DEF InHandler, Tables, Back
            <3>4. QED
                  BY <1>0, <3>2, <3>3, NobodyEnters
      <2>3. QED
            BY <2>1, <2>2
<1>7. CASE \E w \in LogicThreads : StopNotify(w)
      <2>1. PICK w \in LogicThreads : StopNotify(w)
            BY <1>7
      <2>2. Tables'
            BY <2>1, WakeKeepsHandlers DEF StopNotify, Tables, poolVars
      <2>3. \A v \in LogicThreads :
                InHandler(v)' => InHandler(v) /\ logicEvent'[v] = logicEvent[v]
            BY <2>1, WakeKeepsHandlers DEF StopNotify, InHandler, Tables
      <2>4. QED
            BY <1>0, <2>2, <2>3, NobodyEnters
<1>8. QED
      BY <1>1, <1>2, <1>3, <1>4, <1>5, <1>6, <1>7
      DEF Next, vars, poolVars, logicVars, Complete, StopFlag, StopStep,
          StopJoin, IoStep, IoTest, IoDequeue, IoTimeout, SelectLogicWorker,
          EnqueueToWorker, LogicStep

-----------------------------------------------------------------------------
\* The handlers of a session never run on two workers at once, for any
\* number of IO threads racing to bind it (IOCPWorkerPool::SelectLogicWorker,
\* DispatchOrForward): Session, which has no locks, may rely on it.
THEOREM SessionOnOneWorkerHolds == Spec => []SessionOnOneWorker
<1>1. Init => PoolInv
      BY PoolInit
<1>2. PoolInv /\ [Next]_vars => PoolInv'
      BY PoolStep
<1>3. PoolInv => SessionOnOneWorker
      BY DEF PoolInv, HandlerBound, SessionOnOneWorker
<1>4. QED
      BY <1>1, <1>2, <1>3, PTL DEF Spec

\* A session that has a worker keeps it for ever (Session::TryBindWorker).
THEOREM BoundForeverHolds == Spec => BoundForever
<1>1. Init => PoolInv
      BY PoolInit
<1>2. PoolInv /\ [Next]_vars => PoolInv'
      BY PoolStep
<1>3. PoolInv /\ [Next]_vars
          => [\A s \in PoolSessions :
                  bound[s] # Unbound => bound'[s] = bound[s]]_vars
      BY StepKeepsBindings DEF PoolInv, KeepsBindings
<1>4. QED
      BY <1>1, <1>2, <1>3, PTL DEF Spec, BoundForever

-----------------------------------------------------------------------------
(***************************************************************************)
(* Each completion once.  The ids of the completions are partitioned among *)
(* the port, the IO threads, the queues, the workers and the history; a    *)
(* step moves one id from one place to the next.                           *)
(***************************************************************************)
Event == [id : Nat, owner : Owners, early : BOOLEAN]

PortTypes ==
    /\ port \in Seq(Event) /\ posted \in Nat
    /\ m_bRunning \in BOOLEAN /\ robin \in LogicThreads
    /\ bound \in [PoolSessions -> LogicThreads \cup {Unbound}]

IoTypes ==
    /\ ioPc \in [IoThreads -> {"none", "loop", "poll", "select", "bind",
                               "enqueue", "notify", "exited"}]
    /\ ioEvent \in [IoThreads -> Event]
    /\ ioTarget \in [IoThreads -> LogicThreads]

LogicPcs == {"none", "loop", "wait", "asleep", "dispatch", "handler", "drain",
             "drainDispatch", "drainHandler", "exited"}

LogicTypes ==
    /\ dqPending \in [LogicThreads -> Seq(Event)]
    /\ logicPc \in [LogicThreads -> LogicPcs]
    /\ logicEvent \in [LogicThreads -> Event]
    /\ dispatched \in [Owners -> Seq(Nat)]
    /\ unnotified \subseteq LogicThreads

\* A session is bound before its event is queued, an event that waits for
\* the compare-and-swap is one of a session.
BinderHasSession ==
    \A i \in IoThreads : ioPc[i] = "bind" => ioEvent[i].owner \in PoolSessions

PoolTypes == PortTypes /\ IoTypes /\ LogicTypes /\ BinderHasSession

\* The ids of a sequence of events differ.
Once(q) == \A j, k \in 1..Len(q) : q[j].id = q[k].id => j = k

Carrying == {i \in IoThreads : ioPc[i] \in {"select", "bind", "enqueue"}}
Popped == {w \in LogicThreads : logicPc[w] \in {"dispatch", "drainDispatch"}}
CarriedIds == {ioEvent[i].id : i \in Carrying}
PoppedIds == {logicEvent[w].id : w \in Popped}
QueuedIds == UNION {Ids(dqPending[w]) : w \in LogicThreads}
DoneIds == UNION {{dispatched[o][k] : k \in 1..Len(dispatched[o])} : o \in Owners}

QueuesOnce ==
    /\ \A w \in LogicThreads : Once(dqPending[w])
    /\ \A v, w \in LogicThreads :
           v # w => Ids(dqPending[v]) \cap Ids(dqPending[w]) = {}

DoneOnce ==
    \A o \in Owners : \A j, k \in 1..Len(dispatched[o]) :
        dispatched[o][j] = dispatched[o][k] => j = k

\* In each kind of place an id is at most once.
OnceEach ==
    /\ Once(port)
    /\ \A i, j \in Carrying : ioEvent[i].id = ioEvent[j].id => i = j
    /\ \A v, w \in Popped : logicEvent[v].id = logicEvent[w].id => v = w
    /\ QueuesOnce /\ DoneOnce

Disjoint(A, B, C, D, E) ==
    /\ A \cap B = {} /\ A \cap C = {} /\ A \cap D = {} /\ A \cap E = {}
    /\ B \cap C = {} /\ B \cap D = {} /\ B \cap E = {}
    /\ C \cap D = {} /\ C \cap E = {} /\ D \cap E = {}

\* ... and in one kind of place only.
Partition ==
    /\ 1..posted = Ids(port) \cup CarriedIds \cup QueuedIds \cup PoppedIds \cup DoneIds
    /\ Disjoint(Ids(port), CarriedIds, QueuedIds, PoppedIds, DoneIds)

\* A worker drains only when the pool no longer runs, and it leaves when its
\* queue is empty: what comes later was queued after Stop began.
Drained ==
    /\ m_bRunning <=> stopPc = "running"
    /\ stopPc = "new" => \A w \in LogicThreads : logicPc[w] = "none"
    /\ \A w \in LogicThreads :
           logicPc[w] \in {"drain", "drainDispatch", "drainHandler", "exited"}
               => ~m_bRunning
    /\ \A w \in LogicThreads :
           logicPc[w] = "exited" =>
               \A k \in 1..Len(dqPending[w]) : ~dqPending[w][k].early

\* No IO thread runs before Start.
NotBegun == stopPc = "new" => \A i \in IoThreads : ioPc[i] = "none"

CompletionInv == PoolTypes /\ OnceEach /\ Partition /\ Drained /\ NotBegun

-----------------------------------------------------------------------------
\* Events keep their id and owner when they are marked early or late.
LEMMA EventFacts ==
    /\ \A e \in Event : e.id \in Nat /\ e.owner \in Owners /\ e.early \in BOOLEAN
    /\ \A e \in Event, b \in BOOLEAN : /\ [e EXCEPT !.early = b] \in Event
                                       /\ [e EXCEPT !.early = b].id = e.id
                                       /\ [e EXCEPT !.early = b].owner = e.owner
                                       /\ [e EXCEPT !.early = b].early = b
    /\ \A n \in Nat, o \in Owners : /\ [id |-> n, owner |-> o, early |-> FALSE] \in Event
                                    /\ [id |-> n, owner |-> o, early |-> FALSE].id = n
    /\ NoEvent \in Event
BY DEF Event, NoEvent, Owners

\* What a push does to the ids of a queue.
LEMMA IdsOfAppend ==
    ASSUME NEW q \in Seq(Event), NEW e \in Event
    PROVE  /\ Append(q, e) \in Seq(Event)
           /\ Ids(Append(q, e)) = Ids(q) \cup {e.id}
           /\ Once(q) /\ e.id \notin Ids(q) => Once(Append(q, e))
<1> DEFINE r == Append(q, e)
<1>1. /\ r \in Seq(Event) /\ Len(q) \in Nat /\ Len(r) = Len(q) + 1
      /\ r[Len(q) + 1] = e
      /\ \A k \in 1..Len(q) : r[k] = q[k]
      OBVIOUS
<1> HIDE DEF r
<1>2. Ids(r) = Ids(q) \cup {e.id}
  <2>1. Ids(r) \subseteq Ids(q) \cup {e.id}
        BY <1>1 DEF Ids
  <2>2. Ids(q) \subseteq Ids(r)
        BY <1>1 DEF Ids
  <2>3. e.id \in Ids(r)
        BY <1>1 DEF Ids
  <2> QED
        BY <2>1, <2>2, <2>3
<1>3. Once(q) /\ e.id \notin Ids(q) => Once(r)
      BY <1>1 DEF Once, Ids
<1> QED
      BY <1>1, <1>2, <1>3 DEF r

\* What a pop does to them.
LEMMA IdsOfTail ==
    ASSUME NEW q \in Seq(Event), q # <<>>, Once(q)
    PROVE  /\ Tail(q) \in Seq(Event) /\ Head(q) \in Event
           /\ Head(q).id \in Ids(q)
           /\ Ids(Tail(q)) = Ids(q) \ {Head(q).id}
           /\ Once(Tail(q))
<1> DEFINE r == Tail(q)
<1>1. /\ r \in Seq(Event) /\ Len(q) \in Nat \ {0} /\ Len(r) = Len(q) - 1
      /\ Head(q) = q[1] /\ q[1] \in Event
      /\ \A k \in 1..Len(q) - 1 : r[k] = q[k + 1]
      OBVIOUS
<1> HIDE DEF r
<1>2. q[1].id \in Ids(q)
      BY <1>1 DEF Ids
<1>3. Ids(r) \subseteq Ids(q) \ {q[1].id}
      BY SMTT(40), <1>1 DEF Ids, Once
<1>4. ASSUME NEW n \in Ids(q), n # q[1].id
      PROVE  n \in Ids(r)
  <2>1. PICK k \in 1..Len(q) : n = q[k].id
        BY DEF Ids
  <2>2. k - 1 \in 1..Len(r) /\ r[k - 1] = q[k]
        BY <1>1, <1>4, <2>1
  <2> QED
        BY <2>1, <2>2 DEF Ids
<1>5. Once(r)
      BY <1>1 DEF Once
<1> QED
      BY <1>1, <1>2, <1>3, <1>4, <1>5 DEF r

\* Waking a sleeper changes nothing but the sleeper's place.
LEMMA WakeFacts ==
    ASSUME NEW pcs \in [LogicThreads -> LogicPcs], NEW u
    PROVE  /\ Wake(pcs, u) \in [LogicThreads -> LogicPcs]
           /\ \A w \in LogicThreads :
                  Wake(pcs, u)[w] # pcs[w]
                      => pcs[w] = "asleep" /\ Wake(pcs, u)[w] = "wait"
BY DEF Wake, LogicPcs

\* The candidate of the round robin is the number of a worker.
LEMMA RobinInRange == robin \in LogicThreads => NextRobin \in LogicThreads
BY LogicAssumption DEF NextRobin, LogicThreads

-----------------------------------------------------------------------------
LEMMA CompletionInit == Init => CompletionInv
<1> SUFFICES ASSUME Init PROVE CompletionInv
    OBVIOUS
<1>1. PoolTypes
  <2>1. 0 \in LogicThreads
        BY LogicAssumption DEF LogicThreads
  <2>2. PortTypes
        BY <2>1 DEF Init, PortTypes
  <2>3. IoTypes /\ BinderHasSession
        BY <2>1, EventFacts DEF Init, IoTypes, BinderHasSession
  <2>4. LogicTypes
        BY EventFacts DEF Init, LogicTypes, LogicPcs
  <2> QED
        BY <2>2, <2>3, <2>4 DEF PoolTypes
<1>2. OnceEach
      BY DEF Init, OnceEach, QueuesOnce, DoneOnce, Once, Carrying, Popped, Ids
<1>3. Partition
      BY DEF Init, Partition, Disjoint, CarriedIds, PoppedIds, QueuedIds, DoneIds,
             Carrying, Popped, Ids
<1>4. Drained /\ NotBegun
      BY DEF Init, Drained, NotBegun
<1> QED
      BY <1>1, <1>2, <1>3, <1>4 DEF CompletionInv

\* Every step keeps the types: the numbers of workers stay numbers of
\* workers, and only events move.
LEMMA TypesStep ==
    ASSUME PoolTypes, OnceEach, [Next]_vars
    PROVE  PoolTypes'
<1> USE DEF PoolTypes
<1>1. ASSUME NEW o \in Owners, Complete(o)
      PROVE  PoolTypes'
  <2>1. port' \in Seq(Event) /\ posted' \in Nat
        BY <1>1, EventFacts, IdsOfAppend DEF Complete, PortTypes
  <2> QED
        BY <1>1, <2>1
        DEF Complete, poolVars, ioVars, logicVars, PortTypes, IoTypes, LogicTypes,
            BinderHasSession
<1>2. CASE Start
      BY <1>2
      DEF Start, PortTypes, IoTypes, LogicTypes, LogicPcs, BinderHasSession
<1>3. CASE StopFlag \/ StopJoin \/ UNCHANGED vars
      BY <1>3
      DEF StopFlag, StopJoin, vars, poolVars, ioVars, logicVars, PortTypes, IoTypes,
          LogicTypes, BinderHasSession
<1>4. ASSUME NEW w \in LogicThreads, StopNotify(w)
      PROVE  PoolTypes'
      BY <1>4, WakeFacts
      DEF StopNotify, poolVars, ioVars, PortTypes, IoTypes, LogicTypes,
          BinderHasSession
<1>5. ASSUME NEW i \in IoThreads, IoTest(i) \/ IoTimeout(i)
      PROVE  PoolTypes'
      BY <1>5
      DEF IoTest, IoTimeout, poolVars, logicVars, PortTypes, IoTypes, LogicTypes,
          BinderHasSession
<1>6. ASSUME NEW i \in IoThreads, IoDequeue(i)
      PROVE  PoolTypes'
  <2>1. port' \in Seq(Event) /\ Head(port) \in Event
        BY <1>6, IdsOfTail DEF IoDequeue, PortTypes, OnceEach
  <2> QED
        BY <1>6, <2>1
        DEF IoDequeue, poolVars, logicVars, PortTypes, IoTypes, LogicTypes,
            BinderHasSession
<1>7. ASSUME NEW i \in IoThreads, SelectLogicWorker(i)
      PROVE  PoolTypes'
  <2>1. robin' \in LogicThreads
        BY <1>7, RobinInRange DEF SelectLogicWorker, PortTypes
  <2>2. IoTypes'
        BY <1>7 DEF SelectLogicWorker, PortTypes, IoTypes
  <2>3. BinderHasSession'
        BY <1>7 DEF SelectLogicWorker, IoTypes, BinderHasSession
  <2> QED
        BY <1>7, <2>1, <2>2, <2>3
        DEF SelectLogicWorker, logicVars, PortTypes, LogicTypes
<1>8. ASSUME NEW i \in IoThreads, TryBindWorker(i)
      PROVE  PoolTypes'
  <2>1. ioEvent[i].owner \in PoolSessions
        BY <1>8 DEF TryBindWorker, BinderHasSession
  <2>2. bound' \in [PoolSessions -> LogicThreads \cup {Unbound}]
        BY <1>8, <2>1 DEF TryBindWorker, PortTypes, IoTypes
  <2>3. IoTypes'
        BY <1>8, <2>1 DEF TryBindWorker, PortTypes, IoTypes
  <2> QED
        BY <1>8, <2>2, <2>3
        DEF TryBindWorker, logicVars, PortTypes, IoTypes, LogicTypes, BinderHasSession
<1>9. ASSUME NEW i \in IoThreads, EnqueueToWorker(i)
      PROVE  PoolTypes'
  <2> DEFINE e == [ioEvent[i] EXCEPT !.early = m_bRunning]
  <2>1. e \in Event
        BY EventFacts DEF PortTypes, IoTypes
  <2>2. dqPending' = [dqPending EXCEPT ![ioTarget[i]] = Append(@, e)]
        BY <1>9 DEF EnqueueToWorker
  <2> HIDE DEF e
  <2>3. dqPending' \in [LogicThreads -> Seq(Event)]
        BY <2>1, <2>2, IdsOfAppend DEF IoTypes, LogicTypes
  <2> QED
        BY <1>9, <2>3, EventFacts
        DEF EnqueueToWorker, logicVars, PortTypes, IoTypes, LogicTypes,
            BinderHasSession
<1>10. ASSUME NEW i \in IoThreads, EnqueueNotify(i)
      PROVE  PoolTypes'
  <2>1. 0 \in LogicThreads
        BY LogicAssumption DEF LogicThreads
  <2>2. PortTypes' /\ IoTypes' /\ BinderHasSession'
        BY <1>10, <2>1
        DEF EnqueueNotify, poolVars, PortTypes, IoTypes, BinderHasSession
  <2>3. LogicTypes'
        BY <1>10, WakeFacts DEF EnqueueNotify, poolVars, LogicTypes
  <2> QED
        BY <2>2, <2>3
<1>11. ASSUME NEW w \in LogicThreads, LogicTest(w) \/ SpuriousWakeup(w)
      PROVE  PoolTypes'
      BY <1>11
      DEF LogicTest, SpuriousWakeup, poolVars, ioVars, PortTypes, IoTypes,
          LogicTypes, LogicPcs, BinderHasSession
<1>12. ASSUME NEW w \in LogicThreads, WaitPopLocal(w)
      PROVE  PoolTypes'
  <2>1. dqPending[w] # <<>> => /\ Head(dqPending[w]) \in Event
                               /\ Tail(dqPending[w]) \in Seq(Event)
        BY IdsOfTail DEF LogicTypes, OnceEach, QueuesOnce
  <2>2. LogicTypes'
        BY <1>12, <2>1 DEF WaitPopLocal, LogicTypes, LogicPcs
  <2> QED
        BY <1>12, <2>2 DEF WaitPopLocal, ioVars, PortTypes, IoTypes, BinderHasSession
<1>13. ASSUME NEW w \in LogicThreads, HandlerReturns(w)
      PROVE  PoolTypes'
      BY <1>13, EventFacts
      DEF HandlerReturns, poolVars, ioVars, PortTypes, IoTypes, LogicTypes, LogicPcs,
          BinderHasSession
<1>14. ASSUME NEW w \in LogicThreads, DispatchOrForward(w)
      PROVE  PoolTypes'
  <2> DEFINE e == logicEvent[w]
             target == OwnerWorker(w, e.owner)
  <2>1. e \in Event /\ e.owner \in Owners /\ e.id \in Nat
        BY EventFacts DEF LogicTypes
  <2>2. target \in LogicThreads
        BY DEF OwnerWorker, PortTypes
  <2> HIDE DEF target
  <2>3. PortTypes' /\ IoTypes' /\ BinderHasSession'
        BY <1>14, <2>2
        DEF DispatchOrForward, PortTypes, IoTypes, ioVars, BinderHasSession, target
  <2>4. CASE target = w
    <3>1. /\ dispatched' = [dispatched EXCEPT ![e.owner] = Append(@, e.id)]
          /\ logicPc' = [logicPc EXCEPT ![w] =
                 IF @ = "dispatch" THEN "handler" ELSE "drainHandler"]
          /\ UNCHANGED <<dqPending, logicEvent, unnotified>>
          BY <1>14, <2>4 DEF DispatchOrForward, target
    <3>2. dispatched' \in [Owners -> Seq(Nat)]
          BY <2>1, <3>1 DEF LogicTypes
    <3>3. logicPc' \in [LogicThreads -> LogicPcs]
          BY <3>1 DEF LogicTypes, LogicPcs
    <3> QED
          BY <2>3, <3>1, <3>2, <3>3 DEF LogicTypes
  <2>5. CASE target # w
    <3> DEFINE f == [e EXCEPT !.early = m_bRunning]
    <3>1. f \in Event
          BY <2>1, EventFacts DEF PortTypes
    <3>2. /\ dqPending' = [dqPending EXCEPT ![target] = Append(@, f)]
          /\ logicPc' = Wake([logicPc EXCEPT ![w] = Back(@)], target)
          /\ UNCHANGED <<dispatched, logicEvent, unnotified>>
          BY <1>14, <2>5 DEF DispatchOrForward, target
    <3>3. [logicPc EXCEPT ![w] = Back(@)] \in [LogicThreads -> LogicPcs]
          BY DEF LogicTypes, LogicPcs, Back
    <3> HIDE DEF f
    <3>4. dqPending' \in [LogicThreads -> Seq(Event)]
          BY <2>2, <3>1, <3>2, IdsOfAppend DEF LogicTypes
    <3> QED
          BY <3>2, <3>3, <3>4, WakeFacts, <2>3 DEF LogicTypes
  <2> QED
        BY <2>3, <2>4, <2>5
<1> QED
      BY <1>1, <1>2, <1>3, <1>4, <1>5, <1>6, <1>7, <1>8, <1>9, <1>10, <1>11,
         <1>12, <1>13, <1>14
      DEF Next, StopStep, IoStep, LogicStep

\* Only Start sets m_bRunning, when no worker has begun; a worker leaves with
\* an empty queue, and what is pushed later finds m_bRunning cleared.
LEMMA DrainedStep ==
    ASSUME PoolTypes, OnceEach, Drained, [Next]_vars
    PROVE  Drained'
<1> DEFINE drains == {"drain", "drainDispatch", "drainHandler", "exited"}
<1>1. CASE UNCHANGED <<m_bRunning, stopPc, logicPc, dqPending>>
      BY <1>1 DEF Drained
<1>2. ASSUME UNCHANGED <<m_bRunning, stopPc, dqPending>>, stopPc # "new",
             \A w \in LogicThreads :
                 logicPc'[w] \in drains =>
                     /\ ~m_bRunning
                     /\ logicPc'[w] = "exited" =>
                            logicPc[w] = "exited" \/ dqPending[w] = <<>>
      PROVE  Drained'
      BY <1>2 DEF Drained
<1>3. ASSUME NEW w \in LogicThreads, NEW e \in Event, e.early = m_bRunning,
             dqPending' = [dqPending EXCEPT ![w] = Append(@, e)]
      PROVE  \A v \in LogicThreads : logicPc[v] = "exited" =>
                 \A k \in 1..Len(dqPending'[v]) : ~dqPending'[v][k].early
  <2> SUFFICES ASSUME NEW v \in LogicThreads, logicPc[v] = "exited",
                      NEW k \in 1..Len(dqPending'[v])
               PROVE  ~dqPending'[v][k].early
      OBVIOUS
  <2>1. ~m_bRunning /\ \A j \in 1..Len(dqPending[v]) : ~dqPending[v][j].early
        BY DEF Drained
  <2>2. dqPending[v] \in Seq(Event)
        BY DEF PoolTypes, LogicTypes
  <2>3. CASE v = w
    <3>1. dqPending'[v] = Append(dqPending[v], e)
          BY <1>3, <2>3 DEF PoolTypes, LogicTypes
    <3> QED
          BY <1>3, <2>1, <2>2, <3>1
  <2>4. CASE v # w
        BY <1>3, <2>1, <2>4 DEF PoolTypes, LogicTypes
  <2> QED
        BY <2>3, <2>4
<1>4. CASE Start
      BY <1>4 DEF Start, Drained
<1>5. CASE StopFlag
      BY <1>5 DEF StopFlag, logicVars, Drained
<1>6. CASE StopJoin
      BY <1>6 DEF StopJoin, logicVars, poolVars, Drained
<1>7. ASSUME NEW w \in LogicThreads, StopNotify(w)
      PROVE  Drained'
  <2>1. \A v \in LogicThreads : logicPc'[v] \in drains => logicPc'[v] = logicPc[v]
        BY <1>7, WakeFacts DEF StopNotify, PoolTypes, LogicTypes
  <2> QED
        BY <1>2, <1>7, <2>1 DEF StopNotify, poolVars, Drained
<1>8. ASSUME NEW i \in IoThreads, EnqueueToWorker(i)
      PROVE  Drained'
  <2> DEFINE e == [ioEvent[i] EXCEPT !.early = m_bRunning]
  <2>1. e \in Event /\ e.early = m_bRunning /\ ioTarget[i] \in LogicThreads
        BY EventFacts DEF PoolTypes, PortTypes, IoTypes
  <2>2. dqPending' = [dqPending EXCEPT ![ioTarget[i]] = Append(@, e)]
        BY <1>8 DEF EnqueueToWorker
  <2>3. UNCHANGED <<m_bRunning, stopPc, logicPc>>
        BY <1>8 DEF EnqueueToWorker, logicVars
  <2> HIDE DEF e
  <2>4. \A v \in LogicThreads : logicPc[v] = "exited" =>
            \A k \in 1..Len(dqPending'[v]) : ~dqPending'[v][k].early
        BY <1>3, <2>1, <2>2
  <2> QED
        BY <2>3, <2>4 DEF Drained
<1>9. ASSUME NEW i \in IoThreads, EnqueueNotify(i)
      PROVE  Drained'
  <2>1. \A v \in LogicThreads :
            logicPc'[v] # logicPc[v] => logicPc[v] = "asleep" /\ logicPc'[v] = "wait"
        BY <1>9, WakeFacts DEF EnqueueNotify, PoolTypes, LogicTypes
  <2> QED
        BY <1>9, <2>1 DEF EnqueueNotify, poolVars, Drained
<1>10. ASSUME NEW w \in LogicThreads, LogicTest(w) \/ SpuriousWakeup(w) \/ HandlerReturns(w)
       PROVE  Drained'
  <2>1. stopPc # "new"
        BY <1>10 DEF LogicTest, SpuriousWakeup, HandlerReturns, Drained
  <2>2. \A v \in LogicThreads :
            logicPc'[v] \in drains => ~m_bRunning /\ (logicPc'[v] = "exited" => logicPc[v] = "exited")
        BY <1>10
        DEF LogicTest, SpuriousWakeup, HandlerReturns, PoolTypes, LogicTypes, Drained
  <2> QED
        BY <1>2, <1>10, <2>1, <2>2
        DEF LogicTest, SpuriousWakeup, HandlerReturns, poolVars
<1>11. ASSUME NEW w \in LogicThreads, WaitPopLocal(w)
       PROVE  Drained'
  <2>1. stopPc # "new"
        BY <1>11 DEF WaitPopLocal, Drained
  <2>2. CASE dqPending[w] = <<>>
    <3>1. \A v \in LogicThreads :
              logicPc'[v] \in drains =>
                  /\ ~m_bRunning
                  /\ logicPc'[v] = "exited" => logicPc[v] = "exited" \/ dqPending[v] = <<>>
          BY <1>11, <2>2 DEF WaitPopLocal, PoolTypes, LogicTypes, Drained
    <3> QED
          BY <1>2, <1>11, <2>1, <2>2, <3>1 DEF WaitPopLocal
  <2>3. CASE dqPending[w] # <<>>
    <3>1. \A v \in LogicThreads :
              /\ logicPc'[v] \in drains => ~m_bRunning
              /\ logicPc'[v] = "exited" => /\ logicPc[v] = "exited"
                                           /\ dqPending'[v] = dqPending[v]
          BY <1>11, <2>3 DEF WaitPopLocal, PoolTypes, LogicTypes, Drained
    <3> QED
          BY <1>11, <2>1, <3>1 DEF WaitPopLocal, Drained
  <2> QED
        BY <2>2, <2>3
<1>12. ASSUME NEW w \in LogicThreads, DispatchOrForward(w)
       PROVE  Drained'
  <2> DEFINE e == logicEvent[w]
             target == OwnerWorker(w, e.owner)
  <2>1. stopPc # "new"
        BY <1>12 DEF DispatchOrForward, Drained
  <2>2. CASE target = w
    <3>1. \A v \in LogicThreads :
              logicPc'[v] \in drains =>
                  ~m_bRunning /\ (logicPc'[v] = "exited" => logicPc[v] = "exited")
          BY <1>12, <2>2 DEF DispatchOrForward, PoolTypes, LogicTypes, Drained
    <3> QED
          BY <1>2, <1>12, <2>1, <2>2, <3>1 DEF DispatchOrForward
  <2>3. CASE target # w
    <3> DEFINE f == [e EXCEPT !.early = m_bRunning]
    <3>1. f \in Event /\ f.early = m_bRunning /\ target \in LogicThreads
          BY EventFacts DEF OwnerWorker, PoolTypes, PortTypes, LogicTypes
    <3>2. /\ dqPending' = [dqPending EXCEPT ![target] = Append(@, f)]
          /\ logicPc' = Wake([logicPc EXCEPT ![w] = Back(@)], target)
          /\ UNCHANGED <<m_bRunning, stopPc>>
          BY <1>12, <2>3 DEF DispatchOrForward
    <3> HIDE DEF f, target
    <3>3. \A v \in LogicThreads : logicPc[v] = "exited" =>
              \A k \in 1..Len(dqPending'[v]) : ~dqPending'[v][k].early
          BY <1>3, <3>1, <3>2
    <3>4. [logicPc EXCEPT ![w] = Back(@)] \in [LogicThreads -> LogicPcs]
          BY DEF PoolTypes, LogicTypes, LogicPcs, Back
    <3>5. \A v \in LogicThreads :
              LET mid == [logicPc EXCEPT ![w] = Back(@)]
              IN  /\ mid[v] \in drains => ~m_bRunning
                  /\ mid[v] = "exited" => logicPc[v] = "exited"
          BY <1>12 DEF DispatchOrForward, Back, PoolTypes, LogicTypes, Drained
    <3>6. \A v \in LogicThreads :
              /\ logicPc'[v] \in drains => ~m_bRunning
              /\ logicPc'[v] = "exited" => logicPc[v] = "exited"
          BY <3>2, <3>4, <3>5, WakeFacts
    <3> QED
          BY <2>1, <3>2, <3>3, <3>6 DEF Drained
  <2> QED
        BY <2>2, <2>3
<1> QED
      BY <1>1, <1>4, <1>5, <1>6, <1>7, <1>8, <1>9, <1>10, <1>11, <1>12
      DEF Next, vars, poolVars, logicVars, Complete, StopStep, IoStep, IoTest,
          IoDequeue, IoTimeout, SelectLogicWorker, TryBindWorker, LogicStep

-----------------------------------------------------------------------------
\* The ids that IO threads carry when thread i takes one up or lays one down.
LEMMA CarriedChange ==
    ASSUME OnceEach, NEW i \in IoThreads,
           \A j \in IoThreads \ {i} : ioPc'[j] = ioPc[j] /\ ioEvent'[j] = ioEvent[j]
    PROVE  /\ i \notin Carrying /\ i \notin Carrying' => CarriedIds' = CarriedIds
           /\ i \notin Carrying /\ i \in Carrying'
                  => CarriedIds' = CarriedIds \cup {ioEvent'[i].id}
           /\ i \in Carrying /\ i \notin Carrying'
                  => CarriedIds' = CarriedIds \ {ioEvent[i].id}
<1>1. \A j \in IoThreads \ {i} : /\ j \in Carrying' <=> j \in Carrying
                                 /\ ioEvent'[j].id = ioEvent[j].id
      BY DEF Carrying
<1>2. Carrying \subseteq IoThreads /\ Carrying' \subseteq IoThreads
      BY DEF Carrying
<1>3. \A j, k \in Carrying : ioEvent[j].id = ioEvent[k].id => j = k
      BY DEF OnceEach
<1> HIDE DEF Carrying
<1> QED
      BY <1>1, <1>2, <1>3 DEF CarriedIds

\* The same for the workers that have popped an event.
LEMMA PoppedChange ==
    ASSUME OnceEach, NEW w \in LogicThreads,
           \A v \in LogicThreads \ {w} :
               /\ v \in Popped' <=> v \in Popped
               /\ logicEvent'[v] = logicEvent[v]
    PROVE  /\ w \notin Popped /\ w \notin Popped' => PoppedIds' = PoppedIds
           /\ w \notin Popped /\ w \in Popped'
                  => PoppedIds' = PoppedIds \cup {logicEvent'[w].id}
           /\ w \in Popped /\ w \notin Popped'
                  => PoppedIds' = PoppedIds \ {logicEvent[w].id}
<1>1. Popped \subseteq LogicThreads /\ Popped' \subseteq LogicThreads
      BY DEF Popped
<1>2. \A u, v \in Popped : logicEvent[u].id = logicEvent[v].id => u = v
      BY DEF OnceEach
<1> QED
      BY <1>1, <1>2 DEF PoppedIds

\* A push into one queue of an event that is in none.
LEMMA QueuedPush ==
    ASSUME PoolTypes, OnceEach, NEW w \in LogicThreads, NEW e \in Event,
           e.id \notin QueuedIds,
           dqPending' = [dqPending EXCEPT ![w] = Append(@, e)]
    PROVE  QueuedIds' = QueuedIds \cup {e.id} /\ QueuesOnce'
<1>1. /\ dqPending'[w] = Append(dqPending[w], e)
      /\ \A v \in LogicThreads \ {w} : dqPending'[v] = dqPending[v]
      BY DEF PoolTypes, LogicTypes
<1>2. dqPending[w] \in Seq(Event) /\ e.id \notin Ids(dqPending[w])
      BY DEF PoolTypes, LogicTypes, QueuedIds
<1>3. Ids(dqPending'[w]) = Ids(dqPending[w]) \cup {e.id} /\ Once(dqPending'[w])
      BY <1>1, <1>2, IdsOfAppend DEF OnceEach, QueuesOnce
<1>4. QueuedIds' = QueuedIds \cup {e.id}
      BY <1>1, <1>3 DEF QueuedIds
<1>5. ASSUME NEW u \in LogicThreads, NEW v \in LogicThreads, u # v
      PROVE  Ids(dqPending'[u]) \cap Ids(dqPending'[v]) = {}
  <2>1. Ids(dqPending[u]) \cap Ids(dqPending[v]) = {}
        BY <1>5 DEF OnceEach, QueuesOnce
  <2>2. e.id \notin Ids(dqPending[u]) /\ e.id \notin Ids(dqPending[v])
        BY DEF QueuedIds
  <2>3. CASE u = w
        BY <1>1, <1>3, <1>5, <2>1, <2>2, <2>3
  <2>4. CASE v = w
        BY <1>1, <1>3, <1>5, <2>1, <2>2, <2>4
  <2>5. CASE u # w /\ v # w
        BY <1>1, <2>1, <2>5
  <2> QED
        BY <2>3, <2>4, <2>5
<1> QED
      BY <1>1, <1>3, <1>4, <1>5 DEF QueuesOnce, OnceEach

\* A pop takes the id of the event out of the queues.
LEMMA QueuedPop ==
    ASSUME PoolTypes, OnceEach, NEW w \in LogicThreads, dqPending[w] # <<>>,
           dqPending' = [dqPending EXCEPT ![w] = Tail(@)]
    PROVE  /\ Head(dqPending[w]).id \in QueuedIds
           /\ QueuedIds' = QueuedIds \ {Head(dqPending[w]).id} /\ QueuesOnce'
<1> DEFINE n == Head(dqPending[w]).id
<1>1. /\ dqPending'[w] = Tail(dqPending[w])
      /\ \A v \in LogicThreads \ {w} : dqPending'[v] = dqPending[v]
      BY DEF PoolTypes, LogicTypes
<1>2. /\ n \in Ids(dqPending[w])
      /\ Ids(dqPending'[w]) = Ids(dqPending[w]) \ {n} /\ Once(dqPending'[w])
      BY <1>1, IdsOfTail DEF PoolTypes, LogicTypes, OnceEach, QueuesOnce
<1>3. \A v \in LogicThreads \ {w} : n \notin Ids(dqPending[v])
      BY <1>2 DEF OnceEach, QueuesOnce
<1> HIDE DEF n
<1>4. n \in QueuedIds /\ QueuedIds' = QueuedIds \ {n}
      BY <1>1, <1>2, <1>3 DEF QueuedIds
<1>5. \A u, v \in LogicThreads :
          u # v => Ids(dqPending'[u]) \cap Ids(dqPending'[v]) = {}
      BY <1>1, <1>2 DEF OnceEach, QueuesOnce
<1> QED
      BY <1>1, <1>2, <1>4, <1>5 DEF QueuesOnce, OnceEach, n

\* Dispatching adds the id to the history of its owner.
LEMMA DoneAdd ==
    ASSUME PoolTypes, OnceEach, NEW o \in Owners, NEW n \in Nat, n \notin DoneIds,
           dispatched' = [dispatched EXCEPT ![o] = Append(@, n)]
    PROVE  DoneIds' = DoneIds \cup {n} /\ DoneOnce'
<1> DEFINE s == dispatched[o]
           r == dispatched'[o]
           idsOf(q) == {q[k] : k \in 1..Len(q)}
<1>1. /\ s \in Seq(Nat) /\ r = Append(s, n)
      /\ \A p \in Owners \ {o} : dispatched'[p] = dispatched[p]
      BY DEF PoolTypes, LogicTypes
<1>2. /\ Len(s) \in Nat /\ Len(r) = Len(s) + 1 /\ r[Len(s) + 1] = n
      /\ \A k \in 1..Len(s) : r[k] = s[k]
      BY <1>1
<1>3. \A k \in 1..Len(s) : s[k] # n
      BY DEF DoneIds
<1>4. idsOf(r) = idsOf(s) \cup {n}
      BY <1>2
<1>5. DoneIds' = DoneIds \cup {n}
      BY <1>1, <1>4 DEF DoneIds
<1>6. \A j, k \in 1..Len(r) : r[j] = r[k] => j = k
      BY <1>2, <1>3 DEF OnceEach, DoneOnce
<1> QED
      BY <1>1, <1>5, <1>6 DEF DoneOnce, OnceEach

-----------------------------------------------------------------------------
\* A completion moves from one of the five places to the next.
LEMMA CarriedToQueued ==
    ASSUME Partition, NEW n \in CarriedIds,
           CarriedIds' = CarriedIds \ {n}, QueuedIds' = QueuedIds \cup {n},
           UNCHANGED <<port, posted, PoppedIds, DoneIds>>
    PROVE  Partition'
<1> DEFINE A == Ids(port)
<1>1. /\ A' = A /\ posted' = posted /\ PoppedIds' = PoppedIds /\ DoneIds' = DoneIds
      OBVIOUS
<1>2. /\ 1..posted = A \cup CarriedIds \cup QueuedIds \cup PoppedIds \cup DoneIds
      /\ Disjoint(A, CarriedIds, QueuedIds, PoppedIds, DoneIds)
      BY DEF Partition
<1> HIDE DEF A
<1>3. Disjoint(A, CarriedIds \ {n}, QueuedIds \cup {n}, PoppedIds, DoneIds)
      BY <1>2 DEF Disjoint
<1>4. A \cup CarriedIds \cup QueuedIds \cup PoppedIds \cup DoneIds
          = A \cup (CarriedIds \ {n}) \cup (QueuedIds \cup {n}) \cup PoppedIds \cup DoneIds
      OBVIOUS
<1>5. /\ 1..posted' = A' \cup CarriedIds' \cup QueuedIds' \cup PoppedIds' \cup DoneIds'
      /\ Disjoint(A', CarriedIds', QueuedIds', PoppedIds', DoneIds')
      BY <1>1, <1>2, <1>3, <1>4
<1> QED
      BY <1>5 DEF Partition, A

LEMMA QueuedToPopped ==
    ASSUME Partition, NEW n \in QueuedIds,
           QueuedIds' = QueuedIds \ {n}, PoppedIds' = PoppedIds \cup {n},
           UNCHANGED <<port, posted, CarriedIds, DoneIds>>
    PROVE  Partition'
<1> DEFINE A == Ids(port)
<1>1. /\ A' = A /\ posted' = posted /\ CarriedIds' = CarriedIds /\ DoneIds' = DoneIds
      OBVIOUS
<1>2. /\ 1..posted = A \cup CarriedIds \cup QueuedIds \cup PoppedIds \cup DoneIds
      /\ Disjoint(A, CarriedIds, QueuedIds, PoppedIds, DoneIds)
      BY DEF Partition
<1> HIDE DEF A
<1>3. Disjoint(A, CarriedIds, QueuedIds \ {n}, PoppedIds \cup {n}, DoneIds)
      BY <1>2 DEF Disjoint
<1>4. A \cup CarriedIds \cup QueuedIds \cup PoppedIds \cup DoneIds
          = A \cup CarriedIds \cup (QueuedIds \ {n}) \cup (PoppedIds \cup {n}) \cup DoneIds
      OBVIOUS
<1>5. /\ 1..posted' = A' \cup CarriedIds' \cup QueuedIds' \cup PoppedIds' \cup DoneIds'
      /\ Disjoint(A', CarriedIds', QueuedIds', PoppedIds', DoneIds')
      BY <1>1, <1>2, <1>3, <1>4
<1> QED
      BY <1>5 DEF Partition, A

LEMMA PoppedMoves ==
    ASSUME Partition, NEW n \in PoppedIds, PoppedIds' = PoppedIds \ {n},
           UNCHANGED <<port, posted, CarriedIds>>,
           \/ QueuedIds' = QueuedIds \cup {n} /\ DoneIds' = DoneIds
           \/ QueuedIds' = QueuedIds /\ DoneIds' = DoneIds \cup {n}
    PROVE  Partition'
<1> DEFINE A == Ids(port)
<1>1. /\ A' = A /\ posted' = posted /\ CarriedIds' = CarriedIds
      OBVIOUS
<1>2. /\ 1..posted = A \cup CarriedIds \cup QueuedIds \cup PoppedIds \cup DoneIds
      /\ Disjoint(A, CarriedIds, QueuedIds, PoppedIds, DoneIds)
      BY DEF Partition
<1> HIDE DEF A
<1>3. /\ Disjoint(A, CarriedIds, QueuedIds \cup {n}, PoppedIds \ {n}, DoneIds)
      /\ Disjoint(A, CarriedIds, QueuedIds, PoppedIds \ {n}, DoneIds \cup {n})
      BY <1>2 DEF Disjoint
<1>4. /\ A \cup CarriedIds \cup QueuedIds \cup PoppedIds \cup DoneIds
          = A \cup CarriedIds \cup (QueuedIds \cup {n}) \cup (PoppedIds \ {n}) \cup DoneIds
      /\ A \cup CarriedIds \cup QueuedIds \cup PoppedIds \cup DoneIds
          = A \cup CarriedIds \cup QueuedIds \cup (PoppedIds \ {n}) \cup (DoneIds \cup {n})
      OBVIOUS
<1>5. /\ 1..posted' = A' \cup CarriedIds' \cup QueuedIds' \cup PoppedIds' \cup DoneIds'
      /\ Disjoint(A', CarriedIds', QueuedIds', PoppedIds', DoneIds')
      BY <1>1, <1>2, <1>3, <1>4
<1> QED
      BY <1>5 DEF Partition, A

\* A completion moves from place to place, one at a time, and each step
\* takes it away from where it was.
LEMMA OnceStep ==
    ASSUME CompletionInv, [Next]_vars
    PROVE  OnceEach' /\ Partition'
<1> USE DEF CompletionInv
<1>1. ASSUME UNCHANGED <<port, posted, dqPending, dispatched, Carrying, Popped>>,
             \A i \in Carrying : ioEvent'[i] = ioEvent[i],
             \A w \in Popped : logicEvent'[w] = logicEvent[w]
      PROVE  OnceEach' /\ Partition'
  <2>1. UNCHANGED <<CarriedIds, PoppedIds, QueuedIds, DoneIds>>
        BY <1>1 DEF CarriedIds, PoppedIds, QueuedIds, DoneIds
  <2>2. QueuesOnce' /\ DoneOnce' /\ Once(port)'
        BY <1>1 DEF OnceEach, QueuesOnce, DoneOnce
  <2>3. /\ \A i, j \in Carrying' : ioEvent'[i].id = ioEvent'[j].id => i = j
        /\ \A v, w \in Popped' : logicEvent'[v].id = logicEvent'[w].id => v = w
        BY <1>1 DEF OnceEach
  <2> QED
        BY <1>1, <2>1, <2>2, <2>3 DEF Partition, OnceEach
<1>2. ASSUME NEW o \in Owners, Complete(o)
      PROVE  OnceEach' /\ Partition'
  <2> DEFINE e == [id |-> posted + 1, owner |-> o, early |-> FALSE]
             n == posted + 1
  <2>1. e \in Event /\ e.id = n /\ port' = Append(port, e) /\ port \in Seq(Event)
    <3>1. n \in Nat
          BY DEF PoolTypes, PortTypes
    <3>2. e \in Event /\ e.id = n
          BY <3>1, EventFacts
    <3> QED
          BY <1>2, <3>2 DEF Complete, PoolTypes, PortTypes
  <2>2. n \notin 1..posted /\ 1..posted' = (1..posted) \cup {n}
        BY <1>2 DEF Complete, PoolTypes, PortTypes
  <2>3. n \notin Ids(port)
        BY <2>2 DEF Partition
  <2> HIDE DEF e, n
  <2>4. Ids(port') = Ids(port) \cup {n} /\ Once(port')
        BY <2>1, <2>3, IdsOfAppend DEF OnceEach
  <2>5. UNCHANGED <<CarriedIds, QueuedIds, PoppedIds, DoneIds>>
        BY <1>2
        DEF Complete, poolVars, ioVars, logicVars, CarriedIds, Carrying, QueuedIds,
            PoppedIds, Popped, DoneIds
  <2>6. OnceEach'
        BY <1>2, <2>4
        DEF Complete, poolVars, ioVars, logicVars, OnceEach, QueuesOnce, DoneOnce,
            Carrying, Popped
  <2>7. Disjoint(Ids(port) \cup {n}, CarriedIds, QueuedIds, PoppedIds, DoneIds)
        BY <2>2 DEF Partition, Disjoint
  <2> QED
        BY <2>2, <2>4, <2>5, <2>6, <2>7 DEF Partition
<1>3. ASSUME NEW i \in IoThreads, IoDequeue(i)
      PROVE  OnceEach' /\ Partition'
  <2> DEFINE n == Head(port).id
  <2>1. /\ n \in Ids(port) /\ Ids(port') = Ids(port) \ {n} /\ Once(port')
        BY <1>3, IdsOfTail DEF IoDequeue, PoolTypes, PortTypes, OnceEach
  <2>2. /\ i \notin Carrying /\ i \in Carrying' /\ ioEvent'[i].id = n
        /\ \A j \in IoThreads \ {i} : ioPc'[j] = ioPc[j] /\ ioEvent'[j] = ioEvent[j]
        BY <1>3 DEF IoDequeue, Carrying, PoolTypes, IoTypes
  <2> HIDE DEF n
  <2>3. CarriedIds' = CarriedIds \cup {n}
        BY <2>2, CarriedChange
  <2>4. UNCHANGED <<posted, QueuedIds, PoppedIds, DoneIds>>
        BY <1>3
        DEF IoDequeue, poolVars, logicVars, QueuedIds, PoppedIds, Popped, DoneIds
  <2>5. n \notin CarriedIds
        BY <2>1 DEF Partition, Disjoint
  <2>6. \A j, k \in Carrying' : ioEvent'[j].id = ioEvent'[k].id => j = k
        BY <2>2, <2>5 DEF OnceEach, Carrying, CarriedIds
  <2>7. OnceEach'
        BY <1>3, <2>1, <2>6
        DEF IoDequeue, poolVars, logicVars, OnceEach, QueuesOnce, DoneOnce, Popped
  <2>8. Partition'
    <3>1. Disjoint(Ids(port), CarriedIds, QueuedIds, PoppedIds, DoneIds)
          BY DEF Partition
    <3>2. /\ Disjoint(Ids(port) \ {n}, CarriedIds \cup {n}, QueuedIds, PoppedIds, DoneIds)
          /\ Ids(port) \cup CarriedIds \cup QueuedIds \cup PoppedIds \cup DoneIds
                 = (Ids(port) \ {n}) \cup (CarriedIds \cup {n}) \cup QueuedIds
                       \cup PoppedIds \cup DoneIds
          BY <2>1, <3>1 DEF Disjoint
    <3> QED
          BY <2>1, <2>3, <2>4, <3>2 DEF Partition
  <2> QED
        BY <2>7, <2>8
<1>4. ASSUME NEW i \in IoThreads, EnqueueToWorker(i)
      PROVE  OnceEach' /\ Partition'
  <2> DEFINE e == [ioEvent[i] EXCEPT !.early = m_bRunning]
             n == ioEvent[i].id
  <2>1. e \in Event /\ e.id = n /\ ioTarget[i] \in LogicThreads
        BY EventFacts DEF PoolTypes, PortTypes, IoTypes
  <2>2. /\ i \in Carrying /\ i \notin Carrying'
        /\ \A j \in IoThreads \ {i} : ioPc'[j] = ioPc[j] /\ ioEvent'[j] = ioEvent[j]
        BY <1>4 DEF EnqueueToWorker, Carrying, PoolTypes, IoTypes
  <2>3. dqPending' = [dqPending EXCEPT ![ioTarget[i]] = Append(@, e)]
        BY <1>4 DEF EnqueueToWorker
  <2>4. n \in CarriedIds /\ CarriedIds' = CarriedIds \ {n}
        BY <2>2, CarriedChange DEF CarriedIds
  <2> HIDE DEF e, n
  <2>5. n \notin QueuedIds
        BY <2>4 DEF Partition, Disjoint
  <2>6. QueuedIds' = QueuedIds \cup {n} /\ QueuesOnce'
        BY <2>1, <2>3, <2>5, QueuedPush
  <2>7. UNCHANGED <<port, posted, PoppedIds, DoneIds>>
        BY <1>4 DEF EnqueueToWorker, logicVars, PoppedIds, Popped, DoneIds
  <2>8. \A j, k \in Carrying' : ioEvent'[j].id = ioEvent'[k].id => j = k
        BY <2>2 DEF OnceEach, Carrying
  <2>9. OnceEach'
        BY <1>4, <2>6, <2>7, <2>8
        DEF EnqueueToWorker, logicVars, OnceEach, DoneOnce, Popped
  <2> QED
        BY <2>4, <2>6, <2>7, <2>9, CarriedToQueued
<1>5. ASSUME NEW w \in LogicThreads, WaitPopLocal(w), dqPending[w] # <<>>
      PROVE  OnceEach' /\ Partition'
  <2> DEFINE n == Head(dqPending[w]).id
  <2>1. /\ w \notin Popped /\ w \in Popped' /\ logicEvent'[w].id = n
        /\ \A v \in LogicThreads \ {w} : /\ v \in Popped' <=> v \in Popped
                                         /\ logicEvent'[v] = logicEvent[v]
        BY <1>5 DEF WaitPopLocal, Popped, PoolTypes, LogicTypes
  <2>2. n \in QueuedIds /\ QueuedIds' = QueuedIds \ {n} /\ QueuesOnce'
        BY <1>5, QueuedPop DEF WaitPopLocal
  <2> HIDE DEF n
  <2>3. PoppedIds' = PoppedIds \cup {n}
        BY <2>1, PoppedChange
  <2>4. UNCHANGED <<port, posted, CarriedIds, DoneIds>>
        BY <1>5 DEF WaitPopLocal, ioVars, CarriedIds, Carrying, DoneIds
  <2>5. n \notin PoppedIds
        BY <2>2 DEF Partition, Disjoint
  <2>6. \A u, v \in Popped' : logicEvent'[u].id = logicEvent'[v].id => u = v
        BY <2>1, <2>5 DEF OnceEach, Popped, PoppedIds
  <2>7. OnceEach'
        BY <1>5, <2>2, <2>4, <2>6 DEF WaitPopLocal, ioVars, OnceEach, DoneOnce, Carrying
  <2> QED
        BY <2>2, <2>3, <2>4, <2>7, QueuedToPopped
<1>6. ASSUME NEW w \in LogicThreads, DispatchOrForward(w)
      PROVE  OnceEach' /\ Partition'
  <2> DEFINE e == logicEvent[w]
             target == OwnerWorker(w, e.owner)
             n == e.id
  <2>1. e \in Event /\ e.owner \in Owners /\ n \in Nat /\ target \in LogicThreads
        BY EventFacts DEF OwnerWorker, PoolTypes, PortTypes, LogicTypes
  <2>2. w \in Popped /\ n \in PoppedIds
        BY <1>6 DEF DispatchOrForward, Popped, PoppedIds
  <2>3. n \notin QueuedIds /\ n \notin DoneIds
        BY <2>2 DEF Partition, Disjoint
  <2>4. UNCHANGED <<port, posted, CarriedIds, Carrying, ioEvent, logicEvent>>
        BY <1>6 DEF DispatchOrForward, ioVars, CarriedIds, Carrying
  <2>5. /\ w \notin Popped'
        /\ \A v \in LogicThreads \ {w} : v \in Popped' <=> v \in Popped
    <3>1. CASE target = w
          BY <1>6, <3>1 DEF DispatchOrForward, Popped, PoolTypes, LogicTypes
    <3>2. CASE target # w
      <4>1. logicPc' = Wake([logicPc EXCEPT ![w] = Back(@)], target)
            BY <1>6, <3>2 DEF DispatchOrForward
      <4> DEFINE mid == [logicPc EXCEPT ![w] = Back(@)]
      <4>2. /\ mid \in [LogicThreads -> LogicPcs] /\ mid[w] \in {"loop", "drain"}
            /\ \A v \in LogicThreads \ {w} : mid[v] = logicPc[v]
            BY DEF PoolTypes, LogicTypes, LogicPcs, Back
      <4> HIDE DEF mid
      <4>3. \A v \in LogicThreads :
                logicPc'[v] # mid[v] => mid[v] = "asleep" /\ logicPc'[v] = "wait"
            <5>1. logicPc' = Wake(mid, target)
                  BY <4>1 DEF mid
            <5> QED
                  BY <4>2, <5>1, WakeFacts
      <4> QED
            BY <4>2, <4>3 DEF Popped
    <3> QED
          BY <3>1, <3>2
  <2>6. PoppedIds' = PoppedIds \ {n}
        BY <2>2, <2>4, <2>5, PoppedChange
  <2>7. \A u, v \in Popped' : logicEvent'[u].id = logicEvent'[v].id => u = v
        BY <2>4, <2>5 DEF OnceEach, Popped
  <2>8. CASE target = w
    <3>1. /\ dispatched' = [dispatched EXCEPT ![e.owner] = Append(@, n)]
          /\ UNCHANGED dqPending
          BY <1>6, <2>8 DEF DispatchOrForward
    <3> HIDE DEF n, e, target
    <3>2. DoneIds' = DoneIds \cup {n} /\ DoneOnce'
          BY <2>1, <2>3, <3>1, DoneAdd
    <3>3. UNCHANGED QueuedIds /\ QueuesOnce'
          BY <3>1 DEF QueuedIds, QueuesOnce, OnceEach
    <3>4. Partition'
          BY <2>2, <2>4, <2>6, <3>2, <3>3, PoppedMoves
    <3> QED
          BY <2>4, <2>7, <3>2, <3>3, <3>4 DEF OnceEach
  <2>9. CASE target # w
    <3> DEFINE f == [e EXCEPT !.early = m_bRunning]
    <3>1. f \in Event /\ f.id = n
          BY <2>1, EventFacts DEF PoolTypes, PortTypes
    <3>2. /\ dqPending' = [dqPending EXCEPT ![target] = Append(@, f)]
          /\ UNCHANGED dispatched
          BY <1>6, <2>9 DEF DispatchOrForward
    <3> HIDE DEF n, e, target, f
    <3>3. QueuedIds' = QueuedIds \cup {n} /\ QueuesOnce'
          BY <2>1, <2>3, <3>1, <3>2, QueuedPush
    <3>4. UNCHANGED DoneIds /\ DoneOnce'
          BY <3>2 DEF DoneIds, DoneOnce, OnceEach
    <3>5. Partition'
          BY <2>2, <2>4, <2>6, <3>3, <3>4, PoppedMoves
    <3> QED
          BY <2>4, <2>7, <3>3, <3>4, <3>5 DEF OnceEach
  <2> QED
        BY <2>8, <2>9
<1>7. CASE Start
  <2>1. Carrying = {} /\ Carrying' = {} /\ Popped = {} /\ Popped' = {}
        BY <1>7 DEF Start, NotBegun, Drained, Carrying, Popped
  <2> QED
        BY <1>1, <1>7, <2>1 DEF Start
<1>8. ASSUME NEW i \in IoThreads,
             IoTest(i) \/ IoTimeout(i) \/ SelectLogicWorker(i) \/ TryBindWorker(i)
      PROVE  OnceEach' /\ Partition'
  <2>1. Carrying' = Carrying
        BY <1>8
        DEF IoTest, IoTimeout, SelectLogicWorker, TryBindWorker, Carrying, PoolTypes,
            IoTypes
  <2> QED
        BY <1>1, <1>8, <2>1
        DEF IoTest, IoTimeout, SelectLogicWorker, TryBindWorker, poolVars, logicVars,
            Popped
<1>9. ASSUME NEW i \in IoThreads, EnqueueNotify(i)
      PROVE  OnceEach' /\ Partition'
  <2>1. Carrying' = Carrying
        BY <1>9 DEF EnqueueNotify, Carrying, PoolTypes, IoTypes
  <2>2. Popped' = Popped
    <3>1. \A v \in LogicThreads :
              logicPc'[v] # logicPc[v] => logicPc[v] = "asleep" /\ logicPc'[v] = "wait"
          BY <1>9, WakeFacts DEF EnqueueNotify, PoolTypes, LogicTypes
    <3> QED
          BY <3>1 DEF Popped
  <2> QED
        BY <1>1, <1>9, <2>1, <2>2 DEF EnqueueNotify, poolVars
<1>10. ASSUME NEW w \in LogicThreads, StopNotify(w)
       PROVE  OnceEach' /\ Partition'
  <2>1. Popped' = Popped
        BY <1>10, WakeFacts DEF StopNotify, Popped, PoolTypes, LogicTypes
  <2> QED
        BY <1>1, <1>10, <2>1 DEF StopNotify, poolVars, ioVars, Carrying
<1>11. ASSUME NEW w \in LogicThreads, LogicTest(w) \/ SpuriousWakeup(w) \/ HandlerReturns(w)
       PROVE  OnceEach' /\ Partition'
  <2>1. Popped' = Popped /\ \A v \in Popped : logicEvent'[v] = logicEvent[v]
        BY <1>11
        DEF LogicTest, SpuriousWakeup, HandlerReturns, Popped, PoolTypes, LogicTypes
  <2> QED
        BY <1>1, <1>11, <2>1
        DEF LogicTest, SpuriousWakeup, HandlerReturns, poolVars, ioVars, Carrying
<1>12. ASSUME NEW w \in LogicThreads, WaitPopLocal(w), dqPending[w] = <<>>
       PROVE  OnceEach' /\ Partition'
  <2>1. Popped' = Popped
        BY <1>12 DEF WaitPopLocal, Popped, PoolTypes, LogicTypes
  <2> QED
        BY <1>1, <1>12, <2>1 DEF WaitPopLocal, ioVars, Carrying
<1>13. CASE StopFlag \/ StopJoin \/ UNCHANGED vars
       BY <1>1, <1>13
       DEF StopFlag, StopJoin, vars, poolVars, ioVars, logicVars, Carrying, Popped
<1> HIDE DEF CompletionInv
<1> QED
      BY <1>2, <1>3, <1>4, <1>5, <1>6, <1>7, <1>8, <1>9, <1>10, <1>11, <1>12, <1>13
      DEF Next, StopStep, IoStep, LogicStep

LEMMA NotBegunStep ==
    ASSUME NotBegun, [Next]_vars
    PROVE  NotBegun'
<1>1. CASE stopPc' # "new"
      BY <1>1 DEF NotBegun
<1>2. CASE stopPc' = "new"
  <2>1. stopPc = "new"
        BY <1>2
        DEF Next, vars, Complete, Start, StopFlag, StopStep, StopJoin, StopNotify,
            IoStep, IoTest, IoDequeue, IoTimeout, SelectLogicWorker, TryBindWorker,
            EnqueueToWorker, EnqueueNotify, LogicStep, LogicTest, WaitPopLocal,
            DispatchOrForward, HandlerReturns, SpuriousWakeup
  <2>2. UNCHANGED ioPc
        BY <1>2, <2>1
        DEF NotBegun, Next, vars, ioVars, Complete, Start, StopFlag, StopStep,
            StopJoin, StopNotify, IoStep, IoTest, IoDequeue, IoTimeout,
            SelectLogicWorker, TryBindWorker, EnqueueToWorker, EnqueueNotify,
            LogicStep, LogicTest, WaitPopLocal, DispatchOrForward, HandlerReturns,
            SpuriousWakeup
  <2> QED
        BY <1>2, <2>1, <2>2 DEF NotBegun
<1> QED
      BY <1>1, <1>2

-----------------------------------------------------------------------------
LEMMA DisjointUnion ==
    ASSUME NEW S, NEW T, IsFiniteSet(S), IsFiniteSet(T), S \cap T = {}
    PROVE  Cardinality(S \cup T) = Cardinality(S) + Cardinality(T)
<1>1. Cardinality(S \cap T) = 0
      BY FS_EmptySet
<1> QED
      <2>1. /\ Cardinality(S \cup T)
                   = Cardinality(S) + Cardinality(T) - Cardinality(S \cap T)
            BY FS_Union
      <2>2. Cardinality(S) \in Nat /\ Cardinality(T) \in Nat
            BY FS_CardinalityType
      <2> QED
            BY <1>1, <2>1, <2>2

\* The sizes of five disjoint places that make up 1..posted add up to it.
LEMMA PlacesAddUp ==
    ASSUME NEW m \in Nat, NEW A, NEW B, NEW C, NEW D, NEW E,
           1..m = A \cup B \cup C \cup D \cup E, Disjoint(A, B, C, D, E)
    PROVE  m = Cardinality(A) + Cardinality(B \cup D) + Cardinality(C) + Cardinality(E)
<1>1. IsFiniteSet(1..m) /\ Cardinality(1..m) = m
      BY FS_Interval
<1>2. /\ IsFiniteSet(A) /\ IsFiniteSet(B \cup D) /\ IsFiniteSet(C) /\ IsFiniteSet(E)
      /\ IsFiniteSet(A \cup (B \cup D)) /\ IsFiniteSet((A \cup (B \cup D)) \cup C)
      BY <1>1, FS_Subset
<1>3. Cardinality(A \cup (B \cup D)) = Cardinality(A) + Cardinality(B \cup D)
  <2>1. A \cap (B \cup D) = {}
        BY DEF Disjoint
  <2> QED
        BY <1>2, <2>1, DisjointUnion
<1>4. Cardinality((A \cup (B \cup D)) \cup C)
          = Cardinality(A \cup (B \cup D)) + Cardinality(C)
  <2>1. (A \cup (B \cup D)) \cap C = {}
        BY DEF Disjoint
  <2> QED
        BY <1>2, <2>1, DisjointUnion
<1>5. Cardinality(((A \cup (B \cup D)) \cup C) \cup E)
          = Cardinality((A \cup (B \cup D)) \cup C) + Cardinality(E)
  <2>1. ((A \cup (B \cup D)) \cup C) \cap E = {}
        BY DEF Disjoint
  <2> QED
        BY <1>2, <2>1, DisjointUnion
<1>6. 1..m = ((A \cup (B \cup D)) \cup C) \cup E
      OBVIOUS
<1> QED
      BY <1>1, <1>2, <1>3, <1>4, <1>5, <1>6, FS_CardinalityType

\* A port whose ids differ has as many ids as events.
LEMMA IdsOfPort ==
    ASSUME NEW q \in Seq(Event), Once(q)
    PROVE  Cardinality(Ids(q)) = Len(q)
<1> DEFINE f == [k \in 1..Len(q) |-> q[k].id]
<1>1. Len(q) \in Nat
      OBVIOUS
<1>2. f \in Bijection(1..Len(q), Ids(q))
  <2>1. f \in [1..Len(q) -> Ids(q)]
        BY DEF Ids
  <2>2. \A j, k \in 1..Len(q) : f[j] = f[k] => j = k
        BY DEF Once
  <2>3. \A n \in Ids(q) : \E k \in 1..Len(q) : f[k] = n
        BY DEF Ids
  <2> HIDE DEF f
  <2> QED
        BY <2>1, <2>2, <2>3 DEF Bijection, Injection, Surjection, IsInjective
<1> QED
      BY <1>1, <1>2, FS_CountingElements DEF ExistsBijection

\* The partition says in terms of places what EachOnce counts.
LEMMA PartitionIsEachOnce == CompletionInv => EachOnce
<1> SUFFICES ASSUME CompletionInv PROVE EachOnce
    OBVIOUS
<1> USE DEF CompletionInv
<1>1. InFlight = CarriedIds \cup PoppedIds
      BY DEF InFlight, CarriedIds, PoppedIds, Carrying, Popped
<1>2. posted = Cardinality(Ids(port)) + Cardinality(InFlight)
                   + Cardinality(QueuedIds) + Cardinality(DoneIds)
  <2>1. posted \in Nat
        BY DEF PoolTypes, PortTypes
  <2> QED
        BY <1>1, <2>1, PlacesAddUp DEF Partition
<1>3. Cardinality(Ids(port)) = Len(port)
      BY IdsOfPort DEF PoolTypes, PortTypes, OnceEach
<1>4. 1..posted = Ids(port) \cup InFlight \cup QueuedIds \cup DoneIds
      BY <1>1 DEF Partition
<1> QED
      BY <1>2, <1>3, <1>4
      DEF EachOnce, QueuedIds, DoneIds, OnceEach, DoneOnce, Drained

\* No completion is lost or dispatched twice on its way from the port over
\* the IO threads and the queues, forwarded or not, to its handler, and a
\* worker leaves nothing behind that was queued before Stop began, for any
\* number of IO threads, workers, sessions and completions.
THEOREM EachOnceHolds == Spec => []EachOnce
<1>1. CompletionInv /\ [Next]_vars => CompletionInv'
  <2> SUFFICES ASSUME CompletionInv, [Next]_vars PROVE CompletionInv'
      OBVIOUS
  <2>1. PoolTypes'
        BY TypesStep DEF CompletionInv
  <2>2. OnceEach' /\ Partition'
        BY OnceStep
  <2>3. Drained' /\ NotBegun'
        BY DrainedStep, NotBegunStep DEF CompletionInv
  <2> QED
        BY <2>1, <2>2, <2>3 DEF CompletionInv
<1> QED
      BY <1>1, CompletionInit, PartitionIsEachOnce, PTL DEF Spec

=============================================================================
