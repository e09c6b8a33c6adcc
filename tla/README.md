# ServerBase: TLA+ specifications, model checking and proofs

ServerBase is a Windows IOCP chat server in C++ (`src/Server`) whose network
events are turned into features, queued, and judged by a Python inference
service (`src/AI/inference_api`). The rest of `src/AI` produces the model of
that service: campaigns that record controlled traffic, datasets, training,
evaluation on a holdout, and an approved bundle. This directory holds TLA+
modules of both sides, the TLC configurations that check them on small
instances, and TLAPS proofs for every instance. `PROJECT.json` maps each
definition to its source lines and lists runs, mutants, hazards, findings and
theorems.

## 1. The system

| Part | State | Operations | Talks to |
|---|---|---|---|
| IOCPWorkerPool, IocpCore | completion port, one queue per logic worker, session-to-worker binding, `m_bRunning` | Start, Stop, IO loop, SelectLogicWorker, EnqueueToWorker, WaitPopLocal, DispatchOrForward | dispatches completions to Session and Listener |
| Listener, AcceptRetryScheduler | accept event pools, retry queue and its thread, `m_bClosing` | StartAccept, PostAccept, OnAccept, ScheduleRetry, RetryThreadLoop, EndRetry, Close, WaitForAllAcceptEventsReturned | kernel (AcceptEx), pool threads, ServerApp |
| Session, ServerSession | socket, receive ring, send queue, in-flight flag, pending bytes | PostRecv, OnRecv_v2, ParsePackets, SendPacket, postNextSend, OnSend2, PartialSend, QueuePacketToWorker, CloseSocket | kernel, its worker, observers of network events |
| RingRecvBuffer | bytes, read and write position | GetRecvWsaBuf, CommitWrite, PeekCopy, Read, Consume | kernel writes into its regions |
| FeatureCollector | per-session totals, pointer to the queue | OnNetworkEvent, SetFeatureQueue, RemoveSession, Clear | called by workers, pushes into the queue |
| AsyncFeatureQueue | bounded deque, closed flag, two condition variables, ids | TryPush, WaitPush, TryPop, WaitPop, Close, Clear | collector produces, worker consumes |
| AiInferenceWorker, InferenceResultStore | thread, stop flag and deadline, counters, latest result per session | Start, Stop, WorkerLoop, ProcessItem, Update | queue, inference service over HTTP |
| wmain, ServerApp, runtime report | phase of the process | start-up, quit, Finalize, WriteAiRuntimeReport | all of the above |
| AsyncJsonlCollector (Python) | bounded queue, counters, writer thread, two files | try_collect, stop, _run, _fail | requests of the inference API |
| Inference API (Python) | readiness, service, recorder, limiter, requests under way | lifespan, health, collection status, predict, cancellation | server's worker, recorder, model threads |
| Capture campaign and traffic (Python) | runner, child processes, ports, client sessions, files of each run | run_campaign, run_capture, wait_for_capture, stop_owned_process, run_session, audit | API process, Server.exe |
| Designs and batches (Python) | plans, registry, files | compile_plans, prepare and collect of both batches | campaign, dataset |
| Dataset preparation (Python) | rows, blocks, splits, windows, files | load_runs, build_dataset, build_sequences, prefix features | files of captures |
| Training, evaluation, approval (Python) | files, digests, receipts of opened holdouts | trainers, validation, comparison, cost, Test, error analysis and diagnosis | files of the dataset and of each other |
| Approved model bundle (Python) | manifests, digests, lock of the candidate | load_verified_bundle | inference API |
| ReadWriteLock, ObjectPool, SendBuffer, MemoryStream, ThreadManager | utilities | | |

What is hard here, and what makes each part correct:

* **Pool.** Sessions have no locks; they rely on being run by one worker, which
  two IO threads may choose at the same time. Completions must neither be lost
  nor doubled, and Stop must not be slept through.
* **Listener.** Accept events are shared by the kernel, workers, the retry
  thread and the closing thread. Each must have one owner, and shutdown must
  know when all are back.
* **Session.** Partial receives and sends, completions after a close, packets
  sent by other threads. The receiver must never be left without an armed
  receive, the wire must carry the queue in order, and a closed session must
  lose its last operation so that it can be freed.
* **Ring.** The kernel writes while the parser reads; one place stays free.
* **Queue, collector, worker, report.** The snapshot is pushed outside the
  collector's lock; the counters of the report must add up over drops,
  failures, late answers and shutdown; what the server sends must be what the
  API's validation accepts.
* **API and JSONL recorder.** A request is cancelled while its prediction runs
  on a thread; loading fails; the application shuts down with requests under
  way; any file operation fails; a summary claims completeness.
* **Campaign.** Two runners pass the port check together; a child dies, hangs
  or is replaced; the last records must be posted before the API is stopped;
  the audit must refuse everything mixed and accept everything undisturbed.
* **Datasets and choices.** Windows and prefix features must not look ahead or
  into another session, splits must not overlap, and a tie or an unmeasured
  cost must not decide which model is approved.
* **Scripts and files.** A file is replaced between the digest and the use; a
  script is started twice; a holdout may be opened under one policy only; the
  service may start while its bundle is written.

`PROJECT.json` lists the hazards line by line, each with the property that
would catch it, or a note.

## 2. Modules

### Server

| Module | Models | Remarks |
|---|---|---|
| `AsyncFeatureQueue` | `AsyncFeatureQueue.{h,cpp}` | A critical section is a step. `call[t]` is where thread t is: idle, blocked or woken in `m_notEmpty`/`m_notFull`, or between the unlock of Close/Clear and its `notify_all`. Spurious wakeups are steps. |
| `FeatureChannel` | what the queue promises | A bounded FIFO with close and a drop counter; implemented by `AsyncFeatureQueue` and used by the modules below in its place. |
| `FeatureCollector` | `FeatureCollector.cpp`, the events of `Session.cpp` | An event takes three steps: stamped, handled under `m_mutex`, pushed after it. The completions of a session come from the threads `Emitters[s]`; any thread may start it, close it or report its errors. Byte sums and averages are represented by the counters they depend on. |
| `FeaturePayload` | `BuildJson` of `AiInferenceWorker.cpp` | The record the worker posts for a snapshot, which is validated by `PayloadContract`. |
| `AiInferenceWorker` | `AiInferenceWorker.cpp`, `InferenceResultStore.cpp` | Stop is three steps under `m_lifecycleMutex`. The HTTP exchange returns any outcome the code tells apart. Time is one bit: the stop deadline has passed. Actions only; it is composed below. |
| `InferenceRuntime` | `Server/main.cpp`, `AiRuntimeSupport.h`, `NetApp.cpp` | Composes the collector and the worker over one channel; `mainPc` follows `wmain`, with `Finalize` in its three steps: Listener::Close, the wait for the accept events, the join of the pool. |
| `RingRecvBuffer` | `RecvBuffer.cpp` | Bytes are numbered in stream order. |
| `Session` | `Session.cpp`, `ServerSession.cpp` | The parse loop takes a step per packet. The ring is a byte count, which `RingRecvBuffer` justifies. A packet is the size in its header and the kind of its payload. |
| `IOCPWorkerPool` | `IOCPWorkerPool.cpp`, `IocpCore.cpp` | The port is a FIFO. The load of the binding and the compare-and-swap are two steps. |
| `Listener` | `Listener.cpp`, `ServerApp::Finalize` | PostAccept is a check, the AcceptEx call and the reset of the retry counter, each a step. The retry thread's test outside the mutex and its wait without predicate are separate steps, and so are the join, the walk and the clearing in EndRetry. |
| `AsyncFeatureQueueProofs`, `FeatureCollectorProofs`, `InferenceRuntimeProofs`, `SessionProofs`, `IOCPWorkerPoolProofs`, `ListenerProofs` | | Theorems about the module each is named after; section 4. `SessionProofs` also holds those about the ring, `FeatureCollectorProofs` the one about the payload. |

### Inference service and campaigns

| Module | Models | Remarks |
|---|---|---|
| `PayloadContract` | `payload_validation.py`, `schemas.py`, `feature_transformer.py` | The two request models and the relations between their sections, as operators. |
| `AsyncJsonlCollector` | `data_collection/collector.py` | A block under `self._lock` is a step, and so is each queue and file operation. A failed flush or close lets any prefix of the buffer out. |
| `InferenceApi` | `inference_api/main.py`, `rf_service.py`, `model_service.py` | Extends the recorder. The code between two awaits is a step of the event loop; the thread of a prediction outlives a cancelled request. |
| `InferenceApiProofs` | | Theorems about the recorder, alone and inside the application, and about the application. |
| `TrafficPlan` | `traffic.py` | Profiles, plans, and the frames, groups and waits of a session, as operators. Random draws are given. |
| `CaptureCampaign` | `campaign.py`, `runtime.py`, `quality.py`, `run_session` | Runners, their API and server processes, the ports, the clients and the files. `audit_run` and `eligible_for_training` are evaluated in every state. |

### Data, choices and files

| Module | Models | Remarks |
|---|---|---|
| `OperationalRows` | `operational_dataset.py`, `operational_sequences.py`, `operational_prefix_features.py` | Blocks, splits, windows and prefix features as operators over short sequences of rows. |
| `ModelSelection` | the choices of `training/` and `evaluation/` | Counts, rates as pairs, thresholds, criteria, the preference between trials, cost and early stopping. A candidate is its probabilities. |
| `CollectionDesign` | `augmentation.py`, `recovery_design.py`, `recovery.py` | Designs compiled to plans, their coverage. |
| `OperationalDataset` | | Builds inputs element by element, so that TLC meets every input up to a length, and states what the operators have to compute. |
| `FileSteps` | | The kinds of steps scripts are made of: test for absence, read, hash, read-and-hash, verify, exclusive create, publish a manifest, reserve a holdout. |
| `PreparationScripts`, `TrainingScripts`, `EvaluationScripts` | the scripts of `data_collection/`, `data_preparation/`, `training/`, `evaluation/`, `inference_api/approved_bundle.py` | Each script is the sequence of its steps on files, helpers included, in the order of the code. |
| `Pipeline` | how they run | Processes that run scripts on one disk, and files that are replaced. Content is a version; digests are equal when versions are. |
| `ScriptRules` | | What the order of the steps guarantees, script by script: constant facts about the table of scripts, which TLC evaluates and the proofs use. |
| `PipelineProofs` | | Theorems about `Pipeline` and about `CaptureCampaign`. |
| `MC...` | | Constants for TLC. |

Each property has a mutant (an operator whose name starts with `Mut`, next to
the definition it replaces): the model of a plausible mistake in the code
under which TLC finds the property violated.

## 3. What is checked

| Run | Instance | States | Shows |
|---|---|---|---|
| `queue` | 3 threads, 2 items, capacity 2, 3 pushes | 312,736 | FIFO delivery across all consumers and around Clear, conservation of items, no lost wakeup, Close releases every blocked call, refinement of `FeatureChannel`. Three threads give two sleepers and a waker; three pushes overfill the queue. |
| `collector` | 2 threads, 2 sessions (completions of one on its own worker, of the other on any thread; starts, closes and errors of both on any thread), 4 events, a detach, a removal | 2,579,069 | The push outside the lock keeps the messages of a bound session in order, and nothing after the close changes its summary, which may overtake only the last message; every snapshot of it passes the API's validation (except a summary of a session whose start the collector does not know); one summary per session. Four events are: start, two messages, close. |
| `runtime` | 2 network threads, 2 sessions, 4 events, capacity 2, `--ai-rf` | 662,052 | From start-up to the report, with every failing exit: counters add up and the closed queue refuses nothing, a fully judged session is reported as covered, and once Listener::Close has returned after quit the process ends. |
| `ring` | capacity 5, 11 bytes | 1,084 | Wraps twice. Reads are the stream in order, unread bytes stay intact and the kernel's regions never touch them. |
| `session` | header 1, ring of 2, packet sizes below, at and above the limits, replies of 2 + 1 bytes, 2 packets, 1 call from another thread | 465,429 | The receiver never stalls, the event protocol, the order on the wire, and two liveness properties. Three bytes in two buffers reach both branches of PartialSend. |
| `pool` | 2 IO threads, 2 workers, 1 session and the listener, 2 completions | 411,817 | One worker per session, each completion once and none left by a drained worker, each is dispatched, Stop returns. Two completions are what a race for the binding needs. |
| `listener` | 2 workers, 2 events in 2 pools, 2 retries | 127,017 | One owner per event, a successful wait is final, events come back, except one whose retry is scheduled while EndRetry gives the others back. |
| `listener_close` | 1 worker, 1 event | 370 | *Violated.* See findings. |
| `api` | 2 requests, 8 bodies (2 valid, one per broken relation), recorder of capacity 1, 2 attempts | 405,837 | Slots follow the threads, the dummy never answers in the model's place, a run called complete is on disk, the writer always ends. Two requests are what a limiter of one needs. |
| `campaign` | one runner on two runs (2 fragmented sessions, one in two groups; one session refused at the header) with one fault of seven kinds; two runners on one run, one of which may be killed | 393,413 | What may be trained on was recorded by one runner from one server, an undisturbed campaign passes, the last records are posted, a started campaign ends and leaves no process. |
| `dataset` | inputs of up to 4 runs, 4 rows, 3 judged rows, 6 losses, 6 slots | 109,581 | Splits are sound, windows and features only look back and stay in their session, the chosen candidate is the best feasible one whatever the order, the designs cover all levels. Four runs fill three splits, four rows give two sessions with a past. |
| `pipeline` | every script alone with a replaced file, every script twice on one directory, evaluation with the service and two replacements, evaluators of different and equal policies on one holdout | 854,088 | Manifests tell the truth about what was used, processes do not publish each other's files, a holdout is opened under one policy, the service runs the model that the author of its approval tested, and that author is complete. The rules of `ScriptRules` are evaluated over every script. |

Deadlock is checked in `queue`, where an idle thread can always call again.
The other models may stop: their bounds are used up, or the process has ended.

**Fairness.** Weak fairness only, for threads inside a call or a loop, which
the operating system schedules, and for operations whose end the code or the
platform bounds: an HTTP exchange (`WinHttpSetTimeouts`), retry times, queue
polls with a timeout, kernel operations on a closed socket or with bytes to
deliver, the waits of a campaign (each has a deadline), the tasks of the
lifespan and file operations. There is none for clients of the server, for
calls of Stop, Close or quit, for the return of `Listener::Close` inside the
composed process (the finding below says why), for the user who starts a
campaign or shuts the API down, for spurious wakeups, for failures, or for
scripts.

**Finding.** `listener_close`: the retry thread tests `m_bRetryRunning` and
then waits without a predicate. A notification in between is lost, and `Close`
never returns from its join.

**Observations** that the models reach and no run states as a violation:

* `EndRetry` gives the events of the retry queue back and clears the queue
  without `m_retryMutex` (`Listener.cpp:504`). A worker that tested `m_bClosing`
  before the close may schedule a retry after the walk: its event is lost with
  the queue, or stays in it, and never comes back to its pool.
  `EventsComeBack` leaves out exactly the events such a worker holds.
* When another thread closes a session (a deferred post that failed), the
  summary may be pushed before the last message that it counts: both were
  copied under the lock and are pushed outside it (`FeatureCollector.cpp:65`).
* `collection_summary.json` may say `complete: true` for a shutdown that timed
  out: the writer takes its snapshot before `stop()` records the timeout
  (`collector.py:122`, against `docs/operational_data_collection.md:128`). The
  file itself is then whole, which `CompleteIsOnDisk` checks.
* Without `--ai-rf` summaries are judged as well. The result of a summary,
  with request index 0, then replaces that of the session's last message, and
  the report's `covers_latest_message` (`AiRuntimeSupport.h:89`) reads false
  for a session that was judged completely.
* A completion queued after its worker has drained and exited stays behind
  (`IOCPWorkerPool.cpp:101`).
* Two runners can pass `ensure_ports_free` together. One may then report a run
  as passed although its traffic was served by the other's server; the audit
  keeps such a run out of the training data.
* A crash between the creation of a holdout receipt and its writing leaves an
  empty receipt that no evaluator accepts: Test stays closed.
* `prepare_batch` leaves no failure record, and `collect_batch` writes
  `batch_runtime` only after its first campaign.
* Scripts that open a file before they have any digest of it, and record the
  digest later, describe a file that may have been replaced in between. These
  reads are the `Peek` steps: configurations and designs, the reports and
  manifests of earlier stages that a script consults, `previous_plan`, the
  contract in `prepare_campaign` (`campaign.py:87`), the campaign manifest in
  `load_runs` (`operational_dataset.py:114`, hashed at 126).
  `ManifestIsTrue` leaves them out.
* The RF diagnosis hashes the model it has already loaded once more and
  publishes the later digests (`analyze_operational_rf_errors.py:198`). A model
  replaced in between is named by a diagnosis that did not use it; without
  `HashedAgain`, the `pipeline` run finds this at once. Every other read of
  every script is covered by `ManifestIsTrue`.

## 4. What is proved

Every theorem below holds for every value of the constants that satisfies the
named assumption: any number of threads, sessions, events, requests, items and
bytes, and any bound on them. Each invariant was first checked with TLC on the
instance of its run. The proofs have one step per action; facts that several
actions need are lemmas.

| Module | Theorem | States |
|---|---|---|
| `AsyncFeatureQueueProofs` | `TypeCorrect`, `CapacityBoundHolds` | types; never more than `m_capacity` items |
| | `DeliveredInOrderHolds`, `ConservationHolds` | popped in push order; each item once |
| | `NoLostWakeupHolds` | nobody sleeps beside items or places that no woken thread will use |
| | `QueueImplementsChannel` | the queue refines `FeatureChannel` |
| `IOCPWorkerPoolProofs` | `SessionOnOneWorkerHolds`, `BoundForeverHolds` | handlers of a session on one worker; a binding is for ever |
| | `EachOnceHolds` | no completion lost, doubled or left by a drained worker |
| `ListenerProofs` | `OneOwnerHolds` | one owner per accept event |
| | `WaitTrueIsFinalHolds` | after a successful wait no event leaves its pool |
| | `ListenerTypeCorrect` | types; retry counts stay within `MAX_RETRY` |
| `SessionProofs` | `SessionTypeCorrect` | types; pending bytes never wrap below zero |
| | `ReceiverNeverStallsHolds`, `WireIsInOrderHolds`, `EventProtocolHolds` | the three safety properties of the session |
| | `BytesInOrderHolds` | the ring is the queue of the received bytes |
| `FeatureCollectorProofs` | `CollectorTypeCorrect`, `OneSummaryHolds`, `PerSessionOrderHolds` | types; one summary; snapshots of a session on one worker in order, also when other threads start it, close it or report its errors |
| | `AcceptedByApiHolds` | the API accepts every snapshot of a session on one worker, except the summary of a session whose start the collector does not know |
| `InferenceRuntimeProofs` | `ReportAccountsForAllHolds` | the report adds up; no push after the queue was closed |
| | `AllJudgedHolds` | with `--ai-rf`, a report without losses has judged every latest message |
| `InferenceApiProofs` | `CompleteIsOnDiskHolds` | a run called complete is on disk |
| | `ApiRunsTheRecorder`, `ApiCompleteIsOnDisk` | the application implements the recorder, so its summary is true as well |
| | `SlotsAreThreadsHolds`, `NeverDummyInsteadHolds` | the limiter follows the threads; no dummy in the model's place |
| `PipelineProofs` | `HoldoutOnceHolds` | a holdout is opened under one policy |
| | `OneAuthorHolds` | a manifest claims only files of its own process |
| | `ServedIsApprovedHolds` | a service that started holds the model its approval tested |
| | `LastRecordsArePostedHolds` | no snapshot is refused because the API was stopped before the server |
| | `ReporterIsRecorder` | who reports a run with a well-ended API is who recorded it |

**Queue.** Assumed: finitely many threads, a capacity of at least one (the
constructor throws otherwise). Order and conservation are not inductive alone.
`FifoInv` joins them with the ids of the queued items: these are consecutive
and end at `m_nextSequenceId`, and all that was delivered lies below the head;
`StepsOnTheDeque` reduces every action to a push, a pop, a clear or no change.
`NoLostWakeup` is inductive with the types, but its proof counts: it compares
the number of woken threads with the items or places left, so each action
needs how one `notify_one`, one `notify_all` or one thread that leaves its
wait changes the cardinality of a set of threads. The refinement maps the
deque to its items and keeps the closed flag and the drop counter.

**Pool.** Assumed: at least one worker. `HandlerBound`: a worker inside a
handler of a session is the one the session is bound to. It is kept because no
step changes a binding and only `DispatchOrForward` enters a handler, on the
worker it has found or made the owner. `CompletionInv`, for `EachOnce`: the
completions are partitioned into the port, the IO threads' hands, the queues,
the workers' hands and the dispatched ones (`Partition`); in each of these an
id occurs once (`OnceEach`); a worker that has drained saw the pool stopped
and its queue empty (`Drained`).

**Listener.** Assumed: each event has a home pool, `MAX_RETRY` is positive,
and the main thread, the retry thread and the workers are different threads.
`where[e]` alone does not show one owner. `OwnerInv` adds that a thread inside
PostAccept has its event in its hands until AcceptEx is pending (`Hands`), that
the retry queue names events that wait for a retry, each once (`Queued`), and
that the main and the retry thread leave PostAccept before they take the next
event and stay out of it once they have gone on (`OneAtATime`). Between the
walk and the clearing in EndRetry the queue also names events that are free
again (`InQueue`); an event that is "lost" after it is in nobody's hands. For
the bound on the retries, an item of the queue may carry a higher count than
its event, which a late reset has cleared (`ItemsCount`).

**Ring.** Assumed: a capacity of at least one. `RingInv` follows what
`BytesInOrder` does not speak of: the bytes the kernel has stored and
CommitWrite has not counted, and where the regions of an outstanding receive
lie after reads have moved the read position. The k-th byte of the regions is
the k-th place after the write position, and they end before the read position
comes round. Positions wrap by a comparison instead of the remainder, which
a lemma shows to be the same, so that the arithmetic stays linear.

**Session.** Assumed: positive header sizes and a header that fits into the
ring. For the receiver, `BytesAccounted`: the bytes of the packets not yet
parsed are in the ring, in a completed receive or in flight. ParsePackets ends
with an empty ring, an incomplete header or a packet that fits into the ring
and is not all there, so PostRecv finds room. For the wire, `Sending`: which item is being sent, how much of it
has left, and that the ids behind it are queued consecutively; a partial send
resubmits exactly the rest (`Submitted`). `PendingCovers` keeps
`m_ullPendingBytes` at or above what is queued, so the subtraction cannot wrap.

**Collector.** Assumed: finitely many threads, and for each session the set of
threads that dispatch its completions. Order and validity are stated for
sessions with one such thread, which is what the pool guarantees; nothing is
assumed of the threads that start a session, close it or report its errors. A
snapshot is pushed after `m_mutex` is released, so the invariants follow what
threads still carry: the one closing event of a session, on whatever thread
(`ClosesOnce`), and (`Follows`) a message that lies between what was offered
before it and the entry it was made from (`CarriedNext`), while a summary
carried by another thread is what the close left for good (`CarriedCounted`).
`AcceptedByApiHolds` also assumes session ids from one on (`SessionsAssumption`;
`g_ullNextSessionId` starts at 1). The relations the API checks are not
inductive on the payload. `ValidInv` states what they follow from: a packet in
hand is not older than the entry of its session, an error or a close of
another thread may be older than the last message but never than the start
(`Timed`); the first event of a session is under way alone (`OneOpens`); an
entry knows the start of its session unless it was removed or the start is
still under way (`StartKnown`); and every snapshot carried or offered has the
numbers `BuildJson` turns into a valid request (`SnapshotsValid`). Lemmas about
`BuildJson` then go from the snapshot to the payload and the relations of
`payload_validation.py`.

**Runtime.** Assumed (`RuntimeAssumption`): finitely many network threads, the
main thread is none of them, session ids start at one, and the completions of a
session are dispatched by one worker (`SessionOnOneWorkerHolds`). Whoever
accepts a session may start it, any thread may close it or report an error, and
the main thread closes sessions in the destructor of ServerApp. The collector's
lemmas are reused through an instance. `Quiet` says from which points of `wmain`
on nobody is inside the collector any more, so that nothing is pushed to a
queue that Stop has closed. `LifeInv` says between which points the worker thread
exists, and that a worker that ended left the queue closed and, if it ran,
empty. `Balance`: what was offered was dropped, is queued, is in the worker's
hands or is counted. `AllJudgedHolds` needs more (`JudgeInv`): the
collector's order of messages holds here without restriction, since nothing is
removed (`Ordered`); messages are numbered from one without gaps
(`Numbered`, `CountBounded`); and while nothing is lost the queue is the end of
what was offered and the stored results are those of the last messages of the
rest (`InFlight`, `Judged`). The theorem has the hypothesis `MessageOnly`, the
flag of `--ai-rf`. Without it a stored session summary, whose request index is
zero, replaces the result of the last message, and TLC refutes the property.

**Pipeline.** Assumed (`WorldsAssumption`): jobs are scripts of the table, with
any policies, in any number. Two further sets of facts are used. `PlacesAssumption`:
different scripts have output places of their own, as their configurations
have; the same script may be started any number of times on its places. And the
rules of `ScriptRules`, which mention neither a constant nor a variable:
`ScriptsAreSequences`, `HoldoutRule`, `AuthorRule`, `ApprovalRule`, `TestRule`,
`ServeRule` say in which order the steps of each script come, and TLC finds
each of them true of the whole table. No proof looks at a script, so the theorems
hold for any table that keeps the rules, and a rule is what a new script has to
respect. `Sure(st, j, i)`, on which they rest, means that whoever is at step i
has done step j, whatever it left out on the way.

* `HoldoutOnce`: `HoldoutInv` says what a process has behind it. After the
  reservation the receipt of the Test data it expects exists, after the
  settlement it states its policy, and a receipt is written once, by its author.
  Two that opened the same data read the same receipt.
* `OneAuthor`: a file may be written over, so exclusive creation of the file
  itself is not what keeps authors apart. `AuthorInv` follows guards: files
  (a directory, a configuration) that every writer of f has created exclusively
  before. A guarded file is its guard's author's for good (`Guarded`), and what
  a process has collected digests of is guarded by a file of its own.
* `ServedIsApproved`: what is given (the lock and the model) is only ever
  replaced by something newer. The test takes the digest of the lock, the
  digest of the model from the lock, checks the model, uses it, and verifies
  all digests again at the end. `Bracket` orders the versions in between:
  lock ≤ claimed ≤ used ≤ file. The last verification finds the outer two
  equal, so all are. The approval states that lock (`Approvals`), and the service
  takes the digests from the approval, reads the model with them, and compares
  it with the lock (`Services`).

Two changes of the model came out of these proofs. The guard of `Edit` read as
an implication, because a conjunct was out of line, and let a replacement be
spent on a file that had been replaced before; both conditions are now
required. And `ServedIsApproved` spoke of every test in the world, which is
true only where there is one; it now names the author of the approval that the
service goes by, and asks that there is one.

**Campaign.** For any number of runners, runs, sessions and processes left
behind by a killed runner. `QuitInv`, for `LastRecordsArePosted`: from the start
of its API until its server has ended, a runner has not told the API to quit,
and from then on its server does not come back; both outlive the runner when it
is killed. `RecordInv`, for `ReporterIsRecorder`: an API that got beyond its
start made the directory of its run, and only one can; a runner between the
start of its API and the report is at the run its API records; and its note of
a graceful API is about that process. The theorem has two hypotheses, which
every campaign satisfies: no runner is called "nobody", and a campaign has at
least one run. It is one half of `EligibleIsGenuine`: the runner that reports
a run with a well-ended API is its recorder.

**Recorder and API.** Assumed: a positive queue capacity. `CollectorInv`: as
long as nothing was dropped and nothing failed, the file, the buffer, the
record in the writer's hands and the queue are, one after the other, the
attempts in their order (`InOrder`); a failure not yet recorded is on its way
to `_fail` (`FailureIsSeen`); `stop()` shuts the door before the writer is
asked to end, so a writer that has left its loop without an error saw the
queue empty for good (`DoorShut`, `LeftEmpty`). `ApiRunsTheRecorder` shows
that every step of the application is a step of the recorder or leaves it
alone. `ApiInv`: a computation holds the token of the limiter from its start
to the return of its thread, also when its request was cancelled, and the
model is there whenever its application is ready.

**Only model-checked.**

* All liveness properties (`CloseReleasesWaiters`, `QuitEnds`, `StopReturns`,
  `EventsComeBack`, `CampaignEnds` and the rest): they need fairness and
  ENABLED, which the proof system used does not support.
* `ManifestIsTrue`. It depends on how many files change: each script checks
  before and after, and enough coherent replacements between its looks (three,
  where the run allows two) get past any number of looks. It is a statement
  about the bound of the run.
* The other half of `EligibleIsGenuine`, that all records of an eligible run
  come from one server: the audit concludes it from counts of records, so it
  depends on the plan and on the number of faults.
* `UndisturbedIsEligible` and the invariants of `OperationalDataset`: they are
  about what folds over plans, rows and trials compute for every input, which
  needs induction over data.

## 5. Not modelled

* Packet encoding (`MemoryStream`, `Protocol.h`), JSON text, logging, option
  parsing: data whose outcome (well-formed, malformed, refused) is a choice in
  the models.
* `SendBuffer`, `ObjectPool`, `ThreadManager`, `TimeMaker`: memory reuse and
  thin wrappers. `OnRecv` (v1), `PostSend`, `RetryRecv`: never called.
* `ReadWriteLock`: no code uses it.
* `ClientApp`, `DummyClient`: test traffic; the client of `Session` is any
  sequence of packets.
* What the data race on the retry queue does to the container: join, walk and
  clearing are three steps, and an insert in the middle of the walk counts as
  one before or after it.
* Retry back-off times, byte sums and averages: represented by order and
  counters.
* Fitting, prediction and measuring: a candidate is its probabilities, a cost
  is three numbers. The contents of reports, and their rendering.
* A file that is replaced and then put back between two digests: no digest can
  tell, so an edited file keeps its new version.
* Loops over candidates or campaigns that do the same to each: one stands for
  all of them in the scripts.
* The experiments on the public dataset that precede the operational ones,
  and command-line wrappers. `verify_rf_tcp_runtime.py` and
  `verify_approved_rf_api.py` are integration tests; what they assert of the
  report for fixed sequences, `runtime` checks for all of them.

## 6. Plan

Done: the server from the completion port to the report; the inference service
with its recorder and validation; campaigns; the algorithms of preparation,
choice and design; the scripts as steps on shared files; proofs of every safety
invariant of the server, of the inference service and of the scripts, and of
the order of the campaign. Left:

1. Composition of `Listener`, `IOCPWorkerPool` and `Session` at shutdown.
2. The other half of `EligibleIsGenuine`, with the conditions on a plan under
   which the counts of the audit tell two servers apart.
3. A form of `ManifestIsTrue` for any number of replacements, which names the
   files that a script looks at often enough.
