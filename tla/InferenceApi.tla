---------------------------- MODULE InferenceApi ----------------------------
(***************************************************************************)
(* The inference service (src/AI/inference_api/main.py, rf_service.py,     *)
(* model_service.py) with the recorder of AsyncJsonlCollector: the         *)
(* lifespan that loads the model and starts the recorder, the handlers of  *)
(* /health, /collection/status and /predict, and the worker threads that   *)
(* compute predictions while their requests may be cancelled.              *)
(*                                                                         *)
(* The code of a handler between two awaits is one step of the event loop. *)
(* The ASGI server decides when requests arrive: also before the lifespan  *)
(* has started and, after its graceful-shutdown timeout, while it ends.    *)
(***************************************************************************)
EXTENDS AsyncJsonlCollector, PayloadContract, FiniteSets

CONSTANTS
    Requests,
    Payloads,   \* the bodies clients post
    Scores      \* anomaly scores the model returns, in tenths

MaxConcurrent == 1   \* config.max_concurrent_predictions
Threshold == 7       \* 0.7

VARIABLES
    service_factory,     \* TRUE for rf_main, FALSE for the dummy application
    config,              \* NDA_COLLECTION_CONFIG names a recording
    lifespan,
    inference_ready, inference_service, feature_collector,
    inference_limiter,   \* free tokens
    recorder,            \* the writer thread exists
    request              \* per request: its step, what it asked, its answer

app == <<service_factory, config, lifespan, inference_ready,
         inference_service, feature_collector, inference_limiter, recorder>>
apiVars == <<app, request>>

\* The events of the payloads that the request models let through.
Accepted == {p.event_type : p \in {q \in Payloads : InferenceRequest(q)}}

Fresh == [pc |-> "new", event |-> "none", cancelled |-> FALSE, answer |-> "none"]

\* create_app
create_app ==
    /\ service_factory \in BOOLEAN /\ config \in BOOLEAN
    /\ lifespan = "off"
    /\ inference_ready = ~service_factory
    /\ inference_service = FALSE /\ feature_collector = FALSE
    /\ inference_limiter = 0 /\ recorder = FALSE

ApiInit == Init /\ create_app /\ request = [r \in Requests |-> Fresh]

-----------------------------------------------------------------------------
(* lifespan *)

\* Mutant: the service goes away, but not the readiness.
Mutfinally ==
    /\ lifespan' = "down"
    /\ feature_collector' = FALSE /\ inference_service' = FALSE
    /\ UNCHANGED inference_ready

finally ==
    /\ lifespan' = "down"
    /\ feature_collector' = FALSE /\ inference_service' = FALSE
    /\ inference_ready' = ~service_factory

\* The factory runs on a thread while the loop serves; ApprovedRfService
\* fails unless its bundle is verified.
LoadService ==
    /\ lifespan = "off"
    /\ IF service_factory
       THEN \/ /\ lifespan' = "loaded"
               /\ inference_service' = TRUE
               /\ inference_limiter' = MaxConcurrent
               /\ UNCHANGED <<inference_ready, feature_collector>>
            \/ finally /\ UNCHANGED inference_limiter
       ELSE /\ lifespan' = "loaded"
            /\ UNCHANGED <<inference_ready, inference_service,
                           feature_collector, inference_limiter>>
    /\ UNCHANGED <<service_factory, config, recorder, request, vars>>

\* AsyncJsonlCollector(config) creates the files of the run or fails.
StartServing ==
    /\ lifespan = "loaded"
    /\ \/ /\ lifespan' = "serving"
          /\ inference_ready' = TRUE
          /\ feature_collector' = config /\ recorder' = config
          /\ UNCHANGED inference_service
       \/ config /\ finally /\ UNCHANGED recorder
    /\ UNCHANGED <<service_factory, config, inference_limiter, request, vars>>

BeginShutdown ==
    /\ lifespan = "serving"
    /\ lifespan' = "stopping"
    /\ UNCHANGED <<service_factory, config, inference_ready, inference_service,
                   feature_collector, inference_limiter, recorder, request, vars>>

\* collector.stop() on a thread; requests are served meanwhile.
StopRecorder ==
    /\ lifespan = "stopping" /\ recorder
    /\ Stop
    /\ UNCHANGED apiVars

EndShutdown ==
    /\ lifespan = "stopping"
    /\ recorder => stopPc = "returned"
    /\ finally
    /\ UNCHANGED <<service_factory, config, inference_limiter, recorder,
                   request, vars>>

-----------------------------------------------------------------------------
(* The handlers *)

Goto(r, from, to) == request[r].pc = from /\ request' = [request EXCEPT ![r].pc = to]

Answers(r, from, answer) ==
    /\ request[r].pc = from
    /\ request' = [request EXCEPT ![r].pc = "done", ![r].answer = answer]

\* RequestValidationError, answered with 422 by validation_error.
validation_error(r) ==
    /\ \E p \in Payloads : ~InferenceRequest(p)
    /\ Answers(r, "new", "invalid")
    /\ UNCHANGED <<app, vars>>

Arrives(r) ==
    /\ request[r].pc = "new"
    /\ \E e \in Accepted :
           request' = [request EXCEPT ![r].pc = "predict", ![r].event = e]
    /\ UNCHANGED <<app, vars>>

\* A reader of /health; it takes no step of another handler's.
health(r) ==
    /\ Answers(r, "new", IF ~inference_ready THEN "model_not_ready"
                         ELSE IF inference_service THEN "healthy random_forest"
                         ELSE "healthy dummy")
    /\ UNCHANGED <<app, vars>>

collection_status(r) ==
    /\ Answers(r, "new", IF feature_collector THEN stats.state ELSE "disabled")
    /\ UNCHANGED <<app, vars>>

\* predict up to its await: refuse when not ready, offer the payload to the
\* recorder, then answer or take a token and hand the work to a thread.
predict(r) ==
    /\ request[r].pc = "predict"
    /\ IF inference_ready /\ feature_collector THEN try_collect
       ELSE UNCHANGED vars
    /\ LET e == request[r].event
       IN  IF ~inference_ready
           THEN Answers(r, "predict", "model_not_ready") /\ UNCHANGED inference_limiter
           ELSE IF ~inference_service
           THEN Answers(r, "predict", "dummy") /\ UNCHANGED inference_limiter
           ELSE IF e # "message"
           THEN Answers(r, "predict", "unsupported") /\ UNCHANGED inference_limiter
           ELSE IF inference_limiter = 0
           THEN Answers(r, "predict", "inference_busy") /\ UNCHANGED inference_limiter
           ELSE /\ Goto(r, "predict", "computing")
                /\ inference_limiter' = inference_limiter - 1
    /\ UNCHANGED <<service_factory, config, lifespan, inference_ready,
                   inference_service, feature_collector, recorder>>

\* Mutant: abandon_on_cancel=True, the slot is free while the thread runs.
MutCancel(r) ==
    /\ request[r].pc = "computing" /\ ~request[r].cancelled
    /\ request' = [request EXCEPT ![r].cancelled = TRUE]
    /\ inference_limiter' = inference_limiter + 1
    /\ UNCHANGED <<service_factory, config, lifespan, inference_ready,
                   inference_service, feature_collector, recorder, vars>>

\* The client goes away: abandon_on_cancel=False makes the cancellation wait
\* for the thread.
Cancel(r) ==
    /\ request[r].pc = "computing" /\ ~request[r].cancelled
    /\ request' = [request EXCEPT ![r].cancelled = TRUE]
    /\ UNCHANGED <<app, vars>>

\* ApprovedRfService.predict: the score decides, at the threshold included.
RfPredict(score) == IF score >= Threshold THEN "controlled_anomaly" ELSE "normal"

\* The thread returns or raises; the token goes back either way, and a
\* cancelled request is told nothing.
ThreadReturns(r) ==
    /\ \E answer \in {RfPredict(s) : s \in Scores} \cup {"inference_failed"} :
           Answers(r, "computing",
                   IF request[r].cancelled THEN "none" ELSE answer)
    /\ inference_limiter' = inference_limiter + 1
    /\ UNCHANGED <<service_factory, config, lifespan, inference_ready,
                   inference_service, feature_collector, recorder, vars>>

WriterThread == recorder /\ WriterStep /\ UNCHANGED apiVars

-----------------------------------------------------------------------------
Lifespan == LoadService \/ StartServing \/ StopRecorder \/ EndShutdown

ApiNext ==
    \/ Lifespan \/ BeginShutdown \/ WriterThread
    \/ \E r \in Requests :
           \/ validation_error(r) \/ Arrives(r) \/ health(r)
           \/ collection_status(r) \/ predict(r) \/ Cancel(r)
           \/ ThreadReturns(r)

\* The lifespan and the writer thread are scheduled, and a file operation
\* ends.
ApiSpec ==
    /\ ApiInit /\ [][ApiNext]_<<vars, apiVars>>
    /\ WF_<<vars, apiVars>>(WriterThread)
    /\ WF_<<vars, apiVars>>(Lifespan)

-----------------------------------------------------------------------------
(* Properties *)

Computing == {r \in Requests : request[r].pc = "computing"}

\* The limiter counts threads, not requests: a slot is taken exactly while a
\* computation runs, also when its request was cancelled or the lifespan has
\* ended, so there are never two of them.
SlotsAreThreads ==
    /\ Cardinality(Computing) <= MaxConcurrent
    /\ inference_limiter \in {0, MaxConcurrent - Cardinality(Computing)}
    /\ inference_limiter = 0 =>
           Computing # {} \/ ~service_factory \/ lifespan \in {"off", "down"}

\* An application made for the approved model never answers with the dummy:
\* not before it is loaded, not when loading fails, not while it shuts down.
NeverDummyInstead ==
    service_factory => \A r \in Requests :
        request[r].answer \notin {"dummy", "healthy dummy"}
=============================================================================
