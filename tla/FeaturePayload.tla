--------------------------- MODULE FeaturePayload ---------------------------
(***************************************************************************)
(* What AiInferenceWorker::BuildJson makes of a snapshot of the collector, *)
(* judged by the contract of the inference API.                            *)
(***************************************************************************)
EXTENDS FeatureCollector, PayloadContract

\* g_ullNextSessionId starts at 1.
ASSUME SessionsAssumption == Sessions \subseteq Nat \ {0}

AsNumber(b) == IF b THEN 1 ELSE 0

\* AiInferenceWorker::BuildJson, every packet being a header and two bytes.
Value(x) ==
    [f \in Names("message") \cup Names("session_summary") |->
        CASE f = "packet_size" -> 10
          [] f = "payload_size" -> 2
          [] f = "connection_duration_ms" -> x.duration
          [] f = "message_interval_ms" -> x.interval
          [] f \in {"bytes_received_total", "recv_event_count"} -> x.recv
          [] f \in {"bytes_sent_total", "send_event_count"} -> x.send
          [] f \in {"error_count_total", "error_count"} -> x.error_count
          [] f = "request_count" -> x.request_count
          [] f = "avg_message_interval_ms" ->
                 IF x.request_count > 1
                 THEN x.interval_sum \div (x.request_count - 1) ELSE 0]

BuildJson(x) ==
    LET type == IF x.kind = "message" THEN "message" ELSE "session_summary"
    IN  [event_type |-> type, feature_contract_id |-> type, utc |-> TRUE,
         features |-> [n \in Names(type) |-> Value(x)[n]],
         session |-> [f \in SessionFields(type) |->
                          CASE f = "session_id" -> x.session
                            [] f = "is_started" -> AsNumber(x.is_started)
                            [] f = "is_closed" -> AsNumber(x.is_closed)
                            [] OTHER -> Value(x)[f]],
         message |-> [f \in InMessage \cup {"request_index"} |->
                          IF f = "request_index" THEN x.request_index
                          ELSE Value(x)[f]]]

\* A session whose completions one thread dispatches, and whose entry was not
\* removed: every snapshot of it passes the validation of the API, except the
\* summary of a session that was never started, though any thread may report
\* an error or the close with an earlier time than the message before it.
AcceptedByApi ==
    removed = 0 =>
        \A i \in 1..Len(offered) :
            LET x == offered[i]
            IN  Cardinality(Emitters[x.session]) = 1 =>
                    \/ InferenceRequest(BuildJson(x))
                    \/ /\ x.kind = "summary" /\ ~x.is_started
                       /\ phase[x.session] = "unused"
=============================================================================
