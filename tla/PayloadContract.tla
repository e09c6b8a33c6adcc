-------------------------- MODULE PayloadContract --------------------------
(***************************************************************************)
(* What the inference API accepts as a snapshot: the request models of     *)
(* src/AI/inference_api/schemas.py, the relations of payload_validation.py *)
(* and the vector of feature_transformer.py.                               *)
(*                                                                         *)
(* A payload is a record of sections, a section a function from field      *)
(* names to integers.  Numbers that are not integers, and strings or       *)
(* Booleans in their place, are the value NotANumber.                      *)
(***************************************************************************)
EXTENDS Integers, Sequences

NotANumber == -1

MESSAGE_FEATURE_ORDER ==
    <<"packet_size", "payload_size", "connection_duration_ms",
      "message_interval_ms", "bytes_received_total", "bytes_sent_total",
      "error_count_total">>

SESSION_SUMMARY_FEATURE_ORDER ==
    <<"connection_duration_ms", "bytes_received_total", "bytes_sent_total",
      "recv_event_count", "send_event_count", "request_count", "error_count",
      "avg_message_interval_ms">>

Order(event_type) == IF event_type = "message" THEN MESSAGE_FEATURE_ORDER
                     ELSE SESSION_SUMMARY_FEATURE_ORDER

Names(event_type) ==
    {Order(event_type)[i] : i \in 1..Len(Order(event_type))}

\* The features of a message that the section "message" repeats; the others
\* are repeated by the section "session".
InMessage == {"packet_size", "payload_size", "message_interval_ms"}

HeaderSize == 8   \* application_header_size_bytes

\* No feature is missing or added, each is a finite number and not negative.
validate_feature_values(event_type, values) ==
    /\ DOMAIN values = Names(event_type)
    /\ \A name \in Names(event_type) : values[name] >= 0

SectionOf(event_type, name) ==
    IF event_type = "message" /\ name \in InMessage THEN "message" ELSE "session"

validate_snapshot_relations(p) ==
    LET session == p.session
    IN  /\ p.feature_contract_id = p.event_type   \* one contract per event
        /\ validate_feature_values(p.event_type, p.features)
        /\ \A name \in Names(p.event_type) :
               p.features[name] = p[SectionOf(p.event_type, name)][name]
        /\ p.utc
        /\ session["session_id"] > 0
        /\ IF p.event_type = "message"
           THEN /\ p.message["packet_size"] =
                       p.message["payload_size"] + HeaderSize
                /\ p.message["request_index"] >= 1
                /\ p.message["request_index"] = 1 =>
                       p.message["message_interval_ms"] = 0
           ELSE /\ session["is_started"] = 1 /\ session["is_closed"] = 1
                /\ session["request_count"] <= 1 =>
                       session["avg_message_interval_ms"] = 0

\* The sections of the two request models; extra fields are forbidden.  Fields
\* no relation speaks about (handles, packet ids, error texts) are left out.
SessionFields(event_type) ==
    {"session_id"} \cup
    (IF event_type = "message" THEN Names("message") \ InMessage
     ELSE Names("session_summary") \cup {"is_started", "is_closed"})

MessageInferenceRequest(p) ==
    /\ DOMAIN p.session = SessionFields("message")
    /\ DOMAIN p.message = InMessage \cup {"request_index"}
    /\ \A f \in DOMAIN p.session : p.session[f] >= 0
    /\ \A f \in DOMAIN p.message : p.message[f] >= 0
    /\ validate_snapshot_relations(p)

SessionSummaryInferenceRequest(p) ==
    /\ DOMAIN p.session = SessionFields("session_summary")
    /\ \A f \in DOMAIN p.session : p.session[f] >= 0
    /\ validate_snapshot_relations(p)

\* The union discriminated by event_type.
InferenceRequest(p) ==
    \/ p.event_type = "message" /\ MessageInferenceRequest(p)
    \/ p.event_type = "session_summary" /\ SessionSummaryInferenceRequest(p)

\* The input of the model: names in the order of the contract, and values.
build_feature_vector(p) ==
    [event_type |-> p.event_type, names |-> Order(p.event_type),
     values |-> [i \in 1..Len(Order(p.event_type)) |->
                     p.features[Order(p.event_type)[i]]]]
=============================================================================
