--------------------------- MODULE MCInferenceApi ---------------------------
(* InferenceApi for TLC: a valid message, a valid summary, and a message    *)
(* for each relation that it breaks.                                        *)
EXTENDS InferenceApi

Message ==
    LET size(n) == CASE n = "packet_size" -> 24 [] n = "payload_size" -> 16
                     [] OTHER -> 0
    IN  [event_type |-> "message", feature_contract_id |-> "message",
         utc |-> TRUE,
         features |-> [n \in Names("message") |-> size(n)],
         session |-> [f \in SessionFields("message") |-> IF f = "session_id" THEN 1 ELSE 0],
         message |-> [f \in InMessage \cup {"request_index"} |->
                          IF f = "request_index" THEN 1 ELSE size(f)]]

Summary ==
    [event_type |-> "session_summary", feature_contract_id |-> "session_summary",
     utc |-> TRUE,
     features |-> [n \in Names("session_summary") |-> 0],
     session |-> [f \in SessionFields("session_summary") |->
                      IF f \in {"session_id", "is_started", "is_closed"} THEN 1 ELSE 0]]

MCPayloads ==
    {Message, Summary,
     [Message EXCEPT !.feature_contract_id = "session_summary"],
     [Message EXCEPT !.utc = FALSE],
     [Message EXCEPT !.features["packet_size"] = 25],
     [Message EXCEPT !.message["request_index"] = 0],
     [Summary EXCEPT !.session["is_started"] = 0],
     [Message EXCEPT !.session["session_id"] = NotANumber]}

ASSUME PayloadsAssumption == Accepted = {"message", "session_summary"}
=============================================================================
