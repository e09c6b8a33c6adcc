----------------------- MODULE MCInferenceRuntime -----------------------
(* InferenceRuntime for TLC: the completions of a session on one logic      *)
(* worker, as the worker pool binds them.                                   *)
EXTENDS InferenceRuntime

CONSTANTS w1, w2

BoundEmitters == [s \in Sessions |-> {IF s = 1 THEN w1 ELSE w2}]
=============================================================================
