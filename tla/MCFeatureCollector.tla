------------------------ MODULE MCFeatureCollector ------------------------
(* FeatureCollector for TLC: a session bound to one logic worker, as        *)
(* IOCPWorkerPool binds them, and one whose completions come from any thread. *)
EXTENDS FeaturePayload, TLC

CONSTANTS w1, w2

\* Session 1 on a worker of its own, the others on every thread.
SomeBound == [s \in Sessions |-> IF s = 1 THEN {w1} ELSE Threads]
=============================================================================
