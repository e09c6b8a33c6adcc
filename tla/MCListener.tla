----------------------------- MODULE MCListener -----------------------------
(* Listener for TLC: events of one or two pools. *)
EXTENDS Listener, TLC

CONSTANTS e1, e2

TwoPools == (e1 :> 0) @@ (e2 :> 1)
OnePool == [e \in AcceptEvents |-> 0]
=============================================================================
