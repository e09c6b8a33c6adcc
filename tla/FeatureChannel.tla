-------------------------- MODULE FeatureChannel --------------------------
(***************************************************************************)
(* What AsyncFeatureQueue promises its users: a FIFO channel of at most    *)
(* Capacity items that many threads may use.  A push is accepted while the *)
(* channel is open and has room; the non-blocking push counts what it      *)
(* drops; closing is final, and what is queued can still be popped.        *)
(***************************************************************************)
EXTENDS Integers, Sequences

CONSTANTS Items, Capacity

VARIABLES content, closed, dropped

chanVars == <<content, closed, dropped>>

ChanInit ==
    /\ content = <<>>
    /\ closed = FALSE
    /\ dropped = 0

CanPush == ~closed /\ Len(content) < Capacity

Push(item) ==
    /\ CanPush
    /\ content' = Append(content, item)
    /\ UNCHANGED <<closed, dropped>>

Drop ==
    /\ ~CanPush
    /\ dropped' = dropped + 1
    /\ UNCHANGED <<content, closed>>

Pop ==
    /\ content # <<>>
    /\ content' = Tail(content)
    /\ UNCHANGED <<closed, dropped>>

CloseChannel ==
    /\ closed' = TRUE
    /\ UNCHANGED <<content, dropped>>

ClearChannel ==
    /\ content' = <<>>
    /\ UNCHANGED <<closed, dropped>>

ChanNext ==
    \/ \E item \in Items : Push(item)
    \/ Drop \/ Pop \/ CloseChannel \/ ClearChannel

ChanSpec == ChanInit /\ [][ChanNext]_chanVars
=============================================================================
