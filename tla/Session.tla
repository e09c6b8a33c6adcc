------------------------------ MODULE Session ------------------------------
(***************************************************************************)
(* One TCP session of the server (src/Server/ServerBase/Session.cpp and    *)
(* src/Server/Server/ServerSession.cpp) between its client and the kernel. *)
(*                                                                         *)
(* The session runs on the logic worker it is bound to, one completion at  *)
(* a time.  The parse loop takes one step per packet, so that the client,  *)
(* the kernel and other threads act while it runs.  recvOp and sendOp are  *)
(* the overlapped operations: "armed" in the kernel, "done" or "failed"    *)
(* once their completion is queued, "none" when there is no such event.    *)
(*                                                                         *)
(* A packet is the size its header claims and what its payload turns out   *)
(* to be.  The ring is the number of bytes in it (module RingRecvBuffer    *)
(* shows that it is a byte queue of UsableCapacity places).                *)
(***************************************************************************)
EXTENDS Integers, Sequences, FiniteSets

CONSTANTS
    HeaderSize,      \* sizeof(PacketHeader)
    UsableCapacity,  \* RingRecvBuffer::GetUsableCapacity
    PacketSizes,     \* sizes a client may write in a header
    Payloads,        \* what a payload may be, see SizesAssumption
    HeaderLen, BodyLen, \* the two buffers of a reply, in bytes
    MaxPackets,      \* bound: packets of the client
    MaxDeferred      \* bound: SendPacket calls from other threads

ASSUME SizesAssumption ==
    /\ HeaderSize \in Nat \ {0} /\ UsableCapacity \in Nat
    /\ HeaderSize <= UsableCapacity
    /\ PacketSizes \subseteq Int
    /\ Payloads \subseteq {"chat", "malformed", "trailing", "unknownId",
                        "idOutOfRange"}
    /\ HeaderLen \in Nat \ {0} /\ BodyLen \in Nat

VARIABLES
    m_socket,        \* "open" or "closed"
    started,         \* Start has been called
    handler,         \* "none" or "parse": inside ParsePackets
    m_bBufferFull,
    \* receiving
    packets,         \* history: the packets written by the client
    inFlight,        \* bytes written by the client, not yet received
    hungUp,          \* the client has closed its side
    useSize,         \* bytes in m_recvRingBuffer
    parsed,          \* packets taken out of it
    recvOp, recvBytes,
    receives,        \* history: WSARecv calls whose event is not dispatched
    \* sending
    m_SendQueue,     \* ids of the items, in order
    m_bSendInFlight, m_ullPendingBytes,
    sendOp, sendBytes,
    sendItem,        \* the item of the send event: id and i32SentLen
    submitted,       \* the bytes given to the last WSASend
    nextId, deferred, deferredCalls,
    \* history
    wire,            \* the bytes that left, in order
    events           \* the network events reported

recvVars == <<packets, inFlight, hungUp, useSize, parsed, recvOp, recvBytes,
              receives>>
sendVars == <<m_SendQueue, m_bSendInFlight, m_ullPendingBytes, sendOp,
              sendBytes, sendItem, submitted, nextId, wire>>
vars == <<m_socket, started, handler, m_bBufferFull, recvVars, sendVars,
          deferred, deferredCalls, events>>

Packet == [size : PacketSizes, payload : Payloads]

\* Bytes a packet takes on the wire: the size it claims, and at least the
\* header.
ValidSize(size) == size >= HeaderSize /\ size <= UsableCapacity
WireSize(p) == IF p.size >= HeaderSize THEN p.size ELSE HeaderSize

ItemLen == HeaderLen + BodyLen
Bytes(id, from) == [k \in 1..(ItemLen - from) |-> <<id, from + k>>]
NoItem == [id |-> 0, sent |-> 0]

-----------------------------------------------------------------------------
(* Steps of the handlers.  e is the list of events reported by the caller  *)
(* before the step, so that each action assigns events once.               *)

\* Mutant: every call of CloseSocket reports.
MutClosedEvent == <<"SessionClosed">>

\* CloseSocket reports SessionClosed the first time only.
ClosedEvent == IF m_socket = "open" THEN <<"SessionClosed">> ELSE <<>>

CloseSocketAfter(e) ==
    /\ m_socket' = "closed"
    /\ events' = events \o e \o ClosedEvent

\* WSARecv: pending, or failed at once; on a closed socket always failed.
PostRecvAfter(e, free) ==
    \/ /\ free = 0
       /\ m_bBufferFull' = TRUE
       /\ events' = events \o e
       /\ UNCHANGED <<m_socket, recvOp, recvBytes, receives>>
    \/ /\ free > 0 /\ m_socket = "open"
       /\ m_bBufferFull' = FALSE
       /\ recvOp' = "armed" /\ recvBytes' = 0 /\ receives' = receives + 1
       /\ events' = events \o e
       /\ UNCHANGED m_socket
    \/ /\ free > 0
       /\ m_bBufferFull' = FALSE
       /\ CloseSocketAfter(e \o <<"ProtocolError">>)
       /\ UNCHANGED <<recvOp, recvBytes, receives>>

\* postNextSend on the queue q.
PostNextSendFrom(q, e) ==
    \/ /\ q = <<>>
       /\ m_bSendInFlight' = FALSE
       /\ sendOp' = "none" /\ sendItem' = NoItem
       /\ m_SendQueue' = q /\ events' = events \o e
       /\ UNCHANGED <<m_socket, sendBytes, submitted>>
    \/ /\ q # <<>> /\ m_socket = "open"
       /\ m_bSendInFlight' = TRUE
       /\ sendItem' = [id |-> Head(q), sent |-> 0]
       /\ submitted' = Bytes(Head(q), 0)
       /\ sendOp' = "armed" /\ sendBytes' = 0
       /\ m_SendQueue' = Tail(q) /\ events' = events \o e
       /\ UNCHANGED m_socket
    \/ /\ q # <<>>
       /\ m_bSendInFlight' = FALSE
       /\ sendOp' = "none" /\ sendItem' = NoItem
       /\ m_SendQueue' = Tail(q)
       /\ CloseSocketAfter(e \o <<"ProtocolError">>)
       /\ UNCHANGED <<sendBytes, submitted>>

\* SendPacket on the owner worker: enqueueSend, and postNextSend unless a
\* send is in flight.
SendPacketAfter(e) ==
    LET q == Append(m_SendQueue, nextId)
    IN  /\ nextId' = nextId + 1
        /\ m_ullPendingBytes' = m_ullPendingBytes + ItemLen
        /\ IF m_bSendInFlight
           THEN /\ m_SendQueue' = q /\ events' = events \o e
                /\ UNCHANGED <<m_socket, m_bSendInFlight, sendOp, sendBytes,
                               sendItem, submitted>>
           ELSE PostNextSendFrom(q, e)
        /\ UNCHANGED wire

-----------------------------------------------------------------------------
Init ==
    /\ m_socket = "open" /\ started = FALSE /\ handler = "none"
    /\ m_bBufferFull = FALSE
    /\ packets = <<>> /\ inFlight = 0 /\ hungUp = FALSE
    /\ useSize = 0 /\ parsed = 0 /\ recvOp = "none" /\ recvBytes = 0
    /\ receives = 0
    /\ m_SendQueue = <<>> /\ m_bSendInFlight = FALSE /\ m_ullPendingBytes = 0
    /\ sendOp = "none" /\ sendBytes = 0 /\ sendItem = NoItem /\ submitted = <<>>
    /\ nextId = 1 /\ wire = <<>>
    /\ deferred = 0 /\ deferredCalls = 0
    /\ events = <<>>

\* OnAccept starts the session, or closes it when the accept has failed.
Start ==
    /\ ~started /\ m_socket = "open"
    /\ started' = TRUE
    /\ PostRecvAfter(<<"SessionStarted">>, UsableCapacity - useSize)
    /\ UNCHANGED <<handler, packets, inFlight, hungUp, useSize, parsed,
                   sendVars, deferred, deferredCalls>>

AcceptFails ==
    /\ ~started /\ m_socket = "open"
    /\ CloseSocketAfter(<<>>)
    /\ UNCHANGED <<started, handler, m_bBufferFull, recvVars, sendVars,
                   deferred, deferredCalls>>

(* The receiving side of Dispatch *)

RecvFailed ==
    /\ handler = "none" /\ recvOp = "failed"
    /\ recvOp' = "none" /\ recvBytes' = 0 /\ receives' = receives - 1
    /\ CloseSocketAfter(<<"ProtocolError">>)
    /\ UNCHANGED <<started, handler, m_bBufferFull, packets, inFlight, hungUp,
                   useSize, parsed, sendVars, deferred, deferredCalls>>

\* OnRecv_v2 up to ParsePackets; zero bytes mean that the client is gone.
OnRecv ==
    /\ handler = "none" /\ recvOp = "done"
    /\ recvOp' = "none" /\ recvBytes' = 0 /\ receives' = receives - 1
    /\ IF recvBytes = 0
       THEN /\ CloseSocketAfter(<<>>)
            /\ UNCHANGED <<handler, m_bBufferFull, useSize>>
       ELSE /\ m_bBufferFull' = FALSE
            /\ useSize' = useSize + recvBytes
            /\ events' = Append(events, "RecvCompleted")
            /\ handler' = "parse"
            /\ UNCHANGED m_socket
    /\ UNCHANGED <<started, packets, inFlight, hungUp, parsed, sendVars,
                   deferred, deferredCalls>>

\* The packet at the read position of the ring.
Next1 == packets[parsed + 1]
HeaderThere == parsed < Len(packets) /\ useSize >= HeaderSize

\* Mutant: the size is not compared with the capacity of the ring.
MutSizeRejected == Next1.size < HeaderSize

SizeRejected == ~ValidSize(Next1.size)

\* ParsePackets: a header whose size is impossible ends the session.
ParseInvalidSize ==
    /\ handler = "parse" /\ HeaderThere /\ SizeRejected
    /\ handler' = "none"
    /\ CloseSocketAfter(<<"ProtocolError">>)
    /\ UNCHANGED <<started, m_bBufferFull, recvVars, sendVars, deferred,
                   deferredCalls>>

PacketThere == HeaderThere /\ ~SizeRejected /\ useSize >= Next1.size

NoPacketThere ==
    IF HeaderThere THEN ~SizeRejected /\ useSize < Next1.size ELSE TRUE

TakePacket ==
    /\ useSize' = useSize - Next1.size
    /\ parsed' = parsed + 1
    /\ UNCHANGED <<packets, inFlight, hungUp, recvOp, recvBytes, receives>>

\* An id that does not fit PACKET_NUMBER is refused before it is reported as
\* a packet; an unknown id or a bad CS_CHAT payload after.
ParseRejected ==
    /\ handler = "parse" /\ PacketThere /\ Next1.payload # "chat"
    /\ TakePacket
    /\ handler' = "none"
    /\ CloseSocketAfter(IF Next1.payload = "idOutOfRange"
                        THEN <<"ProtocolError">>
                        ELSE <<"PacketParsed", "ProtocolError">>)
    /\ UNCHANGED <<started, m_bBufferFull, sendVars, deferred, deferredCalls>>

\* A chat packet is answered; the loop goes on unless the socket was closed.
ParseChat ==
    /\ handler = "parse" /\ PacketThere /\ Next1.payload = "chat"
    /\ TakePacket
    /\ SendPacketAfter(<<"PacketParsed">>)
    /\ handler' = IF m_socket' = "closed" THEN "none" ELSE "parse"
    /\ UNCHANGED <<started, m_bBufferFull, deferred, deferredCalls>>

\* Mutant: the receive is not armed again after a partial packet.
MutParseEnd ==
    /\ handler = "parse"
    /\ NoPacketThere
    /\ handler' = "none"
    /\ IF useSize > 0 \/ m_socket = "closed"
       THEN UNCHANGED <<m_socket, m_bBufferFull, recvOp, recvBytes, receives,
                      events>>
       ELSE PostRecvAfter(<<>>, UsableCapacity - useSize)
    /\ UNCHANGED <<started, packets, inFlight, hungUp, useSize, parsed,
                   sendVars, deferred, deferredCalls>>

\* No further complete packet: the next receive is armed.
ParseEnd ==
    /\ handler = "parse"
    /\ NoPacketThere
    /\ handler' = "none"
    /\ IF m_socket = "closed"
       THEN UNCHANGED <<m_socket, m_bBufferFull, recvOp, recvBytes, receives,
                      events>>
       ELSE PostRecvAfter(<<>>, UsableCapacity - useSize)
    /\ UNCHANGED <<started, packets, inFlight, hungUp, useSize, parsed,
                   sendVars, deferred, deferredCalls>>

(* The sending side of Dispatch *)

SendFailed ==
    /\ handler = "none" /\ sendOp = "failed"
    /\ m_bSendInFlight' = FALSE
    /\ sendOp' = "none" /\ sendItem' = NoItem
    /\ CloseSocketAfter(<<"ProtocolError">>)
    /\ UNCHANGED <<started, handler, m_bBufferFull, recvVars, m_SendQueue,
                   m_ullPendingBytes, sendBytes, submitted, nextId, wire,
                   deferred, deferredCalls>>

\* Mutant: the first buffer is given again from its start.
MutRemainingBufs(i) ==
    IF i.sent < HeaderLen THEN Bytes(i.id, 0) ELSE Bytes(i.id, i.sent)

\* The WSABUFs of PartialSend: the rest of the first buffer and the second,
\* or the rest of the second.
RemainingBufs(i) ==
    IF i.sent < HeaderLen
    THEN SubSeq(Bytes(i.id, 0), i.sent + 1, HeaderLen)
             \o SubSeq(Bytes(i.id, 0), HeaderLen + 1, ItemLen)
    ELSE LET offset == i.sent - HeaderLen
         IN  SubSeq(Bytes(i.id, 0), HeaderLen + offset + 1, ItemLen)

\* PartialSend submits the rest under the same event.
PartialSendAfter(i, e) ==
    \/ /\ m_socket = "open"
       /\ submitted' = RemainingBufs(i)
       /\ sendOp' = "armed" /\ sendBytes' = 0
       /\ sendItem' = i
       /\ events' = events \o e
       /\ UNCHANGED <<m_socket, m_bSendInFlight>>
    \/ /\ m_bSendInFlight' = FALSE
       /\ sendOp' = "none" /\ sendItem' = NoItem
       /\ CloseSocketAfter(e \o <<"ProtocolError">>)
       /\ UNCHANGED <<sendBytes, submitted>>

\* The completed bytes are counted; the rest of the item or the next item
\* follows.
OnSend2 ==
    LET i == [sendItem EXCEPT !.sent = @ + sendBytes]
    IN  /\ handler = "none" /\ sendOp = "done"
        /\ m_ullPendingBytes' = m_ullPendingBytes - sendBytes
        /\ IF i.sent < ItemLen
           THEN PartialSendAfter(i, <<"SendCompleted">>) /\ UNCHANGED m_SendQueue
           ELSE PostNextSendFrom(m_SendQueue, <<"SendCompleted">>)
        /\ UNCHANGED <<started, handler, m_bBufferFull, recvVars, nextId, wire,
                       deferred, deferredCalls>>

\* Mutant: the event is forgotten when the socket is already closed.
MutDispatchDeferred ==
    /\ handler = "none" /\ deferred > 0 /\ m_socket = "open"
    /\ deferred' = deferred - 1
    /\ SendPacketAfter(<<>>)
    /\ UNCHANGED <<started, handler, m_bBufferFull, recvVars, deferredCalls>>

\* DeferredSendPacket: the packet another thread has posted is sent.
DispatchDeferred ==
    /\ handler = "none" /\ deferred > 0
    /\ deferred' = deferred - 1
    /\ SendPacketAfter(<<>>)
    /\ UNCHANGED <<started, handler, m_bBufferFull, recvVars, deferredCalls>>

(* Other threads *)

\* SendPacket from a thread that is not the owner: QueuePacketToWorker.  It
\* closes the session when the completion cannot be posted.
QueuePacketToWorker ==
    /\ started /\ deferredCalls < MaxDeferred
    /\ deferredCalls' = deferredCalls + 1
    /\ \/ /\ m_socket = "open"
          /\ deferred' = deferred + 1
          /\ UNCHANGED <<m_socket, events>>
       \/ /\ m_socket = "open"
          /\ CloseSocketAfter(<<"ProtocolError">>)
          /\ UNCHANGED deferred
       \/ /\ m_socket = "closed"
          /\ UNCHANGED <<deferred, m_socket, events>>
    /\ UNCHANGED <<started, handler, m_bBufferFull, recvVars, sendVars>>

(* The client and the kernel: external *)

ClientWrites(p) ==
    /\ Len(packets) < MaxPackets /\ ~hungUp
    /\ \A i \in 1..Len(packets) : ValidSize(packets[i].size)
    /\ packets' = Append(packets, p)
    /\ inFlight' = inFlight + WireSize(p)
    /\ UNCHANGED <<m_socket, started, handler, m_bBufferFull, hungUp, useSize,
                   parsed, recvOp, recvBytes, receives, sendVars, deferred,
                   deferredCalls, events>>

ClientHangsUp ==
    /\ ~hungUp /\ hungUp' = TRUE
    /\ UNCHANGED <<m_socket, started, handler, m_bBufferFull, packets, inFlight,
                   useSize, parsed, recvOp, recvBytes, receives, sendVars, deferred,
                   deferredCalls, events>>

\* A receive completes with some of the bytes there, with none after the
\* client has closed, or fails.
KernelReceives ==
    /\ recvOp = "armed"
    /\ \/ /\ m_socket = "open"
          /\ \E n \in 1..(UsableCapacity - useSize) :
                 /\ n <= inFlight
                 /\ recvBytes' = n /\ inFlight' = inFlight - n
          /\ recvOp' = "done"
       \/ /\ m_socket = "open" /\ hungUp /\ inFlight = 0
          /\ recvOp' = "done" /\ UNCHANGED <<recvBytes, inFlight>>
       \/ /\ recvOp' = "failed" /\ UNCHANGED <<recvBytes, inFlight>>
    /\ UNCHANGED <<m_socket, started, handler, m_bBufferFull, packets, hungUp,
                   useSize, parsed, receives, sendVars, deferred,
                   deferredCalls, events>>

KernelSends ==
    /\ sendOp = "armed"
    /\ \/ /\ m_socket = "open"
          /\ \E n \in 1..Len(submitted) :
                 /\ sendBytes' = n
                 /\ wire' = wire \o SubSeq(submitted, 1, n)
          /\ sendOp' = "done"
       \/ sendOp' = "failed" /\ UNCHANGED <<sendBytes, wire>>
    /\ UNCHANGED <<m_socket, started, handler, m_bBufferFull, recvVars,
                   m_SendQueue, m_bSendInFlight, m_ullPendingBytes, sendItem,
                   submitted, nextId, deferred, deferredCalls, events>>

-----------------------------------------------------------------------------
Dispatch == RecvFailed \/ OnRecv \/ SendFailed \/ OnSend2 \/ DispatchDeferred

ParsePackets == ParseInvalidSize \/ ParseRejected \/ ParseChat \/ ParseEnd

Next ==
    \/ Start \/ AcceptFails
    \/ Dispatch \/ ParsePackets
    \/ QueuePacketToWorker
    \/ \E p \in Packet : ClientWrites(p)
    \/ ClientHangsUp \/ KernelReceives \/ KernelSends

Spec == Init /\ [][Next]_vars

\* The owner worker handles queued completions, and the kernel completes
\* what it can: sends, receives when bytes are there, and all on a closed
\* socket.  Nothing makes a client write.
FairSpec ==
    /\ Spec
    /\ WF_vars(ParsePackets)
    /\ WF_vars(RecvFailed \/ OnRecv) /\ WF_vars(SendFailed \/ OnSend2)
    /\ WF_vars(DispatchDeferred)
    /\ WF_vars(KernelSends)
    /\ WF_vars(KernelReceives /\ (inFlight > 0 \/ hungUp \/ m_socket = "closed"))

-----------------------------------------------------------------------------
(* Properties *)

TypeOK ==
    /\ m_socket \in {"open", "closed"} /\ started \in BOOLEAN
    /\ handler \in {"none", "parse"}
    /\ m_bBufferFull \in BOOLEAN /\ hungUp \in BOOLEAN
    /\ useSize \in 0..UsableCapacity /\ inFlight \in Nat /\ parsed \in Nat
    /\ recvOp \in {"none", "armed", "done", "failed"}
    /\ sendOp \in {"none", "armed", "done", "failed"}
    /\ m_bSendInFlight \in BOOLEAN
    /\ m_ullPendingBytes \in Nat
    /\ deferred \in Nat

\* While the socket is open a started session always has a receive armed or
\* completed (or is parsing): the ring is never left full, because a packet
\* that does not fit was refused by its header, so PostRecv always has room.
\* And it is one receive: two would be given the same free space.
ReceiverNeverStalls ==
    /\ (started /\ m_socket = "open" /\ handler = "none") =>
           recvOp # "none" /\ ~m_bBufferFull
    /\ receives <= 1

\* The bytes that leave are the bytes of the items in the order in which the
\* items were queued, none missing and none twice, however the kernel cuts
\* them into partial sends.
WireIsInOrder ==
    \A k \in 1..Len(wire) :
        wire[k] = <<((k - 1) \div ItemLen) + 1, ((k - 1) % ItemLen) + 1>>

\* What the observers of a session see: SessionStarted first and once, at
\* most one SessionClosed, and one as soon as the socket is closed.
Count(type) == Cardinality({i \in 1..Len(events) : events[i] = type})
EventProtocol ==
    /\ \A i \in 1..Len(events) : events[i] = "SessionStarted" => i = 1
    /\ (started /\ events # <<>>) => events[1] = "SessionStarted"
    /\ Count("SessionClosed") = IF m_socket = "closed" THEN 1 ELSE 0

\* Once the socket is closed all its operations come back, so that the last
\* reference to the session goes away.
ClosedSessionIsReleased ==
    m_socket = "closed" ~> /\ recvOp = "none" /\ sendOp = "none"
                           /\ deferred = 0 /\ handler = "none"

\* A complete packet that has arrived is answered or the session is closed.
ArrivedPacketIsHandled ==
    \A n \in 1..MaxPackets :
        (started /\ Len(packets) >= n)
            ~> (parsed >= n \/ m_socket = "closed")
=============================================================================
