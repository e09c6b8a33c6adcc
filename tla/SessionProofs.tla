--------------------------- MODULE SessionProofs ---------------------------
(***************************************************************************)
(* What a session guarantees for every packet size, every ring capacity,   *)
(* every length of a reply and any number of packets and deferred sends:   *)
(* its receiver never stalls, its replies leave in order, and its          *)
(* observers see a well-formed sequence of events.                         *)
(*                                                                         *)
(* None of the three is inductive.  That the receiver never stalls rests   *)
(* on where every byte of the client is (BytesAccounted): when all packets *)
(* have been parsed the ring is empty, so PostRecv always finds room.      *)
(* That the bytes leave in order rests on which item is being sent, how    *)
(* much of it has left and which ids wait behind it (Sending).             *)
(*                                                                         *)
(* The last part is the ring itself, RingRecvBuffer, for every capacity:   *)
(* the bytes come out in the order the network stored them.                *)
(***************************************************************************)
EXTENDS Session, RingRecvBuffer, FiniteSetTheorems, SequenceTheorems, TLAPS

OpState == {"none", "armed", "done", "failed"}

\* The receiving side: the numbers.
RecvShape ==
    /\ packets \in Seq(Packet) /\ parsed \in Nat /\ parsed <= Len(packets)
    /\ useSize \in Nat /\ recvBytes \in Nat /\ inFlight \in Nat
    /\ recvOp \in OpState /\ handler \in {"none", "parse"}
    /\ m_socket \in {"open", "closed"}
    /\ useSize + recvBytes <= UsableCapacity
    /\ recvOp # "done" => recvBytes = 0

\* One receive at most, none while packets are parsed.
OneReceive ==
    /\ recvOp = "none" => receives = 0
    /\ recvOp # "none" => receives = 1
    /\ handler = "parse" => recvOp = "none"

Unparsed == useSize + recvBytes + inFlight

\* The bytes of the packets that were not parsed yet are in the ring, in a
\* completed receive or in flight.  off[i] is where the i-th packet ends.
BytesAccounted ==
    \E off \in [0..Len(packets) -> Nat] :
        /\ \A i \in 1..Len(packets) : off[i] = off[i - 1] + WireSize(packets[i])
        /\ off[Len(packets)] = off[parsed] + Unparsed

\* Before Start nothing has happened that could report an event.
NotYetStarted ==
    ~started => /\ recvOp = "none" /\ sendOp = "none" /\ handler = "none"
                /\ deferred = 0 /\ useSize = 0
                /\ m_socket = "open" => events = <<>>

Receiving ==
    /\ m_bBufferFull = FALSE
    /\ (started /\ m_socket = "open" /\ handler = "none") => recvOp # "none"

ReceiveInv ==
    RecvShape /\ OneReceive /\ BytesAccounted /\ NotYetStarted /\ Receiving

\* The sending side: the numbers.
SendShape ==
    /\ m_SendQueue \in Seq(Nat) /\ nextId \in Nat \ {0}
    /\ sendOp \in OpState /\ sendBytes \in Nat
    /\ sendItem \in [id : Nat, sent : Nat]
    /\ wire \in Seq(Nat \X Nat)
    /\ m_bSendInFlight <=> sendOp # "none"

\* s holds the bytes of an item from an offset on.
IsRest(s, id, from) ==
    /\ s \in Seq(Nat \X Nat) /\ Len(s) = ItemLen - from
    /\ \A k \in 1..Len(s) : s[k] = <<id, from + k>>

\* What was given to the kernel is the rest of the item of the event.
Submitted ==
    /\ sendOp # "none" =>
           /\ sendItem.sent < ItemLen
           /\ IsRest(submitted, sendItem.id, sendItem.sent)
    /\ sendOp = "done" => sendBytes \in 1..(ItemLen - sendItem.sent)

\* While the socket is open the queue holds the latest ids, the item before
\* them is being sent, and the wire ends where that item has got to.
Sending ==
    m_socket = "open" =>
        /\ Len(m_SendQueue) < nextId
        /\ \A i \in 1..Len(m_SendQueue) :
               m_SendQueue[i] = nextId - Len(m_SendQueue) + i - 1
        /\ sendOp = "none" =>
               m_SendQueue = <<>> /\ Len(wire) = (nextId - 1) * ItemLen
        /\ sendOp # "none" =>
               sendItem.id > 0 /\ sendItem.id = nextId - Len(m_SendQueue) - 1
        /\ sendOp = "armed" =>
               Len(wire) = (sendItem.id - 1) * ItemLen + sendItem.sent
        /\ sendOp = "done" =>
               Len(wire)
                   = (sendItem.id - 1) * ItemLen + sendItem.sent + sendBytes

\* m_ullPendingBytes never falls below what is queued or being sent.
PendingCovers ==
    /\ m_ullPendingBytes \in Nat
    /\ m_ullPendingBytes >=
           Len(m_SendQueue) * ItemLen
               + (IF sendOp = "none" THEN 0 ELSE ItemLen - sendItem.sent)

SendInv ==
    /\ SendShape /\ Submitted /\ Sending /\ PendingCovers /\ WireIsInOrder
    /\ deferred \in Nat

(* The observers' side *)

\* The events that are neither the first nor the last of a session.
Others == {"ProtocolError", "RecvCompleted", "PacketParsed", "SendCompleted"}

EventTypes == Others \cup {"SessionStarted", "SessionClosed"}

EventsShape ==
    /\ events \in Seq(EventTypes)
    /\ started => events # <<>>

-----------------------------------------------------------------------------
(* Receiving *)

\* A byte that moves between the kernel, a completed receive and the ring is
\* still accounted for.
LEMMA AccountKept ==
    ASSUME BytesAccounted,
           packets' = packets, parsed' = parsed, Unparsed' = Unparsed
    PROVE  BytesAccounted'
  BY DEF BytesAccounted

\* Once every packet is parsed no byte is left anywhere.
LEMMA AllParsedIsEmpty ==
    ASSUME RecvShape, BytesAccounted, parsed = Len(packets)
    PROVE  useSize = 0
  <1>1. PICK off \in [0..Len(packets) -> Nat] :
            off[Len(packets)] = off[parsed] + Unparsed
    BY DEF BytesAccounted
  <1>2. off[parsed] \in Nat
    BY DEF RecvShape
  <1> QED BY <1>1, <1>2 DEF RecvShape, Unparsed

\* The packet at the read position has a size of its own.
LEMMA NextPacket ==
    ASSUME RecvShape, HeaderThere
    PROVE  Next1 \in Packet /\ Next1.size \in Int
  <1>1. parsed + 1 \in 1..Len(packets)
    BY DEF RecvShape, HeaderThere
  <1>2. Next1 \in Packet
    BY <1>1 DEF RecvShape, Next1
  <1> QED BY <1>2, SizesAssumption DEF Packet

\* Taking a complete packet moves the read position to its end.
LEMMA AccountTaken ==
    ASSUME RecvShape, BytesAccounted, PacketThere, TakePacket
    PROVE  /\ BytesAccounted'
           /\ useSize' \in Nat /\ useSize' < useSize
           /\ parsed' \in Nat /\ parsed' <= Len(packets)
  <1>1. PICK off \in [0..Len(packets) -> Nat] :
            /\ \A i \in 1..Len(packets) :
                   off[i] = off[i - 1] + WireSize(packets[i])
            /\ off[Len(packets)] = off[parsed] + Unparsed
    BY DEF BytesAccounted
  <1>2. /\ parsed \in Nat /\ Len(packets) \in Nat /\ parsed < Len(packets)
        /\ parsed + 1 \in 1..Len(packets)
    BY DEF RecvShape, PacketThere, HeaderThere
  <1>3. /\ Next1.size \in Nat /\ Next1.size > 0 /\ Next1.size <= useSize
        /\ WireSize(packets[parsed + 1]) = Next1.size
    BY NextPacket, SizesAssumption
       DEF PacketThere, SizeRejected, ValidSize, WireSize, Next1, RecvShape
  <1>4. off[parsed + 1] = off[parsed] + Next1.size
    <2>1. off[parsed + 1] = off[(parsed + 1) - 1] + WireSize(packets[parsed + 1])
      BY <1>1, <1>2
    <2> QED BY <1>2, <1>3, <2>1
  <1>5. /\ packets' = packets /\ parsed' = parsed + 1
        /\ useSize' = useSize - Next1.size
        /\ inFlight' = inFlight /\ recvBytes' = recvBytes
    BY DEF TakePacket
  <1>6. off[parsed] \in Nat /\ off[Len(packets)] \in Nat
    BY <1>2
  <1>7. off[Len(packets)] = off[parsed'] + Unparsed'
    <2>1. Unparsed \in Nat /\ Unparsed' = Unparsed - Next1.size
      BY <1>3, <1>5 DEF RecvShape, Unparsed
    <2>2. off[parsed'] = off[parsed] + Next1.size
      BY <1>4, <1>5
    <2> QED BY <1>1, <1>3, <1>6, <2>1, <2>2
  <1>8. BytesAccounted'
    BY <1>1, <1>5, <1>7 DEF BytesAccounted
  <1> QED BY <1>2, <1>3, <1>5, <1>8 DEF RecvShape

\* A packet the client writes is in flight.
LEMMA AccountWritten ==
    ASSUME RecvShape, BytesAccounted, NEW p \in Packet, ClientWrites(p)
    PROVE  BytesAccounted' /\ inFlight' \in Nat
  <1>1. PICK off \in [0..Len(packets) -> Nat] :
            /\ \A i \in 1..Len(packets) :
                   off[i] = off[i - 1] + WireSize(packets[i])
            /\ off[Len(packets)] = off[parsed] + Unparsed
    BY DEF BytesAccounted
  <1>2. WireSize(p) \in Nat
    BY SizesAssumption DEF Packet, WireSize
  <1>3. /\ Len(packets) \in Nat /\ parsed \in 0..Len(packets)
        /\ Len(packets') = Len(packets) + 1
        /\ \A i \in 1..Len(packets) : packets'[i] = packets[i]
        /\ packets'[Len(packets) + 1] = p
    BY DEF RecvShape, ClientWrites
  <1> DEFINE new == [i \in 0..Len(packets') |->
                       IF i = Len(packets) + 1
                       THEN off[Len(packets)] + WireSize(p) ELSE off[i]]
  <1>4. /\ new \in [0..Len(packets') -> Nat]
        /\ \A i \in 0..Len(packets) : new[i] = off[i]
        /\ new[Len(packets) + 1] = off[Len(packets)] + WireSize(p)
    BY <1>2, <1>3
  <1> HIDE DEF new
  <1>5. ASSUME NEW i \in 1..Len(packets')
        PROVE  new[i] = new[i - 1] + WireSize(packets'[i])
    <2>1. CASE i = Len(packets) + 1
      BY <1>3, <1>4, <2>1
    <2>2. CASE i \in 1..Len(packets)
      <3>1. i \in 0..Len(packets) /\ i - 1 \in 0..Len(packets)
        BY <1>3, <2>2
      <3> QED BY <1>1, <1>3, <1>4, <2>2, <3>1
    <2> QED BY <1>3, <2>1, <2>2
  <1>6. /\ parsed' = parsed /\ useSize' = useSize /\ recvBytes' = recvBytes
        /\ inFlight' = inFlight + WireSize(p)
    BY DEF ClientWrites
  <1>7. off[parsed] \in Nat /\ off[Len(packets)] \in Nat
    BY <1>3
  <1>8. new[Len(packets')] = new[parsed'] + Unparsed'
    BY SMTT(40), <1>1, <1>2, <1>3, <1>4, <1>6, <1>7 DEF RecvShape, Unparsed
  <1>9. BytesAccounted'
    BY <1>4, <1>5, <1>8 DEF BytesAccounted
  <1> QED BY <1>2, <1>6, <1>9 DEF RecvShape

Socket == {"open", "closed"}

\* CloseSocket and what calls it only ever close.
LEMMA SocketOnlyCloses ==
    ASSUME m_socket \in Socket, [Next]_vars
    PROVE  m_socket' \in Socket /\ (m_socket' = "open" => m_socket = "open")
  <1> USE DEF Socket
  <1>1. CASE Start \/ AcceptFails \/ ParseEnd
    BY <1>1 DEF Start, AcceptFails, ParseEnd, PostRecvAfter, CloseSocketAfter
  <1>2. CASE RecvFailed \/ OnRecv \/ SendFailed \/ ParseInvalidSize
             \/ ParseRejected
    BY <1>2 DEF RecvFailed, OnRecv, SendFailed, ParseInvalidSize,
                ParseRejected, CloseSocketAfter
  <1>3. CASE OnSend2
    BY <1>3 DEF OnSend2, PartialSendAfter, PostNextSendFrom, CloseSocketAfter
  <1>4. CASE DispatchDeferred \/ ParseChat
    BY <1>4 DEF DispatchDeferred, ParseChat, SendPacketAfter,
                PostNextSendFrom, CloseSocketAfter
  <1>5. CASE QueuePacketToWorker
    BY <1>5 DEF QueuePacketToWorker, CloseSocketAfter
  <1>6. CASE (\E p \in Packet : ClientWrites(p)) \/ ClientHangsUp
             \/ KernelReceives \/ KernelSends
    BY <1>6 DEF ClientWrites, ClientHangsUp, KernelReceives, KernelSends
  <1>7. CASE UNCHANGED vars
    BY <1>7 DEF vars
  <1> QED BY <1>1, <1>2, <1>3, <1>4, <1>5, <1>6, <1>7
             DEF Next, Dispatch, ParsePackets

\* Whatever is under way was begun after Start.
LEMMA UnderWayIsStarted ==
    ASSUME NotYetStarted,
           \/ recvOp # "none" \/ sendOp # "none" \/ handler = "parse"
           \/ deferred # 0
    PROVE  started
  BY DEF NotYetStarted

\* What ReceiveInv says of the bytes and of the receive.
RecvCore == RecvShape /\ OneReceive /\ BytesAccounted

\* A step that leaves the ring and the receive alone keeps RecvCore, also
\* when it leaves the parse loop.
LEMMA RecvUntouched ==
    ASSUME RecvCore, m_socket' \in Socket, handler' \in {handler, "none"},
           UNCHANGED <<packets, inFlight, useSize, parsed, recvOp, recvBytes,
                       receives>>
    PROVE  RecvCore'
  <1>1. RecvShape'
    BY DEF RecvCore, RecvShape, Socket
  <1>2. OneReceive'
    BY DEF RecvCore, OneReceive, RecvShape
  <1>3. BytesAccounted'
    BY AccountKept DEF RecvCore, Unparsed
  <1> QED BY <1>1, <1>2, <1>3 DEF RecvCore

\* PostRecv, when the ring has room, arms the one receive or closes.
LEMMA PostRecvArms ==
    ASSUME RecvCore, recvOp = "none", useSize < UsableCapacity, NEW e,
           PostRecvAfter(e, UsableCapacity - useSize), m_socket' \in Socket,
           handler' = "none",
           UNCHANGED <<packets, inFlight, useSize, parsed>>
    PROVE  /\ RecvCore'
           /\ m_bBufferFull' = FALSE
           /\ m_socket' = "open" => recvOp' # "none"
  <1>1. /\ useSize \in Nat /\ UsableCapacity \in Nat
        /\ UsableCapacity - useSize # 0 /\ recvBytes = 0 /\ receives = 0
    BY SizesAssumption DEF RecvCore, RecvShape, OneReceive
  <1>2. /\ m_bBufferFull' = FALSE /\ recvBytes' = 0
        /\ \/ recvOp' = "armed" /\ receives' = 1
           \/ m_socket' = "closed" /\ recvOp' = "none" /\ receives' = 0
    BY <1>1 DEF PostRecvAfter, CloseSocketAfter
  <1>3. RecvShape'
    BY <1>1, <1>2 DEF RecvCore, RecvShape, Socket, OpState
  <1>4. OneReceive'
    BY <1>2 DEF OneReceive
  <1>5. BytesAccounted'
    BY <1>1, <1>2, AccountKept DEF RecvCore, Unparsed
  <1> QED BY <1>2, <1>3, <1>4, <1>5 DEF RecvCore

\* When the parse loop finds no further packet, the ring has room: a packet
\* that would fill it was refused by its header, and without one it is empty.
LEMMA RoomAfterParse ==
    ASSUME RecvShape, BytesAccounted, NoPacketThere
    PROVE  useSize < UsableCapacity
  <1>1. CASE HeaderThere
    <2>1. useSize < Next1.size /\ Next1.size <= UsableCapacity
      BY <1>1 DEF NoPacketThere, SizeRejected, ValidSize
    <2> QED BY <1>1, <2>1, NextPacket, SizesAssumption DEF RecvShape
  <1>2. CASE parsed >= Len(packets)
    <2>1. parsed = Len(packets)
      BY <1>2 DEF RecvShape
    <2> QED BY <2>1, AllParsedIsEmpty, SizesAssumption
  <1>3. CASE useSize < HeaderSize
    BY <1>3, SizesAssumption DEF RecvShape
  <1>4. HeaderThere \/ parsed >= Len(packets) \/ useSize < HeaderSize
    BY SizesAssumption DEF HeaderThere, RecvShape
  <1> QED BY <1>1, <1>2, <1>3, <1>4

\* OnRecv moves the bytes of the completed receive into the ring.
LEMMA OnRecvKeeps ==
    ASSUME RecvCore, OnRecv, m_socket' \in Socket
    PROVE  RecvCore'
  <1>1. /\ useSize \in Nat /\ recvBytes \in Nat /\ inFlight \in Nat
        /\ useSize + recvBytes <= UsableCapacity /\ receives = 1
    BY DEF RecvCore, RecvShape, OneReceive, OnRecv
  <1>2. /\ recvOp' = "none" /\ recvBytes' = 0 /\ receives' = 0
        /\ useSize' = useSize + recvBytes
        /\ handler' \in {"none", "parse"}
        /\ UNCHANGED <<packets, inFlight, parsed>>
    BY <1>1 DEF OnRecv
  <1>3. RecvShape'
    BY <1>1, <1>2, SizesAssumption DEF RecvCore, RecvShape, Socket, OpState
  <1>4. OneReceive'
    BY <1>2 DEF OneReceive
  <1>5. BytesAccounted'
    BY <1>1, <1>2, AccountKept DEF RecvCore, Unparsed
  <1> QED BY <1>3, <1>4, <1>5 DEF RecvCore

\* A failed receive is taken out of the way.
LEMMA RecvFailedKeeps ==
    ASSUME RecvCore, RecvFailed, m_socket' \in Socket
    PROVE  RecvCore'
  <1>1. /\ recvBytes = 0 /\ receives = 1
    BY DEF RecvCore, RecvShape, OneReceive, RecvFailed
  <1>2. /\ recvOp' = "none" /\ recvBytes' = 0 /\ receives' = 0
        /\ handler' = handler
        /\ UNCHANGED <<packets, inFlight, parsed, useSize>>
    BY <1>1 DEF RecvFailed
  <1>3. RecvShape'
    BY <1>1, <1>2 DEF RecvCore, RecvShape, Socket, OpState
  <1>4. OneReceive'
    BY <1>2 DEF OneReceive
  <1>5. BytesAccounted'
    BY <1>1, <1>2, AccountKept DEF RecvCore, Unparsed
  <1> QED BY <1>3, <1>4, <1>5 DEF RecvCore

\* A packet is taken out of the ring.
LEMMA TakePacketKeeps ==
    ASSUME RecvCore, PacketThere, TakePacket, handler = "parse",
           handler' \in {"none", "parse"}, m_socket' \in Socket
    PROVE  RecvCore'
  <1>1. /\ BytesAccounted'
        /\ useSize' \in Nat /\ useSize' < useSize
        /\ parsed' \in Nat /\ parsed' <= Len(packets)
    BY AccountTaken DEF RecvCore
  <1>2. PICK u \in Nat : useSize' = u /\ u < useSize
    BY <1>1
  <1>3. UNCHANGED <<packets, inFlight, recvOp, recvBytes, receives>>
    BY DEF TakePacket
  <1>4. RecvShape'
    BY <1>1, <1>2, <1>3, SizesAssumption DEF RecvCore, RecvShape, Socket
  <1>5. OneReceive'
    BY <1>3 DEF RecvCore, OneReceive
  <1> QED BY <1>1, <1>4, <1>5 DEF RecvCore

\* The kernel completes the receive within the room it was given.
LEMMA KernelReceivesKeeps ==
    ASSUME RecvCore, KernelReceives
    PROVE  RecvCore'
  <1>1. /\ useSize \in Nat /\ recvBytes = 0 /\ inFlight \in Nat
        /\ handler # "parse" /\ receives = 1 /\ UsableCapacity \in Nat
    BY SizesAssumption
       DEF RecvCore, RecvShape, OneReceive, KernelReceives
  <1>2. UNCHANGED <<m_socket, handler, packets, useSize, parsed, receives>>
    BY DEF KernelReceives
  <1>3. CASE \E n \in 1..(UsableCapacity - useSize) :
                 /\ n <= inFlight
                 /\ recvBytes' = n /\ inFlight' = inFlight - n
                 /\ recvOp' = "done"
    <2>1. PICK n \in 1..(UsableCapacity - useSize) :
                 /\ n <= inFlight
                 /\ recvBytes' = n /\ inFlight' = inFlight - n
                 /\ recvOp' = "done"
      BY <1>3
    <2>2. RecvShape'
      BY <1>1, <1>2, <2>1 DEF RecvCore, RecvShape, OpState
    <2>3. OneReceive'
      BY <1>1, <1>2, <2>1 DEF OneReceive
    <2>4. Unparsed' = Unparsed
      BY <1>1, <1>2, <2>1 DEF Unparsed
    <2>5. BytesAccounted'
      BY <1>2, <2>4, AccountKept DEF RecvCore
    <2> QED BY <2>2, <2>3, <2>5 DEF RecvCore
  <1>4. CASE recvOp' \in {"done", "failed"} /\ UNCHANGED <<recvBytes, inFlight>>
    <2>1. RecvShape'
      BY <1>1, <1>2, <1>4, SizesAssumption DEF RecvCore, RecvShape, OpState
    <2>2. OneReceive'
      BY <1>1, <1>2, <1>4 DEF OneReceive
    <2>3. BytesAccounted'
      BY <1>2, <1>4, AccountKept DEF RecvCore, Unparsed
    <2> QED BY <2>1, <2>2, <2>3 DEF RecvCore
  <1> QED BY <1>3, <1>4 DEF KernelReceives

\* The client adds a packet behind the others.
LEMMA ClientWritesKeeps ==
    ASSUME RecvCore, NEW p \in Packet, ClientWrites(p)
    PROVE  RecvCore'
  <1>1. BytesAccounted' /\ inFlight' \in Nat
    BY AccountWritten DEF RecvCore
  <1>2. /\ packets' \in Seq(Packet) /\ Len(packets') = Len(packets) + 1
        /\ Len(packets) \in Nat
        /\ UNCHANGED <<m_socket, handler, useSize, parsed, recvOp, recvBytes,
                       receives>>
    BY DEF RecvCore, RecvShape, ClientWrites
  <1>3. RecvShape'
    BY <1>1, <1>2 DEF RecvCore, RecvShape
  <1>4. OneReceive'
    BY <1>2 DEF RecvCore, OneReceive
  <1> QED BY <1>1, <1>3, <1>4 DEF RecvCore

LEMMA ReceiveInvParts ==
    ReceiveInv <=> RecvCore /\ NotYetStarted /\ Receiving
  BY DEF ReceiveInv, RecvCore

\* Every step keeps ReceiveInv.
LEMMA ReceiveStep ==
    ASSUME ReceiveInv, deferred \in Nat, [Next]_vars
    PROVE  ReceiveInv'
  <1>1. RecvCore /\ NotYetStarted /\ Receiving
    BY ReceiveInvParts
  <1>2. /\ m_socket \in Socket /\ m_socket' \in Socket
        /\ m_socket' = "open" => m_socket = "open"
    BY <1>1, SocketOnlyCloses DEF RecvCore, RecvShape, Socket
  <1>3. SUFFICES RecvCore' /\ NotYetStarted' /\ Receiving'
    BY DEF ReceiveInv, RecvCore
  <1>4. CASE Start
    <2>1. recvOp = "none" /\ handler = "none" /\ useSize < UsableCapacity
      BY <1>1, <1>4, SizesAssumption DEF NotYetStarted, Start
    <2>2. /\ started' = TRUE /\ handler' = handler
          /\ PostRecvAfter(<<"SessionStarted">>, UsableCapacity - useSize)
          /\ UNCHANGED <<packets, inFlight, useSize, parsed>>
      BY <1>4 DEF Start
    <2>3. /\ RecvCore' /\ m_bBufferFull' = FALSE
          /\ m_socket' = "open" => recvOp' # "none"
      BY <1>1, <1>2, <2>1, <2>2, PostRecvArms
    <2> QED BY <2>2, <2>3 DEF NotYetStarted, Receiving
  <1>5. CASE AcceptFails
    <2>1. /\ UNCHANGED <<started, handler, m_bBufferFull, packets, inFlight,
                         useSize, parsed, recvOp, recvBytes, receives, sendOp,
                         deferred>>
          /\ m_socket' = "closed"
      BY <1>5 DEF AcceptFails, CloseSocketAfter, recvVars, sendVars
    <2>2. RecvCore'
      BY <1>1, <1>2, <2>1, RecvUntouched
    <2> QED BY <1>1, <2>1, <2>2 DEF NotYetStarted, Receiving
  <1>6. CASE RecvFailed
    <2>1. started /\ started' = started
      BY <1>1, <1>6, UnderWayIsStarted DEF RecvFailed
    <2>2. m_socket' = "closed" /\ m_bBufferFull' = m_bBufferFull
      BY <1>6 DEF RecvFailed, CloseSocketAfter
    <2> QED BY <1>1, <1>2, <1>6, <2>1, <2>2, RecvFailedKeeps
               DEF NotYetStarted, Receiving
  <1>7. CASE OnRecv
    <2>1. started /\ started' = started
      BY <1>1, <1>7, UnderWayIsStarted DEF OnRecv
    <2>2. /\ m_bBufferFull' = FALSE
          /\ m_socket' = "closed" \/ handler' = "parse"
      BY <1>1, <1>7 DEF OnRecv, CloseSocketAfter, Receiving
    <2> QED BY <1>1, <1>2, <1>7, <2>1, <2>2, OnRecvKeeps
               DEF NotYetStarted, Receiving
  <1>8. CASE ParseInvalidSize
    <2>1. started /\ started' = started
      BY <1>1, <1>8, UnderWayIsStarted DEF ParseInvalidSize
    <2>2. /\ m_socket' = "closed" /\ m_bBufferFull' = m_bBufferFull
          /\ handler' = "none"
          /\ UNCHANGED <<packets, inFlight, useSize, parsed, recvOp,
                         recvBytes, receives>>
      BY <1>8 DEF ParseInvalidSize, CloseSocketAfter, recvVars
    <2>3. RecvCore'
      BY <1>1, <1>2, <2>2, RecvUntouched
    <2> QED BY <1>1, <2>1, <2>2, <2>3 DEF NotYetStarted, Receiving
  <1>9. CASE ParseRejected
    <2>1. started /\ started' = started
      BY <1>1, <1>9, UnderWayIsStarted DEF ParseRejected
    <2>2. m_socket' = "closed" /\ m_bBufferFull' = m_bBufferFull
      BY <1>9 DEF ParseRejected, CloseSocketAfter
    <2>3. RecvCore'
      BY <1>1, <1>2, <1>9, TakePacketKeeps DEF ParseRejected
    <2> QED BY <1>1, <2>1, <2>2, <2>3 DEF NotYetStarted, Receiving
  <1>10. CASE ParseChat
    <2>1. started /\ started' = started
      BY <1>1, <1>10, UnderWayIsStarted DEF ParseChat
    <2>2. /\ m_bBufferFull' = m_bBufferFull
          /\ handler' \in {"none", "parse"}
          /\ m_socket' = "open" => handler' = "parse"
      BY <1>10 DEF ParseChat
    <2>3. RecvCore'
      BY <1>1, <1>2, <1>10, <2>2, TakePacketKeeps DEF ParseChat
    <2> QED BY <1>1, <2>1, <2>2, <2>3 DEF NotYetStarted, Receiving
  <1>11. CASE ParseEnd
    <2>1. started /\ started' = started
      BY <1>1, <1>11, UnderWayIsStarted DEF ParseEnd
    <2>2. /\ handler' = "none" /\ recvOp = "none"
          /\ useSize < UsableCapacity
          /\ UNCHANGED <<packets, inFlight, useSize, parsed>>
      BY <1>1, <1>11, RoomAfterParse DEF ParseEnd, RecvCore, OneReceive
    <2>3. CASE m_socket = "closed"
      <3>1. UNCHANGED <<m_bBufferFull, recvOp, recvBytes, receives, m_socket>>
        BY <1>11, <2>3 DEF ParseEnd
      <3>2. RecvCore'
        BY <1>1, <1>2, <2>2, <3>1, RecvUntouched
      <3> QED BY <1>1, <2>1, <2>3, <3>1, <3>2 DEF NotYetStarted, Receiving
    <2>4. CASE m_socket # "closed"
      <3>1. PostRecvAfter(<<>>, UsableCapacity - useSize)
        BY <1>11, <2>4 DEF ParseEnd
      <3>2. /\ RecvCore' /\ m_bBufferFull' = FALSE
            /\ m_socket' = "open" => recvOp' # "none"
        BY <1>1, <1>2, <2>2, <3>1, PostRecvArms
      <3> QED BY <2>1, <3>2 DEF NotYetStarted, Receiving
    <2> QED BY <2>3, <2>4
  <1>12. CASE SendFailed \/ OnSend2 \/ DispatchDeferred \/ KernelSends
              \/ QueuePacketToWorker
    <2>1. started /\ started' = started
      BY <1>1, <1>12, UnderWayIsStarted
         DEF SendFailed, OnSend2, DispatchDeferred, KernelSends,
             QueuePacketToWorker
    <2>2. UNCHANGED <<handler, m_bBufferFull, recvVars>>
      BY <1>12 DEF SendFailed, OnSend2, DispatchDeferred, KernelSends,
                   QueuePacketToWorker
    <2>3. RecvCore'
      BY <1>1, <1>2, <2>2, RecvUntouched DEF recvVars
    <2> QED BY <1>1, <1>2, <2>1, <2>2, <2>3
               DEF NotYetStarted, Receiving, recvVars
  <1>13. CASE \E p \in Packet : ClientWrites(p)
    <2>1. PICK p \in Packet : ClientWrites(p)
      BY <1>13
    <2>2. RecvCore'
      BY <1>1, <2>1, ClientWritesKeeps
    <2>3. UNCHANGED <<started, m_socket, handler, m_bBufferFull, useSize,
                      recvOp, sendOp, deferred, events>>
      BY <2>1 DEF ClientWrites, sendVars
    <2> QED BY <1>1, <2>2, <2>3 DEF NotYetStarted, Receiving
  <1>14. CASE KernelReceives
    <2>1. started /\ started' = started
      BY <1>1, <1>14, UnderWayIsStarted DEF KernelReceives
    <2>2. m_bBufferFull' = m_bBufferFull /\ recvOp' # "none"
      BY <1>14 DEF KernelReceives
    <2> QED BY <1>1, <1>14, <2>1, <2>2, KernelReceivesKeeps
               DEF NotYetStarted, Receiving
  <1>15. CASE ClientHangsUp \/ UNCHANGED vars
    <2>1. UNCHANGED <<started, m_socket, handler, m_bBufferFull, packets,
                      inFlight, useSize, parsed, recvOp, recvBytes, receives,
                      sendOp, deferred, events>>
      BY <1>15 DEF ClientHangsUp, sendVars, vars, recvVars
    <2>2. RecvCore'
      BY <1>1, <1>2, <2>1, RecvUntouched
    <2> QED BY <1>1, <2>1, <2>2 DEF NotYetStarted, Receiving
  <1> QED
    BY <1>4, <1>5, <1>6, <1>7, <1>8, <1>9, <1>10, <1>11, <1>12, <1>13,
       <1>14, <1>15 DEF Next, Dispatch, ParsePackets

-----------------------------------------------------------------------------
(* Sending *)

\* Position (q * l + j) of a stream of items of l bytes is byte j of item q.
LEMMA DivMod ==
    ASSUME NEW l \in Nat \ {0}, NEW q \in Nat, NEW j \in Nat, j < l
    PROVE  (q * l + j) \div l = q /\ (q * l + j) % l = j
  OBVIOUS

LEMMA ItemLenType == ItemLen \in Nat \ {0} /\ HeaderLen \in Nat \ {0}
                     /\ BodyLen \in Nat /\ ItemLen = HeaderLen + BodyLen
  BY SizesAssumption DEF ItemLen

LEMMA BytesAreRest ==
    ASSUME NEW id \in Nat, NEW from \in Nat, from <= ItemLen
    PROVE  IsRest(Bytes(id, from), id, from)
  <1>1. ItemLen - from \in Nat
    BY ItemLenType
  <1>2. \A k \in 1..(ItemLen - from) : <<id, from + k>> \in Nat \X Nat
    BY <1>1
  <1> QED BY <1>1, <1>2 DEF Bytes, IsRest

\* A slice of an item.
LEMMA Slice ==
    ASSUME NEW s \in Seq(Nat \X Nat), NEW id \in Nat,
           NEW m \in Nat, NEW n \in Nat, m <= n, n <= Len(s),
           \A k \in 1..Len(s) : s[k] = <<id, k>>
    PROVE  /\ SubSeq(s, m + 1, n) \in Seq(Nat \X Nat)
           /\ Len(SubSeq(s, m + 1, n)) = n - m
           /\ \A k \in 1..(n - m) : SubSeq(s, m + 1, n)[k] = <<id, m + k>>
  <1>1. /\ SubSeq(s, m + 1, n) \in Seq(Nat \X Nat)
        /\ Len(SubSeq(s, m + 1, n)) = n - m
    <2>1. \A k \in (m + 1)..n : s[k] \in Nat \X Nat
      OBVIOUS
    <2> QED BY <2>1
  <1>2. ASSUME NEW k \in 1..(n - m)
        PROVE  SubSeq(s, m + 1, n)[k] = <<id, m + k>>
    <2>1. SubSeq(s, m + 1, n)[k] = s[m + k]
      OBVIOUS
    <2>2. m + k \in 1..Len(s)
      OBVIOUS
    <2> QED BY <2>1, <2>2
  <1> QED BY <1>1, <1>2

\* PartialSend submits exactly the bytes of the item that have not left,
\* wherever in the two buffers the last send ended.
LEMMA RemainingIsRest ==
    ASSUME NEW i \in [id : Nat, sent : Nat], i.sent < ItemLen
    PROVE  IsRest(RemainingBufs(i), i.id, i.sent)
  <1>1. PICK id \in Nat, sent \in Nat : i.id = id /\ i.sent = sent
    OBVIOUS
  <1> DEFINE b == Bytes(id, 0)
  <1>2. /\ b \in Seq(Nat \X Nat) /\ Len(b) = ItemLen
        /\ \A k \in 1..Len(b) : b[k] = <<id, k>>
    <2>1. IsRest(b, id, 0)
      BY BytesAreRest, ItemLenType
    <2>2. /\ b \in Seq(Nat \X Nat) /\ Len(b) = ItemLen - 0
          /\ \A k \in 1..Len(b) : b[k] = <<id, 0 + k>>
      BY <2>1 DEF IsRest
    <2> QED BY SMTT(40), <2>2, ItemLenType
  <1>3. RemainingBufs(i) = IF sent < HeaderLen
                           THEN SubSeq(b, sent + 1, HeaderLen)
                                    \o SubSeq(b, HeaderLen + 1, ItemLen)
                           ELSE SubSeq(b, HeaderLen + (sent - HeaderLen) + 1,
                                       ItemLen)
    BY <1>1 DEF RemainingBufs
  <1> HIDE DEF b
  <1>4. IsRest(RemainingBufs(i), id, sent)
    <2>1. CASE sent < HeaderLen
      <3> DEFINE x == SubSeq(b, sent + 1, HeaderLen)
      <3> DEFINE y == SubSeq(b, HeaderLen + 1, ItemLen)
      <3>1. /\ x \in Seq(Nat \X Nat) /\ Len(x) = HeaderLen - sent
            /\ \A k \in 1..(HeaderLen - sent) : x[k] = <<id, sent + k>>
        BY <1>2, <2>1, ItemLenType, Slice
      <3>2. /\ y \in Seq(Nat \X Nat) /\ Len(y) = BodyLen
            /\ \A k \in 1..BodyLen : y[k] = <<id, HeaderLen + k>>
        <4>1. /\ y \in Seq(Nat \X Nat) /\ Len(y) = ItemLen - HeaderLen
              /\ \A k \in 1..(ItemLen - HeaderLen) :
                     y[k] = <<id, HeaderLen + k>>
          BY <1>2, ItemLenType, Slice
        <4> QED BY <4>1, ItemLenType
      <3> HIDE DEF x, y
      <3>0. /\ x \o y \in Seq(Nat \X Nat) /\ Len(x \o y) = Len(x) + Len(y)
            /\ \A k \in 1..(Len(x) + Len(y)) :
                   (x \o y)[k] = IF k <= Len(x) THEN x[k] ELSE y[k - Len(x)]
        BY <3>1, <3>2, ConcatProperties, Zenon
      <3>3. x \o y \in Seq(Nat \X Nat) /\ Len(x \o y) = ItemLen - sent
        <4>1. (HeaderLen - sent) + BodyLen = ItemLen - sent
          BY ItemLenType
        <4> QED BY <3>0, <3>1, <3>2, <4>1
      <3>4. ASSUME NEW k \in 1..(ItemLen - sent)
            PROVE  (x \o y)[k] = <<id, sent + k>>
        <4>0. /\ k \in Nat \ {0} /\ k <= ItemLen - sent
              /\ k <= HeaderLen - sent \/ k > HeaderLen - sent
          BY ItemLenType
        <4>1. CASE k <= HeaderLen - sent
          <5>1. k \in 1..(HeaderLen - sent) /\ (x \o y)[k] = x[k]
            BY <2>1, <3>1, <3>2, <4>1, ItemLenType
          <5> QED BY <3>1, <5>1
        <4>2. CASE k > HeaderLen - sent
          <5>1. /\ k - (HeaderLen - sent) \in 1..BodyLen
                /\ HeaderLen + (k - (HeaderLen - sent)) = sent + k
            BY <4>0, <4>2, ItemLenType
          <5>2. (x \o y)[k] = y[k - Len(x)]
            BY SMTT(40), <3>0, <3>1, <3>2, <4>0, <4>2, ItemLenType
          <5> QED BY <3>1, <3>2, <5>1, <5>2
        <4> QED BY <4>0, <4>1, <4>2
      <3>5. RemainingBufs(i) = x \o y
        BY <1>3, <2>1 DEF x, y
      <3> QED BY <3>3, <3>4, <3>5 DEF IsRest
    <2>2. CASE ~(sent < HeaderLen)
      <3> DEFINE x == SubSeq(b, sent + 1, ItemLen)
      <3>1. HeaderLen + (sent - HeaderLen) + 1 = sent + 1
        BY ItemLenType
      <3>2. RemainingBufs(i) = x
        BY <1>3, <2>2, <3>1
      <3>3. sent <= ItemLen /\ ItemLen \in Nat /\ ItemLen <= Len(b)
        BY <1>1, <1>2, ItemLenType
      <3>4. /\ x \in Seq(Nat \X Nat) /\ Len(x) = ItemLen - sent
            /\ \A k \in 1..(ItemLen - sent) : x[k] = <<id, sent + k>>
        <4>1. ASSUME NEW n \in Nat, sent <= n, n <= Len(b)
              PROVE  /\ SubSeq(b, sent + 1, n) \in Seq(Nat \X Nat)
                     /\ Len(SubSeq(b, sent + 1, n)) = n - sent
                     /\ \A k \in 1..(n - sent) : SubSeq(b, sent + 1, n)[k] = <<id, sent + k>>
          BY <1>2, <4>1, Slice
        <4> QED BY <3>3, <4>1
      <3> QED BY <3>2, <3>4 DEF IsRest
    <2> QED BY <2>1, <2>2
  <1> QED BY <1>1, <1>4

SendCore == SendShape /\ Submitted /\ Sending /\ PendingCovers

\* postNextSend takes the next item of the queue when the one before it has
\* left completely, or leaves nothing in flight.
LEMMA PostNextSendKeeps ==
    ASSUME NEW q \in Seq(Nat), NEW e, PostNextSendFrom(q, e),
           NEW next \in Nat \ {0}, nextId' = next,
           NEW pending \in Nat, m_ullPendingBytes' = pending,
           pending >= Len(q) * ItemLen,
           wire \in Seq(Nat \X Nat), wire' = wire, sendBytes \in Nat,
           m_socket = "open" =>
               /\ Len(q) < next
               /\ \A i \in 1..Len(q) : q[i] = next - Len(q) + i - 1
               /\ Len(wire) = (next - Len(q) - 1) * ItemLen
    PROVE  SendCore'
  <1> USE ItemLenType
  <1>1. NoItem \in [id : Nat, sent : Nat]
    BY DEF NoItem
  <1>2. CASE q = <<>>
    <2>1. /\ m_bSendInFlight' = FALSE /\ sendOp' = "none"
          /\ sendItem' = NoItem /\ m_SendQueue' = q
          /\ UNCHANGED <<m_socket, sendBytes>>
      BY <1>2 DEF PostNextSendFrom
    <2>2. SendShape'
      BY <1>1, <2>1 DEF SendShape, OpState
    <2>3. Submitted'
      BY <2>1 DEF Submitted
    <2>4. Sending'
      BY <1>2, <2>1 DEF Sending
    <2>5. PendingCovers'
      BY <1>2, <2>1 DEF PendingCovers
    <2> QED BY <2>2, <2>3, <2>4, <2>5 DEF SendCore
  <1>3. CASE q # <<>> /\ m_socket' = "closed"
    <2>1. /\ m_bSendInFlight' = FALSE /\ sendOp' = "none"
          /\ sendItem' = NoItem /\ m_SendQueue' = Tail(q)
          /\ UNCHANGED sendBytes
      BY <1>3 DEF PostNextSendFrom
    <2>2. Tail(q) \in Seq(Nat) /\ Len(Tail(q)) = Len(q) - 1
          /\ Len(q) \in Nat \ {0}
      BY <1>3
    <2>3. SendShape'
      BY <1>1, <2>1, <2>2 DEF SendShape, OpState
    <2>4. Submitted'
      BY <2>1 DEF Submitted
    <2>5. Sending'
      BY <1>3 DEF Sending
    <2>6. PendingCovers'
      <3>1. pending >= (Len(q) - 1) * ItemLen
        BY <2>2
      <3> QED BY <2>1, <2>2, <3>1 DEF PendingCovers
    <2> QED BY <2>3, <2>4, <2>5, <2>6 DEF SendCore
  <1>4. CASE q # <<>> /\ m_socket' # "closed"
    <2>1. /\ m_bSendInFlight' = TRUE /\ sendOp' = "armed" /\ sendBytes' = 0
          /\ sendItem' = [id |-> Head(q), sent |-> 0]
          /\ submitted' = Bytes(Head(q), 0)
          /\ m_SendQueue' = Tail(q)
          /\ m_socket = "open"
      BY <1>4 DEF PostNextSendFrom, CloseSocketAfter
    <2>2. /\ Tail(q) \in Seq(Nat) /\ Len(Tail(q)) = Len(q) - 1
          /\ Len(q) \in Nat \ {0} /\ Head(q) = q[1] /\ Head(q) \in Nat
          /\ \A i \in 1..(Len(q) - 1) : Tail(q)[i] = q[i + 1]
      BY <1>4
    <2>3. PICK h \in Nat : h = Head(q)
      BY <2>2
    <2>4. /\ h = next - Len(q) /\ h > 0 /\ Len(q) < next
          /\ Len(wire) = (h - 1) * ItemLen
          /\ \A i \in 1..Len(q) : q[i] = next - Len(q) + i - 1
      <3>1. /\ Len(q) < next
            /\ \A i \in 1..Len(q) : q[i] = next - Len(q) + i - 1
            /\ Len(wire) = (next - Len(q) - 1) * ItemLen
        BY <2>1
      <3>2. h = next - Len(q)
        BY <2>2, <2>3, <3>1
      <3> QED BY <2>2, <3>1, <3>2
    <2>5. sendItem'.id = h /\ sendItem'.sent = 0
      BY <2>1, <2>3
    <2>6. SendShape'
      BY <2>1, <2>2 DEF SendShape, OpState
    <2>7. Submitted'
      <3>1. IsRest(Bytes(h, 0), h, 0)
        BY BytesAreRest
      <3>2. IsRest(submitted', sendItem'.id, sendItem'.sent)
        BY <2>1, <2>3, <2>5, <3>1
      <3>3. sendItem'.sent < ItemLen
        BY <2>5
      <3> QED BY <2>1, <3>2, <3>3 DEF Submitted
    <2>8. Sending'
      <3>1. ASSUME NEW i \in 1..Len(Tail(q))
            PROVE  Tail(q)[i] = next - Len(Tail(q)) + i - 1
        <4>1. i + 1 \in 1..Len(q) /\ Tail(q)[i] = q[i + 1]
          BY <2>2
        <4> QED BY <2>2, <2>4, <4>1
      <3>2. /\ Len(Tail(q)) < next /\ h = next - Len(Tail(q)) - 1
            /\ Len(wire) = (h - 1) * ItemLen + 0
        BY <2>2, <2>4
      <3> QED BY <2>1, <2>4, <2>5, <3>1, <3>2 DEF Sending
    <2>9. PendingCovers'
      <3>1. Len(q) * ItemLen = (Len(q) - 1) * ItemLen + ItemLen
        BY <2>2
      <3>2. pending >= Len(Tail(q)) * ItemLen + (ItemLen - 0)
        BY <2>2, <3>1
      <3> QED BY <2>1, <2>5, <3>2 DEF PendingCovers
    <2> QED BY <2>6, <2>7, <2>8, <2>9 DEF SendCore
  <1> QED BY <1>2, <1>3, <1>4

\* SendPacket puts the reply behind the others.
LEMMA SendPacketKeeps ==
    ASSUME SendCore, NEW e, SendPacketAfter(e)
    PROVE  SendCore' /\ wire' = wire
  <1> USE ItemLenType
  <1> DEFINE q == Append(m_SendQueue, nextId)
  <1>1. /\ m_SendQueue \in Seq(Nat) /\ nextId \in Nat \ {0}
        /\ Len(m_SendQueue) \in Nat
        /\ wire \in Seq(Nat \X Nat) /\ sendBytes \in Nat
        /\ m_ullPendingBytes \in Nat
    BY DEF SendCore, SendShape, PendingCovers
  <1>2. /\ q \in Seq(Nat) /\ Len(q) = Len(m_SendQueue) + 1
        /\ \A i \in 1..Len(m_SendQueue) : q[i] = m_SendQueue[i]
        /\ q[Len(m_SendQueue) + 1] = nextId
    BY <1>1
  <1>3. /\ nextId' = nextId + 1 /\ wire' = wire
        /\ m_ullPendingBytes' = m_ullPendingBytes + ItemLen
    BY DEF SendPacketAfter
  <1>4. Len(q) * ItemLen = Len(m_SendQueue) * ItemLen + ItemLen
    BY <1>1, <1>2
  <1>5. m_socket = "open" =>
            /\ Len(q) < nextId + 1
            /\ \A i \in 1..Len(q) : q[i] = (nextId + 1) - Len(q) + i - 1
    <2> SUFFICES ASSUME m_socket = "open"
                 PROVE  /\ Len(q) < nextId + 1
                        /\ \A i \in 1..Len(q) :
                               q[i] = (nextId + 1) - Len(q) + i - 1
      OBVIOUS
    <2>1. /\ Len(m_SendQueue) < nextId
          /\ \A i \in 1..Len(m_SendQueue) :
                 m_SendQueue[i] = nextId - Len(m_SendQueue) + i - 1
      BY DEF SendCore, Sending
    <2> HIDE DEF q
    <2>2. ASSUME NEW i \in 1..Len(q)
          PROVE  q[i] = (nextId + 1) - Len(q) + i - 1
      <3>1. CASE i = Len(m_SendQueue) + 1
        BY <1>1, <1>2, <3>1
      <3>2. CASE i \in 1..Len(m_SendQueue)
        BY <1>1, <1>2, <2>1, <3>2
      <3> QED BY <1>1, <1>2, <3>1, <3>2
    <2> QED BY <1>1, <1>2, <2>1, <2>2
  <1>6. CASE m_bSendInFlight
    <2>1. /\ m_SendQueue' = q
          /\ UNCHANGED <<m_socket, m_bSendInFlight, sendOp, sendBytes,
                         sendItem, submitted>>
      BY <1>6 DEF SendPacketAfter
    <2>2. sendOp # "none"
      BY <1>6 DEF SendCore, SendShape
    <2> HIDE DEF q
    <2>3. SendShape'
      BY <1>1, <1>2, <1>3, <2>1 DEF SendCore, SendShape
    <2>4. Submitted'
      BY <2>1 DEF SendCore, Submitted
    <2>5. Sending'
      <3>1. CASE m_socket = "open"
        <4>1. /\ sendItem.id > 0
              /\ sendItem.id = nextId - Len(m_SendQueue) - 1
              /\ sendOp = "armed" =>
                   Len(wire) = (sendItem.id - 1) * ItemLen + sendItem.sent
              /\ sendOp = "done" =>
                   Len(wire) = (sendItem.id - 1) * ItemLen + sendItem.sent
                                   + sendBytes
          BY <2>2, <3>1 DEF SendCore, Sending
        <4>2. sendItem.id = (nextId + 1) - Len(q) - 1
          BY <1>1, <1>2, <4>1
        <4> QED BY <1>3, <1>5, <2>1, <2>2, <3>1, <4>1, <4>2 DEF Sending
      <3>2. CASE m_socket # "open"
        BY <2>1, <3>2 DEF Sending
      <3> QED BY <3>1, <3>2
    <2>6. PendingCovers'
      <3>1. sendItem.sent \in Nat /\ ItemLen - sendItem.sent \in Int
        BY DEF SendCore, SendShape
      <3>2. m_ullPendingBytes
                >= Len(m_SendQueue) * ItemLen + (ItemLen - sendItem.sent)
        BY <2>2 DEF SendCore, PendingCovers
      <3>3. m_ullPendingBytes + ItemLen
                >= Len(q) * ItemLen + (ItemLen - sendItem.sent)
        BY <1>1, <1>4, <3>1, <3>2
      <3> QED BY <1>1, <1>3, <2>1, <2>2, <3>3 DEF PendingCovers
    <2> QED BY <1>3, <2>3, <2>4, <2>5, <2>6 DEF SendCore
  <1>7. CASE ~m_bSendInFlight
    <2>1. PostNextSendFrom(q, e)
      BY <1>7 DEF SendPacketAfter
    <2>2. sendOp = "none"
      BY <1>7 DEF SendCore, SendShape
    <2> HIDE DEF q
    <2>3. m_ullPendingBytes + ItemLen >= Len(q) * ItemLen
      <3>1. m_ullPendingBytes >= Len(m_SendQueue) * ItemLen + 0
        BY <2>2 DEF SendCore, PendingCovers
      <3> QED BY <1>1, <1>4, <3>1
    <2>4. m_socket = "open" =>
              Len(wire) = ((nextId + 1) - Len(q) - 1) * ItemLen
      <3> SUFFICES ASSUME m_socket = "open"
                   PROVE  Len(wire) = ((nextId + 1) - Len(q) - 1) * ItemLen
        OBVIOUS
      <3>1. m_SendQueue = <<>> /\ Len(wire) = (nextId - 1) * ItemLen
        BY <2>2 DEF SendCore, Sending
      <3>2. Len(q) = 1
        BY <1>2, <3>1
      <3>3. (nextId + 1) - Len(q) - 1 = nextId - 1
        BY <1>1, <3>2
      <3> QED BY <3>1, <3>3
    <2>5. PICK next \in Nat \ {0} : next = nextId + 1
      BY <1>1
    <2>6. PICK pending \in Nat : pending = m_ullPendingBytes + ItemLen
      BY <1>1
    <2>7. SendCore'
      BY <1>1, <1>2, <1>3, <1>5, <2>1, <2>3, <2>4, <2>5, <2>6,
         PostNextSendKeeps
    <2> QED BY <1>3, <2>7
  <1> QED BY <1>6, <1>7

\* A step that leaves the sending side alone keeps it.
LEMMA SendUntouched ==
    ASSUME SendCore, UNCHANGED sendVars, m_socket' = "open" => m_socket = "open"
    PROVE  SendCore'
  <1>1. SendShape' /\ Submitted' /\ PendingCovers'
    BY DEF SendCore, SendShape, Submitted, PendingCovers, sendVars
  <1>2. Sending'
    BY DEF SendCore, Sending, sendVars
  <1> QED BY <1>1, <1>2 DEF SendCore

\* Nothing is in flight after a send that failed; the socket is closed.
LEMMA StoppedSend ==
    ASSUME SendShape, m_socket' = "closed", m_bSendInFlight' = FALSE,
           sendOp' = "none", sendItem' = NoItem,
           UNCHANGED <<m_SendQueue, nextId, sendBytes, wire>>,
           NEW pending \in Nat, m_ullPendingBytes' = pending,
           pending >= Len(m_SendQueue) * ItemLen
    PROVE  SendCore'
  <1>1. SendShape'
    BY DEF SendShape, NoItem, OpState
  <1>2. Submitted' /\ Sending'
    BY DEF Submitted, Sending
  <1>3. PendingCovers'
    <2>1. Len(m_SendQueue) * ItemLen \in Nat
      BY ItemLenType DEF SendShape
    <2> QED BY <2>1 DEF PendingCovers
  <1> QED BY <1>1, <1>2, <1>3 DEF SendCore

\* OnSend counts what has left and goes on with the rest of the item, or
\* with the next item when all of it has left.
LEMMA OnSendKeeps ==
    ASSUME SendCore, OnSend2
    PROVE  SendCore' /\ wire' = wire
  <1> USE ItemLenType
  <1> DEFINE i == [sendItem EXCEPT !.sent = @ + sendBytes]
  <1>1. /\ m_SendQueue \in Seq(Nat) /\ nextId \in Nat \ {0}
        /\ Len(m_SendQueue) \in Nat
        /\ wire \in Seq(Nat \X Nat) /\ m_ullPendingBytes \in Nat
        /\ sendItem \in [id : Nat, sent : Nat] /\ sendOp = "done"
    BY DEF SendCore, SendShape, PendingCovers, OnSend2
  <1>2. PICK id \in Nat, sent \in Nat : sendItem.id = id /\ sendItem.sent = sent
    BY <1>1
  <1>3. /\ sent < ItemLen /\ sendBytes \in 1..(ItemLen - sent)
        /\ sendBytes \in Nat
    BY <1>1, <1>2 DEF SendCore, Submitted
  <1>4. /\ i \in [id : Nat, sent : Nat] /\ i.id = id
        /\ i.sent = sent + sendBytes
    <2>1. sent + sendBytes \in Nat
      BY <1>3
    <2>2. i = [sendItem EXCEPT !.sent = sent + sendBytes]
      BY <1>2
    <2> HIDE DEF i
    <2> QED BY <1>1, <1>2, <2>1, <2>2
  <1>5. PICK queued \in Nat : queued = Len(m_SendQueue) * ItemLen
    BY <1>1
  <1>6. PICK pending \in Nat :
            /\ pending = m_ullPendingBytes - sendBytes
            /\ pending >= Len(m_SendQueue) * ItemLen
                              + (ItemLen - (sent + sendBytes))
            /\ pending >= Len(m_SendQueue) * ItemLen
    <2>1. m_ullPendingBytes >= Len(m_SendQueue) * ItemLen + (ItemLen - sent)
      BY <1>1, <1>2 DEF SendCore, PendingCovers
    <2>2. m_ullPendingBytes >= queued + (ItemLen - sent)
      BY <1>5, <2>1
    <2>3. /\ m_ullPendingBytes - sendBytes \in Nat
          /\ m_ullPendingBytes - sendBytes
                 >= queued + (ItemLen - (sent + sendBytes))
          /\ m_ullPendingBytes - sendBytes >= queued
      BY <1>1, <1>3, <2>2
    <2> QED BY <1>5, <2>3
  <1>7. /\ m_ullPendingBytes' = pending /\ wire' = wire /\ nextId' = nextId
    BY <1>6 DEF OnSend2
  <1>8. m_socket = "open" =>
            /\ id > 0 /\ id = nextId - Len(m_SendQueue) - 1
            /\ Len(wire) = (id - 1) * ItemLen + sent + sendBytes
            /\ Len(m_SendQueue) < nextId
            /\ \A k \in 1..Len(m_SendQueue) :
                   m_SendQueue[k] = nextId - Len(m_SendQueue) + k - 1
    BY <1>1, <1>2 DEF SendCore, Sending
  <1>9. CASE i.sent < ItemLen
    <2>1. PartialSendAfter(i, <<"SendCompleted">>) /\ UNCHANGED m_SendQueue
      BY <1>9 DEF OnSend2
    <2> HIDE DEF i
    <2>2. CASE m_socket' = "open"
      <3>1. /\ m_socket = "open" /\ submitted' = RemainingBufs(i)
            /\ sendOp' = "armed" /\ sendBytes' = 0 /\ sendItem' = i
            /\ UNCHANGED m_bSendInFlight
        BY <2>1, <2>2 DEF PartialSendAfter, CloseSocketAfter
      <3>2. SendShape'
        BY <1>1, <1>4, <1>7, <2>1, <3>1 DEF SendCore, SendShape, OpState
      <3>3. Submitted'
        <4>1. IsRest(submitted', sendItem'.id, sendItem'.sent)
          BY <1>4, <1>9, <3>1, RemainingIsRest
        <4>2. sendItem'.sent < ItemLen
          BY <1>9, <3>1
        <4> QED BY <3>1, <4>1, <4>2 DEF Submitted
      <3>4. Sending'
        <4>1. sendItem'.id = id /\ sendItem'.sent = sent + sendBytes
          BY <1>4, <3>1
        <4>2. (id - 1) * ItemLen + sent + sendBytes
                  = (id - 1) * ItemLen + (sent + sendBytes)
          BY <1>3
        <4> QED BY <1>7, <1>8, <2>1, <3>1, <4>1, <4>2 DEF Sending
      <3>5. PendingCovers'
        BY <1>4, <1>6, <1>7, <2>1, <3>1 DEF PendingCovers
      <3> QED BY <1>7, <3>2, <3>3, <3>4, <3>5 DEF SendCore
    <2>3. CASE m_socket' # "open"
      <3>1. /\ m_socket' = "closed" /\ m_bSendInFlight' = FALSE
            /\ sendOp' = "none" /\ sendItem' = NoItem /\ UNCHANGED sendBytes
        BY <2>1, <2>3 DEF PartialSendAfter, CloseSocketAfter
      <3> QED BY <1>6, <1>7, <2>1, <3>1, StoppedSend DEF SendCore
    <2> QED BY <2>2, <2>3
  <1>10. CASE ~(i.sent < ItemLen)
    <2>1. PostNextSendFrom(m_SendQueue, <<"SendCompleted">>)
      BY <1>10 DEF OnSend2
    <2>2. sent + sendBytes = ItemLen
      BY <1>3, <1>4, <1>10
    <2>3. m_socket = "open" =>
              Len(wire) = (nextId - Len(m_SendQueue) - 1) * ItemLen
      <3> SUFFICES ASSUME m_socket = "open"
                   PROVE  Len(wire) = id * ItemLen
        BY <1>8
      <3>1. Len(wire) = (id - 1) * ItemLen + sent + sendBytes
        BY <1>8
      <3>2. Len(wire) = (id - 1) * ItemLen + ItemLen
        BY <1>3, <2>2, <3>1
      <3> QED BY <3>2
    <2>4. SendCore'
      BY <1>1, <1>3, <1>6, <1>7, <1>8, <2>1, <2>3, PostNextSendKeeps
    <2> QED BY <1>7, <2>4
  <1> QED BY <1>9, <1>10

\* What the kernel takes of the submitted bytes continues the wire.
LEMMA KernelSendsKeeps ==
    ASSUME SendCore, WireIsInOrder, KernelSends
    PROVE  SendCore' /\ WireIsInOrder'
  <1> USE ItemLenType
  <1>1. /\ wire \in Seq(Nat \X Nat) /\ Len(wire) \in Nat
        /\ sendItem \in [id : Nat, sent : Nat] /\ sendOp = "armed"
        /\ UNCHANGED <<m_socket, m_SendQueue, m_bSendInFlight, sendItem,
                       m_ullPendingBytes, submitted, nextId>>
    BY DEF SendCore, SendShape, KernelSends
  <1>2. PICK id \in Nat, sent \in Nat : sendItem.id = id /\ sendItem.sent = sent
    BY <1>1
  <1>3. sent < ItemLen /\ IsRest(submitted, id, sent)
    BY <1>1, <1>2 DEF SendCore, Submitted
  <1>4. CASE m_socket = "open" /\ sendOp' = "done"
             /\ \E n \in 1..Len(submitted) :
                    sendBytes' = n /\ wire' = wire \o SubSeq(submitted, 1, n)
    <2>1. PICK n \in 1..Len(submitted) :
                    sendBytes' = n /\ wire' = wire \o SubSeq(submitted, 1, n)
      BY <1>4
    <2>2. /\ Len(submitted) = ItemLen - sent /\ n \in 1..(ItemLen - sent)
          /\ n \in Nat /\ submitted \in Seq(Nat \X Nat)
          /\ \A k \in 1..Len(submitted) : submitted[k] = <<id, sent + k>>
      <3>1. /\ Len(submitted) = ItemLen - sent /\ submitted \in Seq(Nat \X Nat)
            /\ \A k \in 1..Len(submitted) : submitted[k] = <<id, sent + k>>
        BY <1>3 DEF IsRest
      <3> QED BY <2>1, <3>1
    <2> DEFINE x == SubSeq(submitted, 1, n)
    <2>3. /\ x \in Seq(Nat \X Nat) /\ Len(x) = n
          /\ \A k \in 1..n : x[k] = <<id, sent + k>>
      BY SMTT(40), <2>2
    <2> HIDE DEF x
    <2>4. /\ wire' \in Seq(Nat \X Nat) /\ Len(wire') = Len(wire) + n
          /\ \A k \in 1..(Len(wire) + n) :
                 wire'[k] = IF k <= Len(wire) THEN wire[k] ELSE x[k - Len(wire)]
      <3>1. /\ wire \o x \in Seq(Nat \X Nat)
            /\ Len(wire \o x) = Len(wire) + Len(x)
            /\ \A k \in 1..(Len(wire) + Len(x)) :
                   (wire \o x)[k]
                       = IF k <= Len(wire) THEN wire[k] ELSE x[k - Len(wire)]
        BY <1>1, <2>3, ConcatProperties, Zenon
      <3>2. wire' = wire \o x
        BY <2>1 DEF x
      <3> QED BY <2>3, <3>1, <3>2
    <2>5. /\ id > 0 /\ id = nextId - Len(m_SendQueue) - 1
          /\ Len(wire) = (id - 1) * ItemLen + sent
          /\ Len(m_SendQueue) < nextId
          /\ \A k \in 1..Len(m_SendQueue) :
                 m_SendQueue[k] = nextId - Len(m_SendQueue) + k - 1
      BY <1>1, <1>2, <1>4 DEF SendCore, Sending
    <2>6. SendShape'
      BY <1>1, <1>4, <2>1, <2>2, <2>4 DEF SendCore, SendShape, OpState
    <2>7. Submitted'
      BY <1>1, <1>2, <1>3, <1>4, <2>1, <2>2 DEF Submitted
    <2>8. Sending'
      BY <1>1, <1>2, <1>4, <2>1, <2>4, <2>5 DEF Sending
    <2>9. PendingCovers'
      BY <1>1, <1>4 DEF SendCore, PendingCovers
    <2>10. WireIsInOrder'
      <3> SUFFICES ASSUME NEW k \in 1..Len(wire')
                   PROVE  wire'[k] = <<((k - 1) \div ItemLen) + 1,
                                       ((k - 1) % ItemLen) + 1>>
        BY DEF WireIsInOrder
      <3>0. k \in 1..(Len(wire) + n)
        BY <2>4
      <3>1. CASE k <= Len(wire)
        <4>1. k \in 1..Len(wire) /\ wire'[k] = wire[k]
          BY <1>1, <2>2, <2>4, <3>1
        <4> QED BY <4>1 DEF WireIsInOrder
      <3>2. CASE ~(k <= Len(wire))
        <4>0. k - Len(wire) \in 1..n
          BY <1>1, <2>2, <3>0, <3>2
        <4>1. PICK d \in 1..n : d = k - Len(wire)
          BY <4>0
        <4>2. wire'[k] = <<id, sent + d>>
          BY <1>1, <2>2, <2>3, <2>4, <3>0, <3>2, <4>1
        <4>3. PICK j \in Nat : j = sent + d - 1 /\ j < ItemLen
          <5>0. d \in Nat /\ 1 <= d /\ d <= ItemLen - sent /\ ItemLen \in Nat
            BY <2>2, <4>1
          <5>1. sent + d - 1 \in Nat /\ sent + d - 1 < ItemLen
            BY <5>0
          <5> QED BY <5>1
        <4>4. PICK m \in Nat : id = m + 1 /\ Len(wire) = m * ItemLen + sent
          <5>1. id - 1 \in Nat /\ id = (id - 1) + 1
            BY <2>5
          <5> QED BY <2>5, <5>1
        <4>5. k - 1 = m * ItemLen + j
          <5>1. m * ItemLen \in Nat
            OBVIOUS
          <5>2. k = Len(wire) + d
            BY <1>1, <3>0, <4>1
          <5>3. k = m * ItemLen + sent + d
            BY <4>4, <5>2
          <5> QED BY <4>1, <4>3, <5>1, <5>3
        <4>6. (k - 1) \div ItemLen = m /\ (k - 1) % ItemLen = j
          <5>1. (m * ItemLen + j) \div ItemLen = m
                /\ (m * ItemLen + j) % ItemLen = j
            BY <4>3, DivMod, ItemLenType, Zenon
          <5> QED BY <4>5, <5>1
        <4>7. ((k - 1) \div ItemLen) + 1 = id /\ ((k - 1) % ItemLen) + 1 = sent + d
          BY <4>1, <4>3, <4>4, <4>6
        <4> QED BY <4>2, <4>7
      <3> QED BY <3>1, <3>2
    <2> QED BY <2>6, <2>7, <2>8, <2>9, <2>10 DEF SendCore
  <1>5. CASE sendOp' = "failed" /\ UNCHANGED <<sendBytes, wire>>
    <2>1. SendShape'
      BY <1>1, <1>5 DEF SendCore, SendShape, OpState
    <2>2. Submitted'
      BY <1>1, <1>5 DEF SendCore, Submitted
    <2>3. Sending'
      BY <1>1, <1>5 DEF SendCore, Sending
    <2>4. PendingCovers'
      BY <1>1, <1>5 DEF SendCore, PendingCovers
    <2>5. WireIsInOrder'
      BY <1>5 DEF WireIsInOrder
    <2> QED BY <2>1, <2>2, <2>3, <2>4, <2>5 DEF SendCore
  <1> QED BY <1>4, <1>5 DEF KernelSends

\* Every step keeps SendInv.
LEMMA SendStep ==
    ASSUME SendInv, m_socket \in Socket, [Next]_vars
    PROVE  SendInv'
  <1>1. SendCore /\ WireIsInOrder /\ deferred \in Nat
    BY DEF SendInv, SendCore
  <1>2. m_socket' = "open" => m_socket = "open"
    BY SocketOnlyCloses
  <1>3. SUFFICES SendCore' /\ WireIsInOrder' /\ deferred' \in Nat
    BY DEF SendInv, SendCore
  <1>4. ASSUME wire' = wire PROVE WireIsInOrder'
    BY <1>1, <1>4 DEF WireIsInOrder
  <1>5. ASSUME UNCHANGED sendVars PROVE SendCore' /\ WireIsInOrder'
    <2>1. SendCore'
      BY <1>1, <1>2, <1>5, SendUntouched
    <2>2. wire' = wire
      BY <1>5 DEF sendVars
    <2> QED BY <1>4, <2>1, <2>2
  <1>6. CASE ParseChat
    <2>1. SendPacketAfter(<<"PacketParsed">>) /\ deferred' = deferred
      BY <1>6 DEF ParseChat
    <2> QED BY <1>1, <1>4, <2>1, SendPacketKeeps
  <1>7. CASE DispatchDeferred
    <2>1. /\ SendPacketAfter(<<>>)
          /\ deferred > 0 /\ deferred' = deferred - 1
      BY <1>7 DEF DispatchDeferred
    <2>2. deferred' \in Nat
      BY <1>1, <2>1
    <2> QED BY <1>1, <1>4, <2>1, <2>2, SendPacketKeeps
  <1>8. CASE OnSend2
    <2>1. deferred' = deferred
      BY <1>8 DEF OnSend2
    <2> QED BY <1>1, <1>4, <1>8, <2>1, OnSendKeeps
  <1>9. CASE SendFailed
    <2>1. /\ m_socket' = "closed" /\ m_bSendInFlight' = FALSE
          /\ sendOp' = "none" /\ sendItem' = NoItem /\ sendOp # "none"
          /\ UNCHANGED <<m_SendQueue, nextId, sendBytes, wire, deferred,
                         m_ullPendingBytes>>
      BY <1>9 DEF SendFailed, CloseSocketAfter
    <2>2. /\ m_ullPendingBytes \in Nat
          /\ m_ullPendingBytes >= Len(m_SendQueue) * ItemLen
      <3>1. PICK queued \in Nat, rest \in Nat :
                /\ queued = Len(m_SendQueue) * ItemLen
                /\ rest = ItemLen - sendItem.sent
        <4>1. Len(m_SendQueue) * ItemLen \in Nat
          BY <1>1, ItemLenType DEF SendCore, SendShape
        <4>2. ItemLen - sendItem.sent \in Nat
          BY <1>1, <2>1, ItemLenType DEF SendCore, SendShape, Submitted
        <4> QED BY <4>1, <4>2
      <3>2. m_ullPendingBytes \in Nat /\ m_ullPendingBytes >= queued + rest
        BY <1>1, <2>1, <3>1 DEF SendCore, PendingCovers
      <3> QED BY <3>1, <3>2
    <2>3. SendCore'
      BY <1>1, <2>1, <2>2, StoppedSend DEF SendCore
    <2> QED BY <1>1, <1>4, <2>1, <2>3
  <1>10. CASE KernelSends
    <2>1. deferred' = deferred
      BY <1>10 DEF KernelSends
    <2> QED BY <1>1, <1>10, <2>1, KernelSendsKeeps
  <1>11. CASE QueuePacketToWorker
    <2>1. deferred' \in Nat
      BY <1>1, <1>11 DEF QueuePacketToWorker
    <2>2. UNCHANGED sendVars
      BY <1>11 DEF QueuePacketToWorker
    <2> QED BY <1>5, <2>1, <2>2
  <1>12. CASE Start \/ AcceptFails \/ RecvFailed \/ OnRecv \/ ParseInvalidSize
              \/ ParseRejected \/ ParseEnd
    <2>1. UNCHANGED sendVars /\ deferred' = deferred
      BY <1>12 DEF Start, AcceptFails, RecvFailed, OnRecv, ParseInvalidSize,
                   ParseRejected, ParseEnd
    <2> QED BY <1>1, <1>5, <2>1
  <1>13. CASE (\E p \in Packet : ClientWrites(p)) \/ ClientHangsUp
              \/ KernelReceives \/ UNCHANGED vars
    <2>1. UNCHANGED sendVars /\ deferred' = deferred
      BY <1>13 DEF ClientWrites, ClientHangsUp, KernelReceives, vars
    <2> QED BY <1>1, <1>5, <2>1
  <1> QED
    BY <1>6, <1>7, <1>8, <1>9, <1>10, <1>11, <1>12, <1>13
       DEF Next, Dispatch, ParsePackets

-----------------------------------------------------------------------------
(* Events *)

\* What a step does for the observers.
Begins ==
    /\ ~started /\ started' /\ m_socket = "open"
    /\ \/ m_socket' = "open" /\ events' = <<"SessionStarted">>
       \/ /\ m_socket' = "closed"
          /\ \E x \in Seq(Others) :
                 events' = (<<"SessionStarted">> \o x) \o <<"SessionClosed">>

NeverBegins ==
    /\ ~started /\ ~started' /\ m_socket = "open" /\ m_socket' = "closed"
    /\ events' = <<"SessionClosed">>

Silent == UNCHANGED <<started, m_socket, events>>

Reports ==
    /\ started /\ started' /\ m_socket' = m_socket
    /\ \E x \in Seq(Others) : events' = events \o x

Ends ==
    /\ started /\ started' /\ m_socket = "open" /\ m_socket' = "closed"
    /\ \E x \in Seq(Others) : events' = (events \o x) \o <<"SessionClosed">>

\* Reporting keeps a sequence of events.
LEMMA EventsGrow ==
    ASSUME NEW s \in Seq(EventTypes), NEW x \in Seq(Others)
    PROVE  /\ s \o x \in Seq(EventTypes)
           /\ Len(s \o x) = Len(s) + Len(x)
           /\ \A i \in 1..(Len(s) + Len(x)) :
                  (s \o x)[i] = IF i <= Len(s) THEN s[i] ELSE x[i - Len(s)]
  <1>1. x \in Seq(EventTypes)
    <2>1. \A i \in 1..Len(x) : x[i] \in EventTypes
      BY DEF EventTypes
    <2>2. Len(x) \in Nat /\ x = [i \in 1..Len(x) |-> x[i]]
      OBVIOUS
    <2> QED BY <2>1, <2>2
  <1> QED BY <1>1, ConcatProperties, Zenon

\* CloseSocket in a started session ends it, or reports like any other step
\* when the socket was closed before.
LEMMA CloseSocketReports ==
    ASSUME m_socket \in Socket, EventsShape, started, started',
           NEW e \in Seq(Others), CloseSocketAfter(e)
    PROVE  Reports \/ Ends
  <1>1. CASE m_socket = "open"
    BY <1>1 DEF CloseSocketAfter, ClosedEvent, Ends
  <1>2. CASE m_socket = "closed"
    <2>1. events' = (events \o e) \o <<>> /\ m_socket' = m_socket
      BY <1>2 DEF CloseSocketAfter, ClosedEvent
    <2>2. events \o e \in Seq(EventTypes)
      BY EventsGrow DEF EventsShape
    <2>3. events' = events \o e
      BY <2>1, <2>2
    <2> QED BY <2>1, <2>3 DEF Reports
  <1> QED BY <1>1, <1>2 DEF Socket

\* Every step does one of the five.
LEMMA StepReports ==
    ASSUME NotYetStarted, deferred \in Nat, m_socket \in Socket, EventsShape,
           [Next]_vars
    PROVE  Begins \/ NeverBegins \/ Silent \/ Reports \/ Ends
  <1> USE DEF Others
  <1>0. /\ <<>> \in Seq(Others) /\ <<"ProtocolError">> \in Seq(Others)
        /\ <<"RecvCompleted">> \in Seq(Others)
        /\ <<"PacketParsed">> \in Seq(Others)
        /\ <<"SendCompleted">> \in Seq(Others)
        /\ <<"PacketParsed", "ProtocolError">> \in Seq(Others)
        /\ <<"SendCompleted", "ProtocolError">> \in Seq(Others)
    OBVIOUS
  <1>1. CASE Start
    <2>1. events = <<>> /\ ~started /\ m_socket = "open" /\ started' = TRUE
      BY <1>1 DEF Start, NotYetStarted
    <2>2. CASE events' = events \o <<"SessionStarted">> /\ m_socket' = m_socket
      BY <2>1, <2>2 DEF Begins
    <2>3. CASE CloseSocketAfter(<<"SessionStarted">> \o <<"ProtocolError">>)
      <3>1. events' = <<>> \o (<<"SessionStarted">> \o <<"ProtocolError">>)
                          \o <<"SessionClosed">>
            /\ m_socket' = "closed"
        BY <2>1, <2>3 DEF CloseSocketAfter, ClosedEvent
      <3>2. <<"SessionStarted">> \o <<"ProtocolError">> \in Seq(EventTypes)
        BY DEF EventTypes
      <3>3. events' = (<<"SessionStarted">> \o <<"ProtocolError">>)
                          \o <<"SessionClosed">>
        BY <3>1, <3>2
      <3> QED BY <1>0, <2>1, <3>1, <3>3 DEF Begins
    <2> QED BY <1>1, <2>2, <2>3 DEF Start, PostRecvAfter
  <1>2. CASE AcceptFails
    <2>1. events = <<>> /\ ~started /\ m_socket = "open" /\ started' = started
      BY <1>2 DEF AcceptFails, NotYetStarted
    <2>2. events' = <<>> \o <<>> \o <<"SessionClosed">> /\ m_socket' = "closed"
      BY <1>2, <2>1 DEF AcceptFails, CloseSocketAfter, ClosedEvent
    <2> QED BY <2>1, <2>2 DEF NeverBegins
  <1>3. CASE RecvFailed \/ SendFailed \/ ParseInvalidSize
    <2>1. started /\ started'
      BY <1>3, UnderWayIsStarted DEF RecvFailed, SendFailed, ParseInvalidSize
    <2>2. CloseSocketAfter(<<"ProtocolError">>)
      BY <1>3 DEF RecvFailed, SendFailed, ParseInvalidSize
    <2> QED BY <1>0, <2>1, <2>2, CloseSocketReports
  <1>4. CASE OnRecv
    <2>1. started /\ started'
      BY <1>4, UnderWayIsStarted DEF OnRecv
    <2>2. CASE CloseSocketAfter(<<>>)
      BY <1>0, <2>1, <2>2, CloseSocketReports
    <2>3. CASE events' = Append(events, "RecvCompleted") /\ UNCHANGED m_socket
      <3>1. events' = events \o <<"RecvCompleted">>
        BY <2>3 DEF EventsShape
      <3> QED BY <1>0, <2>1, <2>3, <3>1 DEF Reports
    <2> QED BY <1>4, <2>2, <2>3 DEF OnRecv
  <1>5. CASE ParseRejected
    <2>1. started /\ started'
      BY <1>5, UnderWayIsStarted DEF ParseRejected
    <2>2. \/ CloseSocketAfter(<<"ProtocolError">>)
          \/ CloseSocketAfter(<<"PacketParsed", "ProtocolError">>)
      BY <1>5 DEF ParseRejected
    <2> QED BY <1>0, <2>1, <2>2, CloseSocketReports
  <1>6. ASSUME NEW q, NEW e \in Seq(Others), e \o <<"ProtocolError">> \in Seq(Others),
               started, started', PostNextSendFrom(q, e)
        PROVE  Reports \/ Ends
    <2>1. CASE events' = events \o e /\ UNCHANGED m_socket
      BY <1>6, <2>1 DEF Reports
    <2>2. CASE CloseSocketAfter(e \o <<"ProtocolError">>)
      BY <1>6, <2>2, CloseSocketReports
    <2> QED BY <1>6, <2>1, <2>2 DEF PostNextSendFrom
  <1>7. ASSUME NEW e \in Seq(Others), e \o <<"ProtocolError">> \in Seq(Others),
               started, started', SendPacketAfter(e)
        PROVE  Reports \/ Ends
    <2>1. CASE events' = events \o e /\ UNCHANGED m_socket
      BY <1>7, <2>1 DEF Reports
    <2> QED BY <1>6, <1>7, <2>1 DEF SendPacketAfter
  <1>8. CASE ParseChat
    <2>1. started /\ started'
      BY <1>8, UnderWayIsStarted DEF ParseChat
    <2>2. <<"PacketParsed">> \o <<"ProtocolError">> \in Seq(Others)
      OBVIOUS
    <2> QED BY <1>0, <1>7, <1>8, <2>1, <2>2 DEF ParseChat
  <1>9. CASE DispatchDeferred
    <2>1. started /\ started'
      BY <1>9, UnderWayIsStarted DEF DispatchDeferred
    <2>2. <<>> \o <<"ProtocolError">> \in Seq(Others)
      OBVIOUS
    <2> QED BY <1>0, <1>7, <1>9, <2>1, <2>2 DEF DispatchDeferred
  <1>10. CASE OnSend2
    <2>1. started /\ started'
      BY <1>10, UnderWayIsStarted DEF OnSend2
    <2>2. <<"SendCompleted">> \o <<"ProtocolError">> \in Seq(Others)
      OBVIOUS
    <2>3. CASE PostNextSendFrom(m_SendQueue, <<"SendCompleted">>)
      BY <1>0, <1>6, <2>1, <2>2, <2>3
    <2>4. CASE events' = events \o <<"SendCompleted">> /\ UNCHANGED m_socket
      BY <1>0, <2>1, <2>4 DEF Reports
    <2>5. CASE CloseSocketAfter(<<"SendCompleted">> \o <<"ProtocolError">>)
      BY <2>1, <2>2, <2>5, CloseSocketReports
    <2> QED BY <1>10, <2>3, <2>4, <2>5 DEF OnSend2, PartialSendAfter
  <1>11. CASE ParseEnd
    <2>1. started /\ started'
      BY <1>11, UnderWayIsStarted DEF ParseEnd
    <2>2. CASE UNCHANGED <<events, m_socket>>
      BY <1>11, <2>1, <2>2 DEF Silent, ParseEnd
    <2>3. CASE events' = events \o <<>> /\ UNCHANGED m_socket
      BY <1>0, <2>1, <2>3 DEF Reports
    <2>4. CASE CloseSocketAfter(<<>> \o <<"ProtocolError">>)
      <3>1. <<>> \o <<"ProtocolError">> \in Seq(Others)
        OBVIOUS
      <3> QED BY <2>1, <2>4, <3>1, CloseSocketReports
    <2> QED BY <1>11, <2>2, <2>3, <2>4 DEF ParseEnd, PostRecvAfter
  <1>12. CASE QueuePacketToWorker
    <2>1. started /\ started' = started
      BY <1>12 DEF QueuePacketToWorker
    <2>2. CASE UNCHANGED <<events, m_socket>>
      BY <2>1, <2>2 DEF Silent
    <2>3. CASE CloseSocketAfter(<<"ProtocolError">>)
      BY <1>0, <2>1, <2>3, CloseSocketReports
    <2> QED BY <1>12, <2>2, <2>3 DEF QueuePacketToWorker
  <1>13. CASE (\E p \in Packet : ClientWrites(p)) \/ ClientHangsUp
              \/ KernelReceives \/ KernelSends \/ UNCHANGED vars
    BY <1>13 DEF ClientWrites, ClientHangsUp, KernelReceives, KernelSends,
                 vars, Silent
  <1> QED
    BY <1>1, <1>2, <1>3, <1>4, <1>5, <1>8, <1>9, <1>10, <1>11, <1>12, <1>13
       DEF Next, Dispatch, ParsePackets

\* EventProtocol, of any sequence of events.
Marks(s, type) == {i \in 1..Len(s) : s[i] = type}

Protocol(s, begun, socket) ==
    /\ \A i \in 1..Len(s) : s[i] = "SessionStarted" => i = 1
    /\ (begun /\ s # <<>>) => s[1] = "SessionStarted"
    /\ Cardinality(Marks(s, "SessionClosed"))
           = IF socket = "closed" THEN 1 ELSE 0

LEMMA ProtocolIs ==
    /\ EventProtocol <=> Protocol(events, started, m_socket)
    /\ EventProtocol' <=> Protocol(events', started', m_socket')
  BY DEF EventProtocol, Protocol, Count, Marks

\* Reporting other events changes nothing the protocol speaks of.
LEMMA OthersKeepProtocol ==
    ASSUME NEW s \in Seq(EventTypes), NEW x \in Seq(Others), s # <<>>
    PROVE  /\ Marks(s \o x, "SessionClosed") = Marks(s, "SessionClosed")
           /\ Marks(s \o x, "SessionStarted") = Marks(s, "SessionStarted")
           /\ (s \o x)[1] = s[1] /\ s \o x # <<>>
  <1>1. /\ s \o x \in Seq(EventTypes)
        /\ Len(s \o x) = Len(s) + Len(x)
        /\ \A i \in 1..(Len(s) + Len(x)) :
               (s \o x)[i] = IF i <= Len(s) THEN s[i] ELSE x[i - Len(s)]
    BY EventsGrow
  <1>2. Len(s) \in Nat \ {0} /\ Len(x) \in Nat
    OBVIOUS
  <1>3. \A i \in 1..Len(x) : x[i] \in Others
    OBVIOUS
  <1>4. ASSUME NEW type \in {"SessionClosed", "SessionStarted"}
        PROVE  Marks(s \o x, type) = Marks(s, type)
    <2>1. ASSUME NEW i \in 1..(Len(s) + Len(x)), ~(i <= Len(s))
          PROVE  (s \o x)[i] # type
      <3>1. i - Len(s) \in 1..Len(x)
        BY <1>2, <2>1
      <3>2. (s \o x)[i] \in Others
        BY <1>1, <1>3, <2>1, <3>1
      <3> QED BY <3>2 DEF Others
    <2>2. \A i \in 1..Len(s) : i \in 1..(Len(s) + Len(x))
                               /\ (s \o x)[i] = s[i]
      BY <1>1, <1>2
    <2>3. \A i \in 1..(Len(s) + Len(x)) : i <= Len(s) => i \in 1..Len(s)
      BY <1>2
    <2> QED BY <1>1, <2>1, <2>2, <2>3 DEF Marks
  <1>5. (s \o x)[1] = s[1] /\ s \o x # <<>>
    BY <1>1, <1>2
  <1> QED BY <1>4, <1>5

\* SessionClosed is marked once more.
LEMMA ClosedIsMarked ==
    ASSUME NEW s \in Seq(EventTypes), s # <<>>
    PROVE  LET r == s \o <<"SessionClosed">>
           IN  /\ Cardinality(Marks(r, "SessionClosed"))
                      = Cardinality(Marks(s, "SessionClosed")) + 1
               /\ Marks(r, "SessionStarted") = Marks(s, "SessionStarted")
               /\ r[1] = s[1] /\ r \in Seq(EventTypes) /\ r # <<>>
  <1> DEFINE r == s \o <<"SessionClosed">>
  <1>1. /\ r \in Seq(EventTypes) /\ Len(r) = Len(s) + 1
        /\ Len(s) \in Nat \ {0}
        /\ \A i \in 1..Len(s) : r[i] = s[i]
        /\ r[Len(s) + 1] = "SessionClosed"
    <2>1. r = Append(s, "SessionClosed")
      OBVIOUS
    <2> HIDE DEF r
    <2>2. "SessionClosed" \in EventTypes
      BY DEF EventTypes
    <2> QED BY <2>1, <2>2
  <1> HIDE DEF r
  <1>2. /\ Marks(r, "SessionClosed")
               = Marks(s, "SessionClosed") \cup {Len(s) + 1}
        /\ Len(s) + 1 \notin Marks(s, "SessionClosed")
    BY <1>1 DEF Marks
  <1>3. Marks(r, "SessionStarted") = Marks(s, "SessionStarted")
    BY <1>1 DEF Marks
  <1>4. IsFiniteSet(Marks(s, "SessionClosed"))
    <2>1. IsFiniteSet(1..Len(s))
      BY <1>1, FS_Interval
    <2>2. Marks(s, "SessionClosed") \subseteq 1..Len(s)
      BY DEF Marks
    <2> QED BY <2>1, <2>2, FS_Subset
  <1>5. Cardinality(Marks(r, "SessionClosed"))
            = Cardinality(Marks(s, "SessionClosed")) + 1
    BY <1>2, <1>4, FS_AddElement
  <1>6. r[1] = s[1] /\ r # <<>>
    BY <1>1
  <1> QED BY <1>1, <1>3, <1>5, <1>6 DEF r

EventInv == EventsShape /\ EventProtocol

\* Every step keeps the protocol.
LEMMA EventStep ==
    ASSUME EventInv, NotYetStarted, deferred \in Nat, m_socket \in Socket,
           [Next]_vars
    PROVE  EventInv'
  <1>1. Begins \/ NeverBegins \/ Silent \/ Reports \/ Ends
    BY StepReports DEF EventInv
  <1>2. CASE Begins
    <2>1. CASE m_socket' = "open" /\ events' = <<"SessionStarted">>
      <3>1. Marks(<<"SessionStarted">>, "SessionClosed") = {}
        BY DEF Marks
      <3>2. Protocol(events', started', m_socket')
        BY <2>1, <3>1, FS_EmptySet DEF Protocol
      <3>3. EventsShape'
        BY <2>1 DEF EventsShape, EventTypes
      <3> QED BY <3>2, <3>3, ProtocolIs DEF EventInv
    <2>2. CASE /\ m_socket' = "closed"
               /\ \E x \in Seq(Others) :
                      events' = (<<"SessionStarted">> \o x)
                                    \o <<"SessionClosed">>
      <3>1. PICK x \in Seq(Others) :
                events' = (<<"SessionStarted">> \o x) \o <<"SessionClosed">>
        BY <2>2
      <3> DEFINE first == <<"SessionStarted">>
      <3> DEFINE s == first \o x
      <3>2. /\ first \in Seq(EventTypes) /\ first # <<>>
            /\ first[1] = "SessionStarted"
            /\ Marks(first, "SessionClosed") = {}
            /\ Marks(first, "SessionStarted") = {1}
        BY DEF Marks, EventTypes
      <3>3. events' = s \o <<"SessionClosed">>
        BY <3>1
      <3> HIDE DEF first
      <3>4. /\ Marks(s, "SessionClosed") = {}
            /\ Marks(s, "SessionStarted") = {1}
            /\ s[1] = "SessionStarted" /\ s # <<>> /\ s \in Seq(EventTypes)
        BY <3>2, OthersKeepProtocol, EventsGrow
      <3> HIDE DEF s
      <3>5. /\ Cardinality(Marks(events', "SessionClosed"))
                   = Cardinality(Marks(s, "SessionClosed")) + 1
            /\ Marks(events', "SessionStarted") = Marks(s, "SessionStarted")
            /\ events'[1] = s[1]
            /\ events' \in Seq(EventTypes) /\ events' # <<>>
        BY <3>3, <3>4, ClosedIsMarked
      <3>6. Cardinality(Marks(events', "SessionClosed")) = 1
        <4>1. Cardinality(Marks(s, "SessionClosed")) = 0
          BY <3>4, FS_EmptySet
        <4> QED BY <3>5, <4>1
      <3>7. \A i \in 1..Len(events') : events'[i] = "SessionStarted" => i = 1
        BY <3>4, <3>5 DEF Marks
      <3>8. Protocol(events', started', m_socket')
        BY <2>2, <3>4, <3>5, <3>6, <3>7 DEF Protocol
      <3> QED BY <3>5, <3>8, ProtocolIs DEF EventInv, EventsShape
    <2> QED BY <1>2, <2>1, <2>2 DEF Begins
  <1>3. CASE NeverBegins
    <2>1. events' = <<"SessionClosed">> /\ ~started' /\ m_socket' = "closed"
      BY <1>3 DEF NeverBegins
    <2>2. Marks(events', "SessionClosed") = {1}
      BY <2>1 DEF Marks
    <2>3. Cardinality({1}) = 1
      BY FS_Singleton
    <2>4. Protocol(events', started', m_socket')
      BY <2>1, <2>2, <2>3 DEF Protocol
    <2>5. EventsShape'
      BY <2>1 DEF EventsShape, EventTypes
    <2> QED BY <2>4, <2>5, ProtocolIs DEF EventInv
  <1>4. CASE Silent
    BY <1>4 DEF Silent, EventInv, EventsShape, EventProtocol, Count
  <1>5. CASE Reports
    <2>1. PICK x \in Seq(Others) : events' = events \o x
      BY <1>5 DEF Reports
    <2>2. /\ events \in Seq(EventTypes) /\ events # <<>>
          /\ started /\ started' /\ m_socket' = m_socket
      BY <1>5 DEF EventInv, EventsShape, Reports
    <2>3. /\ Marks(events', "SessionClosed") = Marks(events, "SessionClosed")
          /\ Marks(events', "SessionStarted") = Marks(events, "SessionStarted")
          /\ events'[1] = events[1] /\ events' # <<>>
          /\ events' \in Seq(EventTypes)
      BY <2>1, <2>2, OthersKeepProtocol, EventsGrow
    <2>4. Protocol(events, started, m_socket)
      BY ProtocolIs DEF EventInv
    <2>5. Protocol(events', started', m_socket')
      BY <2>2, <2>3, <2>4 DEF Protocol, Marks
    <2> QED BY <2>2, <2>3, <2>5, ProtocolIs DEF EventInv, EventsShape
  <1>6. CASE Ends
    <2>1. PICK x \in Seq(Others) :
              events' = (events \o x) \o <<"SessionClosed">>
      BY <1>6 DEF Ends
    <2>2. /\ events \in Seq(EventTypes) /\ events # <<>>
          /\ started /\ started' /\ m_socket = "open" /\ m_socket' = "closed"
      BY <1>6 DEF EventInv, EventsShape, Ends
    <2> DEFINE s == events \o x
    <2>3. /\ Marks(s, "SessionClosed") = Marks(events, "SessionClosed")
          /\ Marks(s, "SessionStarted") = Marks(events, "SessionStarted")
          /\ s[1] = events[1] /\ s # <<>> /\ s \in Seq(EventTypes)
      BY <2>2, OthersKeepProtocol, EventsGrow
    <2>4. events' = s \o <<"SessionClosed">>
      BY <2>1
    <2> HIDE DEF s
    <2>5. /\ Cardinality(Marks(events', "SessionClosed"))
                 = Cardinality(Marks(s, "SessionClosed")) + 1
          /\ Marks(events', "SessionStarted") = Marks(s, "SessionStarted")
          /\ events'[1] = s[1]
          /\ events' \in Seq(EventTypes) /\ events' # <<>>
      BY <2>3, <2>4, ClosedIsMarked
    <2>6. Protocol(events, started, m_socket)
      BY ProtocolIs DEF EventInv
    <2>7. Cardinality(Marks(events', "SessionClosed")) = 1
      BY <2>2, <2>3, <2>5, <2>6 DEF Protocol
    <2>8. \A i \in 1..Len(events') : events'[i] = "SessionStarted" => i = 1
      BY <2>3, <2>5, <2>6 DEF Protocol, Marks
    <2>9. events'[1] = "SessionStarted"
      BY <2>2, <2>3, <2>5, <2>6 DEF Protocol
    <2>10. Protocol(events', started', m_socket')
      BY <2>2, <2>7, <2>8, <2>9 DEF Protocol
    <2> QED BY <2>2, <2>5, <2>10, ProtocolIs DEF EventInv, EventsShape
  <1> QED BY <1>1, <1>2, <1>3, <1>4, <1>5, <1>6

-----------------------------------------------------------------------------
(* The theorems *)

Flags == started \in BOOLEAN /\ hungUp \in BOOLEAN /\ m_bSendInFlight \in BOOLEAN

LEMMA FlagsStep ==
    ASSUME Flags, [Next]_vars
    PROVE  Flags'
  <1>1. started' = started \/ started' = TRUE
    BY DEF Next, Dispatch, ParsePackets, Start, AcceptFails, RecvFailed,
           OnRecv, SendFailed, OnSend2, DispatchDeferred, ParseInvalidSize,
           ParseRejected, ParseChat, ParseEnd, QueuePacketToWorker,
           ClientWrites, ClientHangsUp, KernelReceives, KernelSends, vars
  <1>2. hungUp' = hungUp \/ hungUp' = TRUE
    BY DEF Next, Dispatch, ParsePackets, Start, AcceptFails, RecvFailed,
           OnRecv, SendFailed, OnSend2, DispatchDeferred, ParseInvalidSize,
           ParseRejected, ParseChat, ParseEnd, QueuePacketToWorker,
           ClientWrites, ClientHangsUp, KernelReceives, KernelSends, vars,
           recvVars, TakePacket
  <1>3. \/ m_bSendInFlight' = m_bSendInFlight
        \/ m_bSendInFlight' = TRUE \/ m_bSendInFlight' = FALSE
    <2>1. CASE SendFailed
      BY <2>1 DEF SendFailed
    <2>2. CASE OnSend2
      BY <2>2 DEF OnSend2, PartialSendAfter, PostNextSendFrom
    <2>3. CASE DispatchDeferred \/ ParseChat
      BY <2>3 DEF DispatchDeferred, ParseChat, SendPacketAfter,
                  PostNextSendFrom
    <2>4. CASE \/ Start \/ AcceptFails \/ RecvFailed \/ OnRecv
               \/ ParseInvalidSize \/ ParseRejected \/ ParseEnd
               \/ QueuePacketToWorker
      BY <2>4 DEF Start, AcceptFails, RecvFailed, OnRecv, ParseInvalidSize,
                  ParseRejected, ParseEnd, QueuePacketToWorker, sendVars
    <2>5. CASE \/ \E p \in Packet : ClientWrites(p)
               \/ ClientHangsUp \/ KernelReceives \/ KernelSends
               \/ UNCHANGED vars
      BY <2>5 DEF ClientWrites, ClientHangsUp, KernelReceives, KernelSends,
                  sendVars, vars
    <2> QED BY <2>1, <2>2, <2>3, <2>4, <2>5 DEF Next, Dispatch, ParsePackets
  <1> QED BY <1>1, <1>2, <1>3, Zenon DEF Flags

SessionInv == ReceiveInv /\ SendInv /\ EventInv /\ Flags

LEMMA SessionInitial == Init => SessionInv
  <1> SUFFICES ASSUME Init PROVE SessionInv
    OBVIOUS
  <1>1. ReceiveInv
    <2>1. RecvShape
      BY SizesAssumption DEF Init, RecvShape, OpState
    <2>2. OneReceive /\ NotYetStarted /\ Receiving
      BY DEF Init, OneReceive, NotYetStarted, Receiving
    <2>3. BytesAccounted
      <3> DEFINE off == [i \in 0..0 |-> 0]
      <3>1. off \in [0..Len(packets) -> Nat] /\ off[0] = 0
        BY DEF Init
      <3>2. Len(packets) = 0 /\ parsed = 0 /\ Unparsed = 0
        BY DEF Init, Unparsed
      <3>3. /\ \A i \in 1..Len(packets) :
                   off[i] = off[i - 1] + WireSize(packets[i])
            /\ off[Len(packets)] = off[parsed] + Unparsed
        BY <3>1, <3>2
      <3> HIDE DEF off
      <3> QED BY <3>1, <3>3 DEF BytesAccounted
    <2> QED BY <2>1, <2>2, <2>3 DEF ReceiveInv
  <1>2. SendInv
    <2>1. SendShape
      BY DEF Init, SendShape, OpState, NoItem
    <2>2. Submitted
      BY DEF Init, Submitted
    <2>3. Sending
      BY ItemLenType DEF Init, Sending
    <2>4. PendingCovers
      BY ItemLenType DEF Init, PendingCovers
    <2>5. WireIsInOrder /\ deferred \in Nat
      BY DEF Init, WireIsInOrder
    <2> QED BY <2>1, <2>2, <2>3, <2>4, <2>5 DEF SendInv
  <1>3. EventInv
    <2>1. Marks(<<>>, "SessionClosed") = {}
      BY DEF Marks
    <2>2. Protocol(<<>>, FALSE, "open")
      BY <2>1, FS_EmptySet DEF Protocol
    <2>3. Protocol(events, started, m_socket)
      BY <2>2 DEF Init
    <2>4. EventsShape
      BY DEF Init, EventsShape
    <2> QED BY <2>3, <2>4, ProtocolIs DEF EventInv
  <1>4. Flags
    BY Zenon DEF Init, Flags
  <1> QED BY <1>1, <1>2, <1>3, <1>4 DEF SessionInv

\* The four parts are inductive together: the receiver needs to know that
\* nothing runs before Start, the events need it too, and that a deferred
\* packet is there when one is dispatched.
LEMMA SessionInvariant == Spec => []SessionInv
  <1>1. SessionInv /\ [Next]_vars => SessionInv'
    <2> SUFFICES ASSUME SessionInv, [Next]_vars PROVE SessionInv'
      OBVIOUS
    <2>1. /\ ReceiveInv /\ SendInv /\ EventInv /\ Flags
          /\ NotYetStarted /\ deferred \in Nat /\ m_socket \in Socket
      BY DEF SessionInv, ReceiveInv, SendInv, RecvShape, Socket
    <2>2. ReceiveInv'
      BY <2>1, ReceiveStep
    <2>3. SendInv'
      BY <2>1, SendStep
    <2>4. EventInv'
      BY <2>1, EventStep
    <2>5. Flags'
      BY <2>1, FlagsStep
    <2> QED BY <2>2, <2>3, <2>4, <2>5 DEF SessionInv
  <1> QED BY <1>1, SessionInitial, PTL DEF Spec

\* The session keeps its type: in particular the ring never holds more than
\* its capacity and m_ullPendingBytes, an unsigned counter, never wraps below
\* zero, however the kernel cuts the sends and whenever they fail.
THEOREM SessionTypeCorrect == Spec => []TypeOK
  <1>1. SessionInv => TypeOK
    <2> SUFFICES ASSUME SessionInv PROVE TypeOK
      OBVIOUS
    <2>1. started \in BOOLEAN /\ hungUp \in BOOLEAN
          /\ m_bSendInFlight \in BOOLEAN
      BY Zenon DEF SessionInv, Flags
    <2>2. m_bBufferFull \in BOOLEAN
      BY Zenon DEF SessionInv, ReceiveInv, Receiving
    <2>3. RecvShape
      BY DEF SessionInv, ReceiveInv
    <2>4. useSize \in 0..UsableCapacity
      BY <2>3, SizesAssumption DEF RecvShape
    <2>5. /\ m_socket \in {"open", "closed"} /\ handler \in {"none", "parse"}
          /\ inFlight \in Nat /\ parsed \in Nat
          /\ recvOp \in {"none", "armed", "done", "failed"}
      BY <2>3 DEF RecvShape, OpState
    <2>6. /\ sendOp \in {"none", "armed", "done", "failed"}
          /\ m_ullPendingBytes \in Nat /\ deferred \in Nat
      BY DEF SessionInv, SendInv, SendShape, PendingCovers, OpState
    <2> QED BY <2>1, <2>2, <2>4, <2>5, <2>6 DEF TypeOK
  <1> QED BY <1>1, SessionInvariant, PTL

\* A started session with an open socket always has its one receive armed or
\* completed, for every ring capacity and all packet sizes a client claims.
THEOREM ReceiverNeverStallsHolds == Spec => []ReceiverNeverStalls
  <1>1. SessionInv => ReceiverNeverStalls
    <2> SUFFICES ASSUME SessionInv PROVE ReceiverNeverStalls
      OBVIOUS
    <2>1. OneReceive /\ Receiving
      BY DEF SessionInv, ReceiveInv
    <2>2. receives <= 1
      BY <2>1 DEF OneReceive
    <2> QED BY <2>1, <2>2 DEF ReceiverNeverStalls, Receiving
  <1> QED BY <1>1, SessionInvariant, PTL

\* Replies leave in the order in which they were queued, byte for byte, for
\* every length of a reply's two buffers and every sequence of partial sends.
THEOREM WireIsInOrderHolds == Spec => []WireIsInOrder
  BY SessionInvariant, PTL DEF SessionInv, SendInv

\* The observers of a session see SessionStarted first and once, and
\* SessionClosed once, as soon as the socket is closed, whichever of the
\* owner worker, another thread or a failed operation closes it.
THEOREM EventProtocolHolds == Spec => []EventProtocol
  BY SessionInvariant, PTL DEF SessionInv, EventInv
-----------------------------------------------------------------------------
(* The ring behind useSize (RecvBuffer.cpp), with one place more than it    *)
(* can hold.  BytesInOrder alone is not inductive: it says nothing of the   *)
(* bytes the kernel has stored and CommitWrite has not yet counted, nor of  *)
(* where the regions of an outstanding receive lie after reads have moved   *)
(* the read position.  RingInv follows both: the k-th byte of the regions   *)
(* is the k-th place after the write position, and the regions end before   *)
(* the read position comes round.                                           *)

\* A position or one that has passed the end once.
Wrap(a) == IF a < m_ullCapacity THEN a ELSE a - m_ullCapacity

InUse == received - taken

Numbers ==
    /\ m_ullReadPos \in Positions /\ m_ullWritePos \in Positions
    /\ received \in Nat /\ taken \in Nat /\ filled \in Nat
    /\ m_vRecvbuffer = [p \in Positions |-> m_vRecvbuffer[p]]

\* The write position is the read position advanced by the bytes in use, of
\* which there is never a full ring.
Distance ==
    /\ taken <= received /\ InUse < m_ullCapacity
    /\ m_ullWritePos = Wrap(m_ullReadPos + InUse)

\* The bytes in use, and behind them the ones stored but not committed.
Stored ==
    /\ \A k \in 1..InUse :
           m_vRecvbuffer[Wrap(m_ullReadPos + k - 1)] = taken + k
    /\ \A k \in 1..filled :
           m_vRecvbuffer[Wrap(m_ullWritePos + k - 1)] = received + k

\* The regions of the outstanding receive are the places after the write
\* position and leave the bytes in use and one place alone.
Armed ==
    /\ bufs = <<>> => filled = 0
    /\ bufs # <<>> =>
           /\ Room(bufs) \in Nat
           /\ filled <= Room(bufs) /\ Room(bufs) + InUse < m_ullCapacity
           /\ \A k \in 1..Room(bufs) : Slot(bufs, k) = Wrap(m_ullWritePos + k - 1)

\* What the last Read returned.
Returned ==
    /\ Len(lastRead) \in Nat /\ Len(lastRead) <= taken
    /\ \A k \in 1..Len(lastRead) : lastRead[k] = taken - Len(lastRead) + k

RingInv == Numbers /\ Distance /\ Stored /\ Armed /\ Returned

-----------------------------------------------------------------------------
\* The positions advance by less than a turn, so % subtracts at most once.
LEMMA ModIsWrap ==
  ASSUME NEW a \in Nat, a < 2 * m_ullCapacity
  PROVE  a % m_ullCapacity = Wrap(a)
<1>1. m_ullCapacity \in Nat /\ m_ullCapacity > 0
  BY CapacityAssumption
<1>2. CASE a < m_ullCapacity
  BY <1>1, <1>2 DEF Wrap
<1>3. CASE a >= m_ullCapacity
  BY <1>1, <1>3 DEF Wrap
<1> QED
  BY <1>1, <1>2, <1>3

LEMMA WrapInRange ==
  ASSUME NEW a \in Nat, a < 2 * m_ullCapacity
  PROVE  Wrap(a) \in Positions
BY CapacityAssumption DEF Wrap, Positions

\* GetUseSize is the number of bytes in use: full and empty differ.
LEMMA UseSize ==
  ASSUME Numbers, Distance
  PROVE  GetUseSize = InUse /\ GetFreeSize = m_ullCapacity - InUse - 1 /\ InUse \in Nat
BY SMTT(40), CapacityAssumption DEF Numbers, Distance, GetUseSize, GetFreeSize, InUse, Wrap, Positions

LEMMA RingStart == RingInit => RingInv
<1> SUFFICES ASSUME RingInit PROVE RingInv
  OBVIOUS
<1>1. Numbers /\ Distance
  BY CapacityAssumption DEF RingInit, Numbers, Distance, InUse, Wrap, Positions
<1>2. Stored /\ Armed /\ Returned
  BY DEF RingInit, Stored, Armed, Returned, InUse
<1> QED
  BY <1>1, <1>2 DEF RingInv

\* The regions GetRecvWsaBuf hands out.
LEMMA RegionsFollow ==
  ASSUME Numbers, Distance
  PROVE  /\ Room(Regions) = m_ullCapacity - InUse - 1
         /\ \A k \in 1..Room(Regions) : Slot(Regions, k) = Wrap(m_ullWritePos + k - 1)
         /\ Regions # <<>>
<1> USE DEF Numbers, Distance, Positions
<1>0. m_ullCapacity \in Nat /\ m_ullCapacity > 0
  BY CapacityAssumption
<1>1. GetFreeSize = m_ullCapacity - InUse - 1 /\ InUse \in Nat
  BY UseSize
<1>2. CASE m_ullWritePos >= m_ullReadPos
  <2> DEFINE tail == Smaller(GetFreeSize, m_ullCapacity - m_ullWritePos)
  <2>1. Regions = <<Region(m_ullWritePos, tail), Region(0, GetFreeSize - tail)>>
    BY <1>2 DEF Regions
  <2>2. tail \in Nat /\ GetFreeSize - tail \in Nat
        /\ (tail = GetFreeSize \/ tail = m_ullCapacity - m_ullWritePos)
        /\ tail <= m_ullCapacity - m_ullWritePos
    BY SMTT(40), <1>0, <1>1 DEF Smaller
  <2> HIDE DEF tail
  <2>3. /\ Regions[1].pos = m_ullWritePos /\ Regions[1].len = tail
        /\ Regions[2].pos = 0 /\ Regions[2].len = GetFreeSize - tail
    BY <2>1 DEF Region
  <2>4. Room(Regions) = GetFreeSize
    BY SMTT(40), <1>0, <1>1, <2>2, <2>3 DEF Room
  <2>5. \A k \in 1..GetFreeSize : Slot(Regions, k) = Wrap(m_ullWritePos + k - 1)
    <3>1. \A k \in 1..GetFreeSize : Slot(Regions, k) = IF k <= tail THEN m_ullWritePos + k - 1
                                                       ELSE 0 + (k - tail) - 1
      BY <2>3 DEF Slot
    <3>2. \A k \in 1..GetFreeSize : (IF k <= tail THEN m_ullWritePos + k - 1
                                     ELSE 0 + (k - tail) - 1) = Wrap(m_ullWritePos + k - 1)
      <4> SUFFICES ASSUME NEW k \in 1..GetFreeSize
                   PROVE  (IF k <= tail THEN m_ullWritePos + k - 1
                           ELSE 0 + (k - tail) - 1) = Wrap(m_ullWritePos + k - 1)
        OBVIOUS
      <4>1. k \in Nat /\ k <= GetFreeSize /\ GetFreeSize \in Int
        BY <1>0, <1>1
      <4>2. m_ullWritePos \in Nat
        BY <1>0
      <4>3. CASE k <= tail
        BY <1>0, <2>2, <4>1, <4>2, <4>3 DEF Wrap
      <4>4. CASE k > tail
        <5>1. tail = m_ullCapacity - m_ullWritePos /\ tail \in Nat
          BY <2>2, <4>1, <4>4
        <5>2. ~(k <= tail) /\ ~(m_ullWritePos + k - 1 < m_ullCapacity)
          BY <1>0, <4>1, <4>2, <4>4, <5>1
        <5>3. 0 + (k - tail) - 1 = m_ullWritePos + k - 1 - m_ullCapacity
          BY <1>0, <4>1, <4>2, <5>1
        <5>4. Wrap(m_ullWritePos + k - 1) = m_ullWritePos + k - 1 - m_ullCapacity
          BY SMTT(40), <1>0, <4>1, <4>2, <4>4, <5>1 DEF Wrap
        <5> QED
          BY <5>2, <5>3, <5>4
      <4> QED
        BY <2>2, <4>1, <4>3, <4>4
    <3> QED
      BY <3>1, <3>2
  <2> QED
    BY <1>1, <2>1, <2>4, <2>5
<1>3. CASE m_ullWritePos < m_ullReadPos
  <2>1. Regions = <<Region(m_ullWritePos, GetFreeSize), Region(0, 0)>>
    BY <1>3 DEF Regions
  <2>2. /\ Regions[1].pos = m_ullWritePos /\ Regions[1].len = GetFreeSize
        /\ Regions[2].pos = 0 /\ Regions[2].len = 0
    BY <2>1 DEF Region
  <2>3. Room(Regions) = GetFreeSize
    BY <1>0, <1>1, <2>2 DEF Room
  <2>4. \A k \in 1..GetFreeSize : Slot(Regions, k) = Wrap(m_ullWritePos + k - 1)
    <3>1. \A k \in 1..GetFreeSize : Slot(Regions, k) = m_ullWritePos + k - 1
      BY <2>2 DEF Slot
    <3>2. \A k \in 1..GetFreeSize : m_ullWritePos + k - 1 = Wrap(m_ullWritePos + k - 1)
      BY SMTT(40), <1>0, <1>1, <1>3 DEF Wrap, InUse
    <3> QED
      BY <3>1, <3>2
  <2> QED
    BY <1>1, <2>1, <2>3, <2>4
<1> QED
  BY <1>2, <1>3

LEMMA ArmStep ==
  ASSUME RingInv, GetRecvWsaBuf
  PROVE  RingInv'
<1> USE DEF RingInv, GetRecvWsaBuf
<1>1. Numbers' /\ Distance' /\ Returned'
  BY DEF Numbers, Distance, Returned, InUse, Wrap
<1>2. filled' = 0 /\ InUse' = InUse
  BY DEF InUse
<1>3. Stored'
  BY <1>2 DEF Stored, Wrap
<1>4. InUse \in Nat /\ InUse < m_ullCapacity /\ m_ullCapacity \in Nat
  BY CapacityAssumption DEF Distance, Numbers, InUse
<1>5. /\ bufs' # <<>> /\ Room(bufs') = m_ullCapacity - InUse - 1
      /\ \A k \in 1..Room(bufs') : Slot(bufs', k) = Wrap(m_ullWritePos + k - 1)
  BY RegionsFollow
<1>6. Armed'
  BY <1>2, <1>4, <1>5 DEF Armed, Wrap
<1> QED
  BY <1>1, <1>3, <1>6

\* The kernel writes behind the bytes in use, never onto them.
LEMMA StoreStep ==
  ASSUME RingInv, KernelStores
  PROVE  RingInv'
<1> USE DEF RingInv
<1>0. /\ m_ullCapacity \in Nat /\ m_ullCapacity > 0 /\ InUse \in Nat
      /\ InUse < m_ullCapacity /\ filled \in Nat /\ Room(bufs) \in Nat /\ filled < Room(bufs)
      /\ Room(bufs) + InUse < m_ullCapacity
      /\ received \in Nat /\ taken \in Nat /\ InUse = received - taken
      /\ m_ullReadPos \in 0..(m_ullCapacity - 1) /\ m_ullWritePos \in 0..(m_ullCapacity - 1)
      /\ m_ullWritePos = Wrap(m_ullReadPos + InUse)
  BY CapacityAssumption DEF Numbers, Distance, Armed, KernelStores, InUse, Positions
<1>1. Slot(bufs, filled + 1) = Wrap(m_ullWritePos + filled)
  BY <1>0 DEF Armed, KernelStores
<1> DEFINE at == Wrap(m_ullWritePos + filled)
<1>2. at \in Positions
  BY <1>0, WrapInRange
<1>3. /\ m_vRecvbuffer' = [m_vRecvbuffer EXCEPT ![at] = received + filled + 1]
      /\ filled' = filled + 1
      /\ UNCHANGED <<m_ullReadPos, m_ullWritePos, bufs, received, taken, lastRead>>
  BY <1>1 DEF KernelStores
<1>4. /\ m_vRecvbuffer'[at] = received + filled + 1
      /\ \A p \in Positions \ {at} : m_vRecvbuffer'[p] = m_vRecvbuffer[p]
      /\ m_vRecvbuffer' = [p \in Positions |-> m_vRecvbuffer'[p]]
  BY <1>2, <1>3 DEF Numbers
<1>5. \A k \in 1..InUse : Wrap(m_ullReadPos + k - 1) \in Positions \ {at}
  BY <1>0 DEF Wrap, Positions
<1>6. \A k \in 1..filled : Wrap(m_ullWritePos + k - 1) \in Positions \ {at}
  BY <1>0 DEF Wrap, Positions
<1> HIDE DEF at
<1>7. Stored'
  <2>1. \A k \in 1..InUse : m_vRecvbuffer'[Wrap(m_ullReadPos + k - 1)] = taken + k
    BY <1>4, <1>5 DEF Stored
  <2>2. \A k \in 1..filled : m_vRecvbuffer'[Wrap(m_ullWritePos + k - 1)] = received + k
    BY <1>4, <1>6 DEF Stored
  <2>3. \A k \in 1..(filled + 1) : m_vRecvbuffer'[Wrap(m_ullWritePos + k - 1)] = received + k
    <3> SUFFICES ASSUME NEW k \in 1..(filled + 1)
                 PROVE  m_vRecvbuffer'[Wrap(m_ullWritePos + k - 1)] = received + k
      OBVIOUS
    <3>1. CASE k = filled + 1
      <4>1. m_ullWritePos + k - 1 = m_ullWritePos + filled /\ received + k = received + filled + 1
        BY <1>0, <3>1
      <4> QED
        BY <1>4, <4>1 DEF at
    <3>2. CASE k # filled + 1
      BY <1>0, <2>2, <3>2
    <3> QED
      BY <3>1, <3>2
  <2>4. InUse' = InUse
    BY <1>3 DEF InUse
  <2> QED
    BY <1>3, <2>1, <2>3, <2>4 DEF Stored, Wrap
<1>8. Numbers'
  BY <1>0, <1>3, <1>4 DEF Numbers
<1>9. Distance' /\ Returned'
  BY <1>3 DEF Distance, Returned, InUse, Wrap
<1>10. Armed'
  <2>1. bufs' = bufs /\ bufs # <<>> /\ InUse' = InUse /\ filled' <= Room(bufs)
    BY <1>0, <1>3 DEF InUse, KernelStores
  <2> QED
    BY <1>0, <1>3, <2>1 DEF Armed, Wrap
<1> QED
  BY <1>7, <1>8, <1>9, <1>10

LEMMA CommitStep ==
  ASSUME RingInv, CommitWrite
  PROVE  RingInv'
<1> USE DEF RingInv
<1>0. /\ m_ullCapacity \in Nat /\ m_ullCapacity > 0 /\ InUse \in Nat
      /\ filled \in Nat /\ filled + InUse < m_ullCapacity
      /\ received \in Nat /\ taken \in Nat /\ InUse = received - taken
      /\ m_ullReadPos \in 0..(m_ullCapacity - 1) /\ m_ullWritePos \in 0..(m_ullCapacity - 1)
      /\ m_ullWritePos = Wrap(m_ullReadPos + InUse)
  <2>1. Room(bufs) \in Nat /\ filled <= Room(bufs) /\ Room(bufs) + InUse < m_ullCapacity
    BY DEF Armed, CommitWrite
  <2> QED
    BY <2>1, CapacityAssumption DEF Numbers, Distance, InUse, Positions
<1>1. m_ullWritePos' = Wrap(m_ullWritePos + filled)
  BY <1>0, ModIsWrap DEF CommitWrite
<1>2. /\ received' = received + filled /\ filled' = 0 /\ bufs' = <<>>
      /\ UNCHANGED <<m_vRecvbuffer, m_ullReadPos, taken, lastRead>>
  BY DEF CommitWrite
<1>3. InUse' = InUse + filled
  BY <1>0, <1>2 DEF InUse
<1>4. Numbers' /\ Distance'
  <2>1. m_ullWritePos' = Wrap(m_ullReadPos + (InUse + filled))
    BY <1>0, <1>1 DEF Wrap
  <2>2. m_ullWritePos' \in Positions
    BY <1>0, <1>1 DEF Wrap, Positions
  <2> QED
    BY <1>0, <1>2, <1>3, <2>1, <2>2 DEF Numbers, Distance, Wrap
<1>5. Stored'
  <2>1. \A k \in 1..(InUse + filled) :
            m_vRecvbuffer[Wrap(m_ullReadPos + k - 1)] = taken + k
    <3> SUFFICES ASSUME NEW k \in 1..(InUse + filled)
                 PROVE  m_vRecvbuffer[Wrap(m_ullReadPos + k - 1)] = taken + k
      OBVIOUS
    <3>1. CASE k <= InUse
      BY <1>0, <3>1 DEF Stored
    <3>2. CASE k > InUse
      <4> DEFINE j == k - InUse
      <4>1. j \in 1..filled /\ received + j = taken + k
        BY <1>0, <3>2
      <4>2. Wrap(m_ullReadPos + k - 1) = Wrap(m_ullWritePos + j - 1)
        BY <1>0, <3>2 DEF Wrap
      <4> HIDE DEF j
      <4> QED
        BY <4>1, <4>2 DEF Stored
    <3> QED
      BY <1>0, <3>1, <3>2
  <2> QED
    BY <1>2, <1>3, <2>1 DEF Stored, Wrap
<1>6. Armed' /\ Returned'
  BY <1>2 DEF Armed, Returned
<1> QED
  BY <1>4, <1>5, <1>6

\* Removing bytes: by Read, Consume.
LEMMA ReadPositionMoves ==
  ASSUME RingInv, NEW n \in Nat, n <= InUse, CommitRead(n),
         UNCHANGED <<m_vRecvbuffer, m_ullWritePos, bufs, filled, received>>
  PROVE  Numbers' /\ Distance' /\ Stored' /\ Armed' /\ taken' = taken + n
<1> USE DEF RingInv
<1>0. /\ m_ullCapacity \in Nat /\ m_ullCapacity > 0 /\ InUse \in Nat
      /\ InUse < m_ullCapacity
      /\ received \in Nat /\ taken \in Nat /\ InUse = received - taken
      /\ m_ullReadPos \in 0..(m_ullCapacity - 1) /\ m_ullWritePos \in 0..(m_ullCapacity - 1)
      /\ m_ullWritePos = Wrap(m_ullReadPos + InUse)
  BY CapacityAssumption DEF Numbers, Distance, InUse, Positions
<1>1. m_ullReadPos' = Wrap(m_ullReadPos + n) /\ taken' = taken + n
  BY <1>0, ModIsWrap DEF CommitRead
<1>2. InUse' = InUse - n
  BY <1>0, <1>1 DEF InUse
<1>3. Numbers' /\ Distance'
  <2>1. m_ullWritePos = Wrap(Wrap(m_ullReadPos + n) + (InUse - n))
    BY <1>0 DEF Wrap
  <2>2. Wrap(m_ullReadPos + n) \in Positions
    BY <1>0 DEF Wrap, Positions
  <2> QED
    BY <1>0, <1>1, <1>2, <2>1, <2>2 DEF Numbers, Distance, Wrap
<1>4. Stored'
  <2>1. \A k \in 1..(InUse - n) :
            m_vRecvbuffer[Wrap(Wrap(m_ullReadPos + n) + k - 1)] = (taken + n) + k
    <3> SUFFICES ASSUME NEW k \in 1..(InUse - n)
                 PROVE  m_vRecvbuffer[Wrap(Wrap(m_ullReadPos + n) + k - 1)] = (taken + n) + k
      OBVIOUS
    <3> DEFINE j == n + k
    <3>1. j \in 1..InUse /\ taken + j = (taken + n) + k
      BY <1>0
    <3>2. Wrap(Wrap(m_ullReadPos + n) + k - 1) = Wrap(m_ullReadPos + j - 1)
      BY <1>0 DEF Wrap
    <3> HIDE DEF j
    <3> QED
      BY <3>1, <3>2 DEF Stored
  <2> QED
    BY <1>1, <1>2, <2>1 DEF Stored, Wrap
<1>5. Armed'
  <2>1. bufs # <<>> => Room(bufs) \in Nat /\ Room(bufs) + (InUse - n) < m_ullCapacity
    BY <1>0 DEF Armed
  <2> QED
    BY <1>2, <2>1 DEF Armed, Wrap, Room, Slot
<1> QED
  BY <1>1, <1>3, <1>4, <1>5

LEMMA ReadStep ==
  ASSUME RingInv, NEW bytes \in 1..m_ullCapacity, Read(bytes)
  PROVE  RingInv'
<1> USE DEF RingInv
<1>0. /\ m_ullCapacity \in Nat /\ m_ullCapacity > 0 /\ InUse \in Nat
      /\ InUse < m_ullCapacity /\ taken \in Nat /\ bytes \in Nat
      /\ m_ullReadPos \in 0..(m_ullCapacity - 1) /\ bytes <= InUse
  BY CapacityAssumption, UseSize DEF Numbers, Distance, InUse, Positions, Read
<1>1. Numbers' /\ Distance' /\ Stored' /\ Armed' /\ taken' = taken + bytes
  BY <1>0, ReadPositionMoves DEF Read
<1>2. lastRead' = PeekCopy(bytes)
  BY DEF Read
<1>3. \A k \in 1..bytes : PeekCopy(bytes)[k] = m_vRecvbuffer[Wrap(m_ullReadPos + k - 1)]
  <2> SUFFICES ASSUME NEW k \in 1..bytes
               PROVE  PeekCopy(bytes)[k] = m_vRecvbuffer[Wrap(m_ullReadPos + k - 1)]
    OBVIOUS
  <2> DEFINE first == Smaller(bytes, m_ullCapacity - m_ullReadPos)
  <2>1. k <= first => Wrap(m_ullReadPos + k - 1) = m_ullReadPos + k - 1
    BY <1>0 DEF Smaller, Wrap
  <2>2. ~(k <= first) => Wrap(m_ullReadPos + k - 1) = k - first - 1
    BY <1>0 DEF Smaller, Wrap
  <2>3. PeekCopy(bytes)[k] = IF k <= first THEN m_vRecvbuffer[m_ullReadPos + k - 1]
                             ELSE m_vRecvbuffer[k - first - 1]
    BY DEF PeekCopy
  <2> HIDE DEF first
  <2> QED
    BY <2>1, <2>2, <2>3
<1>4. Len(PeekCopy(bytes)) = bytes
  BY <1>0 DEF PeekCopy
<1>5. \A k \in 1..bytes : PeekCopy(bytes)[k] = taken + k
  BY <1>0, <1>3 DEF Stored
<1>6. Returned'
  BY <1>0, <1>1, <1>2, <1>4, <1>5 DEF Returned
<1> QED
  BY <1>1, <1>6

LEMMA ConsumeStep ==
  ASSUME RingInv, NEW bytes \in 1..m_ullCapacity, Consume(bytes)
  PROVE  RingInv'
<1> USE DEF RingInv
<1> DEFINE n == Smaller(bytes, GetUseSize)
<1>1. n \in Nat /\ n <= InUse /\ taken \in Nat
  BY CapacityAssumption, UseSize DEF Smaller, Numbers
<1>2. CommitRead(n) /\ lastRead' = <<>>
      /\ UNCHANGED <<m_vRecvbuffer, m_ullWritePos, bufs, filled, received>>
  BY DEF Consume
<1> HIDE DEF n
<1>3. Numbers' /\ Distance' /\ Stored' /\ Armed' /\ taken' = taken + n
  BY <1>1, <1>2, ReadPositionMoves
<1>4. Returned'
  BY <1>1, <1>2, <1>3 DEF Returned
<1> QED
  BY <1>3, <1>4

\* The ring behind GetRecvWsaBuf, CommitWrite, Read and Consume is the queue
\* of the bytes received and not yet removed, for every capacity.
THEOREM BytesInOrderHolds == RingSpec => []BytesInOrder
<1>1. RingInit => RingInv
  BY RingStart
<1>2. RingInv /\ [RingNext]_ringVars => RingInv'
  <2> SUFFICES ASSUME RingInv, [RingNext]_ringVars PROVE RingInv'
    OBVIOUS
  <2>1. CASE UNCHANGED ringVars
    BY <2>1 DEF ringVars, RingInv, Numbers, Distance, Stored, Armed, Returned, InUse, Wrap,
                Room, Slot
  <2> QED
    BY <2>1, ArmStep, StoreStep, CommitStep, ReadStep, ConsumeStep DEF RingNext
<1>3. RingInv => BytesInOrder
  <2> SUFFICES ASSUME RingInv PROVE BytesInOrder
    OBVIOUS
  <2>1. /\ m_ullReadPos \in 0..(m_ullCapacity - 1) /\ InUse \in Nat
        /\ InUse < m_ullCapacity /\ m_ullCapacity \in Nat
    BY CapacityAssumption, UseSize DEF RingInv, Numbers, Distance, Positions
  <2>2. GetUseSize = InUse
    BY UseSize DEF RingInv
  <2>3. \A k \in 1..InUse : (m_ullReadPos + k - 1) % m_ullCapacity = Wrap(m_ullReadPos + k - 1)
    BY <2>1, ModIsWrap
  <2> QED
    BY <2>1, <2>2, <2>3 DEF RingInv, Stored, Returned, BytesInOrder, InUse
<1> QED
  BY <1>1, <1>2, <1>3, PTL DEF RingSpec
=============================================================================
