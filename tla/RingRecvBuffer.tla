--------------------------- MODULE RingRecvBuffer ---------------------------
(***************************************************************************)
(* The receive ring of a session (src/Server/ServerBase/RecvBuffer.cpp).   *)
(*                                                                         *)
(* Bytes are numbered in the order the peer sends them.  The kernel writes *)
(* received bytes into the two regions GetRecvWsaBuf gave to WSARecv and   *)
(* the session moves the write position when the completion arrives.       *)
(***************************************************************************)
EXTENDS Integers, Sequences

CONSTANTS
    m_ullCapacity,
    MaxBytes       \* bound: bytes received in a behaviour

ASSUME CapacityAssumption == m_ullCapacity \in Nat \ {0}

VARIABLES
    m_vRecvbuffer,   \* the bytes, 0 where nothing was ever written
    m_ullReadPos, m_ullWritePos,
    bufs,            \* regions of the outstanding WSARecv, <<>> when none
    filled,          \* bytes the kernel has put into those regions
    received, taken, \* history: bytes committed by CommitWrite, bytes removed
    lastRead         \* history: the bytes the last Read returned

ringVars == <<m_vRecvbuffer, m_ullReadPos, m_ullWritePos, bufs, filled, received,
          taken, lastRead>>

Positions == 0..(m_ullCapacity - 1)
Smaller(a, b) == IF a < b THEN a ELSE b

-----------------------------------------------------------------------------
GetUseSize ==
    IF m_ullWritePos >= m_ullReadPos
    THEN m_ullWritePos - m_ullReadPos
    ELSE m_ullCapacity - (m_ullReadPos - m_ullWritePos)

GetFreeSize == m_ullCapacity - GetUseSize - 1

Region(pos, len) == [pos |-> pos, len |-> len]

\* Mutant: the wrapped part is not reduced by the tail.
MutRegions ==
    IF m_ullWritePos >= m_ullReadPos
    THEN LET tail == Smaller(GetFreeSize, m_ullCapacity - m_ullWritePos)
         IN  <<Region(m_ullWritePos, tail), Region(0, GetFreeSize)>>
    ELSE <<Region(m_ullWritePos, GetFreeSize), Region(0, 0)>>

\* The two WSABUFs: the tail and the wrapped part, or one piece.
Regions ==
    IF m_ullWritePos >= m_ullReadPos
    THEN LET tail == Smaller(GetFreeSize, m_ullCapacity - m_ullWritePos)
         IN  <<Region(m_ullWritePos, tail), Region(0, GetFreeSize - tail)>>
    ELSE <<Region(m_ullWritePos, GetFreeSize), Region(0, 0)>>

\* The place of the k-th byte of the regions.
Slot(regions, k) ==
    IF k <= regions[1].len THEN regions[1].pos + k - 1
    ELSE regions[2].pos + (k - regions[1].len) - 1

Room(regions) == regions[1].len + regions[2].len

\* What PeekCopy and Read copy out: the bytes up to the end, then the rest.
PeekCopy(bytes) ==
    LET first == Smaller(bytes, m_ullCapacity - m_ullReadPos)
    IN  [k \in 1..bytes |->
            IF k <= first THEN m_vRecvbuffer[m_ullReadPos + k - 1]
            ELSE m_vRecvbuffer[k - first - 1]]

-----------------------------------------------------------------------------
RingInit ==
    /\ m_vRecvbuffer = [p \in Positions |-> 0]
    /\ m_ullReadPos = 0 /\ m_ullWritePos = 0
    /\ bufs = <<>> /\ filled = 0
    /\ received = 0 /\ taken = 0
    /\ lastRead = <<>>

\* PostRecv arms a receive unless the ring is full.
GetRecvWsaBuf ==
    /\ bufs = <<>>
    /\ GetFreeSize > 0
    /\ bufs' = Regions
    /\ filled' = 0
    /\ UNCHANGED <<m_vRecvbuffer, m_ullReadPos, m_ullWritePos, received, taken,
                   lastRead>>

\* The kernel stores the next byte of the stream.
KernelStores ==
    /\ bufs # <<>> /\ filled < Room(bufs)
    /\ received + filled < MaxBytes
    /\ m_vRecvbuffer' =
           [m_vRecvbuffer EXCEPT ![Slot(bufs, filled + 1)] = received + filled + 1]
    /\ filled' = filled + 1
    /\ UNCHANGED <<m_ullReadPos, m_ullWritePos, bufs, received, taken, lastRead>>

\* The completion: CommitWrite(numOfBytes).
CommitWrite ==
    /\ bufs # <<>> /\ filled > 0
    /\ m_ullWritePos' = (m_ullWritePos + filled) % m_ullCapacity
    /\ received' = received + filled
    /\ bufs' = <<>> /\ filled' = 0
    /\ UNCHANGED <<m_vRecvbuffer, m_ullReadPos, taken, lastRead>>

CommitRead(bytes) ==
    /\ m_ullReadPos' = (m_ullReadPos + bytes) % m_ullCapacity
    /\ taken' = taken + bytes

\* Read returns false, changing nothing, when fewer bytes are there.
Read(bytes) ==
    /\ bytes <= GetUseSize
    /\ lastRead' = PeekCopy(bytes)
    /\ CommitRead(bytes)
    /\ UNCHANGED <<m_vRecvbuffer, m_ullWritePos, bufs, filled, received>>

\* Consume removes at most what is there.
Consume(bytes) ==
    /\ CommitRead(Smaller(bytes, GetUseSize))
    /\ lastRead' = <<>>
    /\ UNCHANGED <<m_vRecvbuffer, m_ullWritePos, bufs, filled, received>>

RingNext ==
    \/ GetRecvWsaBuf
    \/ KernelStores
    \/ CommitWrite
    \/ \E bytes \in 1..m_ullCapacity : Read(bytes) \/ Consume(bytes)

RingSpec == RingInit /\ [][RingNext]_ringVars

-----------------------------------------------------------------------------
(* Properties *)

RingTypeOK ==
    /\ DOMAIN m_vRecvbuffer = Positions
    /\ m_ullReadPos \in Positions /\ m_ullWritePos \in Positions
    /\ bufs = <<>> \/ bufs \in [1..2 -> [pos : Positions, len : 0..m_ullCapacity]]
    /\ filled \in Nat /\ received \in Nat /\ taken \in Nat

\* The bytes that were received and not yet removed are in the ring in the
\* order in which they were sent, however often it has wrapped and whatever
\* the kernel is writing into the regions it was given meanwhile; a full ring
\* is never taken for an empty one; and a Read returns the next bytes of the
\* stream, without a gap.
BytesInOrder ==
    /\ GetUseSize = received - taken
    /\ \A k \in 1..GetUseSize :
           m_vRecvbuffer[(m_ullReadPos + k - 1) % m_ullCapacity] = taken + k
    /\ \A k \in 1..Len(lastRead) : lastRead[k] = taken - Len(lastRead) + k
=============================================================================
