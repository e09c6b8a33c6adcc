SPECIFICATION FairSpec
CONSTANTS
    HeaderSize = 1
    UsableCapacity = 2
    PacketSizes = {0, 2, 3}
    Payloads = {"chat", "malformed"}
    HeaderLen = 2
    BodyLen = 1
    MaxPackets = 2
    MaxDeferred = 1
INVARIANTS
    ReceiverNeverStalls
    EventProtocol
    WireIsInOrder
PROPERTIES
    ClosedSessionIsReleased
    ArrivedPacketIsHandled
CHECK_DEADLOCK FALSE
