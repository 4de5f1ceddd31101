\* Streams of one message, so that both directions can be full at once; three
\* messages each way, one more than the stream and a pump can hold.
CONSTANTS
    Window = 1
    MaxRequests = 3
    MaxPackets = 3
SPECIFICATION FairSpec
INVARIANTS TypeOK DeliveredInOrder SuccessIsComplete ConnReleased
PROPERTIES PumpsEnd CancelledCallEnds
\* A call ends, and a device that never reads stops the handler for good.
CHECK_DEADLOCK FALSE
