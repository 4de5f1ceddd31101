\* Streams of two messages, so that order can go wrong in one and each writer
\* can be made to wait; three blocks, one more than a stream holds.
CONSTANTS
    Window = 2
    MaxBlocks = 3
SPECIFICATION FairSpec
INVARIANT TypeOK
PROPERTIES TransferSpec CancelledCallEnds
\* A call ends, and client and device may stop for ever.
CHECK_DEADLOCK FALSE
