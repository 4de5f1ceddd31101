\* Two calls, one of which may stall; channels of one line, and as many lines
\* as a stalled call can hold and one more; two boots.
CONSTANTS
    Handlers = {h1, h2}
    Capacity = 1
    MaxLines = 3
    MaxBoots = 2
SPECIFICATION FairSpec
INVARIANTS TypeOK MissesOnlyDroppedOrCutOff
PROPERTIES NoHeadOfLineBlocking CancelledCallEnds
\* Clients and emulators may stop for ever.
CHECK_DEADLOCK FALSE
