\* What agent.proto says of a display that is off, with the bounds of
\* MCDisplay.cfg.
CONSTANTS
    Streams = {s1}
    Sizes <- SomeSizes
    Rates = {"sane", "absurd"}
    MaxLives = 2
    MaxPictures = 2
    NoFrame = NoFrame
    NotYet = NotYet
SPECIFICATION FairSpec
PROPERTY OffIsShown
CHECK_DEADLOCK FALSE
