\* One call, opened at any time; two emulators, so that the size can change or
\* not and a stale connection reach the second; two pictures, so that one can
\* be skipped and one torn; sizes that an image can have, of one and of three
\* pages, and two that it cannot, one with an odd side and one too large.
CONSTANTS
    Streams = {s1}
    Sizes <- SomeSizes
    Rates = {"sane", "absurd"}
    MaxLives = 2
    MaxPictures = 2
    NoFrame = NoFrame
    NotYet = NotYet
SPECIFICATION FairSpec
INVARIANTS TypeOK DownForAReason
PROPERTIES StreamsAreVideo LastPictureShown
\* The emulator may be off for good.
CHECK_DEADLOCK FALSE
