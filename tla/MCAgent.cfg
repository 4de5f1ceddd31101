\* Two emulators: the one that is current and one left over from before.
CONSTANTS
    MaxStarts = 2
    None = None
SPECIFICATION FairSpec
INVARIANTS TypeOK ErrorHasMessage UnreportedIsCurrent ForcedExitIsClean
           StartingIsNotStale
PROPERTIES ExitReported StateShown
