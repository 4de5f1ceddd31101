\* The counterexample: an exit reported before the end of the boot.
CONSTANTS
    MaxStarts = 2
    None = None
SPECIFICATION Spec
INVARIANT RunningHasEmulator
