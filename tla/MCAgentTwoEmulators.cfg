\* The counterexample: a failed stop, then a second start.
CONSTANTS
    MaxStarts = 2
    None = None
SPECIFICATION Spec
INVARIANT AtMostOneEmulator
