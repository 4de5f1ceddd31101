\* Two builders at once, two releases, and archives of two blocks, so that one
\* process can empty the file between two writes of the other.
CONSTANTS
    Processes = {d1, d2}
    Versions = {v1, v2}
    Blocks = 2
    Nobody = Nobody
SYMMETRY Symmetry
SPECIFICATION Spec
INVARIANTS TypeOK SuccessIsWhole
