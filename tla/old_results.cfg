SPECIFICATION Spec
CONSTANTS
    None = None
    Workers = {w1, w2}
    Grids <- MCGrids
    OldFiles <- FilesOfBefore
    Starving <- MCStarving
    SearchKeys <- MCSearchKeys
    MaxSessions = 2
    Interrupts = TRUE
INVARIANTS
    NothingRepeated
\* Nobody has to start another session.
CHECK_DEADLOCK FALSE
