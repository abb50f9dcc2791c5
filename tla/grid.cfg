SPECIFICATION FairSpec
CONSTANTS
    None = None
    Workers = {w1, w2}
    Grids <- MCGrids
    OldFiles <- NewFile
    Starving <- MCStarving
    SearchKeys <- MCSearchKeys
    MaxSessions = 2
    Interrupts = TRUE
INVARIANTS
    TypeOK
    TasksAccounted
    FoundStillTrue
    NothingRepeated
    NothingSkipped
PROPERTIES
    SessionEnds
\* Nobody has to start another session.
CHECK_DEADLOCK FALSE
