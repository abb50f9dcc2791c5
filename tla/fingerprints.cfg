SPECIFICATION Spec
CONSTANTS
    SearchKeys <- MCSearchKeys
    Pairs <- MCPairs
INVARIANTS
    TypeOK
    QueuedIsWhatWasAsked
    RowStandsForItsExperiment
\* A configuration whose fingerprint is known is at the end of its life.
CHECK_DEADLOCK FALSE
