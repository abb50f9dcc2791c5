SPECIFICATION Spec
CONSTANTS
    SearchKeys <- MCSearchKeys
    Pairs <- MCPairs
INVARIANTS
    RunnableAsQueued
CHECK_DEADLOCK FALSE
