CONSTANTS
    t1 = t1
    t2 = t2
    Tasks <- MCTasks
    Kinds <- MCKindsRoot
    Chunks <- MCChunks
    IdMax <- MCIdMax
    Conns <- MCConns
SPECIFICATION Spec
INVARIANT CloseDeliversAll
