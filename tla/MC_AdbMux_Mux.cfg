CONSTANTS
    t1 = t1
    t2 = t2
    Tasks <- MCTasks
    Kinds <- MCKindsAll
    Chunks <- MCChunks
    IdMax <- MCIdMax
    Conns <- MCConns
SPECIFICATION Spec
INVARIANT TypeOK
INVARIANT DeliveredIsPrefixOfSent
INVARIANT RemoteIdIsOwnStream
