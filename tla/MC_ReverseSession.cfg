CONSTANTS
    h1 = h1
    h2 = h2
    Reverses <- MCOneReverse
    MaxOpens = 2
    Chunks = 1
    HostChunks = 1
    IdMax = 3
SPECIFICATION Spec
INVARIANT TypeOK
PROPERTY CurrentStreamRelayed
