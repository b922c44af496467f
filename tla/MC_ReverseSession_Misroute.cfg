CONSTANTS
    h1 = h1
    h2 = h2
    Reverses <- MCReverses
    MaxOpens = 2
    Chunks = 1
    HostChunks = 1
    IdMax = 4
SPECIFICATION Spec
INVARIANT OpenRoutedToOwner
