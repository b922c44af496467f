CONSTANTS
    Sent <- MCSent
    HeaderUnits = 6
    BufferSize = 4
    Width = 3
    OpTimeouts <- MCBothTimeouts
SPECIFICATION Spec
INVARIANT TypeOK
PROPERTY NoTimeoutRefinesChannel
