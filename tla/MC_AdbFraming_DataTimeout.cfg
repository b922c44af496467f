CONSTANTS
    Sent <- MCSent
    HeaderUnits = 6
    BufferSize = 4
    Width = 3
    OpTimeouts <- MCSomeTimeout
SPECIFICATION Spec
INVARIANT FramingAligned
