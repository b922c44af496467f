CONSTANTS
    Devices <- MCDevices
    StaleWires <- MCStaleWires
SPECIFICATION Spec
INVARIANT TypeOK
INVARIANT ConnectedMeansOnline
PROPERTY SecureConnectReturns
