CONSTANTS
    CmdSize <- MCCmdSize
    U32Width <- MCU32Width
    DentHeaderSize <- MCDentHeaderSize
    SyncMaxChunk <- MCSyncMaxChunk
    MaxChunk <- MCMaxChunk
    MaxDoneWrites <- MCMaxDoneWrites
    Listings <- MCListings
    Scripts <- MCSessionScripts
SPECIFICATION Spec
INVARIANT TypeOK
INVARIANT ListForwardsWholeEntries
