--------------------------- MODULE MC_SyncSession ---------------------------
(* Instances of SyncSession: sizes scaled so a tag is 2 units, a u32 1,    *)
(* a DENT header 3 and DENT_MIN_SIZE 4; names are 0 or 1 units long.       *)
EXTENDS SyncSession

MCCmdSize == 2
MCU32Width == 1
MCDentHeaderSize == 3
MCSyncMaxChunk == 2
MCMaxChunk == 3
MCMaxDoneWrites == 2

\* a directory with an empty and a one-unit name
MCListings == {<<0, 1>>, <<1>>}

MCListScripts == {<<"LIST">>, <<"RECV", "LIST">>}
MCSendScripts ==
    {<<"STAT", "SEND", "DATA", "DONE", "QUIT">>, <<"SEND", "DATA", "DONE", "LIST">>,
     <<"SEND", "DATA", "BAD">>, <<"SEND">>, <<"LIST0">>, <<"DENT">>, <<>>}
MCSessionScripts == MCListScripts \cup MCSendScripts
=============================================================================
