--------------------------- MODULE MC_DeviceRegistry ---------------------------
EXTENDS DeviceRegistry

CONSTANTS s1, s2, c1, c2, c3, p1

MCSerials == {s1, s2}
MCOneSerial == {s1}
MCClients == {c1}
MCTwoClients == {c1, c2}
\* Two clients set the same port in turn while a third removes it.
MCThreeClients == {c1, c2, c3}
MCPorts == {p1}

\* Two sessions: one serial can be found, dropped and found again, or two
\* serials found once each.
MCMaxSessions == 2
MCMaxTasks == 2

MCOpsAll == {"forward", "reverse", "remove"}
MCOpsForwardRemove == {"forward", "remove"}
MCOpsForward == {"forward"}
=============================================================================
