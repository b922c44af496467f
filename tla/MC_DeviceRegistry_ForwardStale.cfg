CONSTANTS
    s1 = s1
    s2 = s2
    c1 = c1
    c2 = c2
    c3 = c3
    p1 = p1
    Serials <- MCOneSerial
    Clients <- MCClients
    Ports <- MCPorts
    Ops <- MCOpsForward
    MaxSessions <- MCMaxSessions
    MaxTasks <- MCMaxTasks
SPECIFICATION Spec
INVARIANT NoOrphanPortTasks
