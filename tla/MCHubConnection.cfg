\* A tool call and the two attempts of a serve share a connection that loses a
\* socket to the network and is forced to reconnect once: three sockets in all.
SPECIFICATION FairSpec
CONSTANTS
    r1 = r1
    s1 = s1
    s2 = s2
    Requests = {r1}
    ToolCalls = {r1}
    ServeAttempts <- MCServe
    OutboundBuffer = 1
    CtlBuffer = 2
    MaxBreaks = 1
INVARIANTS TypeOK WaiterIffUnresolved ParkedOnLiveSocket ExitFailsEveryCall
PROPERTIES CallsEnd ShutdownEnds ImplementsRequestReply
CHECK_DEADLOCK FALSE
