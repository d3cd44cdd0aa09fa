\* A handler of the server may attach late, after that of a newer transport.
SPECIFICATION Spec
CONSTANTS
    Client = Client
    Server = Server
    Workloads <- MC_Download
    MaxConns = 3
    SendBufferSize = 2
    ReceiveBufferSize = 1
    MaxFrame = 2
    ChannelSize = 1
    InOrder = FALSE
INVARIANT EndMeansEnd
CHECK_DEADLOCK FALSE
