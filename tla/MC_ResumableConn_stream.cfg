\* A byte each way, or two from the server, over at most three transports.
SPECIFICATION Spec
CONSTANTS
    Client = Client
    Server = Server
    Workloads <- MC_Mixed
    MaxConns = 3
    SendBufferSize = 2
    ReceiveBufferSize = 1
    MaxFrame = 2
    ChannelSize = 1
    InOrder = TRUE
INVARIANTS
    TypeOK
    PeerPositionInBuffer
    AcksFit
PROPERTY ImplementsStream
CHECK_DEADLOCK FALSE
