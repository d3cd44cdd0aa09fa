\* Two bytes through buffers of one byte, over at most two transports.
SPECIFICATION FairSpec
CONSTANTS
    Client = Client
    Server = Server
    Workloads <- MC_Upload
    MaxConns = 2
    SendBufferSize = 1
    ReceiveBufferSize = 1
    MaxFrame = 2
    ChannelSize = 1
    InOrder = TRUE
PROPERTIES
    EverythingArrives
    CloseIsNoticed
    TransportsReleased
CHECK_DEADLOCK FALSE
