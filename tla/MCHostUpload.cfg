SPECIFICATION HostSpec
CONSTANTS
    mainnet = mainnet
    zeros = zeros
    a = a
    b = b
    Byte <- MCByte
    Chunk <- MCChunk
    Capacity <- MCCapacity
    Path <- MCPath
    ValidPath <- MCValidPath
    ZeroPath = zeros
    BadLength = BadLength
    TxPayload <- MCTxPayload
    MessagePayload <- MCMessagePayload
    Closed = Closed
    NoRequest = NoRequest
    Jobs <- MCJobs
    Disturbances <- MCDisturbances
PROPERTY WantedGranted
