SPECIFICATION Spec
CONSTANTS
    mainnet = mainnet
    testnet = testnet
    zeros = zeros
    a = a
    b = b
    Byte <- MCByte
    Chunk <- MCChunk
    Capacity <- MCCapacity
    Path <- MCPath
    ValidPath <- MCValidPath
    ZeroPath = zeros
    BadLength = BadLength
    TxPayload <- MCTxPayload
    MessagePayload <- MCMessagePayload
    Closed = Closed
    NoRequest = NoRequest
INVARIANTS
    TypeOK
    UploadIntact
    ReviewCoherent
    OnlyAcceptedGranted
PROPERTIES
    AddressRequestNeverBusy
    ImplementsSigner
