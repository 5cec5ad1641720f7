SPECIFICATION Spec
CONSTANTS
    Byte <- MCByte
    ZeroByte = 0
    Chunk <- MCChunk
    RamSize = 2
    FlashSize = 4
INVARIANTS
    TypeOK
PROPERTIES
    ImplementsUploadBuffer
