SPECIFICATION Spec
CONSTANTS
    Byte <- MCByte
    MemSize <- MCMemSize
    Payloads <- MCPayloads
    Behinds <- MCBehinds
INVARIANTS
    TypeOK
    AcceptsTheFormat
    SignedIsOnScreen
    ScreensTellTheMessage
