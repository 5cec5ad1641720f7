SPECIFICATION Spec
CONSTANTS
    Byte <- MCByte
    MemSize <- MCMemSize
    Payloads <- MCPayloads
    Behinds <- MCBehinds
INVARIANT
    EmptyShownAsEmpty
