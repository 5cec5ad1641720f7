SPECIFICATION Spec
CONSTANTS
    Pubkey <- MCPubkey
    Internal = Internal
    Requests <- MCRequests
    NoRequest = NoRequest
INVARIANT
    BufferIsMultipleOfItem
