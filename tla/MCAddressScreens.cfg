SPECIFICATION FairScreensSpec
CONSTANTS
    Pubkey <- MCPubkey
    Internal = Internal
    Requests <- MCScreenRequests
    NoRequest = NoRequest
    INT_MAX = 127
    Vaults <- MCVaults
    NoVault = NoVault
INVARIANTS
    TypeOK
    ScreensTypeOK
    ShownKeysAreHashedKeys
    WellFormedAccepted
    ReviewedAccountIsSound
    WholeAccountShown
    EachItemOnce
PROPERTIES
    RequestDecided
    EveryStepDecides
