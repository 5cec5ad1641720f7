SPECIFICATION Spec
CONSTANTS
    Pubkey = {k1, k2}
    StrayByte = {0, 255}
    MAX_INPUT_LEN = 400
    Requests <- MCRequests
    NoRequest = NoRequest
INVARIANTS
    TypeOK
    AddressIsOfItsRequest
    SoundRequestServed
    DistinctAccountsDistinctAddresses
    HashedNumbersReadBack
