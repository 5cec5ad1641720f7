SPECIFICATION Spec
CONSTANTS
    mainnet = mainnet
    testnet = testnet
    m1 = m1
    m2 = m2
    Empty = Empty
    Path <- MCPath
    Message <- MCMessage
INVARIANTS
    TypeOK
    NoSecretLeft
    WholeResultOrNone
