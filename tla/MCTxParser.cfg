SPECIFICATION Spec
CONSTANTS
    MaxCompact <- MCMaxCompact
    GENESIS_LENGTH = 1
    ADDRESS_LENGTH = 2
    PUB_KEY_LENGTH = 1
    MAX_MULTISIG_PUB_KEY = 3
    UINT32_MAX = 100
    Payloads <- MCPayloads
    Transactions <- MCTransactions
INVARIANTS
    TypeOK
    FieldsTileTheUpload
    ScreensShowTheTransaction
    NoOtherScreens
    ReadsTransactionsAsMeant
    ScreensTellTheTransaction
    AcceptsTheGrammar
