SPECIFICATION StorageSpec
CONSTANTS
    SB_MAX_BLOCK_DEVICES = 3
    TEST_SECTORS = 3
    SECTORS = 10
    MAX_COUNT = 2
    ATA_POLL_LIMIT = 2
    DIGIT = 2
    TOP_DIGIT = 2
    Requests <- MCRequests
INVARIANTS
    ReadExact
    WriteExact
PROPERTIES
    TableKeepsDevices
    CallsReturn
