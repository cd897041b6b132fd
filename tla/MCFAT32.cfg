SPECIFICATION Spec
CONSTANTS
    U32 = 32
    SB_FAT32_SECTOR_BYTES = 4
    SB_FAT32_ENTRY_SIZE = 2
    FAT_ENTRY_BYTES = 2
    FAT_MASK = 16
    SB_FAT32_EOC_MIN = 14
    Disks <- MCDisks
    Words <- MCWords
    Indices <- MCIndices
    Requests <- MCRequests
INVARIANTS
    MountSound
    ReadExact
    FailsForAReason
    EntryExact
PROPERTIES
    CallsReturn
