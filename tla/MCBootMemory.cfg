CONSTANTS
  PMM_MAX_PAGES = 7
  SB_PAGE_SIZE = 64
  Addresses = {}
  ADDR_MAX = 1023
  U32 = 1024
  TOP_BYTE = 256
  SB_MB2_MAX_INFO_SIZE = 144
  SB_MB2_MAX_TAGS = 4
  SB_MB2_MAX_MMAP_ENTRIES = 3
  SB_MB2_MAX_MODULES = 1
  REPORT_MAX_TAGS = 3
  kernel_start = 64
  kernel_end = 128
  window_start = 192
  window_end = 384
  InfoAddresses <- MCInfoAddresses
  TotalSizes <- MCTotalSizes
  Tags <- MCTags
  MapEntries <- MCMapEntries
SPECIFICATION BootSpec
INVARIANTS
  PoolIsSafeRAM
  ReadsInsideInfo
  FoundModuleReserved
PROPERTIES
  WalkEnds
