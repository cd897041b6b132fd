CONSTANTS
  PMM_MAX_PAGES = 4
  SB_PAGE_SIZE = 4
  Addresses <- MCAddresses
  U64 = 64
  Sizes <- MCSizes
  PT_ENTRIES = 3
  Requests <- MCRequests
  Canonical <- MCCanonical
  VAs <- MCVAs
SPECIFICATION MemorySpec
INVARIANTS
  PagesBalanced
  RequestFits
  TLBCoherent
PROPERTIES
  ImplementsAddressMap
