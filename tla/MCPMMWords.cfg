CONSTANTS
  PMM_MAX_PAGES = 5
  SB_PAGE_SIZE = 2
  WORD_BITS = 2
  Addresses <- MCAddresses
SPECIFICATION Spec
INVARIANTS
  AllocFailsOnlyWhenFull
  OwnedPagesNotFree
  FreeCountExact
PROPERTIES
  ImplementsPMM
  OwnershipSticks
  ImplementsOwnership
