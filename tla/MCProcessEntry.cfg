CONSTANTS
  Pages <- MCPages
  SB_MAX_PROCESSES = 2
  SB_MAX_THREADS_PER_PROCESS = 1
  Pids = {0, 1}
  Images <- MCImages
  SB_PAGE_SIZE = 2
  PT_ENTRIES = 2
  PML4_ENTRIES = 8
  U64 = 128
  SB_USER_BASE = 16
  SB_USER_LIMIT = 48
  SB_USER_STACK_TOP = 24
  SB_USER_STACK_PAGES = 2
SPECIFICATION Spec
INVARIANTS
  EntryExecutable
