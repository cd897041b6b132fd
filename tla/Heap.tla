-------------------------------- MODULE Heap --------------------------------
(***************************************************************************)
(* The bootstrap kernel heap (kernel/mm/heap.c) on top of the page         *)
(* allocator it shares with the rest of the kernel: at most one live       *)
(* allocation, of at most one page.  The other owners of pages (page       *)
(* tables, process images, the self-tests) free only what they hold; a     *)
(* pointer passed to kheap_free may be anything.                           *)
(***************************************************************************)
EXTENDS PMM

CONSTANTS U64,        \* 2^64, where sizes wrap
          Sizes       \* the sizes callers ask for

ASSUME U64Assumption == U64 \in Nat \ {0}
ASSUME SizesAssumption == Sizes \subseteq 0 .. U64 - 1

VARIABLES initialized, active_base, active_requested,
          others      \* pages the rest of the kernel holds

heap_vars == <<initialized, active_base, active_requested>>
all_vars == <<vars, heap_vars, others>>

ActivePages == IF active_base = 0 THEN {} ELSE {active_base \div SB_PAGE_SIZE}

----------------------------------------------------------------------------
(* Mutants *)

\* Only sizes above a page are refused, not those that wrap to no page at all.
MutWrapAccepted(size) == ((size + SB_PAGE_SIZE - 1) % U64) \div SB_PAGE_SIZE <= 1

\* Any pointer into the page frees it, and the record is kept.
MutKeepsRecord == UNCHANGED <<active_base, active_requested>>

----------------------------------------------------------------------------
round_up_pages(size) == ((size + SB_PAGE_SIZE - 1) % U64) \div SB_PAGE_SIZE

OnePage(size) == round_up_pages(size) = 1

kheap_init ==
  /\ ~ initialized
  /\ initialized' = TRUE
  /\ active_base' = 0 /\ active_requested' = 0
  /\ UNCHANGED <<vars, others>>

\* Every other request returns 0 and changes nothing; so does this one when
\* the allocator has no page.
kheap_alloc(size) ==
  /\ initialized /\ size # 0 /\ active_base = 0
  /\ OnePage(size)
  /\ pmm_alloc_page
  /\ \E p \in allocated_bitmap' \ allocated_bitmap : active_base' = p * SB_PAGE_SIZE
  /\ active_requested' = size
  /\ UNCHANGED <<initialized, others>>

ForgetRecord == active_base' = 0 /\ active_requested' = 0

\* A pointer that is not the live allocation is ignored.
kheap_free(ptr) ==
  /\ initialized /\ ptr # 0 /\ ptr = active_base
  /\ pmm_free_page(active_base)
  /\ ForgetRecord
  /\ UNCHANGED <<initialized, others>>

----------------------------------------------------------------------------
OtherAlloc == /\ pmm_alloc_page
              /\ others' = others \cup (allocated_bitmap' \ allocated_bitmap)
              /\ UNCHANGED heap_vars

OtherFree(p) == /\ p \in others
                /\ pmm_free_page(p * SB_PAGE_SIZE)
                /\ others' = others \ {p}
                /\ UNCHANGED heap_vars

----------------------------------------------------------------------------
(* Properties *)

\* A live allocation has room for what was asked for, sizes next to 2^64
\* included.
RequestFits == active_base # 0 => active_requested \in 1 .. SB_PAGE_SIZE

=============================================================================
