--------------------------------- MODULE PMM ---------------------------------
(***************************************************************************)
(* The physical page allocator of kernel/mm/pmm_bootstrap.c, with its      *)
(* three bitmaps as sets of page indices.  Module PMMWords keeps the       *)
(* arithmetic on machine words and implements this one.                    *)
(***************************************************************************)
EXTENDS Integers, FiniteSets

CONSTANTS PMM_MAX_PAGES,    \* pages tracked (256 MiB of them in the kernel)
          SB_PAGE_SIZE,     \* bytes of a page
          Addresses         \* the addresses callers pass in

ASSUME PagesAssumption == PMM_MAX_PAGES \in Nat \ {0}
ASSUME PageSizeAssumption == SB_PAGE_SIZE \in Nat \ {0}
ASSUME AddressesAssumption == Addresses \subseteq Nat

VARIABLES bitmap,             \* pages that may not be handed out
          reserved_bitmap,    \* pages reserved for good
          allocated_bitmap,   \* pages handed out and not freed
          free_count

vars == <<bitmap, reserved_bitmap, allocated_bitmap, free_count>>

Pages == 0 .. PMM_MAX_PAGES - 1

FreePages == Pages \ bitmap

----------------------------------------------------------------------------
(* set_range_bits *)

\* Both ends are rounded inward: the pages that lie wholly inside.
PagesInside(start, end) ==
  {p \in Pages : start <= p * SB_PAGE_SIZE /\ (p + 1) * SB_PAGE_SIZE <= end}

\* make_free = 1: the range is opened, owned and reserved pages excepted.
Opened(R) == (bitmap \ R) \cup ((reserved_bitmap \cup allocated_bitmap) \cap R)

recompute_free_count == free_count' = Cardinality(Pages \ bitmap')

----------------------------------------------------------------------------
(* The operations of pmm.h *)

pmm_reset == /\ bitmap' = Pages
             /\ reserved_bitmap' = {}
             /\ allocated_bitmap' = {}
             /\ free_count' = 0

pmm_add_usable_range(start, end) ==
  /\ bitmap' = Opened(PagesInside(start, end))
  /\ recompute_free_count
  /\ UNCHANGED <<reserved_bitmap, allocated_bitmap>>

pmm_reserve_range(start, end) ==
  /\ bitmap' = bitmap \cup PagesInside(start, end)
  /\ reserved_bitmap' = reserved_bitmap \cup PagesInside(start, end)
  /\ recompute_free_count
  /\ UNCHANGED allocated_bitmap

\* A reset and the first usable range.
pmm_init(start, end) ==
  /\ bitmap' = Pages \ PagesInside(start, end)
  /\ reserved_bitmap' = {}
  /\ allocated_bitmap' = {}
  /\ recompute_free_count

\* The lowest free page; with none the call returns 0 and changes nothing.
pmm_alloc_page ==
  \E p \in FreePages :
    /\ \A q \in FreePages : p <= q
    /\ bitmap' = bitmap \cup {p}
    /\ allocated_bitmap' = allocated_bitmap \cup {p}
    /\ free_count' = IF free_count # 0 THEN free_count - 1 ELSE 0
    /\ UNCHANGED reserved_bitmap

\* Unaligned, untracked and not-allocated addresses are ignored.  A page
\* reserved while it was out stays out of the pool.
pmm_free_page(address) ==
  LET p == address \div SB_PAGE_SIZE IN
  /\ address % SB_PAGE_SIZE = 0
  /\ p \in allocated_bitmap
  /\ allocated_bitmap' = allocated_bitmap \ {p}
  /\ IF p \in reserved_bitmap
     THEN UNCHANGED <<bitmap, free_count>>
     ELSE bitmap' = bitmap \ {p} /\ free_count' = free_count + 1
  /\ UNCHANGED reserved_bitmap

\* kmain resets the allocator before anything else uses it.
Init == /\ bitmap = Pages
        /\ reserved_bitmap = {}
        /\ allocated_bitmap = {}
        /\ free_count = 0

Restart == pmm_reset \/ \E s, e \in Addresses : pmm_init(s, e)

Next == \/ Restart
        \/ \E s, e \in Addresses : pmm_add_usable_range(s, e)
        \/ \E s, e \in Addresses : pmm_reserve_range(s, e)
        \/ pmm_alloc_page
        \/ \E a \in Addresses : pmm_free_page(a)

Spec == Init /\ [][Next]_vars

----------------------------------------------------------------------------
(* Properties *)

\* The bitmaps hold tracked pages and the counter is a number of pages.
TypeOK == /\ bitmap \subseteq Pages
          /\ reserved_bitmap \subseteq Pages
          /\ allocated_bitmap \subseteq Pages
          /\ free_count \in 0 .. PMM_MAX_PAGES

\* No page is both free and owned or reserved: whatever sequence of map
\* merges, reservations, allocations and frees came before, pmm_alloc_page
\* cannot hand out a page that is already out or that is reserved.
OwnedPagesNotFree == reserved_bitmap \cup allocated_bitmap \subseteq bitmap

\* free_count, kept incrementally by pmm_alloc_page and pmm_free_page and
\* recounted by the range operations, is always the number of clear bits
\* (invalid, repeated and reserved frees included).
FreeCountExact == free_count = Cardinality(FreePages)

\* Until the allocator is restarted, a page reserved while nobody owns it
\* (the null page, the kernel image) is never handed out, and a page that is
\* out stays recorded until a free of exactly that page: no map merge
\* releases live ownership.
OwnershipSticks ==
  [][\/ /\ reserved_bitmap \ allocated_bitmap
             \subseteq reserved_bitmap' \ allocated_bitmap'
        /\ \A p \in allocated_bitmap \ allocated_bitmap' :
             pmm_free_page(p * SB_PAGE_SIZE)
     \/ Restart]_vars

Ownership == INSTANCE PageOwnership WITH pool <- FreePages,
                                         owned <- allocated_bitmap

\* The bitmap allocator implements the abstract page ownership its clients
\* rely on.
ImplementsOwnership == Ownership!Spec

=============================================================================
