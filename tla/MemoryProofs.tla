----------------------------- MODULE MemoryProofs ----------------------------
(***************************************************************************)
(* Proofs about the page allocator alone, and about the kernel's page      *)
(* tables and its heap on the allocator they share, for every number of    *)
(* pages, entries, addresses and requests.  VMMLemmas has what is about    *)
(* the tables alone.                                                       *)
(***************************************************************************)
EXTENDS VMMLemmas, FiniteSetTheorems

----------------------------------------------------------------------------
(* The page allocator.  The inductive invariant is the conjunction of the   *)
(* three state invariants: the exact free counter needs the bitmap to       *)
(* contain the owned pages, since a freed page is counted only because its  *)
(* bit was set before.                                                      *)

IInv == TypeOK /\ OwnedPagesNotFree /\ FreeCountExact

\* There are finitely many pages, so every set of pages can be counted and
\* has at most PMM_MAX_PAGES members.
LEMMA PagesCount ==
  ASSUME NEW S \in SUBSET Pages
  PROVE  /\ IsFiniteSet(S)
         /\ Cardinality(S) \in 0 .. PMM_MAX_PAGES
<1>1. IsFiniteSet(Pages) /\ Cardinality(Pages) = PMM_MAX_PAGES
  BY FS_Interval, PagesAssumption DEF Pages
<1>2. IsFiniteSet(S) /\ Cardinality(S) <= PMM_MAX_PAGES
  BY Zenon, <1>1, FS_Subset
<1>3. Cardinality(S) \in Nat
  BY Zenon, <1>2, FS_CardinalityType
<1> QED
  BY SMTT(30), <1>2, <1>3, PagesAssumption

\* A range, however it is placed, yields tracked pages only.
LEMMA RangeInPages ==
  ASSUME NEW s, NEW e
  PROVE  PagesInside(s, e) \subseteq Pages
BY Zenon DEF PagesInside

\* The reset state satisfies the invariant.
LEMMA InitInv == Init => IInv
<1> SUFFICES ASSUME Init PROVE IInv
  OBVIOUS
<1>1. Cardinality({}) = 0
  BY Zenon, FS_EmptySet
<1>2. FreePages = {}
  BY Zenon DEF Init, FreePages
<1> QED
  BY SMTT(30), <1>1, <1>2, PagesAssumption
     DEF Init, IInv, TypeOK, OwnedPagesNotFree, FreeCountExact

\* A recount over a bitmap of tracked pages restores the exact counter.
LEMMA Recount ==
  ASSUME bitmap' \subseteq Pages, recompute_free_count
  PROVE  FreeCountExact' /\ free_count' \in 0 .. PMM_MAX_PAGES
<1>1. Pages \ bitmap' \in SUBSET Pages
  OBVIOUS
<1>2. Cardinality(Pages \ bitmap') \in 0 .. PMM_MAX_PAGES
  BY Zenon, <1>1, PagesCount
<1> QED
  BY Zenon, <1>2 DEF recompute_free_count, FreeCountExact, FreePages, Pages

\* pmm_reset, from any state, reaches the state with every page blocked.
LEMMA ResetInv == ASSUME pmm_reset PROVE IInv'
<1>1. Cardinality({}) = 0
  BY Zenon, FS_EmptySet
<1>2. FreePages' = {}
  BY Zenon DEF pmm_reset, FreePages, Pages
<1> QED
  BY SMTT(30), <1>1, <1>2, PagesAssumption
     DEF pmm_reset, IInv, TypeOK, OwnedPagesNotFree, FreeCountExact, Pages

\* pmm_init opens one range of the reset bitmap and recounts.
LEMMA InitRangeInv ==
  ASSUME NEW s \in Addresses, NEW e \in Addresses, pmm_init(s, e)
  PROVE  IInv'
<1>1. bitmap' \subseteq Pages
  BY Zenon DEF pmm_init
<1>2. FreeCountExact' /\ free_count' \in 0 .. PMM_MAX_PAGES
  BY Zenon, <1>1, Recount DEF pmm_init
<1> QED
  BY Zenon, <1>1, <1>2 DEF pmm_init, IInv, TypeOK, OwnedPagesNotFree, Pages

\* Merging a usable range leaves owned and reserved pages out of the pool.
LEMMA AddUsableInv ==
  ASSUME IInv, NEW s \in Addresses, NEW e \in Addresses,
         pmm_add_usable_range(s, e)
  PROVE  IInv'
<1>1. bitmap' \subseteq Pages
  BY Zenon DEF pmm_add_usable_range, Opened, IInv, TypeOK
<1>2. FreeCountExact' /\ free_count' \in 0 .. PMM_MAX_PAGES
  BY Zenon, <1>1, Recount DEF pmm_add_usable_range
<1>3. OwnedPagesNotFree'
  BY Zenon DEF pmm_add_usable_range, Opened, IInv, OwnedPagesNotFree
<1>4. TypeOK'
  BY Zenon, <1>1, <1>2 DEF pmm_add_usable_range, IInv, TypeOK, Pages
<1> QED
  BY Zenon, <1>2, <1>3, <1>4 DEF IInv

\* A reservation only takes pages out of the pool, and recounts.
LEMMA ReserveInv ==
  ASSUME IInv, NEW s \in Addresses, NEW e \in Addresses,
         pmm_reserve_range(s, e)
  PROVE  IInv'
<1>1. PagesInside(s, e) \subseteq Pages
  BY Zenon, RangeInPages
<1>2. bitmap' \subseteq Pages /\ reserved_bitmap' \subseteq Pages
  BY Zenon, <1>1 DEF pmm_reserve_range, IInv, TypeOK
<1>3. FreeCountExact' /\ free_count' \in 0 .. PMM_MAX_PAGES
  BY Zenon, <1>2, Recount DEF pmm_reserve_range
<1>4. OwnedPagesNotFree'
  BY Zenon DEF pmm_reserve_range, IInv, OwnedPagesNotFree
<1>5. TypeOK'
  BY Zenon, <1>2, <1>3 DEF pmm_reserve_range, IInv, TypeOK, Pages
<1> QED
  BY Zenon, <1>3, <1>4, <1>5 DEF IInv

\* Taking one page out of the pool lowers the count by exactly one.
LEMMA AllocInv == ASSUME IInv, pmm_alloc_page PROVE IInv'
<1>1. PICK p \in FreePages :
        /\ bitmap' = bitmap \cup {p}
        /\ allocated_bitmap' = allocated_bitmap \cup {p}
        /\ free_count' = IF free_count # 0 THEN free_count - 1 ELSE 0
        /\ reserved_bitmap' = reserved_bitmap
  BY Zenon DEF pmm_alloc_page
<1>2. p \in Pages /\ p \notin bitmap
  BY Zenon, <1>1 DEF FreePages
<1>3. FreePages' = FreePages \ {p}
  BY Zenon, <1>1 DEF FreePages, Pages
<1>4. FreePages \in SUBSET Pages
  BY Zenon DEF FreePages
<1>5. /\ IsFiniteSet(FreePages)
      /\ Cardinality(FreePages) \in 0 .. PMM_MAX_PAGES
  BY Zenon, <1>4, PagesCount
<1>6. Cardinality(FreePages \ {p}) = Cardinality(FreePages) - 1
  BY Zenon, <1>1, <1>5, FS_RemoveElement
<1>7. FreePages \ {p} \in SUBSET Pages
  BY Zenon, <1>4
<1>8. Cardinality(FreePages \ {p}) \in 0 .. PMM_MAX_PAGES
  BY Zenon, <1>7, PagesCount
<1>9. free_count = Cardinality(FreePages)
  BY Zenon DEF IInv, FreeCountExact
<1>10. free_count' = Cardinality(FreePages) - 1
  BY SMTT(30), <1>1, <1>5, <1>6, <1>8, <1>9, PagesAssumption
<1>11. FreeCountExact'
  BY Zenon, <1>3, <1>6, <1>10 DEF FreeCountExact
<1>12. TypeOK'
  BY Zenon, <1>1, <1>2, <1>6, <1>8, <1>10 DEF IInv, TypeOK, Pages
<1>13. OwnedPagesNotFree'
  BY Zenon, <1>1 DEF IInv, OwnedPagesNotFree
<1> QED
  BY Zenon, <1>11, <1>12, <1>13 DEF IInv

\* A free raises the count only for a page whose bit was set.
LEMMA FreeInv ==
  ASSUME IInv, NEW a, pmm_free_page(a)
  PROVE  IInv'
<1> DEFINE p == a \div SB_PAGE_SIZE
<1>1. /\ p \in allocated_bitmap
      /\ allocated_bitmap' = allocated_bitmap \ {p}
      /\ reserved_bitmap' = reserved_bitmap
      /\ IF p \in reserved_bitmap
         THEN bitmap' = bitmap /\ free_count' = free_count
         ELSE bitmap' = bitmap \ {p} /\ free_count' = free_count + 1
  BY Zenon DEF pmm_free_page
<1> HIDE DEF p
<1>2. p \in Pages /\ p \in bitmap
  BY Zenon, <1>1 DEF IInv, TypeOK, OwnedPagesNotFree
<1>3. CASE p \in reserved_bitmap
  BY Zenon, <1>1, <1>3
     DEF IInv, TypeOK, OwnedPagesNotFree, FreeCountExact, FreePages, Pages
<1>4. CASE p \notin reserved_bitmap
  <2>1. bitmap' = bitmap \ {p} /\ free_count' = free_count + 1
    BY Zenon, <1>1, <1>4
  <2>2. FreePages' = FreePages \cup {p} /\ p \notin FreePages
    BY Zenon, <1>2, <2>1 DEF FreePages, Pages
  <2>3. FreePages \in SUBSET Pages /\ FreePages \cup {p} \in SUBSET Pages
    BY Zenon, <1>2 DEF FreePages
  <2>4. /\ IsFiniteSet(FreePages)
        /\ Cardinality(FreePages) \in 0 .. PMM_MAX_PAGES
        /\ Cardinality(FreePages \cup {p}) \in 0 .. PMM_MAX_PAGES
    BY Zenon, <2>3, PagesCount
  <2>5. Cardinality(FreePages \cup {p}) = Cardinality(FreePages) + 1
    BY Zenon, <2>2, <2>4, FS_AddElement
  <2>6. free_count' = Cardinality(FreePages \cup {p})
    BY Zenon, <2>1, <2>5 DEF IInv, FreeCountExact
  <2>7. FreeCountExact'
    BY Zenon, <2>2, <2>6 DEF FreeCountExact
  <2>8. TypeOK'
    BY Zenon, <1>1, <2>1, <2>4, <2>6 DEF IInv, TypeOK, Pages
  <2>9. OwnedPagesNotFree'
    BY Zenon, <1>1, <1>4, <2>1 DEF IInv, OwnedPagesNotFree
  <2> QED
    BY Zenon, <2>7, <2>8, <2>9 DEF IInv
<1> QED
  BY Zenon, <1>3, <1>4

\* Every step of every operation keeps the invariant.
LEMMA StepInv == IInv /\ [Next]_vars => IInv'
<1> SUFFICES ASSUME IInv, [Next]_vars PROVE IInv'
  OBVIOUS
<1>1. CASE pmm_reset
  BY Zenon, <1>1, ResetInv
<1>2. CASE \E s, e \in Addresses : pmm_init(s, e)
  BY Zenon, <1>2, InitRangeInv
<1>3. CASE \E s, e \in Addresses : pmm_add_usable_range(s, e)
  BY Zenon, <1>3, AddUsableInv
<1>4. CASE \E s, e \in Addresses : pmm_reserve_range(s, e)
  BY Zenon, <1>4, ReserveInv
<1>5. CASE pmm_alloc_page
  BY Zenon, <1>5, AllocInv
<1>6. CASE \E a \in Addresses : pmm_free_page(a)
  BY Zenon, <1>6, FreeInv
<1>7. CASE UNCHANGED vars
  BY Zenon, <1>7 DEF vars, IInv, TypeOK, OwnedPagesNotFree, FreeCountExact,
              FreePages, Pages
<1> QED
  BY Zenon, <1>1, <1>2, <1>3, <1>4, <1>5, <1>6, <1>7 DEF Next, Restart

\* The invariant holds in every reachable state of the allocator.
LEMMA Invariance == Spec => []IInv
BY InitInv, StepInv, PTL DEF Spec

\* The bitmaps never hold an untracked page and the counter stays in range.
THEOREM TypeCorrect == Spec => []TypeOK
BY Invariance, PTL DEF IInv

\* pmm_alloc_page never finds an owned or reserved page free.
THEOREM NoDoubleOwnership == Spec => []OwnedPagesNotFree
BY Invariance, PTL DEF IInv

\* The free counter is exact after any sequence of calls.
THEOREM FreeCounterExact == Spec => []FreeCountExact
BY Invariance, PTL DEF IInv

\* The address of a page divides back to the page: the only address whose
\* free can clear page p is p * SB_PAGE_SIZE.
LEMMA AlignedAddress ==
  ASSUME NEW a \in Nat, a % SB_PAGE_SIZE = 0
  PROVE  a = (a \div SB_PAGE_SIZE) * SB_PAGE_SIZE
BY PageSizeAssumption

\* Until a restart, reservations of unowned pages stay and an owned page is
\* given up only by a free of its own address.
THEOREM OwnershipIsStable == Spec => OwnershipSticks
<1> DEFINE Kept == \/ /\ reserved_bitmap \ allocated_bitmap
                           \subseteq reserved_bitmap' \ allocated_bitmap'
                      /\ \A p \in allocated_bitmap \ allocated_bitmap' :
                           pmm_free_page(p * SB_PAGE_SIZE)
                   \/ Restart
<1>1. IInv /\ [Next]_vars => [Kept]_vars
  <2> SUFFICES ASSUME IInv, Next PROVE Kept
    OBVIOUS
  <2>1. CASE Restart
    BY Zenon, <2>1
  <2>2. CASE \E s, e \in Addresses : pmm_add_usable_range(s, e)
    BY Zenon, <2>2 DEF pmm_add_usable_range
  <2>3. CASE \E s, e \in Addresses : pmm_reserve_range(s, e)
    BY Zenon, <2>3 DEF pmm_reserve_range
  <2>4. CASE pmm_alloc_page
    BY Zenon, <2>4 DEF pmm_alloc_page, FreePages, IInv, OwnedPagesNotFree
  <2>5. CASE \E a \in Addresses : pmm_free_page(a)
    <3>1. PICK a \in Addresses : pmm_free_page(a)
      BY Zenon, <2>5
    <3> DEFINE q == a \div SB_PAGE_SIZE
    <3>2. /\ a % SB_PAGE_SIZE = 0
          /\ allocated_bitmap' = allocated_bitmap \ {q}
          /\ reserved_bitmap' = reserved_bitmap
      BY Zenon, <3>1 DEF pmm_free_page
    <3>3. a = q * SB_PAGE_SIZE
      BY Zenon, <3>2, AlignedAddress, AddressesAssumption
    <3>4. pmm_free_page(q * SB_PAGE_SIZE)
      BY Zenon, <3>1, <3>3
    <3> HIDE DEF q
    <3> QED
      BY Zenon, <3>2, <3>4
  <2> QED
    BY Zenon, <2>1, <2>2, <2>3, <2>4, <2>5 DEF Next
<1> QED
  BY <1>1, Invariance, PTL DEF Spec, OwnershipSticks

\* The bitmap allocator implements PageOwnership: its free pages are the
\* pool, its allocated pages the owned ones.
THEOREM OwnershipImplemented == Spec => ImplementsOwnership
<1>1. Init => Ownership!Init
  BY Zenon DEF Init, Ownership!Init, FreePages
<1>2. IInv /\ [Next]_vars => [Ownership!Next]_(Ownership!vars)
  <2> SUFFICES ASSUME IInv, [Next]_vars
               PROVE  [Ownership!Next]_(Ownership!vars)
    OBVIOUS
  <2>1. CASE Restart
    <3>1. Ownership!Restart
      BY Zenon, <2>1 DEF Restart, pmm_reset, pmm_init, Ownership!Restart, FreePages, Pages
    <3> QED
      BY Zenon, <3>1 DEF Ownership!Next
  <2>2. CASE \E s, e \in Addresses : pmm_add_usable_range(s, e)
    <3>1. PICK s \in Addresses, e \in Addresses : pmm_add_usable_range(s, e)
      BY Zenon, <2>2
    <3>2. bitmap' = Opened(PagesInside(s, e)) /\ allocated_bitmap' = allocated_bitmap
      BY Zenon, <3>1 DEF pmm_add_usable_range
    <3>3. bitmap' \subseteq bitmap
      BY Zenon, <3>2 DEF Opened, IInv, OwnedPagesNotFree
    <3>4. allocated_bitmap \subseteq bitmap'
      BY Zenon, <3>2 DEF Opened, IInv, OwnedPagesNotFree
    <3>5. Ownership!Publish
      BY Zenon, <3>2, <3>3, <3>4 DEF Ownership!Publish, FreePages, Pages
    <3> QED
      BY Zenon, <3>5 DEF Ownership!Next
  <2>3. CASE \E s, e \in Addresses : pmm_reserve_range(s, e)
    <3>1. Ownership!Withdraw
      BY Zenon, <2>3 DEF pmm_reserve_range, Ownership!Withdraw, FreePages, Pages
    <3> QED
      BY Zenon, <3>1 DEF Ownership!Next
  <2>4. CASE pmm_alloc_page
    <3>1. PICK p \in FreePages : /\ bitmap' = bitmap \cup {p}
                                 /\ allocated_bitmap' = allocated_bitmap \cup {p}
      BY Zenon, <2>4 DEF pmm_alloc_page
    <3>2. Ownership!Take(p) /\ p \in Pages
      BY Zenon, <3>1 DEF Ownership!Take, FreePages, Pages
    <3> QED
      BY Zenon, <3>2 DEF Ownership!Next
  <2>5. CASE \E a \in Addresses : pmm_free_page(a)
    <3>1. PICK a \in Addresses : pmm_free_page(a)
      BY Zenon, <2>5
    <3> DEFINE p == a \div SB_PAGE_SIZE
    <3>2. /\ p \in allocated_bitmap
          /\ allocated_bitmap' = allocated_bitmap \ {p}
          /\ bitmap' = bitmap \/ bitmap' = bitmap \ {p}
      BY Zenon, <3>1 DEF pmm_free_page
    <3> HIDE DEF p
    <3>3. p \in Pages
      BY Zenon, <3>2 DEF IInv, TypeOK
    <3>4. FreePages' \in {FreePages, FreePages \cup {p}}
      BY Zenon, <3>2, <3>3 DEF FreePages, Pages
    <3>5. Ownership!GiveBack(p)
      BY Zenon, <3>2, <3>4 DEF Ownership!GiveBack
    <3> QED
      BY Zenon, <3>3, <3>5 DEF Ownership!Next
  <2>6. CASE UNCHANGED vars
    BY Zenon, <2>6 DEF vars, Ownership!vars, FreePages, Pages
  <2> QED
    BY Zenon, <2>1, <2>2, <2>3, <2>4, <2>5, <2>6 DEF Next
<1> QED
  BY <1>1, <1>2, Invariance, PTL DEF Spec, ImplementsOwnership, Ownership!Spec

----------------------------------------------------------------------------
(* The page tables and the heap *)

\* No allocated page is reserved, so a free always puts the page back; the
\* null page is reserved, so an active_base of 0 means no allocation.
PoolInv ==
  /\ IInv
  /\ bitmap = reserved_bitmap \cup allocated_bitmap
  /\ reserved_bitmap \cap allocated_bitmap = {}
  /\ 0 \in reserved_bitmap

HeapInv ==
  /\ active_base = 0 \/ \E p \in allocated_bitmap : active_base = p * SB_PAGE_SIZE
  /\ ~ initialized => active_base = 0
  /\ RequestFits

\* Whose page each allocated page is.
OwnersInv ==
  /\ ActivePages \cap others = {}
  /\ ActivePages \cap TablePages = {}
  /\ ActivePages \cap TestPages = {}
  /\ others \cap TablePages = {}
  /\ others \cap TestPages = {}
  /\ TablePages \cap TestPages = {}
  /\ allocated_bitmap = ActivePages \cup others \cup TablePages \cup TestPages
  /\ test \in Seq(Pages)
  /\ \A i, j \in 1 .. Len(test) : test[i] = test[j] => i = j

PagesInv == PoolInv /\ HeapInv /\ OwnersInv

MemoryInv == PagesInv /\ TableInv

----------------------------------------------------------------------------
(* The allocator *)

\* Page numbers and addresses: a page's address divides back to the page.
LEMMA PageAddress ==
  ASSUME NEW p \in Pages
  PROVE  /\ p * SB_PAGE_SIZE \in Nat
         /\ (p * SB_PAGE_SIZE) \div SB_PAGE_SIZE = p
         /\ (p * SB_PAGE_SIZE = 0) <=> (p = 0)
<1>1. p \in Nat
  BY PagesAssumption DEF Pages
<1>2. \A n, m \in Nat : m > 0 => (n * m) \div m = n /\ n * m \in Nat
  OBVIOUS
<1>3. \A n, m \in Nat : m > 0 /\ n * m = 0 => n = 0
  OBVIOUS
<1> QED
  BY SMTT(30), <1>1, <1>2, <1>3, PageSizeAssumption

\* pmm_alloc_page hands out one page, neither allocated nor reserved.
LEMMA AllocStep ==
  ASSUME PoolInv, pmm_alloc_page
  PROVE  /\ PoolInv'
         /\ \E p \in Pages \ ({0} \cup allocated_bitmap) :
              /\ allocated_bitmap' = allocated_bitmap \cup {p}
              /\ allocated_bitmap' \ allocated_bitmap = {p}
<1>1. IInv'
  BY Zenon, AllocInv DEF PoolInv
<1>2. PICK p \in FreePages :
        /\ bitmap' = bitmap \cup {p}
        /\ allocated_bitmap' = allocated_bitmap \cup {p}
        /\ reserved_bitmap' = reserved_bitmap
  BY Zenon DEF pmm_alloc_page
<1>3. p \in Pages /\ p \notin bitmap
  BY Zenon, <1>2 DEF FreePages
<1>4. p \in Pages \ ({0} \cup allocated_bitmap)
  BY Zenon, <1>3 DEF PoolInv
<1>5. PoolInv'
  BY Zenon, <1>1, <1>2, <1>3 DEF PoolInv
<1> QED
  BY Zenon, <1>2, <1>4, <1>5

\* A free of an allocated page takes exactly that page back.
LEMMA FreeStep ==
  ASSUME PoolInv, NEW p \in Pages, pmm_free_page(p * SB_PAGE_SIZE)
  PROVE  /\ PoolInv'
         /\ p \in allocated_bitmap
         /\ allocated_bitmap' = allocated_bitmap \ {p}
<1>1. IInv'
  BY Zenon, FreeInv DEF PoolInv
<1>2. (p * SB_PAGE_SIZE) \div SB_PAGE_SIZE = p
  BY Zenon, PageAddress
<1>3. /\ p \in allocated_bitmap
      /\ allocated_bitmap' = allocated_bitmap \ {p}
      /\ reserved_bitmap' = reserved_bitmap
      /\ IF p \in reserved_bitmap THEN bitmap' = bitmap ELSE bitmap' = bitmap \ {p}
  BY Zenon, <1>2 DEF pmm_free_page
<1>4. p \notin reserved_bitmap
  BY Zenon, <1>3 DEF PoolInv
<1> QED
  BY Zenon, <1>1, <1>3, <1>4 DEF PoolInv

----------------------------------------------------------------------------
(* The heap *)

\* Arithmetic on a machine word: a sum wraps at most once.
LEMMA WrapsOnce ==
  ASSUME NEW m \in Nat \ {0}, NEW s \in Nat
  PROVE  /\ s % m \in 0 .. m - 1
         /\ s < m => s % m = s
         /\ m <= s /\ s < 2 * m => s % m = s - m
OBVIOUS

\* round_up_pages is 1 only for the sizes that fit one page: a size next to
\* 2^64 wraps to no page at all.
LEMMA RequestBound ==
  ASSUME NEW size \in 0 .. U64 - 1, size # 0, OnePage(size)
  PROVE  size \in 1 .. SB_PAGE_SIZE
<1> DEFINE s == size + SB_PAGE_SIZE - 1
           x == s % U64
<1>1. s \in Nat /\ U64 \in Nat \ {0} /\ SB_PAGE_SIZE \in Nat \ {0}
  BY SMTT(30), U64Assumption, PageSizeAssumption
<1>2. x \in 0 .. U64 - 1 /\ (s < U64 => x = s)
      /\ (U64 <= s /\ s < 2 * U64 => x = s - U64)
  <2> HIDE DEF s
  <2> QED
    BY Zenon, <1>1, WrapsOnce
<1>3. x \div SB_PAGE_SIZE = 1
  BY Zenon DEF OnePage, round_up_pages
<1> HIDE DEF x
<1>4. \A n, d \in Nat : d > 0 /\ n \div d = 1 => d <= n /\ n < 2 * d
  OBVIOUS
<1>5. SB_PAGE_SIZE <= x /\ x < 2 * SB_PAGE_SIZE
  BY SMTT(30), <1>1, <1>2, <1>3, <1>4
<1> QED
  BY SMTT(30), <1>1, <1>2, <1>5

\* kheap_alloc takes a page nobody has.
LEMMA HeapAllocInv ==
  ASSUME PagesInv, NEW size \in Sizes, kheap_alloc(size), UNCHANGED vmm_vars
  PROVE  PagesInv'
<1>1. PICK p \in Pages \ ({0} \cup allocated_bitmap) :
        /\ allocated_bitmap' = allocated_bitmap \cup {p}
        /\ allocated_bitmap' \ allocated_bitmap = {p}
        /\ PoolInv'
  BY Zenon, AllocStep DEF kheap_alloc, PagesInv
<1>2. /\ active_base = 0 /\ active_base' = p * SB_PAGE_SIZE
      /\ active_requested' = size /\ initialized' = initialized /\ initialized
  BY Zenon, <1>1 DEF kheap_alloc
<1>3. ActivePages = {} /\ ActivePages' = {p}
  BY Zenon, <1>2, PageAddress DEF ActivePages
<1>4. HeapInv'
  <2>1. size \in 1 .. SB_PAGE_SIZE
    BY Zenon, RequestBound, SizesAssumption DEF kheap_alloc
  <2> QED
    BY Zenon, <1>1, <1>2, <2>1 DEF HeapInv, RequestFits
<1>5. others' = others /\ TablePages' = TablePages /\ TestPages' = TestPages /\ test' = test
  BY Zenon DEF kheap_alloc, vmm_vars, TablePages, TestPages, Pages
<1>6. OwnersInv'
  BY Zenon, <1>1, <1>3, <1>5 DEF PagesInv, OwnersInv, Pages
<1> QED
  BY Zenon, <1>1, <1>4, <1>6 DEF PagesInv

\* kheap_init runs before there is an allocation to forget.
LEMMA HeapInitInv ==
  ASSUME PagesInv, kheap_init, UNCHANGED vmm_vars
  PROVE  PagesInv'
<1>1. active_base = 0 /\ active_base' = 0
  BY Zenon DEF kheap_init, PagesInv, HeapInv
<1>2. /\ UNCHANGED <<bitmap, reserved_bitmap, allocated_bitmap, free_count, others>>
      /\ UNCHANGED <<tables, test>>
  BY Zenon DEF kheap_init, vars, vmm_vars
<1>3. PoolInv'
  BY Zenon, <1>2 DEF PagesInv, PoolInv, IInv, TypeOK, OwnedPagesNotFree, FreeCountExact,
              FreePages, Pages
<1>4. OwnersInv'
  BY SMTT(30), <1>1, <1>2 DEF PagesInv, OwnersInv, ActivePages, TablePages, TestPages, Pages
<1>5. HeapInv'
  BY Zenon, <1>1 DEF HeapInv, RequestFits
<1> QED
  BY Zenon, <1>3, <1>4, <1>5 DEF PagesInv

\* kheap_free gives back the page of the live allocation and no other.
LEMMA HeapFreeInv ==
  ASSUME PagesInv, NEW ptr, kheap_free(ptr), UNCHANGED vmm_vars
  PROVE  PagesInv'
<1>1. active_base # 0 /\ active_base' = 0 /\ initialized' = initialized
  BY Zenon DEF kheap_free, ForgetRecord
<1>2. PICK p \in allocated_bitmap : active_base = p * SB_PAGE_SIZE
  BY Zenon, <1>1 DEF PagesInv, HeapInv
<1>3. p \in Pages
  BY Zenon, <1>2 DEF PagesInv, PoolInv, IInv, TypeOK
<1>4. PoolInv' /\ allocated_bitmap' = allocated_bitmap \ {p}
  BY Zenon, <1>2, <1>3, FreeStep DEF kheap_free, PagesInv
<1>5. ActivePages = {p} /\ ActivePages' = {}
  BY Zenon, <1>1, <1>2, <1>3, PageAddress DEF ActivePages
<1>6. others' = others /\ TablePages' = TablePages /\ TestPages' = TestPages /\ test' = test
  BY Zenon DEF kheap_free, vmm_vars, TablePages, TestPages, Pages
<1>7. OwnersInv'
  BY Zenon, <1>4, <1>5, <1>6 DEF PagesInv, OwnersInv, Pages
<1>8. HeapInv'
  BY Zenon, <1>1 DEF HeapInv, RequestFits
<1> QED
  BY Zenon, <1>4, <1>7, <1>8 DEF PagesInv

----------------------------------------------------------------------------
(* The other owners *)

\* The heap's part does not depend on what others allocate.
LEMMA HeapKept ==
  ASSUME HeapInv, UNCHANGED heap_vars, allocated_bitmap \subseteq allocated_bitmap'
  PROVE  HeapInv' /\ ActivePages' = ActivePages
BY Zenon DEF HeapInv, heap_vars, RequestFits, ActivePages

\* Nor on what they free: the heap's page is not theirs.
LEMMA HeapUnfreed ==
  ASSUME HeapInv, allocated_bitmap \subseteq Pages, UNCHANGED heap_vars,
         NEW q, q \notin ActivePages, allocated_bitmap' = allocated_bitmap \ {q}
  PROVE  HeapInv' /\ ActivePages' = ActivePages
<1>1. ActivePages' = ActivePages
  BY Zenon DEF heap_vars, ActivePages
<1>2. CASE active_base = 0
  BY Zenon, <1>1, <1>2 DEF HeapInv, heap_vars, RequestFits
<1>3. CASE active_base # 0
  <2>1. PICK p \in allocated_bitmap : active_base = p * SB_PAGE_SIZE
    BY Zenon, <1>3 DEF HeapInv
  <2>2. p # q
    BY Zenon, <1>3, <2>1, PageAddress DEF ActivePages
  <2> QED
    BY Zenon, <1>1, <2>1, <2>2 DEF HeapInv, heap_vars, RequestFits
<1> QED
  BY Zenon, <1>2, <1>3

\* So does the rest of the kernel: a page it takes from the pool is its own,
LEMMA OtherAllocInv ==
  ASSUME PagesInv, OtherAlloc, UNCHANGED vmm_vars
  PROVE  PagesInv'
<1>1. PICK p \in Pages \ ({0} \cup allocated_bitmap) :
        /\ allocated_bitmap' = allocated_bitmap \cup {p}
        /\ allocated_bitmap' \ allocated_bitmap = {p}
        /\ PoolInv'
  BY Zenon, AllocStep DEF OtherAlloc, PagesInv
<1>2. HeapInv' /\ ActivePages' = ActivePages
  BY Zenon, <1>1, HeapKept DEF OtherAlloc, PagesInv
<1>3. others' = others \cup {p}
  BY Zenon, <1>1 DEF OtherAlloc
<1>4. TablePages' = TablePages /\ TestPages' = TestPages /\ test' = test
  BY Zenon DEF vmm_vars, TablePages, TestPages, Pages
<1>5. OwnersInv'
  BY Zenon, <1>1, <1>2, <1>3, <1>4 DEF PagesInv, OwnersInv, Pages
<1> QED
  BY Zenon, <1>1, <1>2, <1>5 DEF PagesInv

\* and one it gives back was.
LEMMA OtherFreeInv ==
  ASSUME PagesInv, NEW p \in Pages, OtherFree(p), UNCHANGED vmm_vars
  PROVE  PagesInv'
<1>1. PoolInv' /\ allocated_bitmap' = allocated_bitmap \ {p}
  BY Zenon, FreeStep DEF OtherFree, PagesInv
<1>2. others' = others \ {p} /\ p \in others
  BY Zenon DEF OtherFree
<1>3. p \notin ActivePages /\ allocated_bitmap \subseteq Pages
  BY Zenon, <1>2 DEF PagesInv, OwnersInv, PoolInv, IInv, TypeOK
<1>4. HeapInv' /\ ActivePages' = ActivePages
  BY Zenon, <1>1, <1>3, HeapUnfreed DEF OtherFree, PagesInv
<1>5. TablePages' = TablePages /\ TestPages' = TestPages /\ test' = test
  BY Zenon DEF vmm_vars, TablePages, TestPages, Pages
<1>6. OwnersInv'
  BY Zenon, <1>1, <1>2, <1>4, <1>5 DEF PagesInv, OwnersInv, Pages
<1> QED
  BY Zenon, <1>1, <1>4, <1>6 DEF PagesInv

\* A page the self-test takes is a new one.
LEMMA TestTakePages ==
  ASSUME PagesInv, TestTake
  PROVE  PagesInv' /\ Len(test') = Len(test) + 1
<1>1. PICK p \in Pages \ ({0} \cup allocated_bitmap) :
        /\ allocated_bitmap' = allocated_bitmap \cup {p}
        /\ allocated_bitmap' \ allocated_bitmap = {p}
        /\ PoolInv'
  BY Zenon, AllocStep DEF TestTake, PagesInv
<1>2. HeapInv' /\ ActivePages' = ActivePages
  BY Zenon, <1>1, HeapKept DEF TestTake, PagesInv
<1>3. test' = Append(test, p) /\ test \in Seq(Pages)
  BY Zenon, <1>1 DEF TestTake, PagesInv, OwnersInv
<1>4. /\ test' \in Seq(Pages) /\ Len(test') = Len(test) + 1 /\ Len(test) \in Nat
      /\ \A i \in 1 .. Len(test) : test'[i] = test[i] /\ test[i] \in Pages
      /\ test'[Len(test) + 1] = p
      /\ DOMAIN test = 1 .. Len(test) /\ DOMAIN test' = 1 .. (Len(test) + 1)
  BY SMTT(30), <1>1, <1>3
<1>5. TestPages' = TestPages \cup {p}
  BY <1>4 DEF TestPages
<1>6. p \notin TestPages /\ p \notin ActivePages /\ p \notin others /\ p \notin TablePages
  BY Zenon, <1>1 DEF PagesInv, OwnersInv
<1>7. \A i, j \in 1 .. Len(test') : test'[i] = test'[j] => i = j
  <2>1. \A i \in 1 .. Len(test) : test[i] # p
    BY Zenon, <1>4, <1>6 DEF TestPages
  <2>2. \A i, j \in 1 .. Len(test) : test[i] = test[j] => i = j
    BY Zenon DEF PagesInv, OwnersInv
  <2> QED
    BY SMTT(30), <1>4, <2>1, <2>2
<1>8. others' = others /\ TablePages' = TablePages
  BY Zenon DEF TestTake, TablePages, Pages
<1>9. OwnersInv'
  BY ZenonT(40), <1>1, <1>2, <1>4, <1>5, <1>6, <1>7, <1>8 DEF PagesInv, OwnersInv, Pages
<1> QED
  BY Zenon, <1>1, <1>2, <1>4, <1>9 DEF PagesInv

\* The self-test gives back the page it took first.
LEMMA TestFreePages ==
  ASSUME PagesInv, TestFree, Len(test) > 0
  PROVE  PagesInv' /\ Len(test') = Len(test) - 1
<1>1. test \in Seq(Pages) /\ test' = Tail(test) /\ Len(test) \in Nat
  BY DEF TestFree, PagesInv, OwnersInv
<1>2. /\ test[1] \in Pages /\ test' \in Seq(Pages) /\ Len(test') = Len(test) - 1
      /\ DOMAIN test = 1 .. Len(test) /\ DOMAIN test' = 1 .. (Len(test) - 1)
      /\ \A i \in 1 .. (Len(test) - 1) : test'[i] = test[i + 1]
  BY SMTT(30), <1>1
<1>3. PoolInv' /\ test[1] \in allocated_bitmap
      /\ allocated_bitmap' = allocated_bitmap \ {test[1]}
  BY Zenon, <1>2, FreeStep DEF TestFree, PagesInv
<1>4. test[1] \in TestPages
  BY SMTT(30), <1>2 DEF TestPages
<1>5. HeapInv' /\ ActivePages' = ActivePages
  <2>1. test[1] \notin ActivePages /\ allocated_bitmap \subseteq Pages
    BY Zenon, <1>4 DEF PagesInv, OwnersInv, PoolInv, IInv, TypeOK
  <2> QED
    BY Zenon, <1>3, <2>1, HeapUnfreed DEF TestFree, PagesInv
<1>6. \A i, j \in 1 .. Len(test) : test[i] = test[j] => i = j
  BY Zenon DEF PagesInv, OwnersInv
<1>7. TestPages' = TestPages \ {test[1]}
  <2>1. ASSUME NEW q PROVE q \in TestPages' <=> q \in TestPages \ {test[1]}
    <3>1. ASSUME q \in TestPages' PROVE q \in TestPages \ {test[1]}
      <4>1. PICK i \in 1 .. (Len(test) - 1) : q = test[i + 1]
        BY Zenon, <1>2, <3>1 DEF TestPages
      <4>2. i + 1 \in DOMAIN test /\ test[i + 1] # test[1]
        BY SMTT(30), <1>1, <1>2, <1>6, <4>1
      <4> QED
        BY Zenon, <4>1, <4>2 DEF TestPages
    <3>2. ASSUME q \in TestPages \ {test[1]} PROVE q \in TestPages'
      <4>1. PICK i \in 1 .. Len(test) : q = test[i] /\ i # 1
        BY Zenon, <1>2, <3>2 DEF TestPages
      <4>2. i - 1 \in 1 .. (Len(test) - 1) /\ test'[i - 1] = test[i]
        BY SMTT(30), <1>1, <1>2, <4>1
      <4> QED
        BY Zenon, <1>2, <4>1, <4>2 DEF TestPages
    <3> QED
      BY Zenon, <3>1, <3>2
  <2> QED
    BY Zenon, <2>1
<1>8. \A i, j \in 1 .. Len(test') : test'[i] = test'[j] => i = j
  BY SMTT(30), <1>1, <1>2, <1>6
<1>9. others' = others /\ TablePages' = TablePages
  BY Zenon DEF TestFree, TablePages, Pages
<1>10. OwnersInv'
  BY SMTT(20), <1>2, <1>3, <1>4, <1>5, <1>7, <1>8, <1>9 DEF PagesInv, OwnersInv, Pages
<1> QED
  BY Zenon, <1>2, <1>3, <1>5, <1>10 DEF PagesInv

\* Put and Drop change a table in place.
LEMMA SameTables ==
  ASSUME NEW t, NEW i, NEW entry
  PROVE  DOMAIN Put(t, i, entry) = DOMAIN tables /\ DOMAIN Drop(t, i) = DOMAIN tables
BY Zenon DEF Put, Drop

\* The page of a new table is one nobody has, so no table is overwritten.
LEMMA EnsureNewPages ==
  ASSUME PagesInv, EnsureNew
  PROVE  /\ PagesInv' /\ test' = test
         /\ \E p \in Pages \ DOMAIN tables :
              /\ tables' = With(Put(call.table, At,
                                    Entry(p, FALSE, [call.flags EXCEPT !.nx = FALSE])),
                                p, Empty)
              /\ Descend(p)
<1>1. PICK p \in Pages \ ({0} \cup allocated_bitmap) :
        /\ allocated_bitmap' = allocated_bitmap \cup {p}
        /\ allocated_bitmap' \ allocated_bitmap = {p}
        /\ PoolInv'
  BY Zenon, AllocStep DEF EnsureNew, PagesInv
<1>2. HeapInv' /\ ActivePages' = ActivePages
  BY Zenon, <1>1, HeapKept DEF EnsureNew, PagesInv
<1> DEFINE base == Put(call.table, At, Entry(p, FALSE, [call.flags EXCEPT !.nx = FALSE]))
<1>3. tables' = With(base, p, Empty) /\ Descend(p)
  BY Zenon, <1>1 DEF EnsureNew
<1>4. DOMAIN tables' = DOMAIN tables \cup {p}
  <2>1. DOMAIN base = DOMAIN tables
    BY Zenon, SameTables
  <2> HIDE DEF base
  <2> QED
    BY Zenon, <1>3, <2>1 DEF With
<1>5. p \notin TestPages /\ p \notin ActivePages /\ p \notin others /\ p \notin TablePages
  BY Zenon, <1>1 DEF PagesInv, OwnersInv
<1>6. TablePages' = TablePages \cup {p} /\ p \notin DOMAIN tables
  BY Zenon, <1>1, <1>4, <1>5 DEF TablePages, Pages
<1>7. others' = others /\ TestPages' = TestPages /\ test' = test
  BY Zenon DEF EnsureNew, TestPages
<1>8. OwnersInv'
  BY ZenonT(40), <1>1, <1>2, <1>5, <1>6, <1>7 DEF PagesInv, OwnersInv, Pages
<1> QED
  BY ZenonT(40), <1>1, <1>2, <1>3, <1>6, <1>7, <1>8 DEF PagesInv

\* No other step moves a page.
LEMMA NoPageMoves ==
  ASSUME PagesInv, UNCHANGED all_vars, UNCHANGED test, TablePages' = TablePages
  PROVE  PagesInv'
<1>1. /\ UNCHANGED <<bitmap, reserved_bitmap, allocated_bitmap, free_count, others>>
      /\ UNCHANGED heap_vars
  BY Zenon DEF all_vars, vars
<1>2. PoolInv'
  BY Zenon, <1>1 DEF PagesInv, PoolInv, IInv, TypeOK, OwnedPagesNotFree, FreeCountExact,
              FreePages, Pages
<1>3. HeapInv' /\ ActivePages' = ActivePages
  BY Zenon, <1>1, HeapKept DEF PagesInv
<1>4. OwnersInv'
  BY SMTT(30), <1>1, <1>3 DEF PagesInv, OwnersInv, TestPages, Pages
<1> QED
  BY Zenon, <1>2, <1>3, <1>4 DEF PagesInv

----------------------------------------------------------------------------
(* The steps that take or give back pages *)

\* ensure_table on an absent entry, with a page for the new table.
LEMMA EnsureNewStep ==
  ASSUME NEW lv, Steady(lv), PagesInv, EnsureNew
  PROVE  (\E lw : Steady(lw)') /\ Mappings' = Mappings
<1> DEFINE t == call.table
           i == At
           f == call.flags
<1>1. /\ Mapping /\ call.level < 4 /\ i \notin DOMAIN tables[t]
      /\ ShapeOK(lv) /\ CallOK /\ MappedOK /\ TestOK
      /\ UNCHANGED <<tlb, mapped, test>>
  BY Zenon DEF EnsureNew, Steady, Here
<1>2. /\ t \in DOMAIN tables /\ lv[t] = 5 - call.level /\ Allowed(lv, t, f)
      /\ call.level \in 1 .. 4 /\ f \in Flags /\ i \in Index
  BY Zenon, <1>1, CallPlace DEF CallOK
<1>3. t # pd /\ lv[t] > 1
  BY SMTT(30), <1>1, <1>2 DEF ShapeOK, StaticOK
<1>4. PICK p \in Pages \ DOMAIN tables :
        /\ tables' = With(Put(t, i, Entry(p, FALSE, [f EXCEPT !.nx = FALSE])), p, Empty)
        /\ Descend(p)
  BY Zenon, EnsureNewPages
<1> DEFINE new == Entry(p, FALSE, [f EXCEPT !.nx = FALSE])
           lw == With(lv, p, lv[t] - 1)
<1>5. NewTable(t, i, new, p)
  <2> HIDE DEF new
  <2>1. tables' = With(Put(t, i, new), p, Empty)
    BY Zenon, <1>4 DEF new
  <2> QED
    BY ZenonT(40), <1>1, <1>2, <1>4, <2>1, NewTableIs
<1>6. PICK lx : ShapeOK(lx)' /\ WalksKept
  BY ZenonT(40), <1>1, <1>2, <1>3, <1>4, <1>5, NewTableStep
<1>7. Mappings' = Mappings /\ MappedOK'
  BY Zenon, <1>1, <1>6, KeptEffect
<1>8. Grown(t, i, f, p)
  <2>1. new.to = p /\ new.huge = FALSE /\ new.w = f.w
    <3> DEFINE g == [f EXCEPT !.nx = FALSE]
    <3>1. g.w = f.w
      BY Zenon, <1>2 DEF Flags
    <3> HIDE DEF g
    <3>2. new = Entry(p, FALSE, g)
      BY Zenon DEF g
    <3> HIDE DEF new
    <3> QED
      BY Zenon, <3>1, <3>2 DEF Entry
  <2> HIDE DEF new
  <2> QED
    BY SMTT(30), <1>5, <2>1 DEF Grown, NewTable
<1>9. CallOK' /\ call'.pc = call.pc /\ call'.va = call.va
      /\ call'.flags = call.flags /\ call'.frame = call.frame
  BY ZenonT(40), <1>1, <1>4, <1>8, DescendOK
<1>10. tables'[bootstrap_pt] = tables[bootstrap_pt]
  <2>1. bootstrap_pt \in DOMAIN tables \ {t}
    BY SMTT(30), <1>1, <1>3, StaticLevels
  <2> HIDE DEF new
  <2> QED
    BY Zenon, <1>5, <2>1 DEF NewTable
<1>11. TestOK'
  BY Zenon, <1>1, <1>9, <1>10 DEF TestOK, Mapping
<1> QED
  BY Zenon, <1>6, <1>7, <1>9, <1>11 DEF Steady

\* The steps of the self-test.
LEMMA TestSteps ==
  ASSUME NEW lv, Steady(lv), PagesInv
  PROVE  /\ TestTake => Steady(lv)' /\ Mappings' = Mappings /\ PagesInv'
         /\ TestNoPage => Steady(lv)' /\ Mappings' = Mappings
         /\ TestUse => Steady(lv)' /\ Mappings' = Mappings
         /\ TestFree => Steady(lv)' /\ Mappings' = Mappings /\ PagesInv'
<1>1. /\ ShapeOK(lv) /\ MappedOK /\ TestOK
      /\ test \in Seq(Pages)
  BY Zenon DEF Steady, PagesInv, OwnersInv
<1>2. ASSUME TestTake PROVE Steady(lv)' /\ Mappings' = Mappings /\ PagesInv'
  <2>1. /\ call.pc = "take" /\ UNCHANGED <<tables, tlb, mapped>>
        /\ PagesInv' /\ Len(test') = Len(test) + 1
    BY Zenon, <1>2, TestTakePages DEF TestTake
  <2>2. ShapeOK(lv)' /\ MappedOK' /\ Mappings' = Mappings
    BY Zenon, <1>1, <2>1, TablesKept
  <2>3. /\ mapped = {} /\ 0 \notin DOMAIN tables[bootstrap_pt] /\ Len(test) < 3
        /\ Len(test) \in Nat
    BY SMTT(30), <1>1, <2>1 DEF TestOK
  <2>4. CASE Len(test) < 2
    <3>1. call' = call
      BY Zenon, <1>2, <2>4 DEF TestTake
    <3>2. TestOK' /\ ~ Mapping'
      BY SMTT(20), <1>1, <2>1, <2>3, <2>4, <3>1 DEF TestOK, Mapping
    <3> QED
      BY Zenon, <2>1, <2>2, <3>2 DEF Steady
  <2>5. CASE ~ (Len(test) < 2)
    <3>1. /\ call' = [pc |-> "testmap", va |-> test_virtual, frame |-> test[1],
                      flags |-> WRITABLE, table |-> pml4, level |-> 1]
          /\ Len(test) = 2
      <4>1. Len(test) = 2
        BY SMTT(20), <2>3, <2>5
      <4>2. Begin("testmap", test_virtual, test[1], WRITABLE)
        BY Zenon, <1>2, <2>5 DEF TestTake
      <4> QED
        BY Zenon, <4>1, <4>2 DEF Begin
    <3>2. PICK p : test' = Append(test, p)
      BY Zenon, <1>2 DEF TestTake
    <3>3. test'[1] = test[1]
      BY SMTT(20), <1>1, <3>1, <3>2
    <3>4. TestOK'
      BY SMTT(20), <2>1, <2>3, <3>1, <3>3 DEF TestOK
    <3>5. CallOK'
      <4>1. CallAt(test_virtual)'
        BY SMTT(30), <3>1 DEF CallAt
      <4>2. WRITABLE \in Flags
        BY Zenon DEF WRITABLE, Flags
      <4> QED
        BY SMTT(20), <3>1, <4>1, <4>2, AddressAssumption DEF CallOK
    <3> QED
      BY ZenonT(40), <2>1, <2>2, <3>4, <3>5 DEF Steady
  <2> QED
    BY Zenon, <2>4, <2>5
<1>3. ASSUME TestNoPage PROVE Steady(lv)' /\ Mappings' = Mappings
  <2>1. call.pc = "take" /\ UNCHANGED <<tables, tlb, mapped, test>> /\ call' = Idle
    BY Zenon, <1>3 DEF TestNoPage
  <2>2. TestOK' /\ ~ Mapping'
    BY Zenon, <1>1, <2>1 DEF TestOK, Idle, Mapping
  <2> QED
    BY Zenon, <1>1, <2>1, <2>2, TablesKept DEF Steady
<1>4. ASSUME TestUse PROVE Steady(lv)' /\ Mappings' = Mappings
  <2> DEFINE va == test_virtual
  <2>1. /\ call.pc = "use" /\ UNCHANGED <<tables, mapped, test>>
        /\ va \in mapped /\ Small(va) /\ Len(test) = 3
        /\ 0 \in DOMAIN tables[bootstrap_pt] /\ tables[bootstrap_pt][0].to = test[1]
    BY Zenon, <1>1, <1>4 DEF TestUse, TestOK, MappedOK
  <2>2. StaticOK /\ va[1] = 0 /\ va[2] = legacy_pdpt_i /\ va[3] = 0 /\ va[4] = 0
    BY Zenon, <1>1, Statics DEF ShapeOK
  <2>3. e4(va).to = pdpt
    BY Zenon, <2>2 DEF StaticOK, Leads, e4
  <2>4. e3(va).to = bootstrap_pd
    BY Zenon, <2>2, <2>3 DEF StaticOK, Leads, e3
  <2>5. e2(va).to = bootstrap_pt
    BY Zenon, <2>2, <2>4 DEF StaticOK, Leads, e2
  <2>6. e1(va).to = test[1]
    BY Zenon, <2>1, <2>2, <2>5 DEF e1
  <2>7. vmm_translate(va) = <<test[1]>>
    BY Zenon, <2>1, <2>6 DEF vmm_translate
  <2>8. tlb' = [v \in {va} |-> Leaf(v)] /\ call' = [pc |-> "unmap"]
    BY Zenon, <1>4, <2>7 DEF TestUse, Touch
  <2>9. ShapeOK(lv)' /\ Mappings' = Mappings
    BY Zenon, <1>1, <2>1, TablesKept
  <2>10. MappedOK'
    <3>1. tables' = tables /\ mapped' = mapped /\ DOMAIN tlb' = {va}
      BY Zenon, <2>1, <2>8
    <3>2. /\ \A u : Small(u)' = Small(u) /\ e2(u)' = e2(u) /\ Leaf(u)' = Leaf(u)
          /\ tlb'[va] = Leaf(va)
      BY Zenon, <2>8, <3>1, TablesKept
    <3> HIDE DEF va
    <3> QED
      BY Zenon, <1>1, <2>1, <3>1, <3>2 DEF MappedOK
  <2>11. TestOK' /\ ~ Mapping'
    BY Zenon, <1>1, <2>1, <2>8 DEF TestOK, Mapping
  <2> QED
    BY Zenon, <2>9, <2>10, <2>11 DEF Steady
<1>5. ASSUME TestFree PROVE Steady(lv)' /\ Mappings' = Mappings /\ PagesInv'
  <2>1. /\ call.pc = "free" /\ UNCHANGED <<tables, tlb, mapped>>
        /\ call' = IF Len(test) = 1 THEN Idle ELSE call
        /\ Len(test) > 0 /\ Len(test) \in Nat
    BY SMTT(30), <1>1, <1>5 DEF TestFree, TestOK
  <2>2. PagesInv' /\ Len(test') = Len(test) - 1
    BY Zenon, <1>5, <2>1, TestFreePages
  <2>3. TestOK' /\ ~ Mapping'
    BY SMTT(20), <2>1, <2>2 DEF TestOK, Idle, Mapping
  <2> QED
    BY ZenonT(40), <1>1, <2>1, <2>2, <2>3, TablesKept DEF Steady
<1> QED
  BY Zenon, <1>2, <1>3, <1>4, <1>5

\* A step of the memory manager keeps MemoryInv, and is a step of the address
\* map or leaves it alone.
MapStep == Map!Next \/ UNCHANGED Mappings

\* What the steps leave to show when only table entries moved.
LEMMA PagesKept ==
  ASSUME PagesInv, UNCHANGED <<all_vars, test>>, DOMAIN tables' = DOMAIN tables
  PROVE  PagesInv'
<1>1. TablePages' = TablePages
  BY Zenon DEF TablePages
<1> QED
  BY Zenon, <1>1, NoPageMoves

\* Between calls: another one begins, or one that takes a single step.
LEMMA IdleSteps ==
  ASSUME NEW lv, Steady(lv), PagesInv, call = Idle
  PROVE  /\ Client /\ UNCHANGED vmm_vars => Steady(lv)' /\ PagesInv' /\ MapStep
         /\ \A va \in VAs, r \in Requests : MapBegin(va, r) => Steady(lv)' /\ PagesInv' /\ MapStep
         /\ \A va \in VAs : UnmapMapped(va) => Steady(lv)' /\ PagesInv' /\ MapStep
         /\ \A va \in VAs : UseMapped(va) => Steady(lv)' /\ PagesInv' /\ MapStep
<1>1. ShapeOK(lv) /\ MappedOK /\ TestOK /\ call.pc = "idle" /\ ~ Mapping
  BY Zenon DEF Steady, Idle, Mapping
<1>2. ASSUME Client, UNCHANGED vmm_vars PROVE Steady(lv)' /\ PagesInv' /\ MapStep
  <2>1. PagesInv'
    BY ZenonT(40), <1>2, HeapInitInv, HeapAllocInv, HeapFreeInv, OtherAllocInv, OtherFreeInv DEF Client
  <2>2. UNCHANGED <<tables, tlb, mapped, call, test>>
    BY Zenon, <1>2 DEF vmm_vars
  <2>3. TestOK' /\ ~ Mapping'
    BY Zenon, <1>1, <2>2 DEF TestOK, Mapping
  <2> QED
    BY ZenonT(40), <1>1, <2>1, <2>2, <2>3, TablesKept DEF Steady, MapStep
<1>3. ASSUME NEW va \in VAs, NEW r \in Requests, MapBegin(va, r)
      PROVE  Steady(lv)' /\ PagesInv' /\ MapStep
  <2>1. /\ call' = [pc |-> "map", va |-> va, frame |-> r.frame, flags |-> r.flags,
                    table |-> pml4, level |-> 1]
        /\ UNCHANGED <<all_vars, tables, tlb, mapped, test>>
    BY Zenon, <1>3 DEF MapBegin, Begin
  <2>2. va \in Canonical /\ r.flags \in Flags
    BY Zenon, AddressAssumption, RequestsAssumption DEF Flags
  <2>3. CallOK'
    <3>1. CallAt(va)'
      BY <2>1 DEF CallAt
    <3> QED
      BY SMTT(20), <2>1, <2>2, <3>1 DEF CallOK
  <2>4. TestOK'
    BY Zenon, <1>1, <2>1 DEF TestOK
  <2> QED
    BY ZenonT(40), <1>1, <2>1, <2>3, <2>4, TablesKept, PagesKept DEF Steady, MapStep
<1>4. ASSUME NEW va \in VAs, UnmapMapped(va) PROVE Steady(lv)' /\ PagesInv' /\ MapStep
  <2>1. va \in mapped /\ vmm_unmap_page(va) /\ UNCHANGED <<all_vars, call, test>>
    BY Zenon, <1>4 DEF UnmapMapped
  <2>2. /\ ShapeOK(lv)' /\ MappedOK' /\ DOMAIN tables' = DOMAIN tables
        /\ \E n \in DOMAIN Mappings \ DOMAIN Identity : Map!Adds(Mappings', Mappings, n)
    BY Zenon, <1>1, <2>1, UnmapStep
  <2>3. TestOK' /\ ~ Mapping'
    BY Zenon, <1>1, <2>1 DEF TestOK, Mapping
  <2>4. MapStep
    BY Zenon, <2>2 DEF MapStep, Map!Next, Map!Unmap
  <2> QED
    BY ZenonT(40), <2>1, <2>2, <2>3, <2>4, PagesKept DEF Steady
<1>5. ASSUME NEW va \in VAs, UseMapped(va) PROVE Steady(lv)' /\ PagesInv' /\ MapStep
  <2>1. /\ va \in mapped /\ tlb' = [v \in {va} |-> Leaf(v)]
        /\ UNCHANGED <<all_vars, tables, mapped, call, test>>
    BY Zenon, <1>5 DEF UseMapped, Touch
  <2>2. MappedOK'
    BY SMTT(20), <1>1, <2>1, TablesKept DEF MappedOK
  <2>3. TestOK' /\ ~ Mapping'
    BY Zenon, <1>1, <2>1 DEF TestOK, Mapping
  <2> QED
    BY ZenonT(40), <1>1, <2>1, <2>2, <2>3, TablesKept, PagesKept DEF Steady, MapStep
<1> QED
  BY ZenonT(40), <1>2, <1>3, <1>4, <1>5

\* Every step keeps the invariant and implements the address map.
LEMMA MemoryStep ==
  ASSUME MemoryInv, MemoryNext
  PROVE  MemoryInv' /\ MapStep
<1>1. CASE BootState
  <2>1. vmm_init
    BY Zenon, <1>1 DEF BootState, MemoryNext, TestTake, TestNoPage, TestUse, TestUnmap, TestFree,
                EnsurePresent, EnsureNew, EnsureFails, WritePTE, Mapping, Idle
  <2>2. /\ ShapeOK(StaticLevel)' /\ ~ Mapping' /\ MappedOK' /\ TestOK'
        /\ Mappings' = Mappings /\ TablePages' = TablePages
    BY Zenon, <1>1, <2>1, InitStep
  <2>3. PagesInv'
    BY Zenon, <2>1, <2>2, NoPageMoves DEF vmm_init, MemoryInv
  <2> QED
    BY Zenon, <2>2, <2>3 DEF MemoryInv, TableInv, Steady, MapStep
<1>2. CASE \E lv : Steady(lv)
  <2>1. PICK lv : Steady(lv)
    BY Zenon, <1>2
  <2>2. PagesInv /\ ShapeOK(lv) /\ MappedOK /\ TestOK
    BY Zenon, <2>1 DEF MemoryInv, Steady
  <2>3. CASE vmm_init
    BY Zenon, <2>2, <2>3 DEF vmm_init, TestOK
  <2>4. CASE TestTake \/ TestNoPage \/ TestUse \/ TestFree
    <3>1. Steady(lv)' /\ Mappings' = Mappings
      BY ZenonT(40), <2>1, <2>2, <2>4, TestSteps
    <3>2. CASE TestNoPage \/ TestUse
      <4>1. UNCHANGED <<all_vars, test, tables>>
        BY Zenon, <3>2 DEF TestNoPage, TestUse
      <4> QED
        BY Zenon, <2>2, <3>1, <4>1, PagesKept DEF MemoryInv, TableInv, MapStep
    <3>3. CASE TestTake \/ TestFree
      BY ZenonT(40), <2>1, <2>2, <3>1, <3>3, TestSteps DEF MemoryInv, TableInv, MapStep
    <3> QED
      BY Zenon, <2>4, <3>2, <3>3
  <2>5. CASE TestUnmap
    <3>1. /\ vmm_unmap_page(test_virtual) /\ call' = [pc |-> "free"]
          /\ UNCHANGED <<all_vars, test>> /\ test_virtual \in mapped /\ Len(test) = 3
      BY Zenon, <2>2, <2>5 DEF TestUnmap, TestOK
    <3>2. /\ ShapeOK(lv)' /\ MappedOK' /\ DOMAIN tables' = DOMAIN tables
          /\ \E n \in DOMAIN Mappings \ DOMAIN Identity : Map!Adds(Mappings', Mappings, n)
      BY Zenon, <2>2, <3>1, UnmapStep
    <3>3. TestOK' /\ ~ Mapping'
      BY SMTT(30), <3>1 DEF TestOK, Mapping
    <3>4. MapStep
      BY Zenon, <3>2 DEF MapStep, Map!Next, Map!Unmap
    <3>5. PagesInv'
      BY Zenon, <2>2, <3>1, <3>2, PagesKept
    <3> QED
      BY ZenonT(40), <3>2, <3>3, <3>4, <3>5 DEF MemoryInv, TableInv, Steady
  <2>6. CASE EnsurePresent
    <3>1. Steady(lv)' /\ Mappings' = Mappings /\ DOMAIN tables' = DOMAIN tables
      BY Zenon, <2>1, <2>6, EnsurePresentStep
    <3>2. PagesInv'
      BY Zenon, <2>2, <2>6, <3>1, PagesKept DEF EnsurePresent
    <3> QED
      BY Zenon, <3>1, <3>2 DEF MemoryInv, TableInv, MapStep
  <2>7. CASE EnsureNew
    <3>1. (\E lw : Steady(lw)') /\ Mappings' = Mappings
      BY Zenon, <2>1, <2>2, <2>7, EnsureNewStep
    <3>2. PagesInv'
      BY Zenon, <2>2, <2>7, EnsureNewPages
    <3> QED
      BY Zenon, <3>1, <3>2 DEF MemoryInv, TableInv, MapStep
  <2>8. CASE EnsureFails
    <3>1. Steady(lv)' /\ Mappings' = Mappings
      BY Zenon, <2>1, <2>8, EnsureFailsStep
    <3>2. PagesInv'
      BY Zenon, <2>2, <2>8, PagesKept DEF EnsureFails
    <3> QED
      BY Zenon, <3>1, <3>2 DEF MemoryInv, TableInv, MapStep
  <2>9. CASE WritePTE
    <3>1. /\ Steady(lv)' /\ DOMAIN tables' = DOMAIN tables
          /\ \/ Mappings' = Mappings
             \/ \E n : Map!Adds(Mappings, Mappings', n)
      BY Zenon, <2>1, <2>9, WritePTEStep
    <3>2. PagesInv'
      BY Zenon, <2>2, <2>9, <3>1, PagesKept DEF WritePTE
    <3>3. MapStep
      BY Zenon, <3>1 DEF MapStep, Map!Next, Map!Map, Map!Adds
    <3> QED
      BY Zenon, <3>1, <3>2, <3>3 DEF MemoryInv, TableInv
  <2>10. CASE /\ call = Idle
              /\ \/ Client /\ UNCHANGED vmm_vars
                 \/ \E va \in VAs, r \in Requests : MapBegin(va, r)
                 \/ \E va \in VAs : UnmapMapped(va)
                 \/ \E va \in VAs : UseMapped(va)
    <3>1. Steady(lv)' /\ PagesInv' /\ MapStep
      BY SMTT(20), <2>1, <2>2, <2>10, IdleSteps
    <3> QED
      BY Zenon, <3>1 DEF MemoryInv, TableInv
  <2> QED
    BY ZenonT(40), <2>3, <2>4, <2>5, <2>6, <2>7, <2>8, <2>9, <2>10 DEF MemoryNext
<1> QED
  BY Zenon, <1>1, <1>2 DEF MemoryInv, TableInv

\* A step that changes nothing changes none of this.
LEMMA MemoryStutters ==
  ASSUME MemoryInv, UNCHANGED memory_vars
  PROVE  MemoryInv' /\ UNCHANGED Mappings
<1>1. UNCHANGED <<all_vars, tables, tlb, mapped, call, test>>
  BY Zenon DEF memory_vars, vmm_vars
<1>2. PagesInv'
  BY Zenon, <1>1, PagesKept DEF MemoryInv
<1>3. CASE BootState
  <2>1. BootState'
    BY Zenon, <1>1, <1>3 DEF BootState
  <2>2. Mappings' = Mappings
    BY Zenon, <1>1, TablesKept
  <2> QED
    BY Zenon, <1>2, <2>1, <2>2 DEF MemoryInv, TableInv
<1>4. ASSUME NEW lv, Steady(lv) PROVE Steady(lv)' /\ UNCHANGED Mappings
  <2>1. (Mapping => CallOK)'
    <3>1. ASSUME NEW va, CallAt(va) PROVE CallAt(va)'
      BY Zenon, <1>1, <3>1 DEF CallAt, e2, e3, e4
    <3>2. Mapping' = Mapping
      BY Zenon, <1>1 DEF Mapping
    <3> QED
      BY ZenonT(40), <1>1, <1>4, <3>1, <3>2 DEF Steady, CallOK
  <2>2. TestOK'
    BY Zenon, <1>1, <1>4 DEF Steady, TestOK
  <2> QED
    BY Zenon, <1>1, <1>4, <2>1, <2>2, TablesKept DEF Steady
<1> QED
  BY Zenon, <1>2, <1>3, <1>4 DEF MemoryInv, TableInv

\* The memory manager starts with the pages pmm_init_from_multiboot left
\* usable and the tables of boot.S.
LEMMA MemoryStart ==
  ASSUME MemoryInit
  PROVE  MemoryInv /\ Mappings = Identity
<1>1. PICK n \in 0 .. PMM_MAX_PAGES - 1 : /\ reserved_bitmap = Pages \ (1 .. n)
                                          /\ bitmap = reserved_bitmap /\ free_count = n
  BY Zenon DEF MemoryInit
<1>2. n \in Nat /\ (1 .. n) \subseteq Pages /\ 0 \in Pages /\ 0 \notin 1 .. n
  BY SMTT(30), PagesAssumption DEF Pages
<1>3. /\ allocated_bitmap = {} /\ others = {} /\ initialized = FALSE /\ active_base = 0
      /\ tables = BootTables /\ tlb = Empty /\ mapped = {}
      /\ call = [pc |-> "boot"] /\ test = <<>>
  BY Zenon DEF MemoryInit
<1>4. FreePages = 1 .. n
  BY Zenon, <1>1, <1>2 DEF FreePages
<1>5. Cardinality(1 .. n) = n
  BY SMTT(20), <1>2, FS_Interval
<1>6. IInv
  BY SMTT(20), <1>1, <1>2, <1>3, <1>4, <1>5, PagesAssumption
     DEF IInv, TypeOK, OwnedPagesNotFree, FreeCountExact
<1>7. PoolInv
  BY Zenon, <1>1, <1>2, <1>3, <1>6 DEF PoolInv
<1>8. HeapInv
  BY Zenon, <1>3 DEF HeapInv, RequestFits
<1>9. OwnersInv
  <2>1. TablePages = {}
    BY SMTT(20), <1>3, PagesAssumption, Statics DEF TablePages, BootTables, Pages
  <2>2. ActivePages = {} /\ TestPages = {}
    BY <1>3 DEF ActivePages, TestPages
  <2> QED
    BY SMTT(20), <1>3, <2>1, <2>2 DEF OwnersInv
<1>10. BootState
  BY Zenon, <1>3 DEF BootState
<1> QED
  BY ZenonT(40), <1>3, <1>7, <1>8, <1>9, <1>10, BootMap DEF MemoryInv, PagesInv, TableInv

\* What the invariant says to the callers.
LEMMA MemoryInvImplies ==
  ASSUME MemoryInv
  PROVE  RequestFits /\ PagesBalanced /\ TLBCoherent
<1>1. RequestFits
  BY Zenon DEF MemoryInv, PagesInv, HeapInv
<1>2. PagesBalanced
  <2> DEFINE parts == <<ActivePages, others, TablePages, TestPages>>
  <2>1. DOMAIN parts = 1 .. 4 /\ parts[1] = ActivePages /\ parts[2] = others
        /\ parts[3] = TablePages /\ parts[4] = TestPages
    OBVIOUS
  <2>2. OwnersInv /\ PoolInv
    BY Zenon DEF MemoryInv, PagesInv
  <2> HIDE DEF parts
  <2>3. \A i, j \in DOMAIN parts : i # j => parts[i] \cap parts[j] = {}
    BY SMTT(30), <2>1, <2>2 DEF OwnersInv
  <2>4. allocated_bitmap = UNION {parts[i] : i \in DOMAIN parts}
    <3>1. 1 \in DOMAIN parts /\ 2 \in DOMAIN parts /\ 3 \in DOMAIN parts /\ 4 \in DOMAIN parts
          /\ \A i \in DOMAIN parts : i = 1 \/ i = 2 \/ i = 3 \/ i = 4
      BY SMTT(30), <2>1
    <3>2. allocated_bitmap = parts[1] \cup parts[2] \cup parts[3] \cup parts[4]
      BY Zenon, <2>1, <2>2 DEF OwnersInv
    <3> QED
      BY Zenon, <3>1, <3>2
  <2>5. FreePages = Pages \ (reserved_bitmap \cup allocated_bitmap)
    BY Zenon, <2>2 DEF PoolInv, FreePages
  <2>6. free_count = Cardinality(FreePages)
    BY Zenon, <2>2 DEF PoolInv, IInv, FreeCountExact
  <2>7. call = Idle => Len(test) < 3
    BY DEF MemoryInv, TableInv, BootState, Steady, TestOK, Idle
  <2> QED
    BY ZenonT(40), <2>3, <2>4, <2>5, <2>6, <2>7 DEF PagesBalanced, parts
<1>3. TLBCoherent
  <2>1. CASE BootState
    BY Zenon, <2>1 DEF BootState, Empty, TLBCoherent
  <2>2. CASE MappedOK
    BY Zenon, <2>2 DEF MappedOK, TLBCoherent, vmm_translate
  <2> QED
    BY Zenon, <2>1, <2>2 DEF MemoryInv, TableInv, Steady
<1> QED
  BY Zenon, <1>1, <1>2, <1>3

----------------------------------------------------------------------------
(* The theorems *)

\* The inductive invariant of the memory manager: the pages belong to one
\* owner each, the tables form four levels that share one bootstrap_pd, and
\* the call in progress is where its address leads.
THEOREM MemoryInvariant == MemorySpec => []MemoryInv
<1>1. MemoryInit => MemoryInv
  BY Zenon, MemoryStart
<1>2. MemoryInv /\ [MemoryNext]_memory_vars => MemoryInv'
  <2> SUFFICES ASSUME MemoryInv, [MemoryNext]_memory_vars PROVE MemoryInv'
    OBVIOUS
  <2>1. CASE MemoryNext
    BY Zenon, <2>1, MemoryStep
  <2>2. CASE UNCHANGED memory_vars
    BY Zenon, <2>2, MemoryStutters
  <2> QED
    BY Zenon, <2>1, <2>2
<1> QED
  BY <1>1, <1>2, PTL DEF MemorySpec

\* A live kheap_alloc block has room for the size asked for, whatever the
\* page size and the width at which round_up_pages wraps.
THEOREM RequestsFit == MemorySpec => []RequestFits
BY MemoryInvariant, MemoryInvImplies, PTL

\* No path of vmm_map_page, vmm_selftest, kheap_alloc or kheap_free loses a
\* page or gives one page to two owners.
THEOREM PagesStayBalanced == MemorySpec => []PagesBalanced
BY MemoryInvariant, MemoryInvImplies, PTL

\* The processor holds no translation that the tables do not give.
THEOREM TLBStaysCoherent == MemorySpec => []TLBCoherent
BY MemoryInvariant, MemoryInvImplies, PTL

\* vmm_map_page and vmm_unmap_page implement the abstract address map, for
\* every table size, every set of addresses and every supply of pages.
THEOREM TablesImplementMap == MemorySpec => ImplementsAddressMap
<1>1. MemoryInit => Map!Init
  BY Zenon, MemoryStart DEF Map!Init
<1>2. MemoryInv /\ [MemoryNext]_memory_vars => [Map!Next]_Mappings
  <2> SUFFICES ASSUME MemoryInv, [MemoryNext]_memory_vars PROVE [Map!Next]_Mappings
    OBVIOUS
  <2>1. CASE MemoryNext
    BY Zenon, <2>1, MemoryStep DEF MapStep
  <2>2. CASE UNCHANGED memory_vars
    BY Zenon, <2>2, MemoryStutters
  <2> QED
    BY Zenon, <2>1, <2>2
<1> QED
  BY <1>1, <1>2, MemoryInvariant, PTL DEF MemorySpec, ImplementsAddressMap, Map!Spec
=============================================================================
