------------------------------- MODULE PMMWords -------------------------------
(***************************************************************************)
(* kernel/mm/pmm_bootstrap.c as it is written: three arrays of machine     *)
(* words, masks, shifts and scans.  A word is a number below 2^WORD_BITS.  *)
(* The words implement the sets of module PMM.                             *)
(***************************************************************************)
EXTENDS Integers, Bitwise

CONSTANTS PMM_MAX_PAGES, SB_PAGE_SIZE, Addresses,
          WORD_BITS          \* 64 in the kernel

VARIABLES bitmap, reserved_bitmap, allocated_bitmap, free_count

vars == <<bitmap, reserved_bitmap, allocated_bitmap, free_count>>

PMM_BITMAP_WORDS == (PMM_MAX_PAGES + WORD_BITS - 1) \div WORD_BITS

Words == 0 .. PMM_BITMAP_WORDS - 1

WORD_MAX == 2^WORD_BITS - 1

Complement(x) == WORD_MAX - x

ShiftLeft(x, n) == (x * 2^n) % 2^WORD_BITS

----------------------------------------------------------------------------
(* Mutants *)

\* The whole-word loop runs one word short.
MutLoopShort(first_page, last_page) ==
  LET first_word == first_page \div WORD_BITS
      last_word == (last_page - 1) \div WORD_BITS
      first_bit == first_page % WORD_BITS
      last_bits == last_page % WORD_BITS
  IN [w \in Words |->
       CASE w = first_word -> ShiftLeft(WORD_MAX, first_bit)
         [] w = last_word -> IF last_bits = 0 THEN WORD_MAX ELSE 2^last_bits - 1
         [] w > first_word /\ w < last_word - 1 -> WORD_MAX
         [] OTHER -> 0]

\* The last word is masked one page short.
MutTailShort(w, x) ==
  IF w = PMM_BITMAP_WORDS - 1 /\ PMM_MAX_PAGES % WORD_BITS # 0
  THEN x & (2^((PMM_MAX_PAGES % WORD_BITS) - 1) - 1)
  ELSE x

\* The range is opened without putting reserved and owned bits back.
MutMergeReleases(b, mask) == [w \in Words |-> b[w] & Complement(mask[w])]

\* A freed page goes back to the pool even if it is reserved.
MutFreeIgnoresReserved(address) ==
  LET index == address \div SB_PAGE_SIZE
      word == index \div WORD_BITS
      mask == 2^(index % WORD_BITS)
  IN
  /\ address % SB_PAGE_SIZE = 0 /\ index < PMM_MAX_PAGES
  /\ allocated_bitmap[word] & mask # 0
  /\ allocated_bitmap' = [allocated_bitmap EXCEPT ![word] = @ & Complement(mask)]
  /\ bitmap' = [bitmap EXCEPT ![word] = @ & Complement(mask)]
  /\ free_count' = free_count + 1
  /\ UNCHANGED reserved_bitmap

\* A second free of the same page is counted again.
MutDoubleFree(address) ==
  LET index == address \div SB_PAGE_SIZE
      word == index \div WORD_BITS
      mask == 2^(index % WORD_BITS)
  IN
  /\ address % SB_PAGE_SIZE = 0 /\ index < PMM_MAX_PAGES
  /\ reserved_bitmap[word] & mask = 0
  /\ allocated_bitmap' = [allocated_bitmap EXCEPT ![word] = @ & Complement(mask)]
  /\ bitmap' = [bitmap EXCEPT ![word] = @ & Complement(mask)]
  /\ free_count' = free_count + 1
  /\ UNCHANGED reserved_bitmap

----------------------------------------------------------------------------
(* The bit helpers *)

low_bits_mask(count) ==
  CASE count = 0 -> 0
    [] count >= WORD_BITS -> WORD_MAX
    [] OTHER -> 2^count - 1

count_bits64[value \in 0 .. WORD_MAX] ==
  IF value = 0 THEN 0 ELSE 1 + count_bits64[value & (value - 1)]

\* Only ever called on a word that has a bit set.
first_set_bit64[value \in 1 .. WORD_MAX] ==
  IF value % 2 = 1 THEN 0 ELSE 1 + first_set_bit64[value \div 2]

SumOverWords(f) ==
  LET total[w \in Words] == f[w] + (IF w = 0 THEN 0 ELSE total[w - 1])
  IN total[PMM_BITMAP_WORDS - 1]

----------------------------------------------------------------------------
(* set_range_bits *)

\* A range inside one word.
SingleWordMask(first_page, last_page) ==
  [w \in Words |->
    IF w = first_page \div WORD_BITS
    THEN ShiftLeft(low_bits_mask(last_page - first_page), first_page % WORD_BITS)
    ELSE 0]

\* A partial first word, whole words, and the last word.
MultiWordMask(first_page, last_page) ==
  LET first_word == first_page \div WORD_BITS
      last_word == (last_page - 1) \div WORD_BITS
      first_bit == first_page % WORD_BITS
      last_bits == last_page % WORD_BITS
  IN [w \in Words |->
       CASE w = first_word /\ first_bit # 0 -> ShiftLeft(WORD_MAX, first_bit)
         [] w = last_word -> IF last_bits = 0 THEN WORD_MAX
                                              ELSE low_bits_mask(last_bits)
         [] w >= first_word /\ w < last_word -> WORD_MAX
         [] OTHER -> 0]

\* The bits of each word that set_range_bits(start, end, _) writes.
RangeMask(start, end) ==
  LET max_address == PMM_MAX_PAGES * SB_PAGE_SIZE
      clipped == IF end > max_address THEN max_address ELSE end
      first_page == (start + SB_PAGE_SIZE - 1) \div SB_PAGE_SIZE
      last_page == clipped \div SB_PAGE_SIZE
  IN CASE start >= max_address \/ end <= start \/ last_page <= first_page ->
            [w \in Words |-> 0]
       [] first_page \div WORD_BITS = (last_page - 1) \div WORD_BITS ->
            SingleWordMask(first_page, last_page)
       [] OTHER -> MultiWordMask(first_page, last_page)

\* make_free: clear the range, then put reserved and owned bits back.
OpenRange(b, mask) ==
  [w \in Words |-> (b[w] & Complement(mask[w]))
                   | ((reserved_bitmap[w] | allocated_bitmap[w]) & mask[w])]

SetBits(b, mask) == [w \in Words |-> b[w] | mask[w]]

----------------------------------------------------------------------------
(* Counting and the operations *)

\* The clear bits of a word that stand for pages.
TailMasked(w, x) ==
  IF w = PMM_BITMAP_WORDS - 1 /\ PMM_MAX_PAGES % WORD_BITS # 0
  THEN x & low_bits_mask(PMM_MAX_PAGES % WORD_BITS)
  ELSE x

Available(w) == TailMasked(w, Complement(bitmap[w]))

recompute_free_count ==
  free_count' = SumOverWords([w \in Words |-> count_bits64[Available(w)']])

pmm_reset ==
  /\ bitmap' = [w \in Words |-> WORD_MAX]
  /\ reserved_bitmap' = [w \in Words |-> 0]
  /\ allocated_bitmap' = [w \in Words |-> 0]
  /\ free_count' = 0

pmm_add_usable_range(start, end) ==
  /\ bitmap' = OpenRange(bitmap, RangeMask(start, end))
  /\ UNCHANGED <<reserved_bitmap, allocated_bitmap>>
  /\ recompute_free_count

pmm_reserve_range(start, end) ==
  /\ bitmap' = SetBits(bitmap, RangeMask(start, end))
  /\ reserved_bitmap' = SetBits(reserved_bitmap, RangeMask(start, end))
  /\ UNCHANGED allocated_bitmap
  /\ recompute_free_count

\* pmm_reset, then the range is opened with nothing reserved or owned.
pmm_init(start, end) ==
  /\ bitmap' = [w \in Words |-> Complement(RangeMask(start, end)[w])]
  /\ reserved_bitmap' = [w \in Words |-> 0]
  /\ allocated_bitmap' = [w \in Words |-> 0]
  /\ recompute_free_count

\* The first word with an available bit, and its lowest one.
pmm_alloc_page ==
  \E word \in Words :
    /\ Available(word) # 0
    /\ \A w \in Words : w < word => Available(w) = 0
    /\ LET bit == 2^first_set_bit64[Available(word)] IN
       /\ bitmap' = [bitmap EXCEPT ![word] = @ | bit]
       /\ allocated_bitmap' = [allocated_bitmap EXCEPT ![word] = @ | bit]
    /\ free_count' = IF free_count # 0 THEN free_count - 1 ELSE 0
    /\ UNCHANGED reserved_bitmap

pmm_free_page(address) ==
  LET index == address \div SB_PAGE_SIZE
      word == index \div WORD_BITS
      mask == 2^(index % WORD_BITS)
  IN
  /\ address % SB_PAGE_SIZE = 0
  /\ index < PMM_MAX_PAGES
  /\ allocated_bitmap[word] & mask # 0
  /\ allocated_bitmap' = [allocated_bitmap EXCEPT ![word] = @ & Complement(mask)]
  /\ IF reserved_bitmap[word] & mask # 0
     THEN UNCHANGED <<bitmap, free_count>>
     ELSE /\ bitmap' = [bitmap EXCEPT ![word] = @ & Complement(mask)]
          /\ free_count' = free_count + 1
  /\ UNCHANGED reserved_bitmap

\* As pmm_reset leaves it; kmain resets the allocator before any other call.
Init == /\ bitmap = [w \in Words |-> WORD_MAX]
        /\ reserved_bitmap = [w \in Words |-> 0]
        /\ allocated_bitmap = [w \in Words |-> 0]
        /\ free_count = 0

Next == \/ pmm_reset
        \/ \E s, e \in Addresses : \/ pmm_init(s, e)
                                   \/ pmm_add_usable_range(s, e)
                                   \/ pmm_reserve_range(s, e)
        \/ pmm_alloc_page
        \/ \E a \in Addresses : pmm_free_page(a)

Spec == Init /\ [][Next]_vars

----------------------------------------------------------------------------
(* Properties *)

\* The tracked pages whose bit is set in an array of words.
PagesOf(b) == {p \in 0 .. PMM_MAX_PAGES - 1 :
                 (b[p \div WORD_BITS] \div 2^(p % WORD_BITS)) % 2 = 1}

Sets == INSTANCE PMM WITH bitmap <- PagesOf(bitmap),
                          reserved_bitmap <- PagesOf(reserved_bitmap),
                          allocated_bitmap <- PagesOf(allocated_bitmap)

\* Every operation on words does to the represented sets of pages what the
\* set-level operation does, free_count included.
ImplementsPMM == Sets!Spec

\* pmm_alloc_page fails only when no tracked page is free: when it cannot
\* act (it returns 0), every page's bit is set.
AllocFailsOnlyWhenFull ==
  (\A w \in Words : Available(w) = 0) => Sets!FreePages = {}

\* No page is both free and owned or reserved: set_range_bits clears whole
\* words of a merged range and puts the bits of live and reserved pages back.
OwnedPagesNotFree == Sets!OwnedPagesNotFree

\* free_count, counted over the masked words by the range operations and
\* stepped by pmm_alloc_page and pmm_free_page, is the number of pages with a
\* clear bit.
FreeCountExact == Sets!FreeCountExact

\* Until the allocator is restarted, a page reserved while nobody owns it is
\* never handed out, and a page that is out stays recorded until pmm_free_page
\* is called with exactly that page.
OwnershipSticks == Sets!OwnershipSticks

\* The three arrays of words implement the page ownership that the callers of
\* pmm_alloc_page and pmm_free_page rely on.
ImplementsOwnership == Sets!ImplementsOwnership

=============================================================================
