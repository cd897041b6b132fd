--------------------------- MODULE BootMemoryProofs ---------------------------
(***************************************************************************)
(* The import of the boot loader's memory map, for every block it may      *)
(* pass: which pages end up in the pool, how far the four walks read, and  *)
(* why the third and the fourth may rely on what the second checked.       *)
(***************************************************************************)
EXTENDS BootMemory, TLAPS

----------------------------------------------------------------------------
(* The inductive invariant *)

Early == pc \in {"start", "fb", "import"}
Importing == pc \in {"tags", "mmap", "finish"}
After == pc \in {"imported", "report", "find", "done"}

\* The walk's counters keep their fields; offsets and sizes are unsigned.
TypesInv ==
  /\ info.address \in Nat /\ info.total_size \in 0 .. U32 - 1
  /\ DOMAIN scan = {"offset", "tags_seen", "entries_seen", "modules_seen",
                    "valid_end", "seen_mmap"}
  /\ scan.offset \in Nat
  /\ fell_back \in BOOLEAN

Fresh == /\ fell_back = FALSE /\ usable = {} /\ claimed = {}
         /\ block = NoTags /\ found = <<>>

\* The pool while it is filled: free pages lie inside usable ranges and the
\* pages of every claimed range are reserved.
PoolInv ==
  /\ bitmap \subseteq Pages /\ reserved_bitmap \subseteq bitmap /\ allocated_bitmap = {}
  /\ \A p \in FreePages :
       \E r \in usable : r[1] <= p * SB_PAGE_SIZE /\ (p + 1) * SB_PAGE_SIZE <= r[2]
  /\ \A p \in Pages : \A r \in claimed : Touches(p, r) => p \in reserved_bitmap

\* What Finish adds.
OwnPagesReserved ==
  \A p \in Pages : \A r \in {InfoRange, <<kernel_start, kernel_end>>, <<0, SB_PAGE_SIZE>>} :
    Touches(p, r) => p \in reserved_bitmap

\* The tags accepted so far lie inside the block; modules are claimed.
TagOK(o) ==
  /\ o \in Nat /\ block[o] \in Tags
  /\ block[o].size >= SIZEOF_TAG /\ o + block[o].size <= info.total_size
  /\ block[o].type = "module" => block[o].range \in claimed

\* A tag is the last one, or is followed by one accepted, or by the one the
\* walk is about to look at.
Linked(o) ==
  LET next == o + NextOffset(block[o].size) IN
  \/ block[o].type = "end"
  \/ pc = "mmap" /\ o = scan.offset
  \/ /\ next <= info.total_size
     /\ next \in DOMAIN block \/ (pc = "tags" /\ next = scan.offset)

Chained ==
  /\ 8 \in DOMAIN block \/ (pc = "tags" /\ scan.offset = 8)
  /\ \A o \in DOMAIN block : Linked(o)

\* The map tag whose entries are being read.
MapInv ==
  /\ DOMAIN mmap = {"size", "entry_size", "entry_offset"}
  /\ mmap.size \in 0 .. U32 - 1 /\ mmap.entry_size \in 0 .. U32 - 1
  /\ mmap.entry_offset \in Nat
  /\ MmapTagOK(mmap.size, mmap.entry_size)
  /\ scan.offset \in DOMAIN block
  /\ block[scan.offset].size = mmap.size

ImportInv ==
  /\ fell_back = FALSE /\ HeaderOK /\ PoolInv /\ found = <<>>
  /\ \A o \in DOMAIN block : TagOK(o)
  /\ pc # "finish" => scan.valid_end = FALSE
  /\ pc # "finish" \/ scan.valid_end # FALSE => Chained
  /\ pc = "mmap" => MapInv

AcceptedInv ==
  /\ HeaderOK /\ PoolInv /\ OwnPagesReserved
  /\ \A o \in DOMAIN block : TagOK(o)
  /\ Chained
  /\ pc = "find" => scan.offset \in DOMAIN block
  /\ found = <<>> \/ found \in claimed

\* What an abandoned import leaves; the tags it had read stay where they are.
FallbackInv == /\ FreePages = PagesInside(window_start, window_end)
               /\ \A o \in DOMAIN block : block[o] \in Tags

BootInv ==
  /\ TypesInv /\ ReadsInsideInfo
  /\ Early \/ Importing \/ After
  /\ Early => Fresh
  /\ pc = "start" => read_end = 0
  /\ pc = "import" => scan = FirstTag
  /\ Importing => ImportInv
  /\ After => IF fell_back THEN FallbackInv ELSE AcceptedInv

----------------------------------------------------------------------------
(* Arithmetic of pages *)

\* align_down rounds down, by less than a page.
LEMMA DivMul ==
  ASSUME NEW a \in Nat
  PROVE  /\ align_down(a) \in Nat /\ align_down(a) <= a
         /\ a < (a \div SB_PAGE_SIZE + 1) * SB_PAGE_SIZE
         /\ a \div SB_PAGE_SIZE \in Nat
<1>1. \A n \in Nat, m \in Nat \ {0} :
        /\ n \div m \in Nat /\ (n \div m) * m \in Nat
        /\ (n \div m) * m <= n /\ n < (n \div m + 1) * m
  OBVIOUS
<1> QED
  BY Zenon, <1>1, PageSizeAssumption DEF align_down

\* Page numbers and page addresses are ordered alike.
LEMMA Monotone ==
  ASSUME NEW a \in Nat, NEW b \in Nat
  PROVE  /\ a * SB_PAGE_SIZE \in Nat
         /\ a <= b <=> a * SB_PAGE_SIZE <= b * SB_PAGE_SIZE
         /\ a < b <=> a * SB_PAGE_SIZE < b * SB_PAGE_SIZE
<1>1. \A n, k \in Nat, m \in Nat \ {0} :
        /\ n * m \in Nat
        /\ n <= k <=> n * m <= k * m
        /\ n < k <=> n * m < k * m
  OBVIOUS
<1> QED
  BY Zenon, <1>1, PageSizeAssumption


\* align_up rounds up to a page boundary, or to the last address.
LEMMA AlignUp ==
  ASSUME NEW a \in Nat, a <= ADDR_MAX
  PROVE  /\ a <= align_up(a)
         /\ align_up(a) = ADDR_MAX \/ \E k \in Nat : align_up(a) = k * SB_PAGE_SIZE
<1>1. SB_PAGE_SIZE \in Nat /\ SB_PAGE_SIZE > 0 /\ ADDR_MAX \in Nat
  BY PageSizeAssumption, WidthAssumption
<1>2. a + SB_PAGE_SIZE - 1 \in Nat
  BY <1>1
<1> DEFINE k == (a + SB_PAGE_SIZE - 1) \div SB_PAGE_SIZE
<1>3. /\ k \in Nat /\ a + SB_PAGE_SIZE - 1 < (k + 1) * SB_PAGE_SIZE
  BY Zenon, <1>2, DivMul
<1> HIDE DEF k
<1>4. (k + 1) * SB_PAGE_SIZE = k * SB_PAGE_SIZE + SB_PAGE_SIZE /\ k * SB_PAGE_SIZE \in Nat
  BY <1>1, <1>3
<1>5. a <= k * SB_PAGE_SIZE
  BY <1>1, <1>3, <1>4
<1>6. align_up(a) = ADDR_MAX \/ align_up(a) = k * SB_PAGE_SIZE
  BY Zenon DEF align_up, k
<1> QED
  BY Zenon, <1>3, <1>5, <1>6

\* A tracked page and its neighbour have addresses up to the limit.
LEMMA PageBounds ==
  ASSUME NEW p \in Pages
  PROVE  /\ p \in Nat /\ p * SB_PAGE_SIZE \in Nat /\ (p + 1) * SB_PAGE_SIZE \in Nat
         /\ p * SB_PAGE_SIZE < (p + 1) * SB_PAGE_SIZE
         /\ (p + 1) * SB_PAGE_SIZE <= LIMIT
         /\ LIMIT \in Nat /\ LIMIT <= ADDR_MAX /\ ADDR_MAX \in Nat
<1>1. p \in Nat /\ p + 1 \in Nat /\ PMM_MAX_PAGES \in Nat /\ p + 1 <= PMM_MAX_PAGES
      /\ p < p + 1
  BY PagesAssumption DEF Pages
<1> QED
  BY Zenon, <1>1, Monotone, WidthAssumption DEF LIMIT

\* reserve_range reserves every tracked page that the range touches.
LEMMA ReserveCovers ==
  ASSUME NEW p \in Pages, NEW start \in Nat, NEW end \in Nat, Touches(p, <<start, end>>)
  PROVE  p \in reserve_range(start, end)
<1>1. /\ start < end /\ start < (p + 1) * SB_PAGE_SIZE /\ p * SB_PAGE_SIZE < end
  BY Zenon DEF Touches
<1>2. /\ p \in Nat /\ p * SB_PAGE_SIZE \in Nat /\ (p + 1) * SB_PAGE_SIZE \in Nat
      /\ p * SB_PAGE_SIZE < (p + 1) * SB_PAGE_SIZE
      /\ (p + 1) * SB_PAGE_SIZE <= LIMIT
      /\ LIMIT \in Nat /\ LIMIT <= ADDR_MAX /\ ADDR_MAX \in Nat
  BY Zenon, PageBounds
<1>3. ~ (end <= start \/ start >= LIMIT)
  BY <1>1, <1>2
<1>4. align_down(start) <= p * SB_PAGE_SIZE
  <2>1. start \div SB_PAGE_SIZE \in Nat /\ align_down(start) <= start
    BY Zenon, DivMul
  <2>2. (start \div SB_PAGE_SIZE) * SB_PAGE_SIZE < (p + 1) * SB_PAGE_SIZE
    BY <1>1, <1>2, <2>1, DivMul DEF align_down
  <2>3. start \div SB_PAGE_SIZE < p + 1
    BY <1>2, <2>1, <2>2, Monotone
  <2>4. start \div SB_PAGE_SIZE <= p
    BY <1>2, <2>1, <2>3
  <2> QED
    BY Zenon, <1>2, <2>1, <2>4, Monotone DEF align_down
<1>5. (p + 1) * SB_PAGE_SIZE <= align_up(Clip(end))
  <2>1. Clip(end) \in Nat /\ p * SB_PAGE_SIZE < Clip(end) /\ Clip(end) <= ADDR_MAX
    BY <1>1, <1>2 DEF Clip
  <2>2. CASE align_up(Clip(end)) = ADDR_MAX
    BY <1>2, <2>2
  <2>3. CASE \E k \in Nat : align_up(Clip(end)) = k * SB_PAGE_SIZE
    <3>1. PICK k \in Nat : align_up(Clip(end)) = k * SB_PAGE_SIZE
      BY Zenon, <2>3
    <3>2. p * SB_PAGE_SIZE < k * SB_PAGE_SIZE
      BY <1>2, <2>1, <3>1, AlignUp, Monotone
    <3>3. p + 1 <= k
      BY <1>2, <3>2, Monotone
    <3> QED
      BY <1>2, <3>1, <3>3, Monotone
  <2> QED
    BY Zenon, <2>1, <2>2, <2>3, AlignUp
<1> QED
  BY Zenon, <1>3, <1>4, <1>5 DEF reserve_range, PagesInside

\* A page that an available entry opens lies wholly inside it.
LEMMA UsableInside ==
  ASSUME NEW start \in 0 .. ADDR_MAX, NEW end \in Nat, NEW p \in UsablePages(start, end)
  PROVE  /\ p \in Pages
         /\ start <= p * SB_PAGE_SIZE /\ (p + 1) * SB_PAGE_SIZE <= end
<1>1. /\ p \in Pages /\ align_up(start) <= p * SB_PAGE_SIZE
      /\ (p + 1) * SB_PAGE_SIZE <= align_down(Clip(end))
  BY Zenon DEF UsablePages, PagesInside
<1>2. /\ p * SB_PAGE_SIZE \in Nat /\ (p + 1) * SB_PAGE_SIZE \in Nat
      /\ LIMIT \in Nat /\ ADDR_MAX \in Nat
  BY Zenon, <1>1, PageBounds
<1>3. start <= align_up(start) /\ (align_up(start) = ADDR_MAX
        \/ \E k \in Nat : align_up(start) = k * SB_PAGE_SIZE)
  BY <1>2, AlignUp
<1>4. align_up(start) \in Nat
  BY <1>2, <1>3, PageSizeAssumption
<1>5. Clip(end) \in Nat /\ Clip(end) <= end
  BY <1>2 DEF Clip
<1>6. align_down(Clip(end)) \in Nat /\ align_down(Clip(end)) <= Clip(end)
  BY Zenon, <1>5, DivMul
<1> QED
  BY <1>1, <1>2, <1>3, <1>4, <1>5, <1>6

\* Ranges of pages are pages, and the first one is page 0.
LEMMA RangesArePages ==
  /\ \A s, e : PagesInside(s, e) \subseteq Pages /\ reserve_range(s, e) \subseteq Pages
               /\ UsablePages(s, e) \subseteq Pages
  /\ NullPage = {0}
  /\ \A p \in Pages : Touches(p, <<0, SB_PAGE_SIZE>>) => p = 0
<1>1. \A s, e : PagesInside(s, e) \subseteq Pages
  BY Zenon DEF PagesInside
<1>2. 0 \in Pages /\ 0 * SB_PAGE_SIZE = 0 /\ (0 + 1) * SB_PAGE_SIZE = SB_PAGE_SIZE
  BY PagesAssumption, PageSizeAssumption DEF Pages
<1>3. ASSUME NEW p \in Pages, p * SB_PAGE_SIZE < SB_PAGE_SIZE PROVE p = 0
  <2>1. p < 1
    BY <1>3, PageBounds, Monotone, PageSizeAssumption
  <2> QED
    BY <2>1, PageBounds
<1>4. ASSUME NEW p \in NullPage PROVE p = 0
  <2>1. p \in Pages /\ (p + 1) * SB_PAGE_SIZE <= SB_PAGE_SIZE
    BY Zenon DEF NullPage, PagesInside
  <2> QED
    BY <1>3, <2>1, PageBounds, PageSizeAssumption
<1>5. 0 \in NullPage
  BY <1>2, PageSizeAssumption DEF NullPage, PagesInside
<1> QED
  BY Zenon, <1>1, <1>3, <1>4, <1>5 DEF reserve_range, UsablePages, Touches

\* The fallback window holds neither the kernel nor the null page.
LEMMA WindowFree ==
  PagesInside(window_start, window_end)
    \cap (PagesInside(kernel_start, kernel_end) \cup NullPage) = {}
<1> SUFFICES ASSUME NEW p \in PagesInside(window_start, window_end),
                    p \in PagesInside(kernel_start, kernel_end) \cup NullPage
             PROVE  FALSE
  OBVIOUS
<1>1. p \in Pages /\ window_start <= p * SB_PAGE_SIZE
  BY Zenon DEF PagesInside
<1>2. /\ p * SB_PAGE_SIZE \in Nat /\ (p + 1) * SB_PAGE_SIZE \in Nat
      /\ p * SB_PAGE_SIZE < (p + 1) * SB_PAGE_SIZE
  BY Zenon, <1>1, PageBounds
<1>3. kernel_start \in Nat /\ kernel_end \in Nat /\ window_start \in Nat
  BY Zenon, WidthAssumption
<1>4. CASE p \in PagesInside(kernel_start, kernel_end)
  <2>1. (p + 1) * SB_PAGE_SIZE <= kernel_end
    BY Zenon, <1>4 DEF PagesInside
  <2> QED
    BY <1>1, <1>2, <1>3, <2>1, KernelAssumption
<1>5. CASE p \in NullPage
  <2>1. p = 0 /\ p * SB_PAGE_SIZE = 0
    BY <1>5, RangesArePages, PageSizeAssumption
  <2> QED
    BY <1>1, <1>3, <2>1, KernelAssumption
<1> QED
  BY Zenon, <1>4, <1>5

----------------------------------------------------------------------------
(* The pool *)

\* R holds every page of the range.
Covers(R, range) == \A p \in Pages : Touches(p, range) => p \in R

\* Reserving a range claims it and opens nothing.
LEMMA PoolReserve ==
  ASSUME PoolInv, NEW R, Reserve(R), R \subseteq Pages, UNCHANGED usable,
         NEW range, Covers(R, range), claimed' = claimed \/ claimed' = claimed \cup {range}
  PROVE  PoolInv'
<1>1. /\ bitmap' = bitmap \cup R /\ reserved_bitmap' = reserved_bitmap \cup R
      /\ allocated_bitmap' = allocated_bitmap
  BY Zenon DEF Reserve
<1>2. FreePages' \subseteq FreePages
  BY Zenon, <1>1 DEF FreePages
<1>3. \A p \in FreePages' :
        \E r \in usable' : r[1] <= p * SB_PAGE_SIZE /\ (p + 1) * SB_PAGE_SIZE <= r[2]
  BY Zenon, <1>2 DEF PoolInv
<1>4. \A p \in Pages : \A r \in claimed' : Touches(p, r) => p \in reserved_bitmap'
  BY Zenon, <1>1 DEF PoolInv, Covers
<1> QED
  BY Zenon, <1>1, <1>3, <1>4 DEF PoolInv

\* Opening the pages inside an available range leaves what is reserved alone.
LEMMA PoolOpen ==
  ASSUME PoolInv, NEW start, NEW end, NEW R, AddUsable(R), R \subseteq Pages,
         usable' = usable \cup {<<start, end>>}, UNCHANGED claimed,
         \A p \in R : start <= p * SB_PAGE_SIZE /\ (p + 1) * SB_PAGE_SIZE <= end
  PROVE  PoolInv'
<1>1. /\ bitmap' = (bitmap \ R) \cup (reserved_bitmap \cap R)
      /\ reserved_bitmap' = reserved_bitmap /\ allocated_bitmap' = {}
  BY Zenon DEF AddUsable, Opened, PoolInv
<1>2. FreePages' \subseteq FreePages \cup R
  BY Zenon, <1>1 DEF FreePages
<1>3. ASSUME NEW p \in FreePages'
      PROVE  \E r \in usable' : r[1] <= p * SB_PAGE_SIZE /\ (p + 1) * SB_PAGE_SIZE <= r[2]
  <2>1. CASE p \in FreePages
    BY Zenon, <2>1 DEF PoolInv
  <2>2. CASE p \in R
    <3>1. <<start, end>> \in usable' /\ <<start, end>>[1] = start /\ <<start, end>>[2] = end
      OBVIOUS
    <3> QED
      BY Zenon, <2>2, <3>1
  <2> QED
    BY Zenon, <1>2, <2>1, <2>2
<1>4. bitmap' \subseteq Pages /\ reserved_bitmap' \subseteq bitmap'
  BY Zenon, <1>1 DEF PoolInv
<1> QED
  BY Zenon, <1>1, <1>3, <1>4 DEF PoolInv

\* Reading a tag moves no page.
LEMMA PoolSame ==
  ASSUME PoolInv, UNCHANGED <<bitmap, reserved_bitmap, allocated_bitmap, usable, claimed>>
  PROVE  PoolInv'
BY Zenon DEF PoolInv, FreePages

----------------------------------------------------------------------------
(* Steps *)

\* The tags remembered are tags of the block, whichever walk is on.
LEMMA TagsSound ==
  ASSUME BootInv
  PROVE  \A o \in DOMAIN block : block[o] \in Tags
<1>1. Early \/ Importing \/ (After /\ fell_back = TRUE) \/ (After /\ fell_back = FALSE)
  BY Zenon DEF BootInv, TypesInv
<1>2. CASE Early
  BY Zenon, <1>2 DEF BootInv, Fresh, NoTags
<1>3. CASE Importing
  BY Zenon, <1>3 DEF BootInv, ImportInv, TagOK
<1>4. CASE After /\ fell_back = TRUE
  BY Zenon, <1>4 DEF BootInv, FallbackInv
<1>5. CASE After /\ fell_back = FALSE
  BY Zenon, <1>5 DEF BootInv, AcceptedInv, TagOK
<1> QED
  BY Zenon, <1>1, <1>2, <1>3, <1>4, <1>5

\* Whatever the walk had done, the fallback leaves its window and the walks
\* that follow on their own.
LEMMA FallsBack ==
  ASSUME BootInv, fallback_to_bootstrap, read_end' <= info.total_size,
         block' = block \/ block' = NoTags
  PROVE  BootInv'
<1>1. /\ reserved_bitmap' = PagesInside(kernel_start, kernel_end) \cup NullPage
      /\ bitmap' = (Pages \ PagesInside(window_start, window_end)) \cup reserved_bitmap'
      /\ pc' = "imported" /\ fell_back' = TRUE
      /\ scan' = FirstTag /\ info' = info
  BY Zenon DEF fallback_to_bootstrap
<1>2. FreePages' = PagesInside(window_start, window_end)
  BY Zenon, <1>1, WindowFree, RangesArePages DEF FreePages
<1>3. TypesInv'
  BY Zenon, <1>1 DEF TypesInv, FirstTag, BootInv
<1>4. ReadsInsideInfo'
  BY Zenon, <1>1 DEF ReadsInsideInfo
<1>5. \A o \in DOMAIN block' : block'[o] \in Tags
  BY Zenon, TagsSound DEF NoTags
<1>6. FallbackInv'
  BY Zenon, <1>2, <1>5 DEF FallbackInv
<1> QED
  BY Zenon, <1>1, <1>3, <1>4, <1>6 DEF BootInv, Early, Importing, After

\* The next walk begins at the first tag.
LEMMA FirstTagIs ==
  /\ FirstTag.offset = 8 /\ FirstTag.valid_end = FALSE
  /\ DOMAIN FirstTag = {"offset", "tags_seen", "entries_seen", "modules_seen",
                        "valid_end", "seen_mmap"}
BY Zenon DEF FirstTag

\* Leave puts every walk there.
LEMMA Restarted ==
  ASSUME TypesInv, scan' = FirstTag
  PROVE  DOMAIN scan' = DOMAIN scan /\ scan'.offset = 8 /\ scan'.offset \in Nat
BY FirstTagIs DEF TypesInv

\* kmain hands over the address; nothing has been read yet.
LEMMA ReadHeaderStep ==
  ASSUME BootInv, NEW a \in InfoAddresses, NEW t \in TotalSizes, ReadHeader(a, t)
  PROVE  BootInv'
<1>1. /\ pc = "start" /\ info' = [address |-> a, total_size |-> t]
      /\ pc' = "fb" /\ scan' = FirstTag
      /\ UNCHANGED <<usable, claimed, fell_back, block, read_end, fb, found>>
  BY Zenon DEF ReadHeader, Leave, walk_vars
<1>2. info'.address \in Nat /\ info'.total_size \in 0 .. U32 - 1
  BY <1>1, WidthAssumption
<1>3. TypesInv'
  BY <1>1, <1>2, FirstTagIs DEF TypesInv, BootInv
<1>4. ReadsInsideInfo'
  BY <1>1, <1>2, WidthAssumption DEF ReadsInsideInfo, BootInv
<1>5. Fresh'
  BY Zenon, <1>1 DEF BootInv, Early, Fresh
<1> QED
  BY Zenon, <1>1, <1>3, <1>4, <1>5 DEF BootInv, Early, Importing, After

\* Stepping over a tag moves the offset by the padded size.
LEMMA StepsOver ==
  ASSUME TypesInv, NEW size \in Nat, StepOver(size)
  PROVE  /\ DOMAIN scan' = DOMAIN scan
         /\ scan'.offset = scan.offset + NextOffset(size)
         /\ scan'.offset \in Nat /\ scan'.valid_end = scan.valid_end
         /\ NextOffset(size) \in Nat /\ NextOffset(size) >= size
<1>1. NextOffset(size) \in Nat /\ NextOffset(size) >= size
  BY DEF NextOffset
<1> QED
  BY <1>1 DEF StepOver, TypesInv

\* sb_framebuffer_init reads the head of a tag that is there, and more of it
\* only when the tag is that long.
LEMMA FramebufferStep ==
  ASSUME BootInv, NEW t, FramebufferEnd \/ (t \in Tags /\ FramebufferTag(t))
  PROVE  BootInv'
<1>1. /\ pc = "fb" /\ UNCHANGED <<info, usable, claimed, fell_back, block, found>>
  BY Zenon DEF FramebufferTag, FramebufferEnd, walk_vars
<1>2. /\ t \in Tags => t.size \in Nat
      /\ TypesInv /\ Fresh /\ ReadsInsideInfo
      /\ info.total_size \in Nat /\ scan.offset \in Nat /\ read_end <= info.total_size
  BY <1>1, TagsAssumption, WidthAssumption DEF BootInv, Early, TypesInv, ReadsInsideInfo
<1>3. Fresh'
  BY Zenon, <1>1, <1>2 DEF Fresh
<1>4. read_end' <= info.total_size
  <2>1. CASE FramebufferEnd
    BY Zenon, <1>2, <2>1 DEF FramebufferEnd, walk_vars
  <2>2. CASE t \in Tags /\ FramebufferTag(t)
    <3>1. read_end' = scan.offset + FramebufferBytes(t) /\ MoreTags
      BY Zenon, <2>2 DEF FramebufferTag, Read
    <3>2. scan.offset + 8 <= info.total_size
      BY <1>2, <3>1 DEF MoreTags, SIZEOF_TAG
    <3>3. \/ FramebufferBytes(t) = 8
          \/ /\ TagFits(t.size)
             /\ FramebufferBytes(t) \in {32, 38} /\ t.size >= FramebufferBytes(t)
      BY <1>2, <2>2 DEF FramebufferBytes, SIZEOF_TAG, SIZEOF_FB_PREFIX, SIZEOF_FB_DIRECT
    <3> QED
      BY <1>2, <2>2, <3>1, <3>2, <3>3 DEF TagFits, Remaining
  <2> QED
    BY Zenon, <2>1, <2>2
<1>5. \/ pc' = "import" /\ scan' = FirstTag
      \/ pc' = "fb" /\ StepOver(t.size) /\ t \in Tags
  BY Zenon, <1>1 DEF FramebufferTag, FramebufferEnd, Leave
<1>6. TypesInv'
  <2>1. CASE scan' = FirstTag
    BY <1>1, <1>2, <2>1, FirstTagIs DEF TypesInv
  <2>2. CASE StepOver(t.size) /\ t \in Tags
    BY Zenon, <1>1, <1>2, <2>2, StepsOver DEF TypesInv
  <2> QED
    BY Zenon, <1>5, <2>1, <2>2
<1>7. ReadsInsideInfo'
  BY Zenon, <1>1, <1>4 DEF ReadsInsideInfo
<1> QED
  BY Zenon, <1>3, <1>5, <1>6, <1>7 DEF BootInv, Early, Importing, After

\* pmm_init_from_multiboot starts with every page reserved or unusable.
LEMMA ImportStartStep ==
  ASSUME BootInv, ImportStart
  PROVE  BootInv'
<1>1. /\ pc = "import" /\ scan = FirstTag /\ Fresh /\ TypesInv /\ read_end <= info.total_size
      /\ read_end' = read_end /\ block' = block /\ found' = found
  BY Zenon DEF ImportStart, BootInv, Early, ReadsInsideInfo, walk_vars
<1>2. CASE fallback_to_bootstrap
  BY Zenon, <1>1, <1>2, FallsBack
<1>3. CASE /\ HeaderOK /\ bitmap' = Pages /\ reserved_bitmap' = NullPage
           /\ allocated_bitmap' = {} /\ pc' = "tags"
           /\ UNCHANGED <<info, scan, mmap, usable, claimed, fell_back>>
  <2>1. FreePages' = {} /\ NullPage \subseteq Pages
    BY Zenon, <1>3, RangesArePages DEF FreePages, NullPage
  <2>2. PoolInv'
    BY Zenon, <1>1, <1>3, <2>1 DEF PoolInv, Fresh
  <2>3. HeaderOK'
    BY Zenon, <1>3 DEF HeaderOK
  <2>4. DOMAIN block' = {} /\ fell_back' = FALSE /\ found' = <<>> /\ scan' = FirstTag
    BY Zenon, <1>1, <1>3 DEF Fresh, NoTags
  <2>5. Chained'
    BY Zenon, <1>3, <2>4, FirstTagIs DEF Chained
  <2>6. ImportInv'
    BY Zenon, <1>3, <2>2, <2>3, <2>4, <2>5, FirstTagIs DEF ImportInv
  <2>7. TypesInv' /\ ReadsInsideInfo'
    BY Zenon, <1>1, <1>3 DEF TypesInv, ReadsInsideInfo
  <2> QED
    BY Zenon, <1>3, <2>6, <2>7 DEF BootInv, Early, Importing, After
<1> QED
  BY Zenon, <1>2, <1>3 DEF ImportStart

\* The import stops, having found no end of the tags.
LEMMA TagsEndStep ==
  ASSUME BootInv, TagsEnd
  PROVE  BootInv'
<1>1. /\ pc = "tags" /\ pc' = "finish"
      /\ UNCHANGED <<bitmap, reserved_bitmap, allocated_bitmap, info, scan, mmap, usable,
                     claimed, fell_back, block, read_end, found>>
  BY Zenon DEF TagsEnd, pmm_vars, walk_vars
<1>2. TypesInv /\ ReadsInsideInfo /\ ImportInv /\ scan.valid_end = FALSE
  BY Zenon, <1>1 DEF BootInv, Importing, ImportInv
<1>3. PoolInv'
  BY Zenon, <1>1, <1>2, PoolSame DEF ImportInv
<1>4. \A o \in DOMAIN block' : TagOK(o)'
  BY Zenon, <1>1, <1>2 DEF ImportInv, TagOK
<1>5. ImportInv'
  BY Zenon, <1>1, <1>2, <1>3, <1>4 DEF ImportInv, HeaderOK
<1>6. TypesInv' /\ ReadsInsideInfo'
  BY Zenon, <1>1, <1>2 DEF TypesInv, ReadsInsideInfo
<1> QED
  BY Zenon, <1>1, <1>5, <1>6 DEF BootInv, Early, Importing, After

\* A tag the import does not abandon is remembered where it was read.
Kept(t) ==
  /\ fell_back' = FALSE
  /\ DOMAIN block' = DOMAIN block \cup {scan.offset}
  /\ block'[scan.offset] = t
  /\ \A o \in DOMAIN block : o # scan.offset => block'[o] = block[o]

\* Tags remembered before stay sound, and the new one is if it fits.
LEMMA TagsKept ==
  ASSUME ImportInv, TypesInv, NEW t \in Tags, Kept(t), TagFits(t.size), UNCHANGED info,
         claimed \subseteq claimed', t.type = "module" => t.range \in claimed'
  PROVE  \A o \in DOMAIN block' : TagOK(o)'
<1>1. scan.offset \in Nat /\ info.total_size \in Nat /\ t.size \in Nat
  BY TagsAssumption, WidthAssumption DEF TypesInv
<1>2. t.size >= SIZEOF_TAG /\ scan.offset + t.size <= info.total_size
  BY <1>1 DEF TagFits, Remaining
<1>3. ASSUME NEW o, o = scan.offset PROVE TagOK(o)'
  BY Zenon, <1>1, <1>2, <1>3 DEF TagOK, Kept
<1>4. ASSUME NEW o \in DOMAIN block, o # scan.offset PROVE TagOK(o)'
  BY Zenon, <1>4 DEF TagOK, Kept, ImportInv
<1> QED
  BY Zenon, <1>3, <1>4 DEF Kept

\* The chain grows by one tag: what followed it before is still what follows.
LEMMA ChainKept ==
  ASSUME ImportInv, TypesInv, pc = "tags", NEW t \in Tags, Kept(t), UNCHANGED info,
         NEW here, here = scan.offset, Linked(here)'
  PROVE  Chained'
<1>1. Chained
  BY Zenon DEF ImportInv
<1>2. 8 \in DOMAIN block'
  BY Zenon, <1>1 DEF Chained, Kept
<1>3. ASSUME NEW o \in DOMAIN block, o # scan.offset PROVE Linked(o)'
  <2>1. Linked(o) /\ block'[o] = block[o]
    BY Zenon, <1>1, <1>3 DEF Chained, Kept
  <2> QED
    BY Zenon, <2>1 DEF Linked, Kept
<1> QED
  BY Zenon, <1>2, <1>3 DEF Chained, Kept

\* One tag of the import, by its type.
LEMMA ImportTagStep ==
  ASSUME BootInv, NEW t \in Tags, ImportTag(t)
  PROVE  BootInv'
<1>1. PICK here : here = scan.offset
  OBVIOUS
<1>2. /\ pc = "tags" /\ MoreTags /\ read_end' = here + ImportBytes(t) /\ found' = found
      /\ BadTag(t) \/ EndTag(t) \/ ModuleTag(t) \/ MmapTag(t) \/ OtherTag(t)
  BY Zenon, <1>1 DEF ImportTag, Read
<1>3. TypesInv /\ ImportInv /\ fell_back = FALSE /\ Importing
  BY Zenon, <1>2 DEF BootInv, Importing, ImportInv
<1>4. /\ here \in Nat /\ info.total_size \in Nat /\ info.total_size < U32 /\ U32 \in Nat
      /\ t.size \in Nat /\ t.size < U32
      /\ t.type \in {"end", "module", "mmap", "framebuffer", "other"}
  BY <1>1, <1>3, TagsAssumption, WidthAssumption DEF TypesInv
<1>5. read_end' <= info.total_size
  <2>1. here + 8 <= info.total_size
    BY <1>1, <1>2, <1>4 DEF MoreTags, SIZEOF_TAG
  <2>2. ImportBytes(t) = 8 \/ (ImportBytes(t) = 16 /\ TagFits(t.size) /\ t.size >= 16)
    BY Zenon DEF ImportBytes, SIZEOF_TAG, SIZEOF_MODULE_TAG
  <2> QED
    BY <1>1, <1>2, <1>4, <2>1, <2>2 DEF TagFits, Remaining
<1>6. CASE fallback_to_bootstrap
  <2>1. block' = NoTags
    BY Zenon, <1>6 DEF ImportTag, fallback_to_bootstrap
  <2> QED
    BY Zenon, <1>5, <1>6, <2>1, FallsBack
<1>7. ASSUME TagFits(t.size), UNCHANGED <<info, fell_back>> PROVE Kept(t)
  BY Zenon, <1>3, <1>7 DEF ImportTag, Kept
<1>8. ASSUME info' = info, fell_back' = FALSE, scan'.offset \in Nat, DOMAIN scan' = DOMAIN scan,
             pc' \in {"tags", "mmap", "finish"}, ImportInv'
      PROVE  BootInv'
  <2>1. TypesInv' /\ ReadsInsideInfo'
    BY Zenon, <1>3, <1>5, <1>8 DEF TypesInv, ReadsInsideInfo
  <2> QED
    BY Zenon, <1>8, <2>1 DEF BootInv, Early, Importing, After
<1>9. ASSUME info' = info PROVE HeaderOK'
  BY Zenon, <1>3, <1>9 DEF ImportInv, HeaderOK
<1>10. found' = <<>> /\ scan.valid_end = FALSE
  BY Zenon, <1>2, <1>3 DEF ImportInv
<1>11. CASE EndTag(t)
  <2>1. /\ t.type = "end" /\ TagFits(t.size) /\ pc' = "finish"
        /\ UNCHANGED <<bitmap, reserved_bitmap, allocated_bitmap>>
        /\ UNCHANGED <<info, mmap, usable, claimed, fell_back>>
    BY Zenon, <1>11 DEF EndTag, pmm_vars
  <2>2. scan'.offset = scan.offset /\ DOMAIN scan' = DOMAIN scan
    BY Zenon, <1>3, <1>11 DEF EndTag, TypesInv
  <2>3. Kept(t) /\ PoolInv'
    BY Zenon, <1>3, <1>7, <2>1, PoolSame DEF ImportInv
  <2>4. \A o \in DOMAIN block' : TagOK(o)'
    BY Zenon, <1>3, <2>1, <2>3, TagsKept
  <2>5. Linked(here)'
    BY Zenon, <1>1, <2>1, <2>3 DEF Linked, Kept
  <2>6. Chained'
    BY Zenon, <1>1, <1>2, <1>3, <2>1, <2>3, <2>5, ChainKept
  <2>7. ImportInv'
    BY Zenon, <1>3, <1>9, <1>10, <2>1, <2>3, <2>4, <2>6 DEF ImportInv
  <2> QED
    BY Zenon, <1>1, <1>3, <1>4, <1>8, <2>1, <2>2, <2>7
<1>12. CASE /\ ModuleTag(t) /\ ~ fallback_to_bootstrap
  <2>1. /\ t.type = "module" /\ TagFits(t.size) /\ Padded(t.size) /\ pc' = "tags"
        /\ Reserve(ModulePages(t.range)) /\ claimed' = claimed \cup {t.range}
        /\ UNCHANGED <<info, mmap, usable, fell_back>>
        /\ scan' = [scan EXCEPT !.offset = @ + NextOffset(t.size),
                                !.tags_seen = @ + 1, !.modules_seen = @ + 1]
    BY Zenon, <1>2, <1>12 DEF ModuleTag
  <2>2. NextOffset(t.size) \in Nat
    BY <1>4 DEF NextOffset
  <2>3. /\ scan'.offset = here + NextOffset(t.size) /\ DOMAIN scan' = DOMAIN scan
        /\ scan'.valid_end = scan.valid_end /\ scan'.offset \in Nat
    BY <1>1, <1>3, <1>4, <2>1, <2>2 DEF TypesInv
  <2>4. t.range[1] \in Nat /\ t.range[2] \in Nat
    BY Zenon, <2>1, TagsAssumption
  <2>5. Covers(ModulePages(t.range), t.range)
    BY Zenon, <2>4, ReserveCovers DEF ModulePages, Touches, Covers
  <2>6. Kept(t) /\ PoolInv'
    <3>1. ModulePages(t.range) \subseteq Pages
      BY Zenon, RangesArePages DEF ModulePages
    <3>2. PoolInv'
      BY Zenon, <1>3, <2>1, <2>5, <3>1, PoolReserve DEF ImportInv
    <3> QED
      BY Zenon, <1>7, <2>1, <3>2
  <2>7. \A o \in DOMAIN block' : TagOK(o)'
    BY Zenon, <1>3, <2>1, <2>6, TagsKept
  <2>8. Linked(here)'
    BY <1>1, <1>4, <2>1, <2>2, <2>3, <2>6 DEF Linked, Kept, Padded, Remaining
  <2>9. Chained'
    BY Zenon, <1>1, <1>2, <1>3, <2>1, <2>6, <2>8, ChainKept
  <2>10. ImportInv'
    BY Zenon, <1>3, <1>9, <1>10, <2>1, <2>3, <2>6, <2>7, <2>9 DEF ImportInv
  <2> QED
    BY Zenon, <1>3, <1>8, <2>1, <2>3, <2>10
<1>13. CASE MmapTag(t) /\ ~ fallback_to_bootstrap
  <2>1. /\ t.type = "mmap" /\ TagFits(t.size) /\ MmapTagOK(t.size, t.entry_size) /\ pc' = "mmap"
        /\ scan' = [scan EXCEPT !.seen_mmap = TRUE]
        /\ mmap' = [size |-> t.size, entry_size |-> t.entry_size,
                    entry_offset |-> SIZEOF_MMAP_TAG]
        /\ UNCHANGED <<bitmap, reserved_bitmap, allocated_bitmap>>
        /\ UNCHANGED <<info, usable, claimed, fell_back>>
    BY Zenon, <1>13 DEF MmapTag, pmm_vars
  <2>2. /\ scan'.offset = here /\ DOMAIN scan' = DOMAIN scan /\ scan'.valid_end = scan.valid_end
    BY Zenon, <1>1, <1>3, <2>1 DEF TypesInv
  <2>3. Kept(t) /\ PoolInv'
    BY Zenon, <1>3, <1>7, <2>1, PoolSame DEF ImportInv
  <2>4. \A o \in DOMAIN block' : TagOK(o)'
    BY Zenon, <1>3, <2>1, <2>3, TagsKept
  <2>5. Linked(here)'
    BY Zenon, <1>1, <2>1, <2>2, <2>3 DEF Linked, Kept
  <2>6. Chained'
    BY Zenon, <1>1, <1>2, <1>3, <2>1, <2>3, <2>5, ChainKept
  <2>7. MapInv'
    <3>1. t.entry_size \in 0 .. U32 - 1 /\ t.size \in 0 .. U32 - 1
      BY Zenon, <2>1, TagsAssumption
    <3>2. /\ mmap'.size = t.size /\ mmap'.entry_size = t.entry_size /\ mmap'.entry_offset = 16
          /\ DOMAIN mmap' = {"size", "entry_size", "entry_offset"}
      BY Zenon, <2>1 DEF SIZEOF_MMAP_TAG
    <3> QED
      BY <1>1, <2>1, <2>2, <2>3, <3>1, <3>2 DEF MapInv, Kept, MmapTagOK
  <2>8. ImportInv'
    BY Zenon, <1>3, <1>9, <1>10, <2>1, <2>2, <2>3, <2>4, <2>6, <2>7 DEF ImportInv
  <2> QED
    BY Zenon, <1>3, <1>4, <1>8, <2>1, <2>2, <2>8
<1>14. CASE OtherTag(t) /\ ~ fallback_to_bootstrap
  <2>1. /\ t.type \in {"framebuffer", "other"} /\ TagFits(t.size) /\ Padded(t.size) /\ pc' = "tags"
        /\ StepOver(t.size)
        /\ UNCHANGED <<bitmap, reserved_bitmap, allocated_bitmap>>
        /\ UNCHANGED <<info, usable, claimed, fell_back>>
    BY Zenon, <1>14 DEF OtherTag, Advance, pmm_vars
  <2>2. /\ scan'.offset = here + NextOffset(t.size) /\ DOMAIN scan' = DOMAIN scan
        /\ scan'.valid_end = scan.valid_end /\ scan'.offset \in Nat /\ NextOffset(t.size) \in Nat
    BY Zenon, <1>1, <1>3, <1>4, <2>1, StepsOver
  <2>3. Kept(t) /\ PoolInv'
    BY Zenon, <1>3, <1>7, <2>1, PoolSame DEF ImportInv
  <2>4. \A o \in DOMAIN block' : TagOK(o)'
    BY Zenon, <1>3, <2>1, <2>3, TagsKept
  <2>5. Linked(here)'
    BY <1>1, <1>4, <2>1, <2>2, <2>3 DEF Linked, Kept, Padded, Remaining
  <2>6. Chained'
    BY Zenon, <1>1, <1>2, <1>3, <2>1, <2>3, <2>5, ChainKept
  <2>7. ImportInv'
    BY Zenon, <1>3, <1>9, <1>10, <2>1, <2>2, <2>3, <2>4, <2>6 DEF ImportInv
  <2> QED
    BY Zenon, <1>3, <1>8, <2>1, <2>2, <2>7
<1> QED
  BY Zenon, <1>2, <1>6, <1>11, <1>12, <1>13, <1>14 DEF BadTag

\* One entry of the memory map.  The offset never passes the tag's end: the
\* size check keeps the unsigned difference from wrapping.
LEMMA MmapEntryStep ==
  ASSUME BootInv, NEW entry \in MapEntries, MmapEntry(entry)
  PROVE  BootInv'
<1> DEFINE end == (entry.addr + entry.len) % (ADDR_MAX + 1)
<1>1. /\ pc = "mmap" /\ MoreEntries /\ block' = block /\ found' = found
      /\ read_end' = scan.offset + mmap.entry_offset + SIZEOF_MMAP_ENTRY
  BY Zenon DEF MmapEntry
<1>2. TypesInv /\ ImportInv /\ MapInv
  BY Zenon, <1>1 DEF BootInv, Importing, ImportInv
<1>3. /\ scan.offset \in Nat /\ info.total_size \in Nat
      /\ mmap.size \in Nat /\ mmap.entry_size \in Nat /\ mmap.entry_offset \in Nat
      /\ mmap.size < U32 /\ U32 \in Nat /\ mmap.entry_size >= 24 /\ mmap.entry_size <= mmap.size
      /\ scan.offset + mmap.size <= info.total_size
  <2>1. U32 \in Nat \ {0}
    BY Zenon, WidthAssumption
  <2>2. /\ scan.offset \in Nat /\ info.total_size \in 0 .. U32 - 1
        /\ mmap.size \in 0 .. U32 - 1 /\ mmap.entry_size \in 0 .. U32 - 1
        /\ mmap.entry_offset \in Nat /\ MmapTagOK(mmap.size, mmap.entry_size)
    BY Zenon, <1>2 DEF TypesInv, MapInv
  <2>3. scan.offset + mmap.size <= info.total_size
    <3>1. TagOK(scan.offset) /\ block[scan.offset].size = mmap.size
      BY Zenon, <1>2 DEF ImportInv, MapInv
    <3> QED
      BY Zenon, <3>1 DEF TagOK
  <2>4. mmap.entry_size >= 24 /\ mmap.entry_size <= mmap.size
    BY <2>1, <2>2 DEF MmapTagOK, SIZEOF_MMAP_TAG, SIZEOF_MMAP_ENTRY
  <2> QED
    BY <2>1, <2>2, <2>3, <2>4
<1>4. mmap.entry_offset + mmap.entry_size <= mmap.size
  <2>1. (mmap.size - mmap.entry_size) % U32 = mmap.size - mmap.entry_size
    BY <1>3
  <2> QED
    BY <1>1, <1>3, <2>1 DEF MoreEntries, Minus32
<1>5. read_end' <= info.total_size
  BY <1>1, <1>3, <1>4 DEF SIZEOF_MMAP_ENTRY
<1>6. CASE fallback_to_bootstrap
  BY Zenon, <1>1, <1>5, <1>6, FallsBack
<1>7. CASE ~ fallback_to_bootstrap
  <2>1. /\ scan' = [scan EXCEPT !.entries_seen = @ + 1]
        /\ mmap' = [mmap EXCEPT !.entry_offset = @ + mmap.entry_size]
        /\ UNCHANGED <<pc, info, fell_back>>
    BY Zenon, <1>7 DEF MmapEntry
  <2>2. \/ UNCHANGED pmm_vars /\ UNCHANGED <<usable, claimed>>
        \/ /\ LengthOK(entry) /\ AddUsable(UsablePages(entry.addr, end))
           /\ usable' = usable \cup {<<entry.addr, end>>} /\ UNCHANGED claimed
        \/ /\ LengthOK(entry) /\ Reserve(reserve_range(entry.addr, end))
           /\ claimed' = claimed \cup {<<entry.addr, end>>} /\ UNCHANGED usable
    BY Zenon, <1>7, MapEntriesAssumption DEF MmapEntry
  <2>3. /\ scan'.offset = scan.offset /\ scan'.valid_end = scan.valid_end
        /\ DOMAIN scan' = DOMAIN scan
    BY Zenon, <1>2, <2>1 DEF TypesInv
  <2>4. /\ mmap'.size = mmap.size /\ mmap'.entry_size = mmap.entry_size
        /\ mmap'.entry_offset \in Nat /\ DOMAIN mmap' = DOMAIN mmap
    BY <1>2, <1>3, <2>1 DEF MapInv
  <2>5. entry.addr \in 0 .. ADDR_MAX /\ end \in Nat
    BY MapEntriesAssumption, WidthAssumption
  <2> HIDE DEF end
  <2>6. PoolInv'
    <3>1. PoolInv
      BY Zenon, <1>2 DEF ImportInv
    <3>2. CASE UNCHANGED pmm_vars /\ UNCHANGED <<usable, claimed>>
      BY Zenon, <3>1, <3>2, PoolSame DEF pmm_vars
    <3>3. CASE /\ AddUsable(UsablePages(entry.addr, end))
               /\ usable' = usable \cup {<<entry.addr, end>>} /\ UNCHANGED claimed
      <4>1. UsablePages(entry.addr, end) \subseteq Pages
        BY Zenon, RangesArePages
      <4>2. \A p \in UsablePages(entry.addr, end) :
              entry.addr <= p * SB_PAGE_SIZE /\ (p + 1) * SB_PAGE_SIZE <= end
        BY Zenon, <2>5, UsableInside
      <4> QED
        BY Zenon, <3>1, <3>3, <4>1, <4>2, PoolOpen
    <3>4. CASE /\ Reserve(reserve_range(entry.addr, end))
               /\ claimed' = claimed \cup {<<entry.addr, end>>} /\ UNCHANGED usable
      <4>1. reserve_range(entry.addr, end) \subseteq Pages
        BY Zenon, RangesArePages
      <4>2. Covers(reserve_range(entry.addr, end), <<entry.addr, end>>)
        BY <2>5, ReserveCovers, WidthAssumption DEF Covers
      <4> QED
        BY Zenon, <3>1, <3>4, <4>1, <4>2, PoolReserve
    <3> QED
      BY Zenon, <2>2, <3>2, <3>3, <3>4
  <2>7. claimed \subseteq claimed'
    BY Zenon, <2>2
  <2>8. ASSUME NEW o \in DOMAIN block' PROVE TagOK(o)' /\ Linked(o)'
    <3>1. TagOK(o) /\ Linked(o)
      BY Zenon, <1>1, <1>2 DEF ImportInv, Chained
    <3> QED
      BY Zenon, <1>1, <2>1, <2>3, <2>7, <3>1 DEF TagOK, Linked
  <2>9. Chained'
    BY Zenon, <1>1, <1>2, <2>1, <2>3, <2>8 DEF Chained, ImportInv
  <2>10. MapInv'
    BY Zenon, <1>1, <1>2, <2>3, <2>4 DEF MapInv
  <2>11. ImportInv'
    BY Zenon, <1>1, <1>2, <2>1, <2>3, <2>6, <2>8, <2>9, <2>10 DEF ImportInv, HeaderOK
  <2>12. TypesInv' /\ ReadsInsideInfo'
    BY Zenon, <1>2, <1>3, <1>5, <2>1, <2>3 DEF TypesInv, ReadsInsideInfo
  <2> QED
    BY Zenon, <1>1, <2>1, <2>11, <2>12 DEF BootInv, Early, Importing, After
<1> QED
  BY Zenon, <1>6, <1>7

\* The map tag is done: the walk goes on behind it.
LEMMA MmapEndStep ==
  ASSUME BootInv, MmapEnd
  PROVE  BootInv'
<1>1. pc = "mmap" /\ UNCHANGED <<block, read_end, found>>
  BY Zenon DEF MmapEnd, walk_vars
<1>2. TypesInv /\ ImportInv /\ MapInv /\ read_end <= info.total_size
  BY Zenon, <1>1 DEF BootInv, Importing, ImportInv, ReadsInsideInfo
<1>3. CASE fallback_to_bootstrap
  BY Zenon, <1>1, <1>2, <1>3, FallsBack
<1>4. CASE ~ fallback_to_bootstrap
  <2>1. /\ ~ (NextOffset(mmap.size) > Remaining) /\ StepOver(mmap.size) /\ pc' = "tags"
        /\ UNCHANGED <<bitmap, reserved_bitmap, allocated_bitmap, info, mmap, usable, claimed,
                       fell_back>>
    BY Zenon, <1>4 DEF MmapEnd, Advance, pmm_vars
  <2>2. mmap.size \in Nat /\ info.total_size \in Nat /\ scan.offset \in Nat
    BY <1>2, WidthAssumption DEF MapInv, TypesInv
  <2>3. /\ scan'.offset = scan.offset + NextOffset(mmap.size) /\ DOMAIN scan' = DOMAIN scan
        /\ scan'.valid_end = scan.valid_end /\ scan'.offset \in Nat
        /\ NextOffset(mmap.size) \in Nat
    BY Zenon, <1>2, <2>1, <2>2, StepsOver
  <2>4. scan.offset + NextOffset(mmap.size) <= info.total_size
    BY <2>1, <2>2, <2>3 DEF Remaining
  <2>5. ASSUME NEW o \in DOMAIN block' PROVE TagOK(o)' /\ Linked(o)'
    <3>1. TagOK(o) /\ Linked(o) /\ (o = scan.offset => block[o].size = mmap.size)
      BY Zenon, <1>1, <1>2 DEF ImportInv, Chained, MapInv
    <3>2. TagOK(o)'
      BY Zenon, <1>1, <2>1, <3>1 DEF TagOK
    <3>3. Linked(o)'
      BY Zenon, <1>1, <2>1, <2>3, <2>4, <3>1 DEF Linked
    <3> QED
      BY Zenon, <3>2, <3>3
  <2>6. Chained'
    BY Zenon, <1>1, <1>2, <2>1, <2>5 DEF Chained, ImportInv
  <2>7. PoolInv'
    BY Zenon, <1>2, <2>1, PoolSame DEF ImportInv
  <2>8. ImportInv'
    BY Zenon, <1>1, <1>2, <2>1, <2>3, <2>5, <2>6, <2>7 DEF ImportInv, HeaderOK
  <2>9. TypesInv' /\ ReadsInsideInfo'
    BY Zenon, <1>1, <1>2, <2>1, <2>3 DEF TypesInv, ReadsInsideInfo
  <2> QED
    BY Zenon, <2>1, <2>8, <2>9 DEF BootInv, Early, Importing, After
<1> QED
  BY Zenon, <1>3, <1>4

\* The kernel, the block itself and the null page are reserved last.
LEMMA FinishStep ==
  ASSUME BootInv, Finish
  PROVE  BootInv'
<1>1. pc = "finish" /\ UNCHANGED <<block, read_end, found>>
  BY Zenon DEF Finish, walk_vars
<1>2. TypesInv /\ ImportInv /\ read_end <= info.total_size
  BY Zenon, <1>1 DEF BootInv, Importing, ReadsInsideInfo
<1>3. CASE fallback_to_bootstrap
  BY Zenon, <1>1, <1>2, <1>3, FallsBack
<1>4. CASE ~ fallback_to_bootstrap
  <2> DEFINE end == info.address + info.total_size
             K == reserve_range(kernel_start, kernel_end)
             I == reserve_range(info.address, end)
             R == K \cup I \cup NullPage
  <2>1. /\ scan.valid_end # FALSE /\ Reserve(R) /\ pc' = "imported"
        /\ UNCHANGED <<info, scan, usable, claimed, fell_back>>
    BY Zenon, <1>4 DEF Finish
  <2>2. R \subseteq Pages
    BY Zenon, RangesArePages DEF NullPage
  <2>3. info.address \in Nat /\ end \in Nat /\ kernel_start \in Nat /\ kernel_end \in Nat
    BY <1>2, WidthAssumption DEF TypesInv
  <2>4. reserved_bitmap' = reserved_bitmap \cup R
    BY Zenon, <2>1 DEF Reserve
  <2>5. ASSUME NEW p \in Pages
        PROVE  /\ Touches(p, <<info.address, end>>) => p \in R
               /\ Touches(p, <<kernel_start, kernel_end>>) => p \in R
               /\ Touches(p, <<0, SB_PAGE_SIZE>>) => p \in R
    BY Zenon, <2>3, ReserveCovers, RangesArePages
  <2> HIDE DEF end, K, I, R
  <2>6. Covers(R, <<kernel_start, kernel_end>>)
    BY Zenon, <2>5 DEF Covers
  <2>7. PoolInv'
    BY Zenon, <1>2, <2>1, <2>2, <2>6, PoolReserve DEF ImportInv
  <2>8. OwnPagesReserved'
    <3>1. InfoRange' = <<info.address, end>>
      BY Zenon, <2>1 DEF InfoRange, end
    <3> QED
      BY Zenon, <2>4, <2>5, <3>1 DEF OwnPagesReserved
  <2>9. ASSUME NEW o \in DOMAIN block' PROVE TagOK(o)' /\ Linked(o)'
    <3>1. TagOK(o) /\ Linked(o)
      BY Zenon, <1>1, <1>2, <2>1 DEF ImportInv, Chained
    <3> QED
      BY Zenon, <1>1, <2>1, <3>1 DEF TagOK, Linked
  <2>10. Chained'
    BY Zenon, <1>1, <1>2, <2>1, <2>9 DEF Chained, ImportInv
  <2>11. AcceptedInv' /\ fell_back' = FALSE
    BY Zenon, <1>1, <1>2, <2>1, <2>7, <2>8, <2>9, <2>10 DEF AcceptedInv, ImportInv, HeaderOK
  <2>12. TypesInv' /\ ReadsInsideInfo'
    BY Zenon, <1>1, <1>2, <2>1 DEF TypesInv, ReadsInsideInfo
  <2> QED
    BY Zenon, <2>1, <2>11, <2>12 DEF BootInv, Early, Importing, After
<1> QED
  BY Zenon, <1>3, <1>4

\* The two walks after the import change nothing it left.
LEMMA WalksAfter ==
  ASSUME BootInv, After, Frozen, UNCHANGED block, After',
         DOMAIN scan' = DOMAIN scan, scan'.offset \in Nat,
         fell_back = FALSE => /\ pc' = "find" => scan'.offset \in DOMAIN block
                              /\ found' = <<>> \/ found' \in claimed,
         ReadsInsideInfo'
  PROVE  BootInv'
<1>1. UNCHANGED <<bitmap, reserved_bitmap, allocated_bitmap, info, usable, claimed, fell_back>>
  BY Zenon DEF Frozen, pmm_vars
<1>2. TypesInv'
  BY Zenon, <1>1 DEF TypesInv, BootInv
<1>3. fell_back \in BOOLEAN
  BY Zenon DEF BootInv, TypesInv
<1>4. CASE fell_back = TRUE
  <2>1. FallbackInv'
    BY Zenon, <1>1, <1>4 DEF BootInv, FallbackInv, FreePages
  <2> QED
    BY Zenon, <1>1, <1>2, <1>4, <2>1 DEF BootInv, Early, Importing, After
<1>5. CASE fell_back = FALSE
  <2>1. AcceptedInv
    BY Zenon, <1>5 DEF BootInv
  <2>2. PoolInv' /\ OwnPagesReserved' /\ HeaderOK'
    BY Zenon, <1>1, <2>1, PoolSame DEF AcceptedInv, OwnPagesReserved, InfoRange, HeaderOK
  <2>3. ASSUME NEW o \in DOMAIN block' PROVE TagOK(o)' /\ Linked(o)'
    <3>1. TagOK(o) /\ Linked(o)
      BY Zenon, <2>1 DEF AcceptedInv, Chained
    <3> QED
      BY Zenon, <1>1, <3>1 DEF TagOK, Linked, After
  <2>4. Chained'
    BY Zenon, <2>1, <2>3 DEF Chained, AcceptedInv, After
  <2>5. AcceptedInv'
    BY Zenon, <1>1, <1>5, <2>2, <2>3, <2>4 DEF AcceptedInv
  <2> QED
    BY Zenon, <1>1, <1>2, <1>5, <2>5 DEF BootInv, Early, Importing, After
<1> QED
  BY Zenon, <1>3, <1>4, <1>5

\* The walks that follow start at a tag the import accepted.
LEMMA FirstAccepted ==
  ASSUME BootInv, After, fell_back = FALSE
  PROVE  8 \in DOMAIN block /\ AcceptedInv
BY Zenon DEF BootInv, AcceptedInv, Chained, After

\* report_multiboot_modules checks sizes as the import does, and keeps nothing.
LEMMA ReportStep ==
  ASSUME BootInv, ReportStart \/ ReportEnd \/ \E t \in TagsHere : ReportTag(t)
  PROVE  BootInv'
<1>1. pc \in {"imported", "report"} /\ Frozen /\ UNCHANGED <<block, found>>
  BY Zenon DEF ReportStart, ReportEnd, ReportTag
<1>2. After /\ TypesInv /\ read_end <= info.total_size
  BY Zenon, <1>1 DEF After, BootInv, ReadsInsideInfo
<1>3. fell_back = FALSE => 8 \in DOMAIN block /\ (found' = <<>> \/ found' \in claimed)
  BY Zenon, <1>1, <1>2, FirstAccepted DEF AcceptedInv
<1>4. UNCHANGED <<info, fell_back>>
  BY Zenon, <1>1 DEF Frozen
<1>5. CASE ReportStart \/ ReportEnd
  <2>1. pc' \in {"report", "find"} /\ scan' = FirstTag /\ read_end' = read_end
    BY Zenon, <1>5 DEF ReportStart, ReportEnd, Leave
  <2>2. ReadsInsideInfo' /\ After'
    BY Zenon, <1>2, <1>4, <2>1 DEF ReadsInsideInfo, After
  <2> QED
    BY Zenon, <1>1, <1>2, <1>3, <2>1, <2>2, Restarted, WalksAfter
<1>6. CASE \E t \in TagsHere : ReportTag(t)
  <2>1. PICK t \in TagsHere : ReportTag(t)
    BY Zenon, <1>6
  <2>2. t \in Tags /\ t.size \in Nat
    BY TagsSound, TagsAssumption DEF TagsHere, TagsAt
  <2>3. /\ MoreReports /\ read_end' = scan.offset + ImportBytes(t)
        /\ \/ StepOver(t.size) /\ pc' = "report"
           \/ pc' = "find" /\ scan' = FirstTag
    BY Zenon, <1>1, <2>1 DEF ReportTag, Read, Leave
  <2>4. scan.offset \in Nat /\ info.total_size \in Nat
    BY <1>2, WidthAssumption DEF TypesInv
  <2>5. read_end' <= info.total_size
    <3>1. scan.offset + 8 <= info.total_size
      BY <2>3, <2>4 DEF MoreReports, SIZEOF_TAG
    <3>2. ImportBytes(t) = 8 \/ (ImportBytes(t) = 16 /\ TagFits(t.size) /\ t.size >= 16)
      BY Zenon DEF ImportBytes, SIZEOF_TAG, SIZEOF_MODULE_TAG
    <3> QED
      BY <2>2, <2>3, <2>4, <3>1, <3>2 DEF TagFits, Remaining
  <2>6. ReadsInsideInfo' /\ After'
    BY Zenon, <1>4, <2>3, <2>5 DEF ReadsInsideInfo, After
  <2>7. CASE StepOver(t.size) /\ pc' = "report"
    BY Zenon, <1>1, <1>2, <1>3, <2>2, <2>6, <2>7, StepsOver, WalksAfter
  <2>8. CASE pc' = "find" /\ scan' = FirstTag
    BY Zenon, <1>1, <1>2, <1>3, <2>6, <2>8, Restarted, WalksAfter
  <2> QED
    BY Zenon, <2>3, <2>7, <2>8
<1> QED
  BY Zenon, <1>5, <1>6

\* module_name, which stops at a NUL or a space only, stops in the block: an
\* accepted module has a successor in the block, whose size is so small that its
\* header has a NUL.
LEMMA NameEnds ==
  ASSUME AcceptedInv, TypesInv, pc = "find", NEW t, scan.offset \in DOMAIN block,
         t = block[scan.offset], t.type # "end",
         NEW next \in TagsAt(scan.offset + NextOffset(t.size))
  PROVE  scan.offset + FindBytes(t, next) <= info.total_size
<1> DEFINE o == scan.offset
           n == o + NextOffset(t.size)
<1>1. TagOK(o) /\ Linked(o)
  BY Zenon DEF AcceptedInv, Chained
<1>2. t \in Tags /\ t.size >= 8 /\ o + t.size <= info.total_size
  BY Zenon, <1>1 DEF TagOK, SIZEOF_TAG
<1>3. n <= info.total_size /\ n \in DOMAIN block
  BY Zenon, <1>1 DEF Linked
<1>4. next = block[n] /\ TagOK(n)
  BY Zenon, <1>3 DEF TagsAt, AcceptedInv
<1>5. next \in Tags /\ next.size >= 8 /\ n + next.size <= info.total_size
  BY Zenon, <1>4 DEF TagOK, SIZEOF_TAG
<1>6. /\ o \in Nat /\ info.total_size \in Nat /\ TOP_BYTE \in Nat
      /\ info.total_size <= TOP_BYTE
  BY WidthAssumption DEF TypesInv, AcceptedInv, HeaderOK
<1>7. /\ t.size \in Nat /\ next.size \in Nat /\ next.stop \in Nat
      /\ next.size < TOP_BYTE => next.stop < 8
  <2>1. /\ t.size \in 0 .. U32 - 1 /\ next.size \in 0 .. U32 - 1 /\ next.stop \in Nat
        /\ next.size < TOP_BYTE => next.stop < 8
    BY Zenon, <1>2, <1>5, TagsAssumption
  <2> QED
    BY <2>1, WidthAssumption
<1>8. NextOffset(t.size) \in Nat /\ t.size <= NextOffset(t.size)
  BY <1>7 DEF NextOffset
<1>9. next.stop < 8
  BY <1>2, <1>5, <1>6, <1>7, <1>8
<1>10. CASE ~ NameRead(t)
  <2>1. FindBytes(t, next) \in {8, 16} /\ FindBytes(t, next) <= t.size
    BY <1>2, <1>7, <1>10 DEF FindBytes, IsModule, SIZEOF_TAG, SIZEOF_MODULE_TAG
  <2> QED
    BY <1>2, <1>6, <1>7, <2>1
<1>11. CASE NameRead(t)
  <2>1. t.text \in Nat
    BY Zenon, <1>2, <1>11, TagsAssumption DEF NameRead, IsModule
  <2>2. FindBytes(t, next) = NameEnd(t, next)
    BY Zenon, <1>11 DEF FindBytes
  <2>3. CASE t.text < Room(t)
    <3>1. NameEnd(t, next) = 16 + t.text + 1 /\ t.text < NextOffset(t.size) - 16
      BY Zenon, <2>3 DEF NameEnd, Room, SIZEOF_MODULE_TAG
    <3> QED
      BY <1>3, <1>6, <1>8, <2>1, <2>2, <3>1
  <2>4. CASE ~ (t.text < Room(t))
    <3>1. NameEnd(t, next) = NextOffset(t.size) + next.stop + 1
      BY Zenon, <1>9, <2>4 DEF NameEnd, SIZEOF_TAG
    <3> QED
      BY <1>5, <1>6, <1>7, <1>8, <1>9, <2>2, <3>1
  <2> QED
    BY Zenon, <2>3, <2>4
<1> QED
  BY Zenon, <1>10, <1>11

\* multiboot_find_module: its sum of two 32-bit numbers cannot wrap and its
\* offset cannot leave the block on tags the import accepted.
LEMMA FindStep ==
  ASSUME BootInv, FindEnd \/ \E t \in TagsHere : FindTag(t)
  PROVE  BootInv'
<1>1. pc = "find" /\ Frozen /\ UNCHANGED block
  BY Zenon DEF FindEnd, FindTag
<1>2. After /\ TypesInv /\ UNCHANGED <<info, fell_back>>
  BY Zenon, <1>1 DEF After, BootInv, Frozen
<1>3. fell_back = FALSE => /\ AcceptedInv /\ scan.offset \in DOMAIN block
                           /\ read_end <= info.total_size
  BY Zenon, <1>1, <1>2, FirstAccepted DEF AcceptedInv, BootInv, ReadsInsideInfo
<1>4. CASE FindEnd
  <2>1. pc' = "done" /\ scan' = FirstTag /\ UNCHANGED <<read_end, found>>
    BY Zenon, <1>4 DEF FindEnd, Leave
  <2>2. ReadsInsideInfo' /\ After'
    BY Zenon, <1>2, <1>3, <2>1 DEF ReadsInsideInfo, After, TypesInv
  <2> QED
    BY Zenon, <1>1, <1>2, <1>3, <2>1, <2>2, Restarted, WalksAfter DEF AcceptedInv
<1>5. CASE \E t \in TagsHere : FindTag(t)
  <2>1. PICK t \in TagsHere : FindTag(t)
    BY Zenon, <1>5
  <2>2. t \in Tags /\ t.size \in Nat
    BY TagsSound, TagsAssumption DEF TagsHere, TagsAt
  <2>3. /\ scan.offset \in Nat /\ info.total_size \in Nat /\ U32 \in Nat /\ U32 > 0
        /\ info.total_size < U32
    BY <1>2, WidthAssumption DEF TypesInv
  <2>4. NextOffset(t.size) \in Nat
    BY <2>2 DEF NextOffset
  <2>5. FindMore /\ scan.offset + 8 <= info.total_size
    BY Zenon, <2>1 DEF FindTag, FindMore, SIZEOF_TAG
  <2>6. CASE pc' = "done" /\ scan' = FirstTag /\ found' = found /\ read_end' = scan.offset + 8
    <3>1. ReadsInsideInfo' /\ After'
      BY Zenon, <1>2, <2>5, <2>6 DEF ReadsInsideInfo, After
    <3> QED
      BY Zenon, <1>1, <1>2, <1>3, <2>6, <3>1, Restarted, WalksAfter DEF AcceptedInv
  <2>7. CASE /\ t.type # "end" /\ t.size >= 8
             /\ \E next \in TagsAt(scan.offset + NextOffset(t.size)) :
                  read_end' = scan.offset + FindBytes(t, next)
             /\ \/ Matches(t) /\ found' = t.range /\ pc' = "done" /\ scan' = FirstTag
                \/ /\ scan' = [scan EXCEPT !.offset = (@ + NextOffset(t.size)) % U32]
                   /\ pc' = "find" /\ found' = found
    <3>1. fell_back = FALSE =>
            /\ t = block[scan.offset] /\ TagOK(scan.offset) /\ Linked(scan.offset)
      BY Zenon, <1>3 DEF TagsHere, TagsAt, AcceptedInv, Chained
    <3>2. fell_back = FALSE => read_end' <= info.total_size
      <4>1. PICK next \in TagsAt(scan.offset + NextOffset(t.size)) :
              read_end' = scan.offset + FindBytes(t, next)
        BY Zenon, <2>7
      <4>2. ASSUME fell_back = FALSE
            PROVE  scan.offset + FindBytes(t, next) <= info.total_size
        <5>1. /\ AcceptedInv /\ TypesInv /\ scan.offset \in DOMAIN block
              /\ t = block[scan.offset] /\ t.type # "end" /\ pc = "find"
          BY Zenon, <1>1, <1>2, <1>3, <2>7, <3>1, <4>2
        <5> QED
          BY Zenon, <5>1, NameEnds
      <4> QED
        BY Zenon, <4>1, <4>2
    <3>3. ReadsInsideInfo' /\ After'
      BY Zenon, <1>2, <2>7, <3>2 DEF ReadsInsideInfo, After, TypesInv
    <3>4. CASE Matches(t) /\ found' = t.range /\ pc' = "done" /\ scan' = FirstTag
      <4>1. fell_back = FALSE => found' \in claimed
        BY Zenon, <3>1, <3>4 DEF TagOK, Matches, NameRead, IsModule
      <4> QED
        BY Zenon, <1>1, <1>2, <3>3, <3>4, <4>1, Restarted, WalksAfter
    <3>5. CASE /\ scan' = [scan EXCEPT !.offset = (@ + NextOffset(t.size)) % U32]
               /\ pc' = "find" /\ found' = found
      <4>1. /\ DOMAIN scan' = DOMAIN scan
            /\ scan'.offset = (scan.offset + NextOffset(t.size)) % U32
        BY Zenon, <1>2, <3>5 DEF TypesInv
      <4>2. scan'.offset \in Nat
        BY <2>3, <2>4, <4>1
      <4>3. fell_back = FALSE => /\ scan.offset + NextOffset(t.size) <= info.total_size
                                 /\ scan.offset + NextOffset(t.size) \in DOMAIN block
        BY <1>1, <2>7, <3>1 DEF Linked
      <4>4. fell_back = FALSE => scan'.offset \in DOMAIN block
        <5> DEFINE next == scan.offset + NextOffset(t.size)
        <5>1. next \in Nat /\ info.total_size \in 0 .. U32 - 1 /\ U32 \in Nat
          BY <2>3, <2>4
        <5> HIDE DEF next
        <5>2. next <= info.total_size => next % U32 = next
          BY SMTT(20), <5>1
        <5> QED
          BY Zenon, <4>1, <4>3, <5>2 DEF next
      <4>5. fell_back = FALSE => found' = <<>> \/ found' \in claimed
        BY Zenon, <1>3, <3>5 DEF AcceptedInv
      <4> QED
        BY Zenon, <1>1, <1>2, <3>3, <3>5, <4>1, <4>2, <4>4, <4>5, WalksAfter
    <3> QED
      BY Zenon, <2>7, <3>4, <3>5
  <2> QED
    BY <1>1, <2>1, <2>2, <2>6, <2>7 DEF FindTag, Read, Leave, SIZEOF_TAG
<1> QED
  BY Zenon, <1>4, <1>5

\* Nothing of it depends on anything but the variables.
LEMMA BootStutters ==
  ASSUME BootInv, UNCHANGED <<pmm_vars, boot_vars>>
  PROVE  BootInv'
BY ZenonT(40)
   DEF BootInv, pmm_vars, boot_vars, walk_vars, TypesInv, ReadsInsideInfo, Early, Importing, After,
   Fresh, ImportInv, AcceptedInv, FallbackInv, HeaderOK, PoolInv, FreePages, OwnPagesReserved,
   InfoRange, TagOK, Linked, Chained, MapInv

----------------------------------------------------------------------------
(* The theorems *)

\* The inductive invariant: the pages of every claimed range are reserved, and
\* the tags accepted form a chain from the first to the end tag.
THEOREM BootInvariant == BootSpec => []BootInv
<1>1. BootInit => BootInv
  <2> SUFFICES ASSUME BootInit PROVE BootInv
    OBVIOUS
  <2>1. /\ info.address = 0 /\ info.total_size = 0 /\ pc = "start" /\ read_end = 0 /\ Fresh
        /\ scan = FirstTag /\ fell_back = FALSE
    BY Zenon DEF BootInit, Fresh
  <2>2. 0 \in 0 .. U32 - 1
    <3>1. U32 \in Nat \ {0}
      BY Zenon, WidthAssumption
    <3> QED
      BY SMTT(20), <3>1
  <2>3. TypesInv
    <3>1. fell_back \in BOOLEAN
      BY Zenon, <2>1
    <3>2. scan.offset = 8 /\ DOMAIN scan = DOMAIN FirstTag
      BY Zenon, <2>1, FirstTagIs
    <3>3. scan.offset \in Nat /\ info.address \in Nat /\ info.total_size \in 0 .. U32 - 1
      BY <2>1, <2>2, <3>2
    <3> QED
      BY Zenon, <3>1, <3>2, <3>3, FirstTagIs DEF TypesInv
  <2>4. ReadsInsideInfo
    BY <2>1 DEF ReadsInsideInfo
  <2> QED
    BY Zenon, <2>1, <2>3, <2>4 DEF BootInv, Early, Importing, After
<1>2. BootInv /\ [BootNext]_<<pmm_vars, boot_vars>> => BootInv'
  <2> SUFFICES ASSUME BootInv, [BootNext]_<<pmm_vars, boot_vars>> PROVE BootInv'
    OBVIOUS
  <2>1. CASE Done \/ UNCHANGED <<pmm_vars, boot_vars>>
    BY Zenon, <2>1, BootStutters DEF Done
  <2>2. CASE \E a \in InfoAddresses, t \in TotalSizes : ReadHeader(a, t)
    BY Zenon, <2>2, ReadHeaderStep
  <2>3. CASE \E t \in Tags : FramebufferTag(t) \/ ImportTag(t)
    BY Zenon, <2>3, FramebufferStep, ImportTagStep
  <2>4. CASE \E t \in TagsHere : ReportTag(t) \/ FindTag(t)
    BY Zenon, <2>4, ReportStep, FindStep
  <2>5. CASE \E entry \in MapEntries : MmapEntry(entry)
    BY Zenon, <2>5, MmapEntryStep
  <2>6. CASE FramebufferEnd
    BY Zenon, <2>6, FramebufferStep
  <2>7. CASE ImportStart \/ MmapEnd \/ TagsEnd \/ Finish
    BY Zenon, <2>7, ImportStartStep, MmapEndStep, TagsEndStep, FinishStep
  <2>8. CASE ReportStart \/ ReportEnd \/ FindEnd
    BY Zenon, <2>8, ReportStep, FindStep
  <2> QED
    BY Zenon, <2>1, <2>2, <2>3, <2>4, <2>5, <2>6, <2>7, <2>8 DEF BootNext, Step
<1> QED
  BY <1>1, <1>2, PTL DEF BootSpec

\* After pmm_init_from_multiboot a free page is available RAM that no other
\* owner named in the block, nor the kernel, nor the block itself touches; an
\* abandoned import leaves the fallback window.
THEOREM PoolStaysSafe == BootSpec => []PoolIsSafeRAM
<1>1. BootInv => PoolIsSafeRAM
  <2> SUFFICES ASSUME BootInv, pc = "imported"
               PROVE  IF fell_back
                      THEN FreePages = PagesInside(window_start, window_end)
                      ELSE \A p \in FreePages :
                        /\ \E r \in usable : r[1] <= p * SB_PAGE_SIZE
                                             /\ (p + 1) * SB_PAGE_SIZE <= r[2]
                        /\ \A r \in claimed \cup {InfoRange, <<kernel_start, kernel_end>>,
                                                  <<0, SB_PAGE_SIZE>>} : ~ Touches(p, r)
    BY Zenon DEF PoolIsSafeRAM
  <2>1. After /\ fell_back \in BOOLEAN
    BY Zenon DEF After, BootInv, TypesInv
  <2>2. CASE fell_back = TRUE
    BY Zenon, <2>1, <2>2 DEF BootInv, FallbackInv
  <2>3. CASE fell_back = FALSE
    <3>1. PoolInv /\ OwnPagesReserved
      BY Zenon, <2>1, <2>3 DEF BootInv, AcceptedInv
    <3>2. \A p \in FreePages : p \in Pages /\ p \notin reserved_bitmap
      BY Zenon, <3>1 DEF PoolInv, FreePages
    <3>3. \A p \in FreePages : \A r \in claimed : ~ Touches(p, r)
      BY Zenon, <3>1, <3>2 DEF PoolInv
    <3>4. \A p \in FreePages : \A r \in {InfoRange, <<kernel_start, kernel_end>>,
                                        <<0, SB_PAGE_SIZE>>} : ~ Touches(p, r)
      BY Zenon, <3>1, <3>2 DEF OwnPagesReserved
    <3> QED
      BY Zenon, <2>3, <3>1, <3>3, <3>4 DEF PoolInv
  <2> QED
    BY Zenon, <2>1, <2>2, <2>3
<1> QED
  BY <1>1, BootInvariant, PTL

\* None of the four walks reads past the announced end of the block, although
\* multiboot_find_module adds 32-bit numbers without a check of its own and runs
\* along a command line until it meets a NUL or a space.
THEOREM ReadsStayInside == BootSpec => []ReadsInsideInfo
<1>1. BootInv => ReadsInsideInfo
  BY Zenon DEF BootInv
<1> QED
  BY <1>1, BootInvariant, PTL

\* The module multiboot_find_module returns is memory the import reserved.
THEOREM ModuleStaysReserved == BootSpec => []FoundModuleReserved
<1>1. BootInv => FoundModuleReserved
  <2> SUFFICES ASSUME BootInv, found # <<>>, ~ fell_back
               PROVE  \A p \in Pages : Touches(p, found) => p \in reserved_bitmap
    BY Zenon DEF FoundModuleReserved
  <2>1. ~ Early /\ ~ Importing /\ fell_back = FALSE
    BY Zenon DEF BootInv, Fresh, ImportInv, TypesInv
  <2>2. AcceptedInv
    BY Zenon, <2>1 DEF BootInv
  <2> QED
    BY Zenon, <2>2 DEF AcceptedInv, PoolInv
<1> QED
  BY <1>1, BootInvariant, PTL
=============================================================================
