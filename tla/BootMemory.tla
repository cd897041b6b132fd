------------------------------ MODULE BootMemory ------------------------------
(***************************************************************************)
(* The four walks of the boot loader's information block, in the order     *)
(* kmain makes them: sb_framebuffer_init (kernel/framebuffer.c),           *)
(* pmm_init_from_multiboot (kernel/mm/pmm_multiboot.c), which turns the    *)
(* memory map, the modules and the block's own location into PMM state and *)
(* abandons anything malformed for a fixed window of RAM,                  *)
(* report_multiboot_modules (kernel/kernel.c) and multiboot_find_module    *)
(* (kernel/mm/multiboot_modules.c).  The block is arbitrary: tags and map  *)
(* entries are chosen when the code reads them.  The last two walks see    *)
(* the tags of a block the import accepted; the first has no effect on the *)
(* others, and its tags are not remembered.  Nothing else runs yet, so one *)
(* step is one iteration of a loop.                                        *)
(***************************************************************************)
EXTENDS PMM

CONSTANTS ADDR_MAX,                        \* UINT64_MAX
          U32,                             \* 2^32, what uint32_t wraps at
          TOP_BYTE,                        \* 2^24: below it the last byte of a size is 0
          SB_MB2_MAX_INFO_SIZE, SB_MB2_MAX_TAGS,
          SB_MB2_MAX_MMAP_ENTRIES, SB_MB2_MAX_MODULES,
          REPORT_MAX_TAGS,                 \* 32 in report_multiboot_modules
          kernel_start, kernel_end,        \* from linker.ld, page aligned
          window_start, window_end,        \* the fallback's 16 and 64 MiB
          InfoAddresses, TotalSizes,       \* what the boot loader passes
          Tags,                            \* type, size and what follows; stop is
                                           \* the place of the first NUL or space
                                           \* in the header, 8 if there is none
          MapEntries

\* linker.ld aligns the image; it lies below the fallback window.
ASSUME KernelAssumption ==
  /\ kernel_start % SB_PAGE_SIZE = 0 /\ kernel_end % SB_PAGE_SIZE = 0
  /\ kernel_start < kernel_end /\ kernel_end <= window_start

VARIABLES pc,           \* the walk and the loop in it
          info,         \* [address, total_size]
          block,        \* the tags the import has accepted, by offset
          scan,         \* offset, the counters and the two flags of the walk
          read_end,     \* end of the bytes read last, from the block's start
          fb,           \* available of framebuffer.c; history: the walk did not
                        \* fail and the last framebuffer tag was direct and sound
          found,        \* the range multiboot_find_module returned
          mmap,         \* the map tag being read: size, entry_size, entry_offset
          usable,       \* history: ranges reported available so far
          claimed,      \* history: ranges of other map entries and of modules
          fell_back     \* history: fallback_to_bootstrap ran

pmm_vars == <<bitmap, reserved_bitmap, allocated_bitmap, free_count>>
walk_vars == <<block, read_end, fb, found>>
boot_vars == <<pc, info, scan, mmap, usable, claimed, fell_back, walk_vars>>

LIMIT == PMM_MAX_PAGES * SB_PAGE_SIZE      \* SB_PMM_BOOTSTRAP_LIMIT
NullPage == PagesInside(0, SB_PAGE_SIZE)

SIZEOF_TAG == 8
SIZEOF_MODULE_TAG == 16
SIZEOF_MMAP_TAG == 16
SIZEOF_MMAP_ENTRY == 24
SIZEOF_FB_PREFIX == 32
SIZEOF_FB_DIRECT == 38          \* with the six colour bytes

FirstTag == [offset |-> 8, tags_seen |-> 0, entries_seen |-> 0,
             modules_seen |-> 0, valid_end |-> FALSE, seen_mmap |-> FALSE]
NoMap == [size |-> 0, entry_size |-> 0, entry_offset |-> 0]

NoTags == [o \in {} |-> 0]

\* Addresses are 64 and sizes 32 bits wide; all memory tracked is addressable.
ASSUME WidthAssumption ==
  /\ ADDR_MAX \in Nat /\ LIMIT <= ADDR_MAX /\ U32 \in Nat \ {0}
  /\ TOP_BYTE \in Nat /\ SB_MB2_MAX_INFO_SIZE \in 0 .. TOP_BYTE
  /\ {kernel_start, kernel_end, window_start, window_end} \subseteq Nat
  /\ InfoAddresses \subseteq 0 .. ADDR_MAX /\ TotalSizes \subseteq 0 .. U32 - 1
ASSUME TagsAssumption ==
  \A t \in Tags : /\ t.size \in 0 .. U32 - 1
                  /\ t.type \in {"end", "module", "mmap", "framebuffer", "other"}
                  /\ t.stop \in Nat /\ (t.size < TOP_BYTE => t.stop < 8)
                  /\ t.type = "module" => /\ t.range[1] \in Nat /\ t.range[2] \in Nat
                                          /\ t.text \in Nat
                  /\ t.type = "mmap" => t.entry_size \in 0 .. U32 - 1
ASSUME MapEntriesAssumption ==
  \A entry \in MapEntries : /\ entry.addr \in 0 .. ADDR_MAX /\ entry.len \in 0 .. ADDR_MAX
                            /\ entry.available \in BOOLEAN

\* uint32_t subtraction
Minus32(a, b) == (a - b) % U32

----------------------------------------------------------------------------
(* Mutants *)

\* Reserved ranges are rounded inward, as usable ones are.
MutReserveInward(start, end) == PagesInside(start, end)

\* The entry size is not compared with the room the tag has.
MutEntrySizeUnchecked(size, entry_size) ==
  size >= SIZEOF_MMAP_TAG /\ entry_size >= SIZEOF_MMAP_ENTRY

\* The offset is set to the padded size instead of moved by it, and the tag is
\* not counted.
MutNoProgress(size) ==
  /\ scan' = [scan EXCEPT !.offset = ((size + 7) \div 8) * 8]
  /\ pc' = "tags"
  /\ UNCHANGED <<info, mmap, fell_back>>

\* Of a module only the page it starts in is reserved.
MutFirstPageOnly(range) == PagesInside(range[1] - (range[1] % SB_PAGE_SIZE),
                                       range[1] + SB_PAGE_SIZE)

----------------------------------------------------------------------------
(* Arithmetic *)

align_up(value) ==
  IF value > ADDR_MAX - (SB_PAGE_SIZE - 1)
  THEN ADDR_MAX
  ELSE ((value + SB_PAGE_SIZE - 1) \div SB_PAGE_SIZE) * SB_PAGE_SIZE

align_down(value) == (value \div SB_PAGE_SIZE) * SB_PAGE_SIZE

Clip(end) == IF end > LIMIT THEN LIMIT ELSE end

\* The pages reserve_range reserves: every page the range touches.
reserve_range(start, end) ==
  IF end <= start \/ start >= LIMIT
  THEN {}
  ELSE PagesInside(align_down(start), align_up(Clip(end)))

ModulePages(range) == reserve_range(range[1], range[2])

\* The pages an available map entry opens.
UsablePages(start, end) ==
  IF start < LIMIT /\ align_down(Clip(end)) > start
  THEN PagesInside(align_up(start), align_down(Clip(end)))
  ELSE {}

----------------------------------------------------------------------------
(* PMM calls *)

Reserve(R) == /\ bitmap' = bitmap \cup R
              /\ reserved_bitmap' = reserved_bitmap \cup R
              /\ recompute_free_count
              /\ UNCHANGED allocated_bitmap

AddUsable(R) == /\ bitmap' = Opened(R)
                /\ recompute_free_count
                /\ UNCHANGED <<reserved_bitmap, allocated_bitmap>>

\* pmm_init resets the allocator; then only the kernel and the null page are
\* reserved.
fallback_to_bootstrap ==
  /\ reserved_bitmap' = PagesInside(kernel_start, kernel_end) \cup NullPage
  /\ bitmap' = (Pages \ PagesInside(window_start, window_end))
               \cup reserved_bitmap'
  /\ allocated_bitmap' = {}
  /\ recompute_free_count
  /\ pc' = "imported"
  /\ fell_back' = TRUE /\ usable' = {} /\ claimed' = {}
  /\ scan' = FirstTag /\ mmap' = NoMap
  /\ UNCHANGED info

----------------------------------------------------------------------------
(* What all walks share *)

\* Two walks check the header in the same words.
HeaderOK ==
  /\ info.address # 0 /\ info.address < LIMIT * 4    \* mapped below 1 GiB
  /\ info.total_size >= 16 /\ info.total_size <= SB_MB2_MAX_INFO_SIZE
  /\ info.total_size % 8 = 0
  /\ info.total_size <= ADDR_MAX - info.address

Remaining == info.total_size - scan.offset

MoreTags == /\ scan.offset <= info.total_size - SIZEOF_TAG
            /\ scan.tags_seen < SB_MB2_MAX_TAGS

TagFits(size) == size >= SIZEOF_TAG /\ size <= Remaining

\* Tags are padded to eight bytes.
NextOffset(size) == ((size + 7) \div 8) * 8

Padded(size) == NextOffset(size) <= Remaining

TagsAt(offset) == IF offset \in DOMAIN block THEN {block[offset]} ELSE Tags
TagsHere == TagsAt(scan.offset)

\* The tag is looked at as far as its type and size let the walk go.
Read(bytes) == read_end' = scan.offset + bytes

StepOver(size) == scan' = [scan EXCEPT !.offset = @ + NextOffset(size),
                                       !.tags_seen = @ + 1]

\* The walk is over: the next one starts at the first tag.
Leave(next) == pc' = next /\ scan' = FirstTag

----------------------------------------------------------------------------
(* sb_framebuffer_init *)

ReadHeader(address, total_size) ==
  /\ pc = "start"
  /\ info' = [address |-> address, total_size |-> total_size]
  /\ Leave("fb")
  /\ UNCHANGED <<pmm_vars, mmap, usable, claimed, fell_back, walk_vars>>

\* The type, the checks on the dimensions, and those on the colour fields.
framebuffer_geometry_ok(t) == fb.available /\ t.direct /\ t.dimensions /\ t.colours

FramebufferBytes(t) ==
  IF ~ TagFits(t.size) \/ t.type # "framebuffer" \/ t.size < SIZEOF_FB_PREFIX
  THEN SIZEOF_TAG
  ELSE IF t.direct /\ t.dimensions /\ t.size >= SIZEOF_FB_DIRECT
  THEN SIZEOF_FB_DIRECT ELSE SIZEOF_FB_PREFIX

Failed(t) == ~ TagFits(t.size) \/ (t.type # "end" /\ ~ Padded(t.size))

FramebufferTag(t) ==
  /\ pc = "fb" /\ HeaderOK /\ MoreTags
  /\ Read(FramebufferBytes(t))
  /\ LET whole == FramebufferBytes(t) = SIZEOF_FB_DIRECT
         taken == FramebufferBytes(t) > SIZEOF_TAG /\ t.dimensions
     IN fb' = [available |-> IF whole THEN framebuffer_geometry_ok(t) ELSE fb.available,
               usable |-> ~ Failed(t) /\ IF taken THEN whole /\ t.colours ELSE fb.usable]
  /\ IF Failed(t) \/ t.type = "end"
     THEN Leave("import")
     ELSE StepOver(t.size) /\ UNCHANGED pc
  /\ UNCHANGED <<pmm_vars, info, mmap, usable, claimed, fell_back, block, found>>

FramebufferEnd ==
  /\ pc = "fb" /\ ~ (HeaderOK /\ MoreTags)
  /\ Leave("import")
  /\ UNCHANGED <<pmm_vars, info, mmap, usable, claimed, fell_back, walk_vars>>

----------------------------------------------------------------------------
(* pmm_init_from_multiboot *)

\* The reset, the null page, and the header checks.
ImportStart ==
  /\ pc = "import"
  /\ \/ ~ HeaderOK /\ fallback_to_bootstrap
     \/ /\ HeaderOK
        /\ bitmap' = Pages
        /\ reserved_bitmap' = NullPage
        /\ allocated_bitmap' = {}
        /\ recompute_free_count
        /\ pc' = "tags"
        /\ UNCHANGED <<info, scan, mmap, usable, claimed, fell_back>>
  /\ UNCHANGED walk_vars

Advance(size) == /\ StepOver(size)
                 /\ pc' = "tags"
                 /\ UNCHANGED <<info, mmap, fell_back>>

BadTag(t) == ~ TagFits(t.size) /\ fallback_to_bootstrap

EndTag(t) == /\ t.type = "end" /\ TagFits(t.size)
             /\ scan' = [scan EXCEPT !.tags_seen = @ + 1,
                                     !.valid_end = (t.size = SIZEOF_TAG)]
             /\ pc' = "finish"
             /\ UNCHANGED pmm_vars
             /\ UNCHANGED <<info, mmap, usable, claimed, fell_back>>

ModuleTag(t) ==
  /\ t.type = "module" /\ TagFits(t.size)
  /\ IF \/ t.size < SIZEOF_MODULE_TAG
        \/ scan.modules_seen >= SB_MB2_MAX_MODULES
        \/ ~ Padded(t.size)
     THEN fallback_to_bootstrap
     ELSE /\ Reserve(ModulePages(t.range))
          /\ claimed' = claimed \cup {t.range}
          /\ scan' = [scan EXCEPT !.offset = @ + NextOffset(t.size),
                                  !.tags_seen = @ + 1, !.modules_seen = @ + 1]
          /\ UNCHANGED <<pc, info, mmap, usable, fell_back>>

MmapTagOK(size, entry_size) ==
  /\ size >= SIZEOF_MMAP_TAG
  /\ entry_size >= SIZEOF_MMAP_ENTRY
  /\ entry_size <= size - SIZEOF_MMAP_TAG

MmapTag(t) ==
  /\ t.type = "mmap" /\ TagFits(t.size)
  /\ IF ~ MmapTagOK(t.size, t.entry_size)
     THEN fallback_to_bootstrap
     ELSE /\ scan' = [scan EXCEPT !.seen_mmap = TRUE]
          /\ mmap' = [size |-> t.size, entry_size |-> t.entry_size,
                      entry_offset |-> SIZEOF_MMAP_TAG]
          /\ pc' = "mmap"
          /\ UNCHANGED pmm_vars
          /\ UNCHANGED <<info, usable, claimed, fell_back>>

OtherTag(t) ==
  /\ t.type \in {"framebuffer", "other"} /\ TagFits(t.size)
  /\ IF Padded(t.size)
     THEN Advance(t.size) /\ UNCHANGED pmm_vars /\ UNCHANGED <<usable, claimed>>
     ELSE fallback_to_bootstrap

ImportBytes(t) ==
  IF TagFits(t.size) /\ t.type \in {"module", "mmap"} /\ t.size >= SIZEOF_MODULE_TAG
  THEN SIZEOF_MODULE_TAG ELSE SIZEOF_TAG

ImportTag(t) ==
  /\ pc = "tags" /\ MoreTags
  /\ Read(ImportBytes(t))
  /\ BadTag(t) \/ EndTag(t) \/ ModuleTag(t) \/ MmapTag(t) \/ OtherTag(t)
  /\ block' = IF fell_back' THEN NoTags
              ELSE [o \in DOMAIN block \cup {scan.offset} |->
                      IF o = scan.offset THEN t ELSE block[o]]
  /\ UNCHANGED <<fb, found>>

MoreEntries == mmap.entry_offset <= Minus32(mmap.size, mmap.entry_size)

LengthOK(entry) == entry.len # 0 /\ entry.len <= ADDR_MAX - entry.addr

\* One record of the memory map: available RAM is opened, the rest reserved,
\* an empty or overflowing one skipped.
MmapEntry(entry) ==
  LET start == entry.addr
      end == (entry.addr + entry.len) % (ADDR_MAX + 1)
  IN
  /\ pc = "mmap" /\ MoreEntries
  /\ IF scan.entries_seen >= SB_MB2_MAX_MMAP_ENTRIES
     THEN fallback_to_bootstrap
     ELSE /\ CASE ~ LengthOK(entry) -> UNCHANGED pmm_vars
                                       /\ UNCHANGED <<usable, claimed>>
               [] LengthOK(entry) /\ entry.available ->
                    /\ AddUsable(UsablePages(start, end))
                    /\ usable' = usable \cup {<<start, end>>}
                    /\ UNCHANGED claimed
               [] LengthOK(entry) /\ ~ entry.available ->
                    /\ Reserve(reserve_range(start, end))
                    /\ claimed' = claimed \cup {<<start, end>>}
                    /\ UNCHANGED usable
          /\ scan' = [scan EXCEPT !.entries_seen = @ + 1]
          /\ mmap' = [mmap EXCEPT !.entry_offset = @ + mmap.entry_size]
          /\ UNCHANGED <<pc, info, fell_back>>
  /\ read_end' = scan.offset + mmap.entry_offset + SIZEOF_MMAP_ENTRY
  /\ UNCHANGED <<block, fb, found>>

MmapEnd ==
  /\ pc = "mmap" /\ ~ MoreEntries
  /\ IF NextOffset(mmap.size) > Remaining
     THEN fallback_to_bootstrap
     ELSE Advance(mmap.size) /\ UNCHANGED pmm_vars /\ UNCHANGED <<usable, claimed>>
  /\ UNCHANGED walk_vars

TagsEnd == /\ pc = "tags" /\ ~ MoreTags
           /\ pc' = "finish"
           /\ UNCHANGED pmm_vars
           /\ UNCHANGED <<info, scan, mmap, usable, claimed, fell_back, walk_vars>>

\* What lives in memory already is reserved last.
Finish ==
  /\ pc = "finish"
  /\ IF ~ scan.valid_end \/ ~ scan.seen_mmap
     THEN fallback_to_bootstrap
     ELSE /\ Reserve(reserve_range(kernel_start, kernel_end)
                     \cup reserve_range(info.address,
                                        info.address + info.total_size)
                     \cup NullPage)
          /\ pc' = "imported"
          /\ mmap' = NoMap
          /\ UNCHANGED <<info, scan, usable, claimed, fell_back>>
  /\ UNCHANGED walk_vars

----------------------------------------------------------------------------
(* report_multiboot_modules: the modules are printed and nothing is kept *)

Frozen == UNCHANGED <<pmm_vars, info, mmap, usable, claimed, fell_back, fb>>

ReportStart ==
  /\ pc = "imported"
  /\ Leave(IF /\ info.address # 0 /\ info.total_size >= 16
              /\ info.total_size <= SB_MB2_MAX_INFO_SIZE
           THEN "report" ELSE "find")
  /\ Frozen /\ UNCHANGED <<block, read_end, found>>

MoreReports == /\ scan.offset <= info.total_size - SIZEOF_TAG
               /\ scan.tags_seen < REPORT_MAX_TAGS

ReportTag(t) ==
  /\ pc = "report" /\ MoreReports
  /\ Read(ImportBytes(t))
  /\ IF TagFits(t.size) /\ t.type # "end" /\ Padded(t.size)
     THEN StepOver(t.size) /\ UNCHANGED pc ELSE Leave("find")
  /\ Frozen /\ UNCHANGED <<block, found>>

ReportEnd == /\ pc = "report" /\ ~ MoreReports
             /\ Leave("find")
             /\ Frozen /\ UNCHANGED <<block, read_end, found>>

----------------------------------------------------------------------------
(* multiboot_find_module: no limit on the size or the number of tags, and a  *)
(* sum of two 32-bit numbers                                                 *)

IsModule(t) == t.type = "module" /\ t.size >= SIZEOF_MODULE_TAG

\* The command line is looked at if the module is not empty.
NameRead(t) == IsModule(t) /\ t.range[2] > t.range[1]

\* named: the command line is the name asked for.
Matches(t) == NameRead(t) /\ t.named

\* Where the command line can be, padding included.
Room(t) == NextOffset(t.size) - SIZEOF_MODULE_TAG

\* module_name runs to the first NUL or space, with no regard to the size of the
\* tag: text bytes on, or, if that is not before the next tag, in the header of
\* that one, or further on, which counts as out of the block.  str_equal stops
\* there too, or earlier: the name asked for has no space.
NameEnd(t, next) ==
  IF t.text < Room(t) THEN SIZEOF_MODULE_TAG + t.text + 1
  ELSE IF next.stop < SIZEOF_TAG THEN NextOffset(t.size) + next.stop + 1
  ELSE U32

FindBytes(t, next) == IF NameRead(t) THEN NameEnd(t, next)
                      ELSE IF IsModule(t) THEN SIZEOF_MODULE_TAG ELSE SIZEOF_TAG

FindMore == /\ info.address # 0 /\ info.total_size >= 16
            /\ scan.offset + SIZEOF_TAG <= info.total_size

FindTag(t) ==
  /\ pc = "find" /\ FindMore
  /\ IF \/ t.type = "end"
        \/ t.size < SIZEOF_TAG
        \/ (scan.offset + t.size) % U32 > info.total_size
     THEN Read(SIZEOF_TAG) /\ Leave("done") /\ UNCHANGED found
     ELSE /\ \E next \in TagsAt(scan.offset + NextOffset(t.size)) : Read(FindBytes(t, next))
          /\ IF Matches(t)
             THEN found' = t.range /\ Leave("done")
             ELSE /\ scan' = [scan EXCEPT !.offset = (@ + NextOffset(t.size)) % U32]
                  /\ UNCHANGED <<pc, found>>
  /\ Frozen /\ UNCHANGED block

FindEnd == /\ pc = "find" /\ ~ FindMore
           /\ Leave("done")
           /\ Frozen /\ UNCHANGED <<block, read_end, found>>

Done == pc = "done" /\ UNCHANGED pmm_vars /\ UNCHANGED boot_vars

\* Zeroed statics: until the reset every page looks free.
BootInit ==
  /\ bitmap = {} /\ reserved_bitmap = {} /\ allocated_bitmap = {}
  /\ free_count = 0
  /\ pc = "start" /\ info = [address |-> 0, total_size |-> 0]
  /\ scan = FirstTag
  /\ mmap = NoMap
  /\ usable = {} /\ claimed = {} /\ fell_back = FALSE
  /\ block = NoTags /\ read_end = 0
  /\ fb = [available |-> FALSE, usable |-> FALSE] /\ found = <<>>

Step == \/ \E a \in InfoAddresses, t \in TotalSizes : ReadHeader(a, t)
        \/ \E t \in Tags : FramebufferTag(t) \/ ImportTag(t)
        \/ \E t \in TagsHere : ReportTag(t) \/ FindTag(t)
        \/ \E entry \in MapEntries : MmapEntry(entry)
        \/ FramebufferEnd \/ ImportStart \/ MmapEnd \/ TagsEnd \/ Finish
        \/ ReportStart \/ ReportEnd \/ FindEnd

BootNext == Step \/ Done

\* The walks are straight-line kernel code: they keep running.
BootSpec == /\ BootInit
            /\ [][BootNext]_<<pmm_vars, boot_vars>>
            /\ WF_<<pmm_vars, boot_vars>>(Step)

----------------------------------------------------------------------------
(* Properties *)

Touches(p, range) == /\ range[1] < range[2]
                     /\ range[1] < (p + 1) * SB_PAGE_SIZE
                     /\ p * SB_PAGE_SIZE < range[2]

InfoRange == <<info.address, info.address + info.total_size>>

\* After a complete walk every free page lies wholly inside RAM the map calls
\* available and touches no byte of a range reported otherwise, of a module,
\* of the kernel, of the tags themselves or of the null page, in whatever
\* order and with whatever overlaps and alignments the tags came.  After an
\* abandoned one nothing of what it opened is left: the pool is the fallback
\* window.
PoolIsSafeRAM ==
  pc = "imported" =>
    IF fell_back
    THEN FreePages = PagesInside(window_start, window_end)
    ELSE \A p \in FreePages :
           /\ \E r \in usable : r[1] <= p * SB_PAGE_SIZE
                                /\ (p + 1) * SB_PAGE_SIZE <= r[2]
           /\ \A r \in claimed \cup {InfoRange, <<kernel_start, kernel_end>>,
                                     <<0, SB_PAGE_SIZE>>} : ~ Touches(p, r)

\* No walk reads past the end of the information block the boot loader
\* announced, although tags lie about their sizes and the offsets are
\* unsigned.  multiboot_find_module, whose size check wraps and whose scan of a
\* command line has no bound, owes this to the import: in a block the import
\* accepted a module has a successor, and no size is large enough to fill the
\* header of that one with bytes other than NUL.
ReadsInsideInfo ==
  (pc \in {"find", "done"} /\ fell_back) \/ read_end <= info.total_size

\* The module handed to the loader lies in memory the import reserved, so no
\* page of it is ever allocated while it is read, although the two walks look
\* for it separately and under different checks.  Memory past the limit is
\* not allocated at all; the fallback reserves no module.
FoundModuleReserved ==
  (found # <<>> /\ ~ fell_back) =>
    \A p \in Pages : Touches(p, found) => p \in reserved_bitmap

\* Every walk ends whatever the tags hold (docs/BOOT_MEMORY_STAGING.md: "run
\* with bounded work"); multiboot_find_module does if the import accepted the
\* block.
WalkEnds == <>(pc = "done" \/ (pc = "find" /\ fell_back))

\* .github/workflows/ci.yml boots with a direct-colour framebuffer tag and
\* expects "Display: framebuffer ready": the last such tag of a block walked
\* to its end makes the framebuffer available.
FramebufferReady == (pc = "import" /\ fb.usable) => fb.available

=============================================================================
