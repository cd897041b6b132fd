------------------------------- MODULE Process -------------------------------
(***************************************************************************)
(* Processes and what they are made of: the process table (process.c), the *)
(* user half of an address space as a four-level page table                *)
(* (mm/address_space.c), the ELF checks and loader (elf.c, elf_loader.c)   *)
(* and the preparation of a process from an image (process_exec.c).        *)
(* Physical pages come from the allocator, of which only the set of free   *)
(* pages matters here (PMM.tla has the rest).  The kernel is sequential:   *)
(* while an image is being loaded no other operation runs.                 *)
(***************************************************************************)
EXTENDS Integers, Sequences, FiniteSets, SequencesExt

CONSTANTS Pages,                      \* page numbers, all above 0
          SB_MAX_PROCESSES, SB_MAX_THREADS_PER_PROCESS,
          Pids,                       \* pids the kernel asks for
          Images,                     \* ELF images, see Segment below
          SB_PAGE_SIZE, PT_ENTRIES,   \* bytes in a page, entries in a table
          PML4_ENTRIES, U64,          \* entries in a root, 2^64
          SB_USER_BASE, SB_USER_LIMIT,
          SB_USER_STACK_TOP, SB_USER_STACK_PAGES

VARIABLES free,                       \* free physical pages
          tables,                     \* contents of the page-table pages
          frames,                     \* contents of the pages given to users
          processes, process_count_value,
          cr3,
          loader,                     \* process_prepare_elf in progress
          loaded,                     \* the image each process was made from
          leaked                      \* pages destroyed processes left allocated

vars == <<free, tables, frames, processes, process_count_value, cr3, loader, loaded,
          leaked>>
mem_vars == <<free, tables, frames>>

Slots == 0 .. SB_MAX_PROCESSES - 1
KERNEL_TABLE == -1                    \* the PDPT of the identity mapping
BOOT_PML4 == 0

\* A page-table entry: the page it names (0: not present) and its flags.
Absent == [page |-> 0, w |-> FALSE, u |-> FALSE, nx |-> FALSE]
Unused == [pid |-> 0, state |-> "UNUSED", thread_count |-> 0, pml4 |-> 0]
NotLoaded == [size |-> 0]

MinOf(a, b) == IF a < b THEN a ELSE b
MaxOf(a, b) == IF a > b THEN a ELSE b

----------------------------------------------------------------------------
(* Mutants *)

\* A table that exists already keeps the flags it has.
MutFlagsNotRaised(e, flags) == e

\* The whole current root is copied, its user half too.
MutCopiesWholeRoot == [i \in 0 .. PML4_ENTRIES - 1 |->
  IF cr3 # BOOT_PML4 THEN tables[cr3][i]
  ELSE IF i = 0 THEN [Absent EXCEPT !.page = KERNEL_TABLE, !.w = TRUE] ELSE Absent]

\* The kernel half of the root is not copied.
MutNoKernelHalf == [i \in 0 .. PML4_ENTRIES - 1 |-> Absent]

\* A page whose mapping failed is not given back.
MutKeepsPage(page) == {}

\* The page is copied from the start of the segment, whatever page it is.
MutCopyFromStart(s, vstart, va) ==
  [o \in 0 .. SB_PAGE_SIZE - 1 |-> IF o < s.filesz THEN s.offset + o + 1 ELSE 0]

\* The loop over a segment's pages does not move on.
MutSamePage(va) == va

----------------------------------------------------------------------------
(* mm/address_space.c *)

Memory == [free |-> free, tables |-> tables]

pmm_alloc_page(set) == CHOOSE p \in set : \A q \in set : p <= q

Span(level) == SB_PAGE_SIZE * PT_ENTRIES ^ (level - 1)
IndexOf(level, va) ==
  (va \div Span(level)) % (IF level = 4 THEN PML4_ENTRIES ELSE PT_ENTRIES)

Raised(e, flags) == [e EXCEPT !.w = @ \/ flags.w, !.u = TRUE]

\* The table below entry i of table t, made if need be; 0 when memory is out.
ensure_table(m, t, i, flags) ==
  LET e == m.tables[t][i] IN
  IF e.page # 0
  THEN [m |-> [m EXCEPT !.tables[t][i] = Raised(e, flags)], t |-> e.page]
  ELSE IF m.free = {} THEN [m |-> m, t |-> 0]
  ELSE LET p == pmm_alloc_page(m.free)
           zero == [k \in 0 .. PT_ENTRIES - 1 |-> Absent]
           linked == [m.tables EXCEPT ![t][i] =
                        [page |-> p, w |-> flags.w, u |-> TRUE, nx |-> FALSE]]
       IN [m |-> [free |-> m.free \ {p},
                  tables |-> [q \in DOMAIN linked \cup {p} |->
                                IF q = p THEN zero ELSE linked[q]]],
           t |-> p]

UserAddress(va) == va \div Span(4) = SB_USER_BASE \div Span(4) /\ va < SB_USER_LIMIT

Present(e) == e.page # 0

\* Tables made on the way stay when a later step fails.
address_space_map_user(m, root, va, page, flags) ==
  LET pdpt == ensure_table(m, root, IndexOf(4, va), flags)
      pd == ensure_table(pdpt.m, pdpt.t, IndexOf(3, va), flags)
      pt == ensure_table(pd.m, pd.t, IndexOf(2, va), flags)
      i == IndexOf(1, va)
  IN CASE ~ UserAddress(va) -> [ok |-> FALSE, m |-> m]
       [] pdpt.t = 0 -> [ok |-> FALSE, m |-> pdpt.m]
       [] pd.t = 0 -> [ok |-> FALSE, m |-> pd.m]
       [] pt.t = 0 -> [ok |-> FALSE, m |-> pt.m]
       [] Present(pt.m.tables[pt.t][i]) -> [ok |-> FALSE, m |-> pt.m]
       [] OTHER -> [ok |-> TRUE,
                    m |-> [pt.m EXCEPT !.tables[pt.t][i] =
                             [page |-> page, w |-> flags.w, u |-> TRUE, nx |-> flags.nx]]]

\* The entries a user access to va goes through, root first, as far as they
\* are present and user-accessible.
Walk(root, va) ==
  LET e4 == tables[root][IndexOf(4, va)]
      e3 == tables[e4.page][IndexOf(3, va)]
      e2 == tables[e3.page][IndexOf(2, va)]
      e1 == tables[e2.page][IndexOf(1, va)]
  IN IF ~ e4.u THEN <<>> ELSE IF ~ e3.u THEN <<e4>>
     ELSE IF ~ e2.u THEN <<e4, e3>> ELSE IF ~ e1.u THEN <<e4, e3, e2>>
     ELSE <<e4, e3, e2, e1>>

\* address_space_translate_user: the page va is on, 0 if there is none.
Translate(root, va) ==
  IF UserAddress(va) /\ Len(Walk(root, va)) = 4 THEN Last(Walk(root, va)).page ELSE 0

\* The present entries of a set of tables, as <<table, index>>, and the pages
\* they name, level by level below the user half of the root of process p.
EntriesOf(ts) == {<<t, i>> \in ts \X (0 .. PT_ENTRIES - 1) : Present(tables[t][i])}
PagesOf(es) == {tables[e[1]][e[2]].page : e \in es}
RootEntries(p) == {<<processes[p].pml4, i>> : i \in
                     {k \in 1 .. PML4_ENTRIES - 1 : Present(tables[processes[p].pml4][k])}}
UserEntries(p) ==
  LET e3 == EntriesOf(PagesOf(RootEntries(p)))
      e2 == EntriesOf(PagesOf(e3))
      e1 == EntriesOf(PagesOf(e2))
  IN RootEntries(p) \cup e3 \cup e2 \cup e1
Reachable(p) == {processes[p].pml4} \cup PagesOf(UserEntries(p))

\* A fresh root: zero but for the kernel half, taken from the current one.
NewRoot == [i \in 0 .. PML4_ENTRIES - 1 |->
              IF i # 0 THEN Absent
              ELSE IF cr3 = BOOT_PML4 THEN [Absent EXCEPT !.page = KERNEL_TABLE, !.w = TRUE]
              ELSE tables[cr3][0]]

----------------------------------------------------------------------------
(* process.c *)

Idle == loader.phase = "idle"
Used(p) == processes[p].state # "UNUSED"
FreeSlots == {p \in Slots : ~ Used(p)}
FirstSlot == CHOOSE p \in FreeSlots : \A q \in FreeSlots : p <= q

\* process_create, with address_space_create inside; no memory, no process.
process_create(pid) ==
  /\ Idle
  /\ pid # 0 /\ process_count_value < SB_MAX_PROCESSES /\ FreeSlots # {}
  /\ UNCHANGED <<frames, cr3, loader, loaded, leaked>>
  /\ IF free = {}
     THEN /\ processes' = [processes EXCEPT ![FirstSlot] =
                             [@ EXCEPT !.thread_count = 0, !.pid = 0]]
          /\ UNCHANGED <<free, tables, process_count_value>>
     ELSE LET root == pmm_alloc_page(free) IN
          /\ free' = free \ {root}
          /\ tables' = [q \in DOMAIN tables \cup {root} |->
                          IF q = root THEN NewRoot ELSE tables[q]]
          /\ processes' = [processes EXCEPT ![FirstSlot] =
                             [pid |-> pid, state |-> "CREATED",
                              thread_count |-> 0, pml4 |-> root]]
          /\ process_count_value' = process_count_value + 1

ThreadsFull(p) == processes[p].thread_count >= SB_MAX_THREADS_PER_PROCESS

process_create_thread(p) ==
  /\ Idle
  /\ Used(p) /\ ~ ThreadsFull(p)
  /\ processes' = [processes EXCEPT ![p].thread_count = @ + 1]
  /\ UNCHANGED <<mem_vars, process_count_value, cr3, loader, loaded, leaked>>

\* kmain marks the process RUNNING and loads its root into CR3.
process_activate(p) ==
  /\ Idle
  /\ Used(p) /\ processes[p].pml4 # 0
  /\ loaded[p] # NotLoaded
  /\ processes' = [processes EXCEPT ![p].state = "RUNNING"]
  /\ cr3' = processes[p].pml4
  /\ UNCHANGED <<mem_vars, process_count_value, loader, loaded, leaked>>

\* Only the root goes back to the allocator; the rest stays allocated, its
\* contents out of everybody's reach.
process_destroy(p) ==
  /\ Idle
  /\ Used(p)
  /\ free' = free \cup {processes[p].pml4}
  /\ leaked' = leaked \cup (Reachable(p) \ {processes[p].pml4})
  /\ tables' = [q \in DOMAIN tables \ Reachable(p) |-> tables[q]]
  /\ frames' = [q \in DOMAIN frames \ Reachable(p) |-> frames[q]]
  /\ processes' = [processes EXCEPT ![p] = Unused]
  /\ process_count_value' = process_count_value - (IF process_count_value > 0 THEN 1 ELSE 0)
  /\ loaded' = [loaded EXCEPT ![p] = NotLoaded]
  /\ UNCHANGED <<cr3, loader>>

----------------------------------------------------------------------------
(* elf.c and elf_loader.c.  An image has its size, whether the fixed header  *)
(* fields are right, its type, its entry and its program headers; a program  *)
(* header has load, offset, vaddr, filesz, memsz, w and x.                   *)

align_down(v) == v - (v % SB_PAGE_SIZE)
align_up(v) == align_down(v + SB_PAGE_SIZE - 1)

elf64_validate(img) ==
  /\ img.header_ok
  /\ img.ph_end <= img.size
  /\ \A i \in DOMAIN img.segs :
       LET s == img.segs[i] IN
         s.load => s.filesz <= s.memsz /\ s.offset + s.filesz <= img.size

load_bias(img) ==
  IF img.type = "DYN" THEN (SB_USER_BASE - align_down(img.entry)) % U64 ELSE 0

EntryPoint(img) == (load_bias(img) + img.entry) % U64

InUserRange(vstart, vend) == SB_USER_BASE <= vstart /\ vend <= SB_USER_LIMIT

\* Neither sum may pass 2^64.
SegmentRangeOK(img, s) ==
  LET vstart == load_bias(img) + s.vaddr IN
    vstart < U64 /\ vstart + s.memsz < U64 /\ InUserRange(vstart, vstart + s.memsz)

\* The bytes of the page at va: 1 + their place in the file, or 0.
PageBytes(s, vstart, va) ==
  LET copy_start == MaxOf(va, vstart)
      copy_end == MinOf(va + SB_PAGE_SIZE, vstart + s.filesz)
      page_file_start == s.offset + (copy_start - vstart)
      dst_offset == copy_start - va
  IN [o \in 0 .. SB_PAGE_SIZE - 1 |->
        IF o >= dst_offset /\ o - dst_offset < copy_end - copy_start
        THEN page_file_start + (o - dst_offset) + 1 ELSE 0]

ZeroPage == [o \in 0 .. SB_PAGE_SIZE - 1 |-> 0]

Seg == loader.img.segs[loader.seg]
SegStart == load_bias(loader.img) + Seg.vaddr
SegEnd == SegStart + Seg.memsz

\* Leave with -1: what was mapped stays mapped.
Fail == loader' = [phase |-> "idle"] /\ UNCHANGED <<processes, loaded>>

GivenBack(page) == {page}

\* Allocate a page, fill it, map it; on a failed mapping give it back.
MapPage(va, bytes, flags, then) ==
  /\ UNCHANGED <<process_count_value, cr3, leaked>>
  /\ IF free = {} THEN Fail /\ UNCHANGED mem_vars
     ELSE LET page == pmm_alloc_page(free)
              r == address_space_map_user([Memory EXCEPT !.free = free \ {page}],
                     processes[loader.p].pml4, va, page, flags)
          IN /\ tables' = r.m.tables
             /\ IF r.ok
                THEN /\ free' = r.m.free
                     /\ frames' = [q \in DOMAIN frames \cup {page} |->
                                     IF q = page THEN bytes ELSE frames[q]]
                     /\ loader' = then
                     /\ UNCHANGED <<processes, loaded>>
                ELSE free' = r.m.free \cup GivenBack(page) /\ Fail /\ UNCHANGED frames

\* process_prepare_elf up to the loop over the program headers.  kmain prepares
\* a process it has just created: nothing is mapped in it.
PrepareBegin(p, img) ==
  /\ Idle
  /\ Used(p) /\ RootEntries(p) = {}
  /\ elf64_validate(img)
  /\ loader' = [phase |-> "segment", p |-> p, img |-> img, seg |-> 1,
                va |-> 0, entry_mapped |-> FALSE]
  /\ UNCHANGED <<mem_vars, processes, process_count_value, cr3, loaded, leaked>>

NextPage(va) == va + SB_PAGE_SIZE

\* The checks on one program header.
LoadSegment ==
  /\ loader.phase = "segment" /\ loader.seg <= Len(loader.img.segs)
  /\ UNCHANGED <<mem_vars, processes, process_count_value, cr3, loaded, leaked>>
  /\ IF ~ Seg.load \/ Seg.memsz = 0
     THEN loader' = [loader EXCEPT !.seg = @ + 1]
     ELSE IF SegmentRangeOK(loader.img, Seg)
     THEN loader' = [loader EXCEPT !.phase = "page", !.va = align_down(SegStart)]
     ELSE Fail

LoadPage ==
  /\ loader.phase = "page"
  /\ LET va == loader.va
         entry == EntryPoint(loader.img)
         next == NextPage(va)
         more == next < align_up(SegEnd)
     IN MapPage(va, PageBytes(Seg, SegStart, va), [w |-> Seg.w, nx |-> ~ Seg.x],
          [loader EXCEPT !.entry_mapped = @ \/ entry \in va .. next - 1,
                         !.va = next,
                         !.phase = IF more THEN "page" ELSE "segment",
                         !.seg = IF more THEN @ ELSE @ + 1])

\* After the last program header: the entry must be on a mapped page.
LoadEnd ==
  /\ loader.phase = "segment" /\ loader.seg > Len(loader.img.segs)
  /\ UNCHANGED <<mem_vars, processes, process_count_value, cr3, loaded, leaked>>
  /\ IF loader.entry_mapped
     THEN loader' = [loader EXCEPT
            !.phase = "stack",
            !.va = SB_USER_STACK_TOP - SB_USER_STACK_PAGES * SB_PAGE_SIZE]
     ELSE Fail

\* map_user_stack
StackPage ==
  /\ loader.phase = "stack" /\ loader.va < SB_USER_STACK_TOP
  /\ MapPage(loader.va, ZeroPage, [w |-> TRUE, nx |-> TRUE],
             [loader EXCEPT !.va = NextPage(@)])

PrepareEnd ==
  /\ loader.phase = "stack" /\ loader.va = SB_USER_STACK_TOP
  /\ processes' = [processes EXCEPT ![loader.p].state = "CREATED"]
  /\ loaded' = [loaded EXCEPT ![loader.p] = loader.img]
  /\ loader' = [phase |-> "idle"]
  /\ UNCHANGED <<mem_vars, process_count_value, cr3, leaked>>

----------------------------------------------------------------------------
Init ==
  /\ free = Pages
  /\ tables = [q \in {} |-> {}] /\ frames = [q \in {} |-> {}]
  /\ processes = [p \in Slots |-> Unused] /\ process_count_value = 0
  /\ cr3 = BOOT_PML4
  /\ loader = [phase |-> "idle"]
  /\ loaded = [p \in Slots |-> NotLoaded]
  /\ leaked = {}

\* The only caller, prepare_init_process, destroys a process it created and
\* could not prepare or give a thread; kmain activates only what it returns.
GiveUp(p) == processes[p].state = "CREATED" /\ process_destroy(p)

Prepare == LoadSegment \/ LoadPage \/ LoadEnd \/ StackPage \/ PrepareEnd

Next == \/ \E pid \in Pids : process_create(pid)
        \/ \E p \in Slots : \/ process_create_thread(p)
                            \/ process_activate(p)
                            \/ GiveUp(p)
                            \/ \E img \in Images : PrepareBegin(p, img)
        \/ Prepare

Spec == Init /\ [][Next]_vars

----------------------------------------------------------------------------
(* Properties *)

Live == {p \in Slots : Used(p)}
UserPages == {va \in SB_USER_BASE .. SB_USER_BASE + Span(4) - 1 : va % SB_PAGE_SIZE = 0}
Mapped(p) == {va \in UserPages : Translate(processes[p].pml4, va) # 0}

\* No page is lost but those address_space_destroy leaves behind: every page is
\* free, reached by a live process, or one that a destroyed process reached below
\* its root, and only one of these.  A preparation that fails at any point (no
\* memory, an occupied page) gives back the page it could not map.
PagesAccounted ==
  LET held == UNION {Reachable(p) : p \in Live} IN
    /\ Pages = free \cup held \cup leaked
    /\ leaked \cap (free \cup held) = {}
    /\ process_count_value = Cardinality(Live)

\* Two live processes share no physical page: not their tables, not their
\* memory.  Nothing a live process reaches is free to be handed out again, and
\* it reaches every page by one entry only.
Isolated ==
  \A p \in Live :
    LET mine == Reachable(p) IN
    /\ mine \cap free = {}
    /\ \A q \in Live : q < p => mine \cap Reachable(q) = {}
    /\ Cardinality(UserEntries(p)) = Cardinality(mine) - 1

\* A process reaches the kernel: the kernel half of every root is the identity
\* mapping, and no user access goes through it, whichever process's root was in
\* CR3 when address_space_create copied it and however far loading came.
KernelHalfKept ==
  \A p \in Live : tables[processes[p].pml4][0] =
                     [Absent EXCEPT !.page = KERNEL_TABLE, !.w = TRUE]

\* A write goes through exactly when the page's own entry allows it: the
\* tables above it, shared with read-only pages, never take it away.
WritableIsEffective ==
  \A p \in Live : \A va \in Mapped(p) :
    LET w == Walk(processes[p].pml4, va) IN
      Last(w).w => \A k \in DOMAIN w : w[k].w

\* A prepared process has, at every address of every segment of its image, the
\* byte of the file or the zero that ELF puts there; a segment that is not both
\* writable and executable has exactly the rights its flags give it; the stack
\* is writable, non-executable and zeroed, and the entry lies on a mapped page.
LoadedExactly ==
  \A p \in Live : loaded[p] # NotLoaded =>
    LET img == loaded[p]
        root == processes[p].pml4
        ByteAt(va) == frames[Translate(root, va)][va % SB_PAGE_SIZE]
        LeafAt(va) == Last(Walk(root, va))
    IN /\ \A i \in DOMAIN img.segs :
            LET s == img.segs[i] IN s.load =>
              \A k \in 0 .. s.memsz - 1 :
                LET va == load_bias(img) + s.vaddr + k IN
                  /\ Translate(root, va) # 0
                  /\ ByteAt(va) = IF k < s.filesz THEN s.offset + k + 1 ELSE 0
                  /\ ~ (s.w /\ s.x) => LeafAt(va).w = s.w /\ LeafAt(va).nx = ~ s.x
       /\ \A va \in SB_USER_STACK_TOP - SB_USER_STACK_PAGES * SB_PAGE_SIZE
                    .. SB_USER_STACK_TOP - 1 :
            /\ Translate(root, va) # 0
            /\ ByteAt(va) = 0 /\ LeafAt(va).w /\ LeafAt(va).nx
       /\ Translate(root, EntryPoint(img)) # 0

\* The entry of a prepared process can be executed: the leaf entry of its page
\* does not have the no-execute bit.
EntryExecutable ==
  \A p \in Live : loaded[p] # NotLoaded =>
    ~ Last(Walk(processes[p].pml4, EntryPoint(loaded[p]))).nx

\* Every step of loading an image moves on, to the next page, header or phase,
\* or gives up: with finitely many headers and a bounded user range the loops
\* of elf64_load_image and map_user_stack end, whatever the image.
LoadAdvances ==
  [][~ Idle =>
       \/ loader'.phase = "idle"
       \/ loader'.phase = "stack" /\ loader.phase = "segment"
       \/ loader'.seg > loader.seg
       \/ loader'.phase = "page" /\ loader.phase = "segment"
       \/ loader'.phase = loader.phase /\ loader'.va > loader.va
            /\ loader'.va <= SB_USER_LIMIT]_vars

=============================================================================
