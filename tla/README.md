# A TLA+ model of the SuiraBox OS kernel

SuiraBox OS is a small x86_64 kernel in C and assembly. These modules model its
memory management, scheduler, kernel entry code, process loading and storage
stack. TLC checks them on small instances. TLAPS proves the safety properties of
the page allocator, the boot block walks, the page tables and the heap, the
scheduler, the sector layer and FAT32 for every size.

## 1. The system

| Part | Source | State | Operations |
|---|---|---|---|
| Page allocator | `kernel/mm/pmm_bootstrap.c` | three bitmaps, a free count | reset, init, add usable range, reserve range, alloc, free |
| Boot block walks | `kernel/framebuffer.c`, `mm/pmm_multiboot.c`, `kernel.c`, `mm/multiboot_modules.c` | offset and counters of a walk | find the framebuffer, import the memory map, report and find modules |
| Kernel page tables | `kernel/mm/vmm.c` | the boot tables and those below | init, map, unmap, translate |
| Heap | `kernel/mm/heap.c` | one allocation record | init, alloc, free |
| Scheduler, timer | `kernel/scheduler.c`, `kernel/timer.c` | task table, current index, tick counters | add task, tick, pick next |
| System calls | `kernel/syscall.c` | none | exit, process id, ticks |
| Tables and controllers | `kernel/arch/x86_64/gdt.c`, `interrupts.c`, `timer.c` | GDT, TSS, IDT, the two 8259s | load, set a gate, program |
| Entry code | `kernel/arch/x86_64/*.S`, `panic.c` | registers, stack, interrupt flag | timer, int 0x80, exceptions, jump to ring 3 |
| Processes | `kernel/process.c`, `process_exec.c`, `mm/address_space.c` | process table, page tables | create, thread, prepare, activate, destroy |
| ELF loading | `kernel/elf.c`, `elf_loader.c` | none | validate, load |
| FAT32 | `kernel/fs/fat32.c` | the mounted volume | mount, read a root entry, read a file |
| VFS, block table | `kernel/vfs.c`, `block.c`, `storage_selftest.c` | a mount, the devices, memory disks | mount, read, write, register, self-tests |
| ATA driver | `kernel/ata_pio.c` | ready flag, the drive's registers | init, read, write |
| Not modelled | see section 7 | | |

How they interact. `kmain` runs on one processor with interrupts off. It looks
for a framebuffer, tests the storage stack and probes the drive, imports the
memory map into the page allocator, brings up page tables and heap, loads the
descriptor tables, fills the task table and loads a boot module into a process.
Then `timer_init` enables interrupts and `kmain` jumps to ring 3. From then on
the timer interrupt and `int 0x80` interrupt the user program. The heap, the
page tables and the loader all take their pages from the allocator. FAT32 reads
through the VFS, the VFS through a device of the block table.

What is hard in it:

- pages have several claimants (memory map, reservations, heap, page tables),
  and range operations may come after allocations;
- input from outside is of any shape: Multiboot tags, ELF images, disks;
- four walks read the same boot block under different checks;
- interrupts arrive at any instruction outside a handler, and the tables that
  route them change under running code;
- memory may run out, a sector read may fail and a drive may answer late, at
  every step of a longer operation;
- the processor keeps translations the tables no longer have;
- unsigned arithmetic wraps.

What must hold, and is stated below as properties: pages have one owner; the
pool is RAM nobody claimed; the processor sees what the tables say; one task
runs and every task runs again; every transfer of control goes where it should
and handlers return what they saved; address spaces share nothing; what is
loaded, read or written is exactly what was asked for; every call returns.

## 2. Modules

| Module | Models | Form |
|---|---|---|
| `PageOwnership` | the promise of an allocator: a page is in the pool or has one owner | abstract specification |
| `PMM` | the allocator on sets of pages | refines `PageOwnership` |
| `PMMWords` | the allocator as written, words and masks | refines `PMM` |
| `BootMemory` | the four walks of the boot block | extends `PMM` |
| `AddressMap` | the promise of a page-table manager: one call changes one page | abstract specification |
| `Heap` | the heap and other page users | extends `PMM` |
| `VMM` | page tables, heap and self-test on one allocator | extends `Heap`, refines `AddressMap` |
| `Scheduler` | task table, tick, system calls that read it | |
| `Platform` | descriptor tables, gates, interrupt controllers | |
| `KernelEntry` | `kmain` from the first table on, and the entry stubs, as instructions | a small machine, extends `Platform` |
| `Process` | process table, page tables, ELF loader | |
| `FAT32` | mount, directory and file reads over the VFS | |
| `Block` | the device table and the memory disks | |
| `ATA` | the driver and the drive | driver and drive interleave; extends `Block` |
| `Storage` | the VFS over memory disks and drive | extends `ATA` |
| `BootMemoryProofs`, `VMMLemmas`, `MemoryProofs`, `SchedulerProofs`, `KernelEntryLemmas`, `KernelEntryProofs`, `StorageProofs`, `FAT32Proofs` | theorems | section 5 |
| `MC*` | instances for TLC | |

Variables and operators keep the names of the C code. Where they differ:

- **PMM.** A bitmap is the set of pages whose bit is set. An operation that
  the code refuses (a bad address, an empty range, an empty pool) leaves the
  state alone and is no step. `PMMWords` keeps the words, masks and scans.
- **BootMemory.** Each tag and each map entry is chosen when the code reads it,
  so the tags come in every order and combination of the sizes and ranges the
  instance names. `block` remembers what the import accepted, and the two later
  walks read that; after a fallback they read anything. One step is one
  iteration of a loop. Whether a command line is the name asked for is a flag of
  its tag, and so are the checks on dimensions and colours of a framebuffer. A
  scan of a command line ends at the first NUL or space: `text` bytes on, or, if
  the tag ends before that, `stop` bytes into the header of the next tag.
  `read_end` is where the last step stopped reading. `usable`, `claimed`,
  `fell_back` and `fb.usable` are history.
- **Heap.** `others` are the pages held by the rest of the kernel.
  `active_pages` and `used_bytes` repeat what the two kept fields say.
- **VMM.** A table is a partial function from indices to entries, an address the
  tuple of its four indices. `vmm_map_page` takes one step per `ensure_table`.
  `tlb` is the translation the processor used last: translations go stale one by
  one, so one at a time is followed. `Name` gives the two names of one page (the
  windows at 0x4000000000 and 0x8000000000 share `bootstrap_pd`) one. Callers use
  and unmap a page by the name they mapped it by.
- **Scheduler.** The array of tasks is one function per field. Both gates are
  interrupt gates, so a handler is one action. `seen` is what user programs
  were told.
- **Platform.** A descriptor keeps what its access byte and flags say. A
  controller keeps its place in the initialisation sequence, base, mask and
  lines in service; port writes are interpreted by position, as the 8259 does.
  How processor and controllers read these is external.
- **KernelEntry.** A routine is a sequence of instruction records; one action
  executes one. C code that only builds tables is one instruction per change
  visible to the processor. A call into C leaves every caller-saved register
  with an unknown value. An interrupt that cannot be delivered (no valid gate,
  unusable stack) resets the machine. `nxe` is EFER.NXE, which the code never
  writes. `entered` records the machine at the last entry.
- **Process.** Of the allocator only the set of free pages is kept. A byte of
  memory is named by its place in the file. Loading takes one step per program
  header and per page, since memory may run out at each. `loaded` and `leaked`
  are history: the image a process was made from, and the pages
  `address_space_destroy` leaves behind. `process_destroy` itself takes any
  process; its one caller destroys only a process it could not prepare or give a
  thread, before anything is marked RUNNING (`GiveUp`). For the same reason a
  process is prepared only while nothing is mapped in it.
- **FAT32.** A byte of file data is named by its place on the disk. Each sector
  read is a step. `failed` is history. `Chain` is the reference: the n-th cluster
  of a chain, as the tables say, with no driver in between.
- **ATA, Storage.** The driver writes its registers one at a time and polls;
  between any two of its steps the drive may complete or fail its command. The
  drive is modelled from how the driver uses it and from the ATA protocol it
  relies on: BSY is set with the command, and a busy drive ignores its
  registers. A sector's contents are the sector they were written for and a
  version. `call.before` is what all devices held when the call began.

The operators named `Mut...` are deliberate defects. Put in the place of the
definition they imitate, each makes TLC report the property it is kept for, so
every property is known to be able to fail.

## 3. Runs

Run a model with `tlc -workers 2 -config <cfg> <module>`.

| Run | Config | Question | Answer |
|---|---|---|---|
| `pmm_words` | `MCPMMWords` | Do words and masks implement the sets; is no page free and owned, is the count always right? | yes |
| `boot_memory` | `MCBootMemory` | Any tags: do the walks end, stay inside, give a safe pool and a reserved module? | yes |
| `boot_framebuffer` | `MCBootFramebuffer` | Does a sound framebuffer tag make the framebuffer available? | **no** |
| `kernel_memory` | `MCVMM` | Are pages lost or shared, translations stale, pages mapped by a call for another? | no |
| `scheduler` | `MCScheduler` | One running task, unique ids, fair quanta, exact accounting, every task again and again? | yes |
| `kernel_entry` | `MCKernelEntry` | Are transfers valid, handlers uninterrupted, panics correct; does the timer go on? | yes |
| `kernel_entry_ring3` | `MCKernelEntryRing3` | Can the stack the jump to ring 3 uses be written? | **no** |
| `kernel_entry_number` | `MCKernelEntryNumber` | Is rax the system call number? | **no** |
| `process` | `MCProcess` | Isolation, exact loading, two programs at once, out of memory everywhere | holds |
| `process_entry` | `MCProcessEntry` | Can the entry of every loaded program be executed? | **no** |
| `fat32` | `MCFAT32` | Exact reads, justified failures, termination on any chain | holds |
| `storage` | `MCStorage` | Exact transfers on every device, contained failures, a full table, termination with any drive | holds |

The four answers in bold are disagreements between the code and its own
documents, comments or tests:

1. `sb_framebuffer_init` sets `available` from a check that begins by asking for
   `available` (`framebuffer.c:151` and `:64`), so it stays 0. The boot test greps
   for "Display: framebuffer ready" (`.github/workflows/ci.yml:49`).
2. The user stack is mapped with the no-execute bit (`process_exec.c:23`), and
   nothing sets EFER.NXE (`boot.S:70` sets LME only), so bit 63 is reserved and
   the first push of `arch_enter_user` faults with no stack to deliver the fault
   on; `docs/USERMODE.md:43` requires a valid stack mapping before ring 3. It
   does not happen if the boot loader left NXE on: the model starts with either,
   and `kernel_entry` covers what follows when it is on.
3. The system call stub passes the saved r11 as the number (`syscall.S:40`,
   against its comment at line 33 and `docs/SYSCALL_ABI.md:17`).
4. The loader accepts an entry point on any page it mapped (`elf_loader.c:109`),
   so a program whose entry lies in a segment without the executable flag is
   loaded; `docs/ELF_LOADER.md:31` requires an executable one.

More were met while modelling. The models show the behaviour, but no run is kept
for it:

- The timer stub writes its last serial mark after it restored rax and rdx
  (`irq.S:43`, `docs/ROADMAP.md:33`). `TimerKeepsOthers` states exactly what is
  kept.
- The fallback window is opened without reserving the information block and
  the modules (`pmm_multiboot.c:32`, `docs/BOOT_MEMORY_STAGING.md:17`).
- PROCESS_ID reports the task the tick selected last, and nothing switches to
  that task (`syscall.c:5`, `docs/SYSCALL_ABI.md:12`).
- A system call drops the saved registers instead of restoring them
  (`syscall.S:48`, `userspace/syscall.h:12`).
- A segment with both flags is mapped writable and executable
  (`elf_loader.c:64`, `docs/ELF_LOADER.md:45`). `LoadedExactly` says nothing of
  the rights of such a segment.

And some properties of the code that no document contradicts, but that a change
may trip over:

- `pic_remap` writes the slave's ICW4 to 0xA0 instead of 0xA1 (`timer.c:69`). The
  mask that follows is taken as ICW4, and nothing is masked at the slave; only
  the master's mask, which also covers the cascade line, keeps its lines out.
  `TransfersValid` depends on that.
- `multiboot_find_module` adds offset and size in 32 bits
  (`multiboot_modules.c:49`). It stays inside the block because the import has
  checked the same tags; after a fallback nothing has.
- It also scans a command line with no bound but the first NUL or space
  (`multiboot_modules.c:32`). A command line that fills its tag runs on into the
  next one; the scan still ends inside the block, because the import accepts a
  module only with a tag behind it, and the upper byte of that tag's size is 0
  in a block of at most 64 KiB.
- `vmm_selftest` keeps its pages where it fails (`kernel.c:92`).
- `sb_ata_pio_device` returns the drive although the table had no room for it.
- The driver does not reset a drive it gave up on (`ata_pio.c:94`).

### Bounds

- `MCPMMWords`: 5 pages of 2 bytes in three words, the last partly used, and
  addresses for which a range lies inside one word (from its first bit or from a
  later one), has a partial first, a whole and a partial last word, ends at a
  word boundary, starts or ends inside a page, or is cut at the end of memory.
- `MCBootMemory`: real tag and entry sizes, 7 pages of 64 bytes, at most 4 tags
  (3 in the report), 3 entries and 1 module, so that each limit is met; entries
  that overlap, are unaligned or pass the largest address; command lines that end
  inside their tag and past it; `U32` is 1024 so that sums and
  differences wrap.
- `MCVMM`: none to three usable pages, so that every table, the self-test and the
  heap run out; sizes around 0, one page and the largest number; four addresses
  (in the identity map, the two names of one page, a region without tables) and
  two frames with different rights.
- `MCScheduler`: a table of 3 with more ids than fit, a quantum of 3 and 30
  ticks: three full rounds and more. The timer stops at 30, so `EveryTaskRuns`
  asks for a task to be selected whenever enough ticks are left to give every
  task a quantum.
- `MCKernelEntry`: all registers different, every number in rax and r11, three
  exceptions (with and without an error code), lines of the timer, of another
  device on the master and of one on the slave, and a tick counter that wraps
  at 3.
- `MCProcess`: tables of 2 entries, pages of 2 bytes, 12 images (each shape the
  loader tells apart), 16 pages of memory. Two programs fit, and since destroyed
  processes leave their pages behind, memory runs out at every step of a load.
- `MCFAT32`: 4-byte sectors, clusters of 1, 2 and 8 sectors, 60 tables, 16 bad
  boot sectors, and `U32` = 32, so that `(cluster - 2) * sectors_per_cluster`
  wraps in the instance with 8. The code compares no cluster with the size of the
  volume; `ReadExact` and `EntryExact` therefore speak of the bytes whose sector
  number fits 32 bits, and that only sectors of the data area are delivered is
  stated where no number can wrap (`NoWrap`).
- `MCStorage`: LBA registers of one bit, 2 polls per wait, a table of 3 devices,
  so that it is full before or after the drive is found. A behaviour makes no
  further call after the first that found the drive still busy with a command an
  earlier call gave up on (`call.quiet`): `ReadExact` and `WriteExact` are about
  the calls before.

Deadlock is checked in every run. Where the system stops by its nature (the walk
is done, a hlt loop, the driver is idle) the module has a step that stutters.

### Fairness

- `BootMemory` and `FAT32`: weak fairness of the code's own steps. It runs
  alone, and a processor does not stop between two instructions.
- `Storage`: weak fairness of the kernel's steps only. Nothing is assumed of the
  drive, so `CallsReturn` covers one that never answers.
- `Scheduler`: weak fairness of `timer_init` and of the timer interrupt.
  `timer_init` is on `kmain`'s straight path; the PIT is periodic, and
  `kernel_entry` shows that the end of interrupt is sent on every tick. System
  calls are not assumed to happen.
- `KernelEntry`: weak fairness of the kernel's instructions and strong fairness
  of the timer's line. Strong, because handlers switch interrupts off again and
  again; justified, because a request stays pending in the controller until it
  can be taken. `TimerKeepsTicking` therefore fails if the line stays blocked.

## 4. Refinement

`PMMWords` implements `PMM` (run `pmm_words`) and `PMM` implements
`PageOwnership` (proved; the same run checks it of the sets the words stand
for, with the other properties of `PMM`). In the first, a word array maps to the
set of its set bits below `PMM_MAX_PAGES`; in the second, the pool is the
complement of `bitmap` and the owned pages are `allocated_bitmap`. `BootMemory`,
`Heap` and `VMM` use the set-based allocator, so what they show holds on top of
the words too.

`VMM` implements `AddressMap` (run `kernel_memory`, and proved): the abstract map gives every
virtual page the frame and the rights a walk of the four levels ends with, one
name standing for the two of a shared page. A step of `vmm_map_page` that makes
a table or raises rights above is a stutter; writing or clearing the last entry
is one change of one page. That holds because mapping a page has raised every
entry above it to the page's own rights: a later raise grants nothing to the
pages mapped before.

## 5. Theorems

Check a module with `tlapm <module>.tla`. Every theorem is for all values of the
constants that satisfy the `ASSUME`s of the module it is about; every run's
instance satisfies them too.

| Module | Theorem | Statement |
|---|---|---|
| `MemoryProofs` | `TypeCorrect` | `Spec => []TypeOK` |
| | `NoDoubleOwnership` | `Spec => []OwnedPagesNotFree` |
| | `FreeCounterExact` | `Spec => []FreeCountExact` |
| | `OwnershipIsStable` | `Spec => OwnershipSticks` |
| | `OwnershipImplemented` | `Spec => ImplementsOwnership` |
| | `MemoryInvariant` | `MemorySpec => []MemoryInv` |
| | `RequestsFit` | `MemorySpec => []RequestFits` |
| | `PagesStayBalanced` | `MemorySpec => []PagesBalanced` |
| | `TLBStaysCoherent` | `MemorySpec => []TLBCoherent` |
| | `TablesImplementMap` | `MemorySpec => ImplementsAddressMap` |
| `BootMemoryProofs` | `BootInvariant` | `BootSpec => []BootInv` |
| | `PoolStaysSafe` | `BootSpec => []PoolIsSafeRAM` |
| | `ReadsStayInside` | `BootSpec => []ReadsInsideInfo` |
| | `ModuleStaysReserved` | `BootSpec => []FoundModuleReserved` |
| `SchedulerProofs` | `TypeCorrect` | `Spec => []TypeOK` |
| | `ExactlyOneRunning` | `Spec => []OneRunning` |
| | `IdsAreUnique` | `Spec => []UniqueIds` |
| | `TicksAccounted` | `Spec => []RuntimeAccounted` |
| | `SharesStayFair` | `Spec => []QuantumFair`, if `MAX_TICKS < TICK_MOD` |
| | `RoundRobin` | `Spec => NobodySkipped` |
| `KernelEntryProofs` | `KernelEntryInvariant` | `Spec => []IInv` |
| | `TransfersValidHolds` | `Spec => []TransfersValid` |
| | `InterruptsOnlyOutsideHolds` | `Spec => []InterruptsOnlyOutside` |
| | `TimerKeepsOthersHolds` | `Spec => []TimerKeepsOthers` |
| | `PanicReportsFaultHolds` | `Spec => []PanicReportsFault` |
| `StorageProofs` | `StorageInvariant` | `StorageSpec => []StorageInv` |
| | `ReadsStayExact` | `StorageSpec => []ReadExact` |
| | `WritesStayExact` | `StorageSpec => []WriteExact` |
| | `TableStaysPut` | `StorageSpec => TableKeepsDevices` |
| `FAT32Proofs` | `FatInvariant` | `Spec => []FatInv` |
| | `MountStaysSound` | `Spec => []MountSound` |
| | `FileReadsExact` | `Spec => []ReadExact` |
| | `FailuresHaveReasons` | `Spec => []FailsForAReason` |
| | `EntriesExact` | `Spec => []EntryExact` |

Every inductive invariant below was model-checked on the instance of its run
before it was proved. `TypeOK` of `PMM` and `Scheduler` is proved and not kept in
a run.

### The arguments

**PMM.** The invariant is `TypeOK /\ OwnedPagesNotFree /\ FreeCountExact`. None
of the three is enough: the upper bound on the count needs the count to be
exact; the count stays exact in `pmm_free_page` only because the freed page was
not in the pool, which is ownership; and ownership survives a merge because
`set_range_bits` leaves out reserved and allocated pages. The counting steps rest on
the library's facts about cardinality, through the lemma `PagesCount`.

**BootMemory.** `BootInv` has a part for each stage of the import. While tags are
read, every free page lies inside a usable range and the pages of every claimed
range are reserved; the tags accepted lie inside the block, and each is followed
by another accepted one, by the one being looked at, or is the end tag. The last
is what the later walks live on: `multiboot_find_module` adds 32-bit numbers
without a check, and stays inside because from the first tag on it only meets
tags the import has put in the chain. Its scan of a command line stays inside for
the same reason (lemma `NameEnds`): a tag that is not the end tag has a successor
in the chain, and the header of that one holds a NUL. Rounding a range inward for memory that is
opened and outward for memory that is claimed is the lemmas on `align_down` and
`align_up`.

**VMM.** `MemoryInv` has a part on pages and one on tables. The pages of the heap,
the tables, the self-test and the other holders are disjoint and are exactly
what is allocated. Each table has a level; an entry above the last leads to a
table one level down; two entries lead to the same table only if they are the two
windows on `bootstrap_pd`; an entry above the last grants at least what those
below it grant. The call in progress is at the table its address leads to and has
raised what it passed. The tree is needed because a write to one entry must
change no other walk, and the raised rights because a walk takes the weakest
right on its way. `VMMLemmas` has what a single write does to this, `vmm_init`, and
the steps of a call that move no page; `MemoryProofs` has the allocator, the heap
and the steps that do. The refinement follows from how each step changes
`Mappings`.

**Scheduler.** `TypeOK /\ OneRunning /\ UniqueIds` is inductive. `RoundRobin` needs
`OneRunning`: every task of the table is READY or RUNNING, so the search accepts
its first candidate. `QuantumFair` needs to know where in the round each task is:
with the task a round began with, those behind it up to the current one have had
a quantum more than the rest (`FairInv`). `RuntimeAccounted` is about a sum over
the table, so it needs that a change of one summand changes the sum by as much.

**KernelEntry.** The invariant `IInv` has a part for each program, by instruction.
In `kmain` it says which tables are loaded before instruction `i` (`TablesAt`:
gates, descriptors, task register, the initialisation word the interrupt
controller waits for next) and how much of the frame of user mode
`arch_enter_user` has built. From the gate of the timer on the tables stay as they
are (`Ready`), and that is all user mode and the handlers know of them. In a
handler the frame on the stack is the one the processor pushed, it came from user
mode or from `kmain` between two instructions with interrupts on (or from the
`int` of `timer_init`), and above it lie the first registers of the order in
which the stub saves them (`SavedOn`): each push adds one, each pop takes one off
and puts it back. For an exception the registers of `sb_panic_from_exception` are
loaded one by one (`ExcState`), from a stack that is the same whether the
processor or the stub pushed the error code. None of the four properties is
inductive alone: that a return finds its own frame (`TransfersValid`) needs every
push and pop before it, and those need that no interrupt comes in between
(`InterruptsOnlyOutside`), which needs that every gate is an interrupt gate
(`Ready`). There is one lemma for each kind of instruction, one for each kind of
entry, and one for each program; the proof goes through the 37 instructions of
`kmain`, the 25 of `irq.S`, the 18 of `syscall.S` and those of both kinds of
exception stub, each with an interrupt or a fault where one can come.

**Storage.** `StorageInv` ties driver and drive together: the registers written so
far hold the digits of the sector asked for, the drive's command is the one the
driver waits for, and what was transferred is what the request says. All of it
is under the condition `call.quiet`: a call that met a drive still busy with a
command an earlier call gave up on promises nothing. That the digits make up the
sector is arithmetic on four registers of any width.

**FAT32.** `FatInv` says in which cluster of which chain a running call is: bytes
delivered and offset left make up a multiple of the cluster size, and that
multiple is the number of the cluster in `Chain`. The rest is arithmetic of
bytes, sectors and clusters. The proof corrected the property: it used to claim
that no byte in front of the data area is delivered whatever the chain, which
held only because the instance was too small for a sector number to wrap. It
also showed a history variable to be superfluous.

Facts about recursive definitions (`Chain`, the sum of the runtimes) need
induction over numbers. The library's induction theorems have an operator as
parameter, which the provers cannot instantiate; the proofs use the lemma
`SetInduction` instead, which speaks of a set of numbers and follows from the
well-foundedness of `<`. A recursive function is unfolded after it is shown that
a function with the equation exists.

### The assumptions

- `PMM`: at least one page, of at least one byte; addresses are numbers.
- `Heap`: sizes fit a `size_t`. `VMM`: addresses are four table indices, and a
  page's name is one of the addresses. Requests do not ask for `SB_VMM_USER`:
  `vmm_map_page` is called from `kernel.c:104` and `framebuffer.c:189`, both
  without it (user pages are mapped by `address_space.c`).
- `BootMemory`: sizes and offsets fit 32 bits, addresses the largest address, as
  the fields of the tags do; the largest information block is no larger than
  `TOP_BYTE`, the weight of a size's upper byte (64 KiB and 2^24), so a header
  whose size is below it has a NUL in its 8 bytes; the tracked memory is addressable; the kernel image
  is aligned to pages and lies below the fallback window, as `linker.ld` and
  `pmm_multiboot.c` have it.
- `Scheduler`: a table, a quantum and a counter of some size. `SharesStayFair` has
  the hypothesis that the timer's 64-bit counter does not wrap: at the wrap a
  quantum is cut short unless the quantum divides 2^64.
- `KernelEntry`: the registers of a user program hold integers, lines are those of
  the two controllers, the tick counter wraps at some number, and every fault that
  can occur has a gate. Faults are not 17 (alignment check) or 30: their stubs
  disagree with the processor about the error code; 17 needs `CR0.AM`, which
  `boot.S` leaves clear, and 30 an extension nobody turns on.
- `Block`, `ATA`, `Storage`: a drive has no more sectors than its registers can
  number, and requests are pairs of unsigned numbers; the memory disk has the
  sector its self-test writes.
- `FAT32`: the fields of the boot sector and the directory are unsigned and fit
  their types; the table has the words the boot sector calls for; sectors hold
  whole words and whole entries, and a masked cluster number times 4 fits 32 bits
  (it has 28 bits).

### Only model-checked

- Liveness: `EveryTaskRuns`, `WalkEnds`, `CallsReturn` (twice) and
  `TimerKeepsTicking`. Fairness is out of the prover's reach.
- `PMMWords`: it uses bit operations the prover has no theory of.
- `Process`: `PagesAccounted`, `Isolated`, `KernelHalfKept`, `WritableIsEffective`,
  `LoadedExactly` and its action properties. Each needs a tree of tables per
  process that shares its upper half with the others, and the state of the
  loader by segment: as much again as `VMMLemmas` has for one tree.
- The three disagreements of section 3 are counterexamples, which a run shows.

## 6. Hazards

`PROJECT.json` lists the places in the code where something hard to test can go
wrong, with the properties that would show it. Some are covered in part, as
section 3 says: `cluster_to_lba` where the product wraps, a call that meets a
drive still busy with an abandoned command, the two names of one page when a
caller mixes them, and the module walk after a fallback.

One has no property and is not in the list: `scheduler_current`, which PROCESS_ID
reads, is the task the tick selected and not the code that runs (`syscall.c:6`).
The code does this by construction; section 3 has it among the disagreements.

## 7. Not modelled

- `scheduler_switch_to` and `context.S`, `gdt_set_kernel_stack`: nothing calls
  them.
- `kernel/setup.c`: nothing calls it. It is one bounded loop over a menu with two
  wrapping choices and no other actor.
- `kernel/pci.c`: reads configuration space and prints; no state, and nothing
  uses the result.
- Mapping, clearing and drawing on the framebuffer: out of reach while the
  framebuffer is never available. Pixel output besides.
- `kernel/config.c` and `kernel/mm/pmm.c` are not in the kernel build;
  `kernel/tcp.h` and `kernel/profile.h` are declarations.
- The mode switch of `boot.S`: a straight line before any state of the kernel
  exists. What it leaves behind (tables, selectors, EFER) is the initial state
  of `VMM`, `Platform` and `KernelEntry`.
- The 8.3 names of FAT32, serial output, the panic screen's text.

## 8. Plan

Done: the modules of section 2 and the theorems of section 5. Next, proofs of
`Process`: `KernelHalfKept`, `Isolated` and `WritableIsEffective`, which need a
tree of tables per process as `VMMLemmas` has one for the kernel; then
`LoadAdvances`.
