-------------------------------- MODULE VMM --------------------------------
(***************************************************************************)
(* The kernel's page tables (kernel/mm/vmm.c) and its heap, on the page    *)
(* allocator they share, as kmain brings them up: vmm_init, the mapping    *)
(* self-test, then calls in any order.  A table is a partial function from *)
(* indices to entries; an address is the tuple of its four indices.  A     *)
(* call runs to its end before the next, but may run out of pages at every *)
(* level.  The processor caches the translations it uses.                  *)
(***************************************************************************)
EXTENDS Heap, Sequences

CONSTANTS PT_ENTRIES,   \* entries of a table
          Requests,     \* what callers map: device frames with flags w, u, nx
          Canonical,    \* the virtual pages: <<pml4, pdpt, pd, pt index>>
          VAs           \* those of them callers map and unmap

VARIABLES tables,       \* table -> index -> entry
          tlb,          \* a translation the processor holds
          mapped,       \* names mapped by vmm_map_page and not unmapped yet
          call,         \* the vmm_map_page in progress, or what runs next
          test          \* the pages vmm_selftest holds, in order

vmm_vars == <<tables, tlb, mapped, call, test>>
memory_vars == <<all_vars, vmm_vars>>

----------------------------------------------------------------------------
(* Tables.  The static ones are outside the pool. *)

pml4 == -1
pdpt == -2
pd == -3
bootstrap_pd == -4
bootstrap_pt == -5
bootstrap_high_pdpt == -6

Index == 0 .. PT_ENTRIES - 1
legacy_pdpt_i == 1              \* of 0x4000000000
BOOTSTRAP_TEST_PML4_INDEX == 1
test_virtual == <<0, legacy_pdpt_i, 0, 0>>

Entry(to, huge, flags) ==
  [to |-> to, huge |-> huge, w |-> flags.w, u |-> flags.u, nx |-> flags.nx]
WRITABLE == [w |-> TRUE, u |-> FALSE, nx |-> FALSE]

\* f with x mapped to y; a table with one entry and one with none.
With(f, x, y) == [z \in DOMAIN f \cup {x} |-> IF z = x THEN y ELSE f[z]]
Single(i, entry) == [j \in {i} |-> entry]
Empty == [j \in {} |-> 0]

\* boot.S: the first gigabyte is mapped onto itself with large pages.
BootTables ==
  [t \in {pml4, pdpt, pd} |->
     IF t = pml4 THEN Single(0, Entry(pdpt, FALSE, WRITABLE))
     ELSE IF t = pdpt THEN Single(0, Entry(pd, FALSE, WRITABLE))
     ELSE [i \in Index |-> Entry(i, TRUE, WRITABLE)]]

Put(t, i, entry) == [tables EXCEPT ![t] = With(@, i, entry)]
Drop(t, i) ==
  [tables EXCEPT ![t] = [j \in DOMAIN @ \ {i} |-> @[j]]]

\* The entries on the way to va, each defined where the one above leads to a
\* table.  No entry of the two upper levels is a large page.
e4(va) == tables[pml4][va[1]]
e3(va) == tables[e4(va).to][va[2]]
e2(va) == tables[e3(va).to][va[3]]
e1(va) == tables[e2(va).to][va[4]]

Reaches2(va) == /\ va[1] \in DOMAIN tables[pml4]
                /\ va[2] \in DOMAIN tables[e4(va).to]
                /\ va[3] \in DOMAIN tables[e3(va).to]
Large(va) == Reaches2(va) /\ e2(va).huge
Small(va) == Reaches2(va) /\ ~ e2(va).huge /\ va[4] \in DOMAIN tables[e2(va).to]

\* By frames: inside a large page, the small page of the same index.  The
\* code's 0 is the empty sequence.
vmm_translate(va) == IF Small(va) THEN <<e1(va).to>>
                     ELSE IF Large(va) THEN <<e2(va).to, va[4]>> ELSE <<>>

\* What the processor makes of a mapped va: the frame, and the rights that
\* every level grants.
Leaf(va) ==
  [frame |-> vmm_translate(va),
   w |-> e4(va).w /\ e3(va).w /\ e2(va).w /\ (Large(va) \/ e1(va).w),
   u |-> e4(va).u /\ e3(va).u /\ e2(va).u /\ (Large(va) \/ e1(va).u),
   nx |-> e4(va).nx \/ e3(va).nx \/ e2(va).nx \/ (Small(va) /\ e1(va).nx)]

\* Both 0x4000000000 and 0x8000000000 lead to bootstrap_pd: two names for
\* one page.
Name(va) == IF va[1] = BOOTSTRAP_TEST_PML4_INDEX /\ va[2] = 0
            THEN <<0, legacy_pdpt_i, va[3], va[4]>> ELSE va

ASSUME AddressAssumption ==
  /\ Canonical \subseteq Index \X Index \X Index \X Index
  /\ VAs \subseteq Canonical /\ test_virtual \in Canonical
  /\ \A va \in Canonical : Name(va) \in Canonical

\* Only the kernel maps pages here: no caller asks for SB_VMM_USER.
ASSUME RequestsAssumption ==
  \A r \in Requests : r.flags \in [w : BOOLEAN, u : {FALSE}, nx : BOOLEAN]

----------------------------------------------------------------------------
(* Mutants *)

\* Dropping a translation is left to chance.
MutNoInvlpg(va) == UNCHANGED tlb

\* A page that is mapped already is mapped again.
MutOverwrites(t, i) == TRUE

----------------------------------------------------------------------------
(* vmm_map_page, one ensure_table at a time *)

Idle == [pc |-> "idle"]

\* The self-test gives up, keeping its pages, where the call fails.
Return(ok) == call' = IF ok /\ call.pc = "testmap" THEN [pc |-> "use"] ELSE Idle

invlpg(va) == tlb' = [v \in DOMAIN tlb \ {va} |-> tlb[v]]

Begin(pc, va, frame, flags) ==
  call' = [pc |-> pc, va |-> va, frame |-> frame, flags |-> flags,
           table |-> pml4, level |-> 1]

Mapping == call.pc \in {"map", "testmap"}
At == call.va[call.level]
Here == tables[call.table]

Descend(t) == call' = [call EXCEPT !.table = t, !.level = @ + 1]

\* An entry on the way gains the rights asked for and loses none.
EnsurePresent ==
  /\ Mapping /\ call.level < 4 /\ At \in DOMAIN Here
  /\ IF Here[At].huge
     THEN Return(FALSE) /\ UNCHANGED tables
     ELSE /\ tables' = Put(call.table, At,
                           [Here[At] EXCEPT !.w = @ \/ call.flags.w,
                                            !.u = @ \/ call.flags.u])
          /\ Descend(Here[At].to)
  /\ UNCHANGED <<all_vars, tlb, mapped, test>>

EnsureNew ==
  /\ Mapping /\ call.level < 4 /\ At \notin DOMAIN Here
  /\ pmm_alloc_page
  /\ \E p \in allocated_bitmap' \ allocated_bitmap :
       /\ tables' = With(Put(call.table, At,
                             Entry(p, FALSE, [call.flags EXCEPT !.nx = FALSE])),
                         p, Empty)
       /\ Descend(p)
  /\ UNCHANGED <<heap_vars, others, tlb, mapped, test>>

\* Out of memory: the tables linked so far stay.
EnsureFails ==
  /\ Mapping /\ call.level < 4 /\ At \notin DOMAIN Here
  /\ FreePages = {}
  /\ Return(FALSE)
  /\ UNCHANGED <<all_vars, tables, tlb, mapped, test>>

Vacant(t, i) == i \notin DOMAIN tables[t]

WritePTE ==
  /\ Mapping /\ call.level = 4
  /\ IF Vacant(call.table, At)
     THEN /\ tables' = Put(call.table, At, Entry(call.frame, FALSE, call.flags))
          /\ invlpg(call.va)
          /\ mapped' = mapped \cup {call.va}
          /\ Return(TRUE)
     ELSE Return(FALSE) /\ UNCHANGED <<tables, tlb, mapped>>
  /\ UNCHANGED <<all_vars, test>>

----------------------------------------------------------------------------
(* The other operations *)

\* Absent at some level, or a large page: nothing changes.
vmm_unmap_page(va) ==
  /\ Small(va)
  /\ tables' = Drop(e2(va).to, va[4])
  /\ invlpg(va)
  /\ mapped' = mapped \ {va}

\* The tables with the two names of bootstrap_pd linked in.
Bootstrapped ==
  [t \in DOMAIN tables \cup {bootstrap_pt, bootstrap_pd, bootstrap_high_pdpt} |->
     IF t = bootstrap_pt THEN Empty
     ELSE IF t = bootstrap_pd THEN Single(0, Entry(bootstrap_pt, FALSE, WRITABLE))
     ELSE IF t = bootstrap_high_pdpt THEN Single(0, Entry(bootstrap_pd, FALSE, WRITABLE))
     ELSE IF t = pml4 THEN With(tables[t], BOOTSTRAP_TEST_PML4_INDEX,
                                Entry(bootstrap_high_pdpt, FALSE, WRITABLE))
     ELSE IF t = pdpt /\ legacy_pdpt_i \notin DOMAIN tables[t]
     THEN With(tables[t], legacy_pdpt_i, Entry(bootstrap_pd, FALSE, WRITABLE))
     ELSE tables[t]]

vmm_init ==
  /\ call.pc = "boot"
  /\ tables' = Bootstrapped
  /\ call' = [pc |-> "take"]
  /\ UNCHANGED <<all_vars, tlb, mapped, test>>

\* An access through a mapped name: the processor keeps the translation.
\* Translations go stale one by one, so the model follows the last one used.
Touch(va) ==
  /\ va \in mapped
  /\ tlb' = [v \in {va} |-> Leaf(v)]

----------------------------------------------------------------------------
(* vmm_selftest of kernel.c: three pages, the first of them mapped, used,    *)
(* unmapped.  A path that fails returns without giving the pages back.       *)

TestTake ==
  /\ call.pc = "take" /\ pmm_alloc_page
  /\ \E p \in allocated_bitmap' \ allocated_bitmap : test' = Append(test, p)
  /\ IF Len(test) < 2 THEN UNCHANGED call
     ELSE Begin("testmap", test_virtual, test[1], WRITABLE)
  /\ UNCHANGED <<heap_vars, others, tables, tlb, mapped>>

TestNoPage ==
  /\ call.pc = "take" /\ FreePages = {}
  /\ call' = Idle
  /\ UNCHANGED <<all_vars, tables, tlb, mapped, test>>

TestUse ==
  /\ call.pc = "use"
  /\ IF vmm_translate(test_virtual) = <<test[1]>>
     THEN Touch(test_virtual) /\ call' = [pc |-> "unmap"]
     ELSE call' = Idle /\ UNCHANGED tlb
  /\ UNCHANGED <<all_vars, tables, mapped, test>>

TestUnmap ==
  /\ call.pc = "unmap" /\ vmm_unmap_page(test_virtual)
  /\ call' = [pc |-> "free"]
  /\ UNCHANGED <<all_vars, test>>

\* The pages go back in the order they were taken.
TestFree ==
  /\ call.pc = "free"
  /\ pmm_free_page(test[1] * SB_PAGE_SIZE)
  /\ test' = Tail(test)
  /\ call' = IF Len(test) = 1 THEN Idle ELSE call
  /\ UNCHANGED <<heap_vars, others, tables, tlb, mapped>>

----------------------------------------------------------------------------
Client == \/ kheap_init
          \/ \E size \in Sizes : kheap_alloc(size)
          \/ \E ptr \in Addresses : kheap_free(ptr)
          \/ OtherAlloc
          \/ \E p \in Pages : OtherFree(p)

MapBegin(va, r) ==
  /\ Begin("map", va, r.frame, r.flags)
  /\ UNCHANGED <<all_vars, tables, tlb, mapped, test>>

\* A page is unmapped by the name it was mapped by, as every caller does.
UnmapMapped(va) ==
  /\ va \in mapped /\ vmm_unmap_page(va)
  /\ UNCHANGED <<all_vars, call, test>>

UseMapped(va) == Touch(va) /\ UNCHANGED <<all_vars, tables, mapped, call, test>>

\* After pmm_init_from_multiboot: some pages are usable, page 0 never.
MemoryInit ==
  /\ \E n \in 0 .. PMM_MAX_PAGES - 1 :
       /\ reserved_bitmap = Pages \ (1 .. n) /\ bitmap = reserved_bitmap
       /\ free_count = n
  /\ allocated_bitmap = {} /\ others = {}
  /\ initialized = FALSE /\ active_base = 0 /\ active_requested = 0
  /\ tables = BootTables /\ tlb = Empty /\ mapped = {}
  /\ call = [pc |-> "boot"] /\ test = <<>>

MemoryNext ==
  \/ vmm_init
  \/ TestTake \/ TestNoPage \/ TestUse \/ TestUnmap \/ TestFree
  \/ EnsurePresent \/ EnsureNew \/ EnsureFails \/ WritePTE
  \/ /\ call = Idle
     /\ \/ Client /\ UNCHANGED vmm_vars
        \/ \E va \in VAs, r \in Requests : MapBegin(va, r)
        \/ \E va \in VAs : UnmapMapped(va)
        \/ \E va \in VAs : UseMapped(va)

MemorySpec == MemoryInit /\ [][MemoryNext]_memory_vars

----------------------------------------------------------------------------
(* Properties *)

TablePages == DOMAIN tables \cap Pages
TestPages == {test[k] : k \in DOMAIN test}

\* The heap's page, the page tables, the self-test's pages and the pages the
\* rest of the kernel holds are disjoint, and with the pool they are all the
\* usable pages: no path of vmm_map_page, vmm_selftest, kheap_alloc or
\* kheap_free loses a page or holds one twice.  Only a self-test that found
\* fewer than three pages keeps what it took.
PagesBalanced ==
  LET parts == <<ActivePages, others, TablePages, TestPages>> IN
  /\ \A i, j \in DOMAIN parts : i # j => parts[i] \cap parts[j] = {}
  /\ allocated_bitmap = UNION {parts[i] : i \in DOMAIN parts}
  /\ FreePages = Pages \ (reserved_bitmap \cup allocated_bitmap)
  /\ free_count = Cardinality(FreePages)
  /\ call = Idle => Len(test) < 3

\* A translation the processor still holds is the one the tables give: a page
\* unmapped and mapped again to another frame is never reached through the
\* old entry.
TLBCoherent == \A va \in DOMAIN tlb : vmm_translate(va) # <<>> /\ tlb[va] = Leaf(va)

Mappings == [va \in {v \in Canonical : Name(v) = v /\ (Small(v) \/ Large(v))}
               |-> Leaf(va)]
Identity == [va \in {v \in Canonical : v[1] = 0 /\ v[2] = 0}
               |-> [frame |-> <<va[3], va[4]>>, w |-> TRUE, u |-> FALSE, nx |-> FALSE]]

Map == INSTANCE AddressMap WITH Given <- Identity, maps <- Mappings

\* The tables implement the abstract map: a call changes the frame and the
\* rights of one page, those of its name and only if it was free, although
\* it raises rights on shared upper entries and shares bootstrap_pd between
\* two windows; a call that runs out of pages changes no translation; the
\* boot identity map is never touched.
ImplementsAddressMap == Map!Spec

=============================================================================
