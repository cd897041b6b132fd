------------------------------ MODULE VMMLemmas ------------------------------
(***************************************************************************)
(* The shape of the kernel's page tables, what a single write to one of    *)
(* them does to it and to the walks through it, how vmm_init builds it     *)
(* and how the steps of a call that move no page keep it.                  *)
(***************************************************************************)
EXTENDS VMM, TLAPS

----------------------------------------------------------------------------
(* The shape of the tables: every table has a level, the tables form a tree *)
(* but for bootstrap_pd, and an entry on the way grants what those below it *)
(* grant, so a page's rights are those of its own entry.                    *)

\* Entry i of table t leads to another table.
Link(t, i) == t # pd /\ i \in DOMAIN tables[t]

EntryOK(t, e) == /\ DOMAIN e = {"to", "huge", "w", "u", "nx"}
                 /\ e.w \in BOOLEAN /\ e.u = FALSE /\ e.nx \in BOOLEAN
                 /\ e.huge = (t = pd)

LevelsOK(lv) ==
  /\ lv \in [DOMAIN tables -> 1 .. 4]
  /\ pml4 \in DOMAIN tables /\ lv[pml4] = 4
  /\ pd \in DOMAIN tables /\ lv[pd] = 2
  /\ \A t \in DOMAIN tables : \A i \in DOMAIN tables[t] :
       /\ EntryOK(t, tables[t][i])
       /\ Link(t, i) /\ lv[t] > 1 =>
            /\ tables[t][i].to \in DOMAIN tables
            /\ lv[tables[t][i].to] = lv[t] - 1
            /\ ~ tables[t][i].nx
            /\ \A j \in DOMAIN tables[tables[t][i].to] :
                 tables[tables[t][i].to][j].w => tables[t][i].w

\* The two entries that lead to bootstrap_pd.
Window(t, i) == \/ t = pdpt /\ i = legacy_pdpt_i
                \/ t = bootstrap_high_pdpt /\ i = 0
Joined(t, i, s, j) == \/ t = s /\ i = j
                      \/ Window(t, i) /\ Window(s, j)

TreeOK(lv) ==
  \A t, s \in DOMAIN tables : \A i \in DOMAIN tables[t], j \in DOMAIN tables[s] :
    /\ Link(t, i) /\ Link(s, j) /\ lv[t] > 1 /\ lv[s] > 1
    /\ tables[t][i].to = tables[s][j].to
    => Joined(t, i, s, j)

Leads(t, i, s) == Link(t, i) /\ tables[t][i].to = s /\ tables[t][i].w

StaticOK ==
  /\ {pdpt, bootstrap_high_pdpt, bootstrap_pd, bootstrap_pt} \subseteq DOMAIN tables
  /\ Leads(pml4, 0, pdpt) /\ Leads(pml4, 1, bootstrap_high_pdpt)
  /\ Leads(pdpt, 0, pd) /\ Leads(pdpt, legacy_pdpt_i, bootstrap_pd)
  /\ Leads(bootstrap_high_pdpt, 0, bootstrap_pd)
  /\ Leads(bootstrap_pd, 0, bootstrap_pt)
  /\ DOMAIN tables[pd] = Index
  /\ \A i \in Index : tables[pd][i] = Entry(i, TRUE, WRITABLE)

ShapeOK(lv) == LevelsOK(lv) /\ TreeOK(lv) /\ StaticOK

Flags == [w : BOOLEAN, u : {FALSE}, nx : BOOLEAN]

\* The call in progress has reached call.table on the way to va, and raised
\* what it passed.
CallAt(va) ==
  /\ call.level = 1 => call.table = pml4
  /\ call.level > 1 => va[1] \in DOMAIN tables[pml4] /\ (call.flags.w => e4(va).w)
  /\ call.level = 2 => call.table = e4(va).to
  /\ call.level > 2 => va[2] \in DOMAIN tables[e4(va).to] /\ (call.flags.w => e3(va).w)
  /\ call.level = 3 => call.table = e3(va).to
  /\ call.level > 3 => /\ va[3] \in DOMAIN tables[e3(va).to] /\ ~ e2(va).huge
                       /\ (call.flags.w => e2(va).w)
                       /\ call.table = e2(va).to

CallOK ==
  /\ DOMAIN call = {"pc", "va", "frame", "flags", "table", "level"}
  /\ call.flags \in Flags /\ call.level \in 1 .. 4
  /\ \E va \in Canonical : va = call.va /\ CallAt(va)

\* Every name mapped has a page, and no two the same entry; the processor
\* holds translations of such names only.
MappedOK ==
  /\ \A va \in mapped : va \in Canonical /\ Small(va)
  /\ \A a, b \in mapped : e2(a).to = e2(b).to /\ a[4] = b[4] => a = b
  /\ DOMAIN tlb \subseteq mapped
  /\ \A va \in DOMAIN tlb : tlb[va] = Leaf(va)

\* The self-test, step by step: its name is free until it maps it.
TestOK ==
  /\ call.pc \in {"take", "testmap", "use", "unmap", "free", "map", "idle"}
  /\ call.pc = "take" => mapped = {} /\ 0 \notin DOMAIN tables[bootstrap_pt] /\ Len(test) < 3
  /\ call.pc = "testmap" => /\ mapped = {} /\ 0 \notin DOMAIN tables[bootstrap_pt]
                            /\ call.va = test_virtual /\ call.flags = WRITABLE
                            /\ call.frame = test[1] /\ Len(test) = 3
  /\ call.pc = "use" => /\ 0 \in DOMAIN tables[bootstrap_pt]
                        /\ tables[bootstrap_pt][0].to = test[1]
  /\ call.pc \in {"use", "unmap"} => test_virtual \in mapped /\ Len(test) = 3
  /\ call.pc = "free" => Len(test) > 0
  /\ call.pc \in {"map", "idle"} => Len(test) < 3

BootState == /\ call = [pc |-> "boot"] /\ tables = BootTables
             /\ mapped = {} /\ tlb = Empty /\ test = <<>>

Steady(lv) == ShapeOK(lv) /\ (Mapping => CallOK) /\ MappedOK /\ TestOK

TableInv == BootState \/ \E lv : Steady(lv)

----------------------------------------------------------------------------
(* Entries and walks *)

\* Writing one entry: every other entry and table is as before.
LEMMA PutIs ==
  ASSUME NEW t \in DOMAIN tables, NEW i, NEW entry
  PROVE  LET P == Put(t, i, entry) IN
         /\ DOMAIN P = DOMAIN tables
         /\ DOMAIN P[t] = DOMAIN tables[t] \cup {i}
         /\ P[t][i] = entry
         /\ \A j \in DOMAIN tables[t] \ {i} : P[t][j] = tables[t][j]
         /\ \A s \in DOMAIN tables \ {t} : P[s] = tables[s]
BY Zenon DEF Put, With

\* Clearing one entry.
LEMMA DropIs ==
  ASSUME NEW t \in DOMAIN tables, NEW i
  PROVE  LET D == Drop(t, i) IN
         /\ DOMAIN D = DOMAIN tables
         /\ DOMAIN D[t] = DOMAIN tables[t] \ {i}
         /\ \A j \in DOMAIN tables[t] \ {i} : D[t][j] = tables[t][j]
         /\ \A s \in DOMAIN tables \ {t} : D[s] = tables[s]
BY Zenon DEF Drop

\* A walk goes down one level with every entry.
LEMMA WalkLevels ==
  ASSUME NEW lv, LevelsOK(lv), NEW va
  PROVE  /\ va[1] \in DOMAIN tables[pml4] =>
              e4(va).to \in DOMAIN tables /\ lv[e4(va).to] = 3 /\ ~ e4(va).huge
         /\ va[1] \in DOMAIN tables[pml4] /\ va[2] \in DOMAIN tables[e4(va).to] =>
              e3(va).to \in DOMAIN tables /\ lv[e3(va).to] = 2 /\ ~ e3(va).huge
         /\ Reaches2(va) => e2(va).huge = (e3(va).to = pd)
         /\ Reaches2(va) /\ e3(va).to # pd =>
              e2(va).to \in DOMAIN tables /\ lv[e2(va).to] = 1
<1>1. pml4 # pd
  BY DEF pml4, pd
<1>2. CASE va[1] \notin DOMAIN tables[pml4]
  BY Zenon, <1>2 DEF Reaches2
<1>3. CASE va[1] \in DOMAIN tables[pml4]
  <2>1. e4(va).to \in DOMAIN tables /\ lv[e4(va).to] = 3 /\ ~ e4(va).huge
    BY <1>1, <1>3 DEF LevelsOK, EntryOK, Link, e4
  <2>2. CASE va[2] \notin DOMAIN tables[e4(va).to]
    BY Zenon, <2>1, <2>2 DEF Reaches2
  <2>3. CASE va[2] \in DOMAIN tables[e4(va).to]
    <3>1. e3(va).to \in DOMAIN tables /\ lv[e3(va).to] = 2 /\ ~ e3(va).huge
      <4> DEFINE t == e4(va).to
      <4>1. t \in DOMAIN tables /\ lv[t] = 3 /\ t # pd
        BY <2>1 DEF LevelsOK
      <4> HIDE DEF t
      <4>2. tables[t][va[2]].to \in DOMAIN tables /\ lv[tables[t][va[2]].to] = 2
            /\ ~ tables[t][va[2]].huge
        BY <2>3, <4>1 DEF LevelsOK, EntryOK, Link, t
      <4> QED
        BY Zenon, <4>2 DEF e3, t
    <3>2. CASE va[3] \notin DOMAIN tables[e3(va).to]
      BY Zenon, <2>1, <3>1, <3>2 DEF Reaches2
    <3>3. CASE va[3] \in DOMAIN tables[e3(va).to]
      <4> DEFINE t == e3(va).to
      <4>1. t \in DOMAIN tables /\ lv[t] = 2 /\ va[3] \in DOMAIN tables[t]
        BY Zenon, <3>1, <3>3
      <4>2. e2(va) = tables[t][va[3]]
        BY Zenon DEF e2
      <4> HIDE DEF t
      <4>3. e2(va).huge = (t = pd)
        BY <4>1, <4>2 DEF LevelsOK, EntryOK
      <4>4. t # pd => e2(va).to \in DOMAIN tables /\ lv[e2(va).to] = 1
        BY <4>1, <4>2 DEF LevelsOK, Link
      <4> QED
        BY Zenon, <2>1, <3>1, <4>3, <4>4 DEF t
    <3> QED
      BY Zenon, <3>2, <3>3
  <2> QED
    BY Zenon, <2>2, <2>3
<1> QED
  BY Zenon, <1>2, <1>3

\* The rights on the way to a page are at least its own, and none of them
\* forbids execution.
LEMMA RightsChain ==
  ASSUME NEW lv, LevelsOK(lv), NEW va, Small(va) \/ Large(va)
  PROVE  /\ e4(va).w \in BOOLEAN /\ e3(va).w \in BOOLEAN /\ e2(va).w \in BOOLEAN
         /\ e4(va).u = FALSE /\ e4(va).nx = FALSE /\ e3(va).nx = FALSE
         /\ (e3(va).w => e4(va).w) /\ (e2(va).w => e3(va).w)
         /\ e2(va).nx \in BOOLEAN
         /\ Small(va) => /\ e2(va).nx = FALSE /\ (e1(va).w => e2(va).w)
                         /\ e1(va).w \in BOOLEAN /\ e1(va).nx \in BOOLEAN
<1>1. Reaches2(va) /\ va[1] \in DOMAIN tables[pml4] /\ va[2] \in DOMAIN tables[e4(va).to]
      /\ va[3] \in DOMAIN tables[e3(va).to]
  BY Zenon DEF Small, Large, Reaches2
<1>2. /\ e4(va).to \in DOMAIN tables /\ lv[e4(va).to] = 3
      /\ e3(va).to \in DOMAIN tables /\ lv[e3(va).to] = 2
      /\ e4(va).to # pd
  BY <1>1, WalkLevels DEF LevelsOK
<1>3. /\ e4(va).w \in BOOLEAN /\ e4(va).u = FALSE /\ e4(va).nx = FALSE
      /\ \A j \in DOMAIN tables[e4(va).to] : tables[e4(va).to][j].w => e4(va).w
  <2>1. pml4 # pd
    BY DEF pml4, pd
  <2>2. Link(pml4, va[1]) /\ lv[pml4] > 1
    BY <1>1, <2>1 DEF Link, LevelsOK
  <2>3. EntryOK(pml4, e4(va)) /\ ~ e4(va).nx
        /\ \A j \in DOMAIN tables[e4(va).to] : tables[e4(va).to][j].w => e4(va).w
    BY Zenon, <1>1, <2>2 DEF LevelsOK, e4
  <2> QED
    BY Zenon, <2>3 DEF EntryOK
<1>4. /\ e3(va).w \in BOOLEAN /\ e3(va).nx = FALSE
      /\ \A j \in DOMAIN tables[e3(va).to] : tables[e3(va).to][j].w => e3(va).w
  <2> DEFINE t == e4(va).to
  <2>1. e3(va) = tables[t][va[2]] /\ t \in DOMAIN tables /\ lv[t] = 3 /\ va[2] \in DOMAIN tables[t]
    BY Zenon, <1>1, <1>2 DEF e3
  <2>2. t # pd
    BY Zenon, <1>2
  <2> HIDE DEF t
  <2>3. Link(t, va[2])
    BY Zenon, <2>1, <2>2 DEF Link
  <2>4. EntryOK(t, e3(va)) /\ ~ e3(va).nx
        /\ \A j \in DOMAIN tables[e3(va).to] : tables[e3(va).to][j].w => e3(va).w
    BY <2>1, <2>3 DEF LevelsOK
  <2> QED
    BY Zenon, <2>4 DEF EntryOK
<1>5. e3(va).w => e4(va).w
  BY Zenon, <1>1, <1>3 DEF e3
<1>6. e2(va).w => e3(va).w
  BY Zenon, <1>1, <1>4 DEF e2
<1> DEFINE t == e3(va).to
<1>7. e2(va) = tables[t][va[3]] /\ t \in DOMAIN tables /\ lv[t] = 2 /\ va[3] \in DOMAIN tables[t]
  BY Zenon, <1>1, <1>2 DEF e2
<1>8. e2(va).w \in BOOLEAN /\ e2(va).nx \in BOOLEAN
  <2> HIDE DEF t
  <2> QED
    BY <1>7 DEF LevelsOK, EntryOK
<1>9. ASSUME Small(va)
      PROVE  /\ e2(va).nx = FALSE /\ (e1(va).w => e2(va).w)
             /\ e1(va).w \in BOOLEAN /\ e1(va).nx \in BOOLEAN
  <2>1. t # pd /\ va[4] \in DOMAIN tables[e2(va).to] /\ e2(va).to \in DOMAIN tables
    BY Zenon, <1>1, <1>9, WalkLevels DEF Small
  <2> HIDE DEF t
  <2>2. Link(t, va[3])
    BY Zenon, <1>7, <2>1 DEF Link
  <2>3. ~ e2(va).nx
        /\ \A j \in DOMAIN tables[e2(va).to] : tables[e2(va).to][j].w => e2(va).w
    BY <1>7, <2>2 DEF LevelsOK
  <2>4. e1(va).w => e2(va).w
    BY Zenon, <2>1, <2>3 DEF e1
  <2>5. EntryOK(e2(va).to, e1(va))
    BY Zenon, <2>1 DEF LevelsOK, e1
  <2> QED
    BY Zenon, <1>8, <2>3, <2>4, <2>5 DEF EntryOK
<1> QED
  BY Zenon, <1>3, <1>4, <1>5, <1>6, <1>8, <1>9

\* What the processor makes of a page is what its own entry says.
LEMMA LeafIs ==
  ASSUME NEW lv, ShapeOK(lv), NEW va
  PROVE  /\ Small(va) => Leaf(va) = [frame |-> <<e1(va).to>>, w |-> e1(va).w,
                                     u |-> FALSE, nx |-> e1(va).nx]
         /\ Large(va) => Leaf(va) = [frame |-> <<e2(va).to, va[4]>>, w |-> TRUE,
                                     u |-> FALSE, nx |-> FALSE]
<1>1. LevelsOK(lv) /\ StaticOK
  BY Zenon DEF ShapeOK
<1>2. ASSUME Small(va)
      PROVE  Leaf(va) = [frame |-> <<e1(va).to>>, w |-> e1(va).w,
                         u |-> FALSE, nx |-> e1(va).nx]
  <2>1. vmm_translate(va) = <<e1(va).to>> /\ ~ Large(va)
    BY Zenon, <1>2 DEF vmm_translate, Small, Large
  <2>2. (e4(va).w /\ e3(va).w /\ e2(va).w /\ (Large(va) \/ e1(va).w)) = e1(va).w
    BY Zenon, <1>1, <1>2, <2>1, RightsChain
  <2>3. (e4(va).u /\ e3(va).u /\ e2(va).u /\ (Large(va) \/ e1(va).u)) = FALSE
    BY Zenon, <1>1, <1>2, RightsChain
  <2>4. (e4(va).nx \/ e3(va).nx \/ e2(va).nx \/ (Small(va) /\ e1(va).nx)) = e1(va).nx
    BY Zenon, <1>1, <1>2, RightsChain
  <2> QED
    BY Zenon, <2>1, <2>2, <2>3, <2>4 DEF Leaf
<1>3. ASSUME Large(va)
      PROVE  Leaf(va) = [frame |-> <<e2(va).to, va[4]>>, w |-> TRUE,
                         u |-> FALSE, nx |-> FALSE]
  <2>1. vmm_translate(va) = <<e2(va).to, va[4]>> /\ ~ Small(va)
    BY Zenon, <1>3 DEF vmm_translate, Small, Large
  <2>2. e3(va).to = pd /\ va[3] \in Index
    BY Zenon, <1>1, <1>3, WalkLevels DEF Large, Reaches2, StaticOK
  <2>3. e2(va).w = TRUE /\ e2(va).nx = FALSE
    <3>1. e2(va) = Entry(va[3], TRUE, WRITABLE)
      BY Zenon, <1>1, <2>2 DEF StaticOK, e2
    <3> QED
      BY <3>1 DEF Entry, WRITABLE
  <2>4. (e4(va).w /\ e3(va).w /\ e2(va).w /\ (Large(va) \/ e1(va).w)) = TRUE
    BY Zenon, <1>1, <1>3, <2>3, RightsChain
  <2>5. (e4(va).u /\ e3(va).u /\ e2(va).u /\ (Large(va) \/ e1(va).u)) = FALSE
    BY Zenon, <1>1, <1>3, RightsChain
  <2>6. (e4(va).nx \/ e3(va).nx \/ e2(va).nx \/ (Small(va) /\ e1(va).nx)) = FALSE
    BY Zenon, <1>1, <1>3, <2>1, <2>3, RightsChain
  <2> QED
    BY Zenon, <2>1, <2>4, <2>5, <2>6 DEF Leaf
<1> QED
  BY Zenon, <1>2, <1>3

----------------------------------------------------------------------------
(* What a write to a table does to the walks through it *)

\* Walks depend on where the entries above the last level lead, and on no
\* rights.
LEMMA SameWalk ==
  ASSUME NEW lv, LevelsOK(lv), NEW va,
         \A s \in DOMAIN tables : lv[s] > 1 =>
           /\ DOMAIN tables'[s] = DOMAIN tables[s]
           /\ \A j \in DOMAIN tables[s] : /\ tables'[s][j].to = tables[s][j].to
                                          /\ tables'[s][j].huge = tables[s][j].huge
  PROVE  /\ Reaches2(va)' <=> Reaches2(va)
         /\ Reaches2(va) => /\ e3(va)'.to = e3(va).to
                            /\ e2(va)'.to = e2(va).to
                            /\ e2(va)'.huge = e2(va).huge
<1>1. pml4 \in DOMAIN tables /\ lv[pml4] > 1
  BY DEF LevelsOK
<1>2. DOMAIN tables'[pml4] = DOMAIN tables[pml4]
  BY Zenon, <1>1
<1>3. CASE va[1] \notin DOMAIN tables[pml4]
  BY Zenon, <1>2, <1>3 DEF Reaches2
<1>4. CASE va[1] \in DOMAIN tables[pml4]
  <2>1. e4(va).to \in DOMAIN tables /\ lv[e4(va).to] > 1
    BY <1>4, WalkLevels
  <2>2. e4(va)'.to = e4(va).to
    BY Zenon, <1>1, <1>4 DEF e4
  <2>3. DOMAIN tables'[e4(va)'.to] = DOMAIN tables[e4(va).to]
    BY Zenon, <2>1, <2>2
  <2>4. CASE va[2] \notin DOMAIN tables[e4(va).to]
    BY Zenon, <2>3, <2>4 DEF Reaches2
  <2>5. CASE va[2] \in DOMAIN tables[e4(va).to]
    <3>1. e3(va).to \in DOMAIN tables /\ lv[e3(va).to] > 1
      BY <1>4, <2>5, WalkLevels
    <3>2. e3(va)'.to = e3(va).to
      BY Zenon, <2>1, <2>2, <2>5 DEF e3
    <3>3. DOMAIN tables'[e3(va)'.to] = DOMAIN tables[e3(va).to]
      BY Zenon, <3>1, <3>2
    <3>4. Reaches2(va)' <=> Reaches2(va)
      BY Zenon, <1>2, <2>3, <3>3 DEF Reaches2
    <3>5. ASSUME Reaches2(va)
          PROVE  e2(va)'.to = e2(va).to /\ e2(va)'.huge = e2(va).huge
      <4>1. va[3] \in DOMAIN tables[e3(va).to]
        BY Zenon, <3>5 DEF Reaches2
      <4> QED
        BY Zenon, <3>1, <3>2, <4>1 DEF e2
    <3> QED
      BY Zenon, <3>2, <3>4, <3>5
  <2> QED
    BY Zenon, <2>4, <2>5
<1> QED
  BY Zenon, <1>3, <1>4

\* The pages mapped, and the entries that map them, are as before.
WalksKept ==
  \A va \in Canonical :
    /\ Small(va)' <=> Small(va)
    /\ Large(va)' <=> Large(va)
    /\ Small(va) => e2(va)'.to = e2(va).to /\ e1(va)' = e1(va)
    /\ Large(va) => e2(va)' = e2(va)

\* Every entry that leads to table t grants what f asks for.
Allowed(lv, t, f) ==
  \A s \in DOMAIN tables : \A j \in DOMAIN tables[s] :
    Link(s, j) /\ lv[s] > 1 /\ tables[s][j].to = t => (f.w => tables[s][j].w)

Raised(e, f) == [e EXCEPT !.w = @ \/ f.w, !.u = @ \/ f.u]

\* Raising the rights of an entry on the way changes no translation.
LEMMA RaiseStep ==
  ASSUME NEW lv, ShapeOK(lv), NEW t \in DOMAIN tables, lv[t] > 1, t # pd,
         NEW i \in DOMAIN tables[t], NEW f \in Flags, Allowed(lv, t, f),
         tables' = Put(t, i, Raised(tables[t][i], f))
  PROVE  ShapeOK(lv)' /\ WalksKept
<1> DEFINE old == tables[t][i]
           new == Raised(old, f)
<1>1. LevelsOK(lv) /\ TreeOK(lv) /\ StaticOK
  BY Zenon DEF ShapeOK
<1>2. f.w \in BOOLEAN /\ f.u = FALSE
  BY Zenon DEF Flags
<1>3. /\ DOMAIN old = {"to", "huge", "w", "u", "nx"}
      /\ old.w \in BOOLEAN /\ old.u = FALSE /\ old.nx \in BOOLEAN
  BY Zenon, <1>1 DEF LevelsOK, EntryOK
<1>4. /\ new.to = old.to /\ new.huge = old.huge /\ new.nx = old.nx
      /\ new.u = FALSE /\ new.w = (old.w \/ f.w)
      /\ DOMAIN new = DOMAIN old
  BY Zenon, <1>2, <1>3 DEF Raised
<1> HIDE DEF new
<1>5. /\ DOMAIN tables' = DOMAIN tables
      /\ \A s \in DOMAIN tables : DOMAIN tables'[s] = DOMAIN tables[s]
      /\ tables'[t][i] = new
      /\ \A s \in DOMAIN tables : \A j \in DOMAIN tables[s] :
           s # t \/ j # i => tables'[s][j] = tables[s][j]
  <2>1. tables' = Put(t, i, new)
    BY Zenon DEF new
  <2>2. /\ DOMAIN tables' = DOMAIN tables
        /\ DOMAIN tables'[t] = DOMAIN tables[t] \cup {i}
        /\ tables'[t][i] = new
        /\ \A j \in DOMAIN tables[t] \ {i} : tables'[t][j] = tables[t][j]
        /\ \A s \in DOMAIN tables \ {t} : tables'[s] = tables[s]
    BY <2>1, PutIs
  <2>3. DOMAIN tables'[t] = DOMAIN tables[t]
    BY Zenon, <2>2
  <2> QED
    BY Zenon, <2>2, <2>3
<1>6. \A s \in DOMAIN tables : \A j \in DOMAIN tables[s] :
        /\ tables'[s][j].to = tables[s][j].to
        /\ tables'[s][j].huge = tables[s][j].huge
        /\ tables'[s][j].nx = tables[s][j].nx
        /\ tables[s][j].w => tables'[s][j].w
        /\ EntryOK(s, tables'[s][j])
  BY SMTT(20), <1>1, <1>2, <1>3, <1>4, <1>5 DEF LevelsOK, EntryOK
<1>7. LevelsOK(lv)'
  <2>1. ASSUME NEW s \in DOMAIN tables, NEW j \in DOMAIN tables[s],
               Link(s, j), lv[s] > 1, NEW k \in DOMAIN tables[tables[s][j].to],
               tables'[tables[s][j].to][k].w
        PROVE  tables'[s][j].w
    <3> DEFINE c == tables[s][j].to
    <3>1. c \in DOMAIN tables /\ (tables[c][k].w => tables[s][j].w)
      BY Zenon, <1>1, <2>1 DEF LevelsOK
    <3> HIDE DEF c
    <3>2. CASE c = t /\ k = i
      <4>1. old.w \/ f.w
        BY Zenon, <1>4, <1>5, <2>1, <3>2 DEF c
      <4>2. f.w => tables[s][j].w
        BY Zenon, <2>1, <3>2 DEF Allowed, c
      <4> QED
        BY Zenon, <1>6, <3>1, <3>2, <4>1, <4>2
    <3>3. CASE ~ (c = t /\ k = i)
      <4>1. tables'[c][k] = tables[c][k]
        BY Zenon, <1>5, <3>1, <3>3 DEF c
      <4> QED
        BY Zenon, <1>6, <2>1, <3>1, <4>1 DEF c
    <3> QED
      BY Zenon, <3>2, <3>3
  <2>2. /\ lv \in [DOMAIN tables' -> 1 .. 4]
        /\ pml4 \in DOMAIN tables' /\ lv[pml4] = 4
        /\ pd \in DOMAIN tables' /\ lv[pd] = 2
    BY Zenon, <1>1, <1>5 DEF LevelsOK
  <2>3. ASSUME NEW s \in DOMAIN tables, NEW j \in DOMAIN tables[s], Link(s, j)', lv[s] > 1
        PROVE  /\ tables'[s][j].to \in DOMAIN tables'
               /\ lv[tables'[s][j].to] = lv[s] - 1
               /\ ~ tables'[s][j].nx
               /\ \A k \in DOMAIN tables'[tables'[s][j].to] :
                    tables'[tables'[s][j].to][k].w => tables'[s][j].w
    <3>1. Link(s, j) /\ tables'[s][j].to = tables[s][j].to
      BY Zenon, <1>5, <1>6, <2>3 DEF Link
    <3>2. /\ tables[s][j].to \in DOMAIN tables /\ lv[tables[s][j].to] = lv[s] - 1
          /\ ~ tables[s][j].nx
      BY Zenon, <1>1, <2>3, <3>1 DEF LevelsOK
    <3> DEFINE c == tables[s][j].to
    <3>3. /\ tables'[s][j].to = c /\ c \in DOMAIN tables /\ c \in DOMAIN tables'
          /\ DOMAIN tables'[c] = DOMAIN tables[c] /\ ~ tables'[s][j].nx
      BY Zenon, <1>5, <1>6, <3>1, <3>2
    <3>4. \A k \in DOMAIN tables[c] : tables'[c][k].w => tables'[s][j].w
      BY Zenon, <2>1, <2>3, <3>1
    <3> HIDE DEF c
    <3>5. lv[c] = lv[s] - 1
      BY Zenon, <3>2 DEF c
    <3> QED
      BY Zenon, <3>3, <3>4, <3>5
  <2>4. ASSUME NEW s \in DOMAIN tables', NEW j \in DOMAIN tables'[s]
        PROVE  /\ EntryOK(s, tables[s][j])'
               /\ Link(s, j)' /\ lv[s] > 1 =>
                    /\ tables'[s][j].to \in DOMAIN tables'
                    /\ lv[tables'[s][j].to] = lv[s] - 1
                    /\ ~ tables'[s][j].nx
                    /\ \A k \in DOMAIN tables'[tables'[s][j].to] :
                         tables'[tables'[s][j].to][k].w => tables'[s][j].w
    <3>1. s \in DOMAIN tables /\ j \in DOMAIN tables[s]
      BY Zenon, <1>5
    <3>2. EntryOK(s, tables[s][j])'
      BY Zenon, <1>6, <3>1 DEF EntryOK
    <3> QED
      BY Zenon, <2>3, <3>1, <3>2
  <2> QED
    BY Zenon, <2>2, <2>4 DEF LevelsOK
<1>8. TreeOK(lv)'
  BY <1>1, <1>5, <1>6 DEF TreeOK, Link
<1>9. StaticOK'
  <2>1. ASSUME NEW s \in DOMAIN tables, NEW j, NEW u, Leads(s, j, u)
        PROVE  Leads(s, j, u)'
    BY Zenon, <1>5, <1>6, <2>1 DEF Leads, Link
  <2>2. pml4 \in DOMAIN tables /\ pd \in DOMAIN tables /\ tables'[pd] = tables[pd]
    BY <1>1, PutIs DEF LevelsOK, new
  <2> QED
    BY Zenon, <1>1, <1>5, <2>1, <2>2 DEF StaticOK
<1>10. WalksKept
  <2> SUFFICES ASSUME NEW va \in Canonical
               PROVE  /\ Small(va)' <=> Small(va)
                      /\ Large(va)' <=> Large(va)
                      /\ Small(va) => e2(va)'.to = e2(va).to /\ e1(va)' = e1(va)
                      /\ Large(va) => e2(va)' = e2(va)
    BY Zenon DEF WalksKept
  <2>1. /\ Reaches2(va)' <=> Reaches2(va)
        /\ Reaches2(va) => /\ e3(va)'.to = e3(va).to
                           /\ e2(va)'.to = e2(va).to
                           /\ e2(va)'.huge = e2(va).huge
    BY <1>1, <1>5, <1>6, SameWalk
  <2>2. Large(va)' <=> Large(va)
    BY Zenon, <2>1 DEF Large
  <2>3. Large(va) => e2(va)' = e2(va)
    <3> SUFFICES ASSUME Large(va) PROVE e2(va)' = e2(va)
      OBVIOUS
    <3>1. e3(va).to = pd /\ va[3] \in DOMAIN tables[pd] /\ e3(va)'.to = pd
      BY Zenon, <1>1, <2>1, WalkLevels DEF Large, Reaches2
    <3>2. tables'[pd] = tables[pd]
      BY <1>1, PutIs DEF LevelsOK, new
    <3> QED
      BY Zenon, <3>1, <3>2 DEF e2
  <2>4. ASSUME Reaches2(va), ~ e2(va).huge
        PROVE  /\ DOMAIN tables'[e2(va)'.to] = DOMAIN tables[e2(va).to]
               /\ va[4] \in DOMAIN tables[e2(va).to] => e1(va)' = e1(va)
    <3>1. e2(va).to \in DOMAIN tables /\ lv[e2(va).to] = 1
      BY Zenon, <1>1, <2>4, WalkLevels
    <3>2. e2(va).to # t
      BY <3>1
    <3>3. tables'[e2(va).to] = tables[e2(va).to]
      BY <3>1, <3>2, PutIs DEF new
    <3> QED
      BY Zenon, <2>1, <2>4, <3>3 DEF e1
  <2> QED
    BY Zenon, <2>1, <2>2, <2>3, <2>4 DEF Small
<1> QED
  BY Zenon, <1>7, <1>8, <1>9, <1>10 DEF ShapeOK

\* The levels of the static tables.
LEMMA StaticLevels ==
  ASSUME NEW lv, ShapeOK(lv)
  PROVE  /\ lv[pml4] = 4 /\ lv[pdpt] = 3 /\ lv[bootstrap_high_pdpt] = 3
         /\ lv[pd] = 2 /\ lv[bootstrap_pd] = 2 /\ lv[bootstrap_pt] = 1
         /\ {pml4, pdpt, bootstrap_high_pdpt, pd, bootstrap_pd, bootstrap_pt}
              \subseteq DOMAIN tables
<1>1. LevelsOK(lv) /\ StaticOK
  BY Zenon DEF ShapeOK
<1>2. pml4 \in DOMAIN tables /\ lv[pml4] = 4 /\ pd \in DOMAIN tables /\ lv[pd] = 2
  BY Zenon, <1>1 DEF LevelsOK
<1>3. ASSUME NEW t \in DOMAIN tables, NEW i, NEW s, Leads(t, i, s), lv[t] > 1
      PROVE  lv[s] = lv[t] - 1
  BY Zenon, <1>1, <1>3 DEF LevelsOK, Leads, Link
<1>4. lv[pdpt] = 3 /\ lv[bootstrap_high_pdpt] = 3
  BY <1>1, <1>2, <1>3 DEF StaticOK
<1>5. lv[bootstrap_pd] = 2
  BY <1>1, <1>3, <1>4 DEF StaticOK
<1>6. lv[bootstrap_pt] = 1
  BY <1>1, <1>3, <1>5 DEF StaticOK
<1> QED
  BY Zenon, <1>1, <1>2, <1>4, <1>5, <1>6 DEF StaticOK

\* The entry that va's walk ends at.
Slot(va, t, i) == Reaches2(va) /\ ~ e2(va).huge /\ e2(va).to = t /\ va[4] = i

\* Every walk is as before, but for what is at entry i of table t.
WalksBut(t, i) ==
  \A va \in Canonical :
    /\ Reaches2(va)' <=> Reaches2(va)
    /\ Reaches2(va) => e2(va)' = e2(va)
    /\ Large(va)' <=> Large(va)
    /\ ~ Slot(va, t, i) => /\ Small(va)' <=> Small(va)
                           /\ Small(va) => e1(va)' = e1(va)

\* A write to a table of the last level is seen by the walks that end there.
LEMMA LeafStep ==
  ASSUME NEW lv, ShapeOK(lv), NEW t \in DOMAIN tables, lv[t] = 1, NEW i,
         DOMAIN tables' = DOMAIN tables,
         DOMAIN tables'[t] \ {i} = DOMAIN tables[t] \ {i},
         \A j \in DOMAIN tables[t] \ {i} : tables'[t][j] = tables[t][j],
         \A s \in DOMAIN tables \ {t} : tables'[s] = tables[s],
         i \in DOMAIN tables'[t] =>
           EntryOK(t, tables'[t][i]) /\ Allowed(lv, t, tables'[t][i])
  PROVE  ShapeOK(lv)' /\ WalksBut(t, i)
<1>1. LevelsOK(lv) /\ TreeOK(lv) /\ StaticOK
  BY Zenon DEF ShapeOK
<1>2. /\ lv[pml4] = 4 /\ lv[pdpt] = 3 /\ lv[bootstrap_high_pdpt] = 3
      /\ lv[pd] = 2 /\ lv[bootstrap_pd] = 2
      /\ {pml4, pdpt, bootstrap_high_pdpt, pd, bootstrap_pd, bootstrap_pt}
              \subseteq DOMAIN tables
  BY Zenon, StaticLevels
<1>3. \A s \in DOMAIN tables : lv[s] > 1 => tables'[s] = tables[s]
  BY SMTT(30)
<1>4. LevelsOK(lv)'
  <2>1. ASSUME NEW s \in DOMAIN tables, NEW j \in DOMAIN tables[s],
               Link(s, j), lv[s] > 1, NEW k \in DOMAIN tables'[tables[s][j].to],
               tables'[tables[s][j].to][k].w
        PROVE  tables[s][j].w
    <3> DEFINE c == tables[s][j].to
    <3>1. c \in DOMAIN tables /\ \A m \in DOMAIN tables[c] : tables[c][m].w => tables[s][j].w
      BY Zenon, <1>1, <2>1 DEF LevelsOK
    <3>2. CASE c = t /\ k = i
      BY Zenon, <2>1, <3>2 DEF Allowed
    <3>3. CASE ~ (c = t /\ k = i)
      <4> HIDE DEF c
      <4>1. k \in DOMAIN tables[c] /\ tables'[c][k] = tables[c][k]
        BY Zenon, <2>1, <3>1, <3>3 DEF c
      <4> QED
        BY Zenon, <2>1, <3>1, <4>1 DEF c
    <3> QED
      BY Zenon, <3>2, <3>3
  <2>2. \A s \in DOMAIN tables : \A j \in DOMAIN tables'[s] : EntryOK(s, tables'[s][j])
    BY <1>1 DEF LevelsOK
  <2> QED
    BY <1>1, <1>3, <2>1, <2>2 DEF LevelsOK, Link
<1>5. TreeOK(lv)'
  <2>1. ASSUME NEW s \in DOMAIN tables, NEW j, Link(s, j)', lv[s] > 1
        PROVE  Link(s, j) /\ tables'[s] = tables[s]
    BY Zenon, <1>3, <2>1 DEF Link
  <2> QED
    BY ZenonT(40), <1>1, <1>3, <2>1 DEF TreeOK, Link
<1>6. StaticOK'
  <2>1. ASSUME NEW s \in DOMAIN tables, lv[s] > 1, NEW j, NEW u, Leads(s, j, u)
        PROVE  Leads(s, j, u)'
    BY Zenon, <1>3, <2>1 DEF Leads, Link
  <2>2. tables'[pd] = tables[pd]
    BY <1>2, <1>3
  <2>3. \A s \in {pml4, pdpt, bootstrap_high_pdpt, bootstrap_pd} : s \in DOMAIN tables /\ lv[s] > 1
    BY <1>2
  <2> QED
    BY Zenon, <1>1, <2>1, <2>2, <2>3 DEF StaticOK
<1>7. WalksBut(t, i)
  <2> SUFFICES ASSUME NEW va \in Canonical
               PROVE  /\ Reaches2(va)' <=> Reaches2(va)
                      /\ Reaches2(va) => e2(va)' = e2(va)
                      /\ Large(va)' <=> Large(va)
                      /\ ~ Slot(va, t, i) => /\ Small(va)' <=> Small(va)
                                             /\ Small(va) => e1(va)' = e1(va)
    BY Zenon DEF WalksBut
  <2>1. /\ Reaches2(va)' <=> Reaches2(va)
        /\ Reaches2(va) => /\ e3(va)'.to = e3(va).to
                           /\ e2(va)'.to = e2(va).to
                           /\ e2(va)'.huge = e2(va).huge
    BY ZenonT(40), <1>1, <1>3, SameWalk
  <2>2. ASSUME Reaches2(va) PROVE e2(va)' = e2(va)
    <3>1. e3(va).to \in DOMAIN tables /\ lv[e3(va).to] = 2
      BY <1>1, <2>2, WalkLevels DEF Reaches2
    <3>2. tables'[e3(va).to] = tables[e3(va).to]
      BY <1>3, <3>1
    <3> QED
      BY Zenon, <2>1, <2>2, <3>2 DEF e2
  <2>3. Large(va)' <=> Large(va)
    BY Zenon, <2>1 DEF Large
  <2>4. ASSUME ~ Slot(va, t, i), Reaches2(va), ~ e2(va).huge
        PROVE  /\ va[4] \in DOMAIN tables'[e2(va).to] <=> va[4] \in DOMAIN tables[e2(va).to]
               /\ va[4] \in DOMAIN tables[e2(va).to] =>
                    tables'[e2(va).to][va[4]] = tables[e2(va).to][va[4]]
    <3>1. e2(va).to \in DOMAIN tables
      BY Zenon, <1>1, <2>4, WalkLevels
    <3>2. e2(va).to # t \/ va[4] # i
      BY Zenon, <2>4 DEF Slot
    <3> QED
      BY Zenon, <3>1, <3>2
  <2> QED
    BY Zenon, <2>1, <2>2, <2>3, <2>4 DEF Small, e1
<1> QED
  BY Zenon, <1>4, <1>5, <1>6, <1>7 DEF ShapeOK

\* Table p is new and empty, entry i of t leads to it, and the rest is as
\* before.
NewTable(t, i, entry, p) ==
  /\ DOMAIN tables' = DOMAIN tables \cup {p}
  /\ DOMAIN tables'[p] = {}
  /\ DOMAIN tables'[t] = DOMAIN tables[t] \cup {i}
  /\ tables'[t][i] = entry
  /\ \A s \in DOMAIN tables \ {t} : tables'[s] = tables[s]
  /\ \A s \in DOMAIN tables : \A j \in DOMAIN tables[s] :
       j \in DOMAIN tables'[s] /\ tables'[s][j] = tables[s][j]
  /\ \A s \in DOMAIN tables : \A j \in DOMAIN tables'[s] :
       (s = t /\ j = i) \/ j \in DOMAIN tables[s]

\* A new table, linked where there was no entry: it is empty, and the rest
\* is as before.
LEMMA NewTableIs ==
  ASSUME NEW t \in DOMAIN tables, NEW i, i \notin DOMAIN tables[t], NEW entry,
         NEW p, p \notin DOMAIN tables,
         tables' = With(Put(t, i, entry), p, Empty)
  PROVE  NewTable(t, i, entry, p)
<1> DEFINE P == Put(t, i, entry)
<1>1. /\ DOMAIN P = DOMAIN tables
      /\ DOMAIN P[t] = DOMAIN tables[t] \cup {i}
      /\ P[t][i] = entry
      /\ \A j \in DOMAIN tables[t] \ {i} : P[t][j] = tables[t][j]
      /\ \A s \in DOMAIN tables \ {t} : P[s] = tables[s]
  BY PutIs
<1>2. tables' = With(P, p, Empty)
  OBVIOUS
<1> HIDE DEF P
<1>3. /\ DOMAIN tables' = DOMAIN tables \cup {p}
      /\ tables'[p] = Empty
      /\ \A s \in DOMAIN tables : tables'[s] = P[s]
  BY Zenon, <1>1, <1>2 DEF With
<1>4. DOMAIN tables'[p] = {}
  BY Zenon, <1>3 DEF Empty
<1> QED
  BY SMTT(30), <1>1, <1>3, <1>4 DEF NewTable

\* Linking a new table maps nothing.
LEMMA NewTableStep ==
  ASSUME NEW lv, ShapeOK(lv), NEW t \in DOMAIN tables, lv[t] > 1, t # pd,
         NEW i, i \notin DOMAIN tables[t], NEW f \in Flags, Allowed(lv, t, f),
         NEW p, p \notin DOMAIN tables,
         NewTable(t, i, Entry(p, FALSE, [f EXCEPT !.nx = FALSE]), p)
  PROVE  ShapeOK(With(lv, p, lv[t] - 1))' /\ WalksKept
<1> DEFINE new == Entry(p, FALSE, [f EXCEPT !.nx = FALSE])
           lw == With(lv, p, lv[t] - 1)
<1>1. LevelsOK(lv) /\ TreeOK(lv) /\ StaticOK
  BY Zenon DEF ShapeOK
<1>2. lv \in [DOMAIN tables -> 1 .. 4] /\ pml4 \in DOMAIN tables /\ pd \in DOMAIN tables
  BY Zenon, <1>1 DEF LevelsOK
<1>3. /\ DOMAIN new = {"to", "huge", "w", "u", "nx"}
      /\ new.to = p /\ ~ new.huge /\ new.huge = FALSE /\ new.w = f.w /\ new.w \in BOOLEAN
      /\ new.u = FALSE /\ new.nx = FALSE
  <2> DEFINE g == [f EXCEPT !.nx = FALSE]
  <2>1. g.w = f.w /\ g.w \in BOOLEAN /\ g.u = FALSE /\ g.nx = FALSE
    BY Zenon DEF Flags
  <2> HIDE DEF g
  <2>2. new = Entry(p, FALSE, g)
    BY Zenon DEF g
  <2> HIDE DEF new
  <2> QED
    BY Zenon, <2>1, <2>2 DEF Entry
<1>4. /\ DOMAIN tables' = DOMAIN tables \cup {p}
      /\ DOMAIN tables'[p] = {}
      /\ tables'[t][i] = new
      /\ \A s \in DOMAIN tables \ {t} : tables'[s] = tables[s]
      /\ \A s \in DOMAIN tables : \A j \in DOMAIN tables[s] :
           j \in DOMAIN tables'[s] /\ tables'[s][j] = tables[s][j]
      /\ \A s \in DOMAIN tables : \A j \in DOMAIN tables'[s] :
           (s = t /\ j = i) \/ j \in DOMAIN tables[s]
  BY Zenon DEF NewTable
<1>o. ASSUME NEW s \in DOMAIN tables, NEW j \in DOMAIN tables[s]
      PROVE  j \in DOMAIN tables'[s] /\ tables'[s][j] = tables[s][j]
  BY Zenon, <1>4
<1>5. /\ lw \in [DOMAIN tables \cup {p} -> 1 .. 4]
      /\ lw[p] = lv[t] - 1
      /\ \A s \in DOMAIN tables : lw[s] = lv[s]
  BY <1>2 DEF With
<1> HIDE DEF new, lw
<1>6. LevelsOK(lw)'
  <2>1. ASSUME NEW s \in DOMAIN tables', NEW j \in DOMAIN tables'[s]
        PROVE  /\ EntryOK(s, tables'[s][j])
               /\ Link(s, j)' /\ lw[s] > 1 =>
                    /\ tables'[s][j].to \in DOMAIN tables'
                    /\ lw[tables'[s][j].to] = lw[s] - 1
                    /\ ~ tables'[s][j].nx
                    /\ \A k \in DOMAIN tables'[tables'[s][j].to] :
                         tables'[tables'[s][j].to][k].w => tables'[s][j].w
    <3>1. s \in DOMAIN tables
      BY Zenon, <1>4, <2>1
    <3>2. CASE s = t /\ j = i
      BY Zenon, <1>3, <1>4, <1>5, <3>2 DEF EntryOK
    <3>3. CASE j \in DOMAIN tables[s]
      <4>1. tables'[s][j] = tables[s][j] /\ lw[s] = lv[s]
        BY ZenonT(40), <1>4, <1>5, <3>1, <3>3
      <4>2. EntryOK(s, tables'[s][j])
        BY Zenon, <1>1, <3>1, <3>3, <4>1 DEF LevelsOK
      <4>3. ASSUME Link(s, j)', lw[s] > 1
            PROVE  /\ tables'[s][j].to \in DOMAIN tables'
                   /\ lw[tables'[s][j].to] = lw[s] - 1
                   /\ ~ tables'[s][j].nx
                   /\ \A k \in DOMAIN tables'[tables'[s][j].to] :
                        tables'[tables'[s][j].to][k].w => tables'[s][j].w
        <5> DEFINE c == tables[s][j].to
        <5>1. /\ c \in DOMAIN tables /\ lv[c] = lv[s] - 1 /\ ~ tables[s][j].nx
              /\ \A k \in DOMAIN tables[c] : tables[c][k].w => tables[s][j].w
          BY Zenon, <1>1, <3>1, <3>3, <4>1, <4>3 DEF LevelsOK, Link
        <5>2. c = t => (f.w => tables[s][j].w)
          BY Zenon, <3>1, <3>3, <4>1, <4>3 DEF Allowed, Link
        <5> HIDE DEF c
        <5>3. ASSUME NEW k \in DOMAIN tables'[c], tables'[c][k].w PROVE tables[s][j].w
          <6>1. CASE c = t /\ k = i
            <7>1. tables'[c][k] = new
              BY Zenon, <1>4, <6>1
            <7>2. f.w
              BY Zenon, <1>3, <5>3, <7>1
            <7> QED
              BY Zenon, <5>2, <6>1, <7>2
          <6>2. CASE k \in DOMAIN tables[c]
            <7>1. tables'[c][k] = tables[c][k]
              BY ZenonT(40), <1>4, <5>1, <6>2
            <7> QED
              BY Zenon, <5>1, <5>3, <6>2, <7>1
          <6> QED
            BY Zenon, <1>4, <5>1, <6>1, <6>2
        <5>4. tables'[s][j].to = c /\ c \in DOMAIN tables' /\ lw[c] = lw[s] - 1
              /\ ~ tables'[s][j].nx
          BY Zenon, <1>4, <1>5, <4>1, <5>1 DEF c
        <5> QED
          BY Zenon, <4>1, <5>3, <5>4
      <4> QED
        BY Zenon, <4>2, <4>3
    <3> QED
      BY Zenon, <1>4, <3>1, <3>2, <3>3
  <2> QED
    BY Zenon, <1>1, <1>2, <1>4, <1>5, <2>1 DEF LevelsOK
<1>7. TreeOK(lw)'
  <2>1. ASSUME NEW s \in DOMAIN tables', NEW j \in DOMAIN tables'[s],
               Link(s, j)', lw[s] > 1
        PROVE  \/ s = t /\ j = i /\ tables'[s][j].to = p
               \/ /\ s \in DOMAIN tables /\ j \in DOMAIN tables[s] /\ Link(s, j) /\ lv[s] > 1
                  /\ tables'[s][j] = tables[s][j] /\ tables'[s][j].to # p
    <3>1. s \in DOMAIN tables
      BY Zenon, <1>4, <2>1
    <3>2. CASE s = t /\ j = i
      BY Zenon, <1>3, <1>4, <3>2
    <3>3. CASE j \in DOMAIN tables[s]
      <4>1. Link(s, j) /\ lv[s] > 1 /\ tables'[s][j] = tables[s][j]
        BY ZenonT(40), <1>4, <1>5, <2>1, <3>1, <3>3 DEF Link
      <4>2. tables[s][j].to \in DOMAIN tables
        BY Zenon, <1>1, <3>1, <3>3, <4>1 DEF LevelsOK
      <4> QED
        BY Zenon, <3>1, <3>3, <4>1, <4>2
    <3> QED
      BY Zenon, <1>4, <3>1, <3>2, <3>3
  <2> SUFFICES ASSUME NEW s \in DOMAIN tables', NEW j \in DOMAIN tables'[s],
                      NEW r \in DOMAIN tables', NEW k \in DOMAIN tables'[r],
                      Link(s, j)', Link(r, k)', lw[s] > 1, lw[r] > 1,
                      tables'[s][j].to = tables'[r][k].to
               PROVE  Joined(s, j, r, k)
    BY Zenon DEF TreeOK
  <2>2. CASE tables'[s][j].to = p
    <3>1. s = t /\ j = i
      BY ZenonT(40), <2>1, <2>2
    <3>2. r = t /\ k = i
      BY ZenonT(40), <2>1, <2>2
    <3>3. s = r /\ j = k
      BY Zenon, <3>1, <3>2
    <3> QED
      BY Zenon, <3>3 DEF Joined
  <2>3. CASE tables'[s][j].to # p
    <3>1. /\ s \in DOMAIN tables /\ j \in DOMAIN tables[s] /\ Link(s, j) /\ lv[s] > 1
          /\ tables'[s][j] = tables[s][j]
      BY Zenon, <2>1, <2>3
    <3>2. /\ r \in DOMAIN tables /\ k \in DOMAIN tables[r] /\ Link(r, k) /\ lv[r] > 1
          /\ tables'[r][k] = tables[r][k]
      BY Zenon, <2>1, <2>3
    <3> QED
      BY Zenon, <1>1, <3>1, <3>2 DEF TreeOK
  <2> QED
    BY Zenon, <2>2, <2>3
<1>8. StaticOK'
  <2>1. ASSUME NEW s \in DOMAIN tables, NEW j, NEW u, Leads(s, j, u)
        PROVE  Leads(s, j, u)'
    BY <1>4, <2>1 DEF Leads, Link
  <2>2. tables'[pd] = tables[pd]
    BY Zenon, <1>2, <1>4
  <2> QED
    BY Zenon, <1>1, <1>2, <1>4, <2>1, <2>2 DEF StaticOK
<1>9. WalksKept
  <2> SUFFICES ASSUME NEW va \in Canonical
               PROVE  /\ Small(va)' <=> Small(va)
                      /\ Large(va)' <=> Large(va)
                      /\ Small(va) => e2(va)'.to = e2(va).to /\ e1(va)' = e1(va)
                      /\ Large(va) => e2(va)' = e2(va)
    BY Zenon DEF WalksKept
  <2>1. ASSUME Small(va)' \/ Large(va)'
        PROVE  Reaches2(va)
    <3>1. /\ va[1] \in DOMAIN tables'[pml4] /\ va[2] \in DOMAIN tables'[e4(va)'.to]
          /\ va[3] \in DOMAIN tables'[e3(va)'.to]
          /\ e2(va)'.huge \/ va[4] \in DOMAIN tables'[e2(va)'.to]
      BY Zenon, <2>1 DEF Small, Large, Reaches2
    <3>2. ASSUME NEW s \in DOMAIN tables, NEW j \in DOMAIN tables'[s],
                 ~ (j \in DOMAIN tables[s])
          PROVE  DOMAIN tables'[tables'[s][j].to] = {} /\ ~ tables'[s][j].huge
      BY Zenon, <1>3, <1>4, <3>2
    <3>3. va[1] \in DOMAIN tables[pml4]
      BY Zenon, <1>2, <3>1, <3>2 DEF e4
    <3>4. e4(va)' = e4(va) /\ e4(va).to \in DOMAIN tables
      <4>1. e4(va)' = e4(va)
        BY Zenon, <1>2, <1>o, <3>3 DEF e4
      <4> QED
        BY Zenon, <1>1, <3>3, <4>1, WalkLevels
    <3>5. va[2] \in DOMAIN tables[e4(va).to]
      BY Zenon, <3>1, <3>2, <3>4 DEF e3
    <3>6. e3(va)' = e3(va) /\ e3(va).to \in DOMAIN tables
      <4>1. e3(va)' = e3(va)
        <5>1. tables'[e4(va).to][va[2]] = tables[e4(va).to][va[2]]
          BY Zenon, <1>o, <3>4, <3>5
        <5> QED
          BY Zenon, <3>4, <5>1 DEF e3
      <4> QED
        BY Zenon, <1>1, <3>3, <3>5, <4>1, WalkLevels
    <3>7. va[3] \in DOMAIN tables[e3(va).to]
      BY Zenon, <3>1, <3>2, <3>6 DEF e2
    <3> QED
      BY Zenon, <3>3, <3>5, <3>7 DEF Reaches2
  <2>2. ASSUME Reaches2(va)
        PROVE  Reaches2(va)' /\ e2(va)' = e2(va)
    <3>1. /\ va[1] \in DOMAIN tables[pml4] /\ va[2] \in DOMAIN tables[e4(va).to]
          /\ va[3] \in DOMAIN tables[e3(va).to]
      BY Zenon, <2>2 DEF Reaches2
    <3>2. e4(va).to \in DOMAIN tables /\ e3(va).to \in DOMAIN tables
      BY Zenon, <1>1, <3>1, WalkLevels
    <3>3. e4(va)' = e4(va) /\ va[1] \in DOMAIN tables'[pml4]
      BY Zenon, <1>2, <1>o, <3>1 DEF e4
    <3>4. e3(va)' = e3(va) /\ va[2] \in DOMAIN tables'[e4(va).to]
      <4>1. /\ tables'[e4(va).to][va[2]] = tables[e4(va).to][va[2]]
            /\ va[2] \in DOMAIN tables'[e4(va).to]
        BY Zenon, <1>o, <3>1, <3>2
      <4> QED
        BY Zenon, <3>3, <4>1 DEF e3
    <3>5. e2(va)' = e2(va) /\ va[3] \in DOMAIN tables'[e3(va).to]
      <4>1. /\ tables'[e3(va).to][va[3]] = tables[e3(va).to][va[3]]
            /\ va[3] \in DOMAIN tables'[e3(va).to]
        BY Zenon, <1>o, <3>1, <3>2
      <4> QED
        BY Zenon, <3>4, <4>1 DEF e2
    <3> QED
      BY Zenon, <3>3, <3>4, <3>5 DEF Reaches2
  <2>3. ASSUME Reaches2(va), ~ e2(va).huge
        PROVE  tables'[e2(va).to] = tables[e2(va).to]
    <3>1. e2(va).to \in DOMAIN tables /\ lv[e2(va).to] = 1
      BY Zenon, <1>1, <2>3, WalkLevels
    <3>2. e2(va).to # t
      BY <3>1
    <3> HIDE DEF new
    <3> QED
      BY Zenon, <1>4, <3>1, <3>2
  <2>4. Large(va)' <=> Large(va)
    BY Zenon, <2>1, <2>2 DEF Large
  <2>5. Small(va)' <=> Small(va)
    BY Zenon, <2>1, <2>2, <2>3 DEF Small
  <2>6. Small(va) => e1(va)' = e1(va)
    BY Zenon, <2>2, <2>3 DEF Small, e1
  <2> QED
    BY Zenon, <2>2, <2>4, <2>5, <2>6 DEF Small, Large
<1> QED
  BY Zenon, <1>6, <1>7, <1>8, <1>9 DEF ShapeOK, lw


----------------------------------------------------------------------------
(* The call in progress *)

\* Where vmm_map_page stands: at a table of the level it works on, reached
\* through entries that grant what it asks for.
LEMMA CallPlace ==
  ASSUME NEW lv, ShapeOK(lv), CallOK
  PROVE  /\ call.table \in DOMAIN tables /\ lv[call.table] = 5 - call.level
         /\ Allowed(lv, call.table, call.flags)
         /\ At \in Index
<1> DEFINE va == call.va
           f == call.flags
<1>1. LevelsOK(lv) /\ TreeOK(lv) /\ StaticOK
  BY Zenon DEF ShapeOK
<1>2. pml4 \in DOMAIN tables /\ lv[pml4] = 4 /\ lv \in [DOMAIN tables -> 1 .. 4]
  BY Zenon, <1>1 DEF LevelsOK
<1>3. call.level \in 1 .. 4 /\ va \in Index \X Index \X Index \X Index
  BY Zenon, AddressAssumption DEF CallOK
<1>4. At \in Index
  BY <1>3 DEF At
<1>5. ASSUME NEW s \in DOMAIN tables, NEW j \in DOMAIN tables[s], Link(s, j), lv[s] > 1
      PROVE  lv[tables[s][j].to] = lv[s] - 1
  BY Zenon, <1>1, <1>5 DEF LevelsOK
<1>6. CASE call.level = 1
  <2>1. call.table = pml4
    BY Zenon, <1>6 DEF CallOK, CallAt
  <2>2. Allowed(lv, pml4, f)
    BY <1>2, <1>5 DEF Allowed
  <2> QED
    BY <1>2, <1>4, <1>6, <2>1, <2>2
<1>w. ASSUME NEW s \in DOMAIN tables, NEW j \in DOMAIN tables[s], Link(s, j), lv[s] > 1,
             f.w => tables[s][j].w,
             Window(s, j) => \A r, k : Window(r, k) => tables[r][k].w
      PROVE  Allowed(lv, tables[s][j].to, f)
  <2> SUFFICES ASSUME NEW r \in DOMAIN tables, NEW k \in DOMAIN tables[r], Link(r, k), lv[r] > 1,
                      tables[r][k].to = tables[s][j].to, f.w
               PROVE  tables[r][k].w
    BY Zenon DEF Allowed
  <2>1. Joined(r, k, s, j)
    BY Zenon, <1>1, <1>w DEF TreeOK
  <2> QED
    BY Zenon, <1>w, <2>1 DEF Joined
<1>7. CASE call.level = 2
  <2>1. call.table = e4(va).to /\ va[1] \in DOMAIN tables[pml4] /\ (f.w => e4(va).w)
    BY <1>7 DEF CallOK, CallAt
  <2>2. ~ Window(pml4, va[1]) /\ Link(pml4, va[1])
    BY <2>1 DEF Window, pml4, pdpt, bootstrap_high_pdpt, Link, pd
  <2>3. Allowed(lv, e4(va).to, f)
    BY SMTT(30), <1>2, <1>w, <2>1, <2>2 DEF e4
  <2> QED
    BY SMTT(30), <1>1, <1>4, <1>7, <2>1, <2>3, WalkLevels
<1>8. CASE call.level = 3
  <2>1. /\ call.table = e3(va).to /\ va[1] \in DOMAIN tables[pml4]
        /\ va[2] \in DOMAIN tables[e4(va).to] /\ (f.w => e3(va).w)
    BY SMTT(20), <1>8 DEF CallOK, CallAt
  <2>2. e4(va).to \in DOMAIN tables /\ lv[e4(va).to] = 3 /\ e4(va).to # pd
    BY <1>1, <2>1, WalkLevels DEF LevelsOK
  <2>3. \A r, k : Window(r, k) => tables[r][k].w
    BY Zenon, <1>1 DEF StaticOK, Leads, Window
  <2>4. Allowed(lv, e3(va).to, f)
    <3> DEFINE s == e4(va).to
    <3>1. Link(s, va[2]) /\ e3(va) = tables[s][va[2]]
      BY Zenon, <2>1, <2>2 DEF Link, e3
    <3> HIDE DEF s
    <3> QED
      BY <1>w, <2>1, <2>2, <2>3, <3>1 DEF s
  <2> QED
    BY SMTT(30), <1>1, <1>4, <1>8, <2>1, <2>4, WalkLevels
<1>9. CASE call.level = 4
  <2>1. /\ call.table = e2(va).to /\ Reaches2(va) /\ ~ e2(va).huge /\ (f.w => e2(va).w)
    BY SMTT(20), <1>9 DEF CallOK, CallAt, Reaches2
  <2>2. /\ e3(va).to \in DOMAIN tables /\ lv[e3(va).to] = 2 /\ e3(va).to # pd
        /\ va[3] \in DOMAIN tables[e3(va).to]
        /\ e2(va).to \in DOMAIN tables /\ lv[e2(va).to] = 1
    <3>1. /\ va[1] \in DOMAIN tables[pml4] /\ va[2] \in DOMAIN tables[e4(va).to]
          /\ va[3] \in DOMAIN tables[e3(va).to]
      BY Zenon, <2>1 DEF Reaches2
    <3>2. e3(va).to \in DOMAIN tables /\ lv[e3(va).to] = 2
      BY <1>1, <3>1, WalkLevels
    <3>3. e3(va).to # pd
      BY Zenon, <1>1, <2>1, WalkLevels
    <3> QED
      BY <1>1, <2>1, <3>1, <3>2, <3>3, WalkLevels
  <2>3. Allowed(lv, e2(va).to, f)
    <3> DEFINE s == e3(va).to
    <3>1. Link(s, va[3]) /\ e2(va) = tables[s][va[3]]
      BY Zenon, <2>2 DEF Link, e2
    <3>2. ~ Window(s, va[3])
      BY <2>2, StaticLevels DEF Window
    <3> HIDE DEF s
    <3> QED
      BY <1>w, <2>1, <2>2, <3>1, <3>2 DEF s
  <2> QED
    BY SMTT(30), <1>4, <1>9, <2>1, <2>2, <2>3
<1> QED
  BY <1>3, <1>6, <1>7, <1>8, <1>9

\* The entries there were lead where they led and grant what they granted,
\* and entry i of t leads to c with the rights f asks for.
Grown(t, i, f, c) ==
  /\ \A s \in DOMAIN tables : \A j \in DOMAIN tables[s] :
       /\ j \in DOMAIN tables'[s]
       /\ tables'[s][j].to = tables[s][j].to
       /\ tables'[s][j].huge = tables[s][j].huge
       /\ tables[s][j].w => tables'[s][j].w
  /\ i \in DOMAIN tables'[t]
  /\ tables'[t][i].to = c /\ ~ tables'[t][i].huge /\ (f.w => tables'[t][i].w)

\* One level further down.
LEMMA DescendOK ==
  ASSUME NEW lv, ShapeOK(lv), CallOK, call.level < 4, NEW c,
         Grown(call.table, At, call.flags, c), Descend(c)
  PROVE  CallOK' /\ call'.pc = call.pc /\ call'.va = call.va
         /\ call'.flags = call.flags /\ call'.frame = call.frame
<1> DEFINE f == call.flags
<1>0. PICK va : va = call.va
  OBVIOUS
<1>1. LevelsOK(lv) /\ pml4 \in DOMAIN tables
  BY Zenon DEF ShapeOK, LevelsOK
<1>2. /\ call'.pc = call.pc /\ call'.va = va /\ call'.flags = f
      /\ call'.frame = call.frame /\ call'.table = c /\ call'.level = call.level + 1
      /\ DOMAIN call' = DOMAIN call
  BY Zenon, <1>0 DEF CallOK, Descend
<1>3. ASSUME NEW s \in DOMAIN tables, NEW j \in DOMAIN tables[s]
      PROVE  /\ j \in DOMAIN tables'[s] /\ tables'[s][j].to = tables[s][j].to
             /\ tables'[s][j].huge = tables[s][j].huge
             /\ tables[s][j].w => tables'[s][j].w
  BY Zenon DEF Grown
<1>4. /\ At \in DOMAIN tables'[call.table] /\ tables'[call.table][At].to = c
      /\ ~ tables'[call.table][At].huge /\ (f.w => tables'[call.table][At].w)
  BY Zenon DEF Grown
<1>5. DOMAIN call = {"pc", "va", "frame", "flags", "table", "level"}
      /\ va \in Canonical /\ f \in Flags /\ call.level \in 1 .. 3
  BY SMTT(30), <1>0 DEF CallOK
<1>6. ASSUME call.level = 1 PROVE CallAt(va)'
  <2>1. call.table = pml4 /\ At = va[1]
    BY Zenon, <1>0, <1>6 DEF CallOK, CallAt, At
  <2>2. va[1] \in DOMAIN tables'[pml4] /\ e4(va)'.to = c /\ (f.w => e4(va)'.w)
    BY Zenon, <1>4, <2>1 DEF e4
  <2> QED
    BY <1>2, <1>6, <2>2 DEF CallAt
<1>7. ASSUME call.level > 1
      PROVE  /\ va[1] \in DOMAIN tables'[pml4] /\ (f.w => e4(va)'.w)
             /\ e4(va)'.to = e4(va).to /\ e4(va).to \in DOMAIN tables
  <2>1. va[1] \in DOMAIN tables[pml4] /\ (f.w => e4(va).w)
    BY Zenon, <1>0, <1>7 DEF CallOK, CallAt
  <2>2. e4(va).to \in DOMAIN tables
    BY Zenon, <1>1, <2>1, WalkLevels
  <2> QED
    BY Zenon, <1>1, <1>3, <2>1, <2>2 DEF e4
<1>8. ASSUME call.level = 2 PROVE CallAt(va)'
  <2>1. call.table = e4(va).to /\ At = va[2]
    BY Zenon, <1>0, <1>8 DEF CallOK, CallAt, At
  <2>2. va[2] \in DOMAIN tables'[e4(va)'.to] /\ e3(va)'.to = c /\ (f.w => e3(va)'.w)
    BY SMTT(20), <1>4, <1>7, <1>8, <2>1 DEF e3
  <2> QED
    BY <1>2, <1>7, <1>8, <2>2 DEF CallAt
<1>9. ASSUME call.level = 3 PROVE CallAt(va)'
  <2>1. /\ call.table = e3(va).to /\ At = va[3]
        /\ va[1] \in DOMAIN tables[pml4]
        /\ va[2] \in DOMAIN tables[e4(va).to] /\ (f.w => e3(va).w)
    BY <1>0, <1>9 DEF CallOK, CallAt, At
  <2>2. e3(va).to \in DOMAIN tables
    BY Zenon, <1>1, <2>1, WalkLevels
  <2>3. /\ va[2] \in DOMAIN tables'[e4(va)'.to] /\ e3(va)'.to = e3(va).to
        /\ (f.w => e3(va)'.w)
    <3>1. /\ va[2] \in DOMAIN tables'[e4(va).to]
          /\ tables'[e4(va).to][va[2]].to = tables[e4(va).to][va[2]].to
          /\ tables[e4(va).to][va[2]].w => tables'[e4(va).to][va[2]].w
      BY <1>3, <1>7, <1>9, <2>1
    <3> QED
      BY SMTT(20), <1>7, <1>9, <2>1, <3>1 DEF e3
  <2>4. /\ va[3] \in DOMAIN tables'[e3(va)'.to] /\ e2(va)'.to = c /\ ~ e2(va)'.huge
        /\ (f.w => e2(va)'.w)
    BY Zenon, <1>4, <2>1, <2>3 DEF e2
  <2> QED
    BY SMTT(20), <1>2, <1>7, <1>9, <2>3, <2>4 DEF CallAt
<1>10. CallAt(va)'
  BY <1>5, <1>6, <1>8, <1>9
<1> QED
  BY <1>0, <1>2, <1>5, <1>10 DEF CallOK

----------------------------------------------------------------------------
(* What the steps keep *)

\* What a translation is made of, after a step.
LEMMA LeafIsNext ==
  ASSUME NEW lv, ShapeOK(lv)', NEW va
  PROVE  /\ Small(va)' => Leaf(va)' = [frame |-> <<e1(va)'.to>>, w |-> e1(va)'.w,
                                     u |-> FALSE, nx |-> e1(va)'.nx]
         /\ Large(va)' => Leaf(va)' = [frame |-> <<e2(va)'.to, va[4]>>, w |-> TRUE,
                                     u |-> FALSE, nx |-> FALSE]
<1>1. (ShapeOK(lv) => 
         /\ Small(va) => Leaf(va) = [frame |-> <<e1(va).to>>, w |-> e1(va).w,
                                     u |-> FALSE, nx |-> e1(va).nx]
         /\ Large(va) => Leaf(va) = [frame |-> <<e2(va).to, va[4]>>, w |-> TRUE,
                                     u |-> FALSE, nx |-> FALSE])'
  BY LeafIs, PTL
<1> QED
  BY Zenon, <1>1

\* Steps that keep the walks change no translation, mapped or cached.
LEMMA KeptEffect ==
  ASSUME NEW lv, ShapeOK(lv), NEW lw, ShapeOK(lw)', WalksKept
  PROVE  /\ Mappings' = Mappings
         /\ MappedOK /\ UNCHANGED <<mapped, tlb>> => MappedOK'
<1>1. ASSUME NEW va \in Canonical, Small(va) \/ Large(va)
      PROVE  Leaf(va)' = Leaf(va)
  <2>1. CASE Small(va)
    <3>1. Small(va)' /\ e1(va)' = e1(va)
      BY Zenon, <2>1 DEF WalksKept
    <3>2. Leaf(va)' = [frame |-> <<e1(va)'.to>>, w |-> e1(va)'.w, u |-> FALSE, nx |-> e1(va)'.nx]
      BY Zenon, <3>1, LeafIsNext
    <3>3. Leaf(va) = [frame |-> <<e1(va).to>>, w |-> e1(va).w, u |-> FALSE, nx |-> e1(va).nx]
      BY Zenon, <2>1, LeafIs
    <3> QED
      BY Zenon, <3>1, <3>2, <3>3
  <2>2. CASE Large(va)
    <3>1. Large(va)' /\ e2(va)' = e2(va)
      BY Zenon, <2>2 DEF WalksKept
    <3>2. Leaf(va)' = [frame |-> <<e2(va)'.to, va[4]>>, w |-> TRUE, u |-> FALSE, nx |-> FALSE]
      BY Zenon, <3>1, LeafIsNext
    <3>3. Leaf(va) = [frame |-> <<e2(va).to, va[4]>>, w |-> TRUE, u |-> FALSE, nx |-> FALSE]
      BY Zenon, <2>2, LeafIs
    <3> QED
      BY Zenon, <3>1, <3>2, <3>3
  <2> QED
    BY Zenon, <1>1, <2>1, <2>2
<1>2. Mappings' = Mappings
  <2>1. \A va \in Canonical : (Small(va) \/ Large(va))' <=> (Small(va) \/ Large(va))
    BY Zenon DEF WalksKept
  <2> QED
    BY Zenon, <1>1, <2>1 DEF Mappings
<1>3. ASSUME MappedOK, UNCHANGED <<mapped, tlb>> PROVE MappedOK'
  <2>1. \A va \in mapped : va \in Canonical /\ Small(va) /\ Small(va)' /\ e2(va)'.to = e2(va).to
    BY Zenon, <1>3 DEF MappedOK, WalksKept
  <2>2. \A va \in DOMAIN tlb : va \in mapped /\ tlb[va] = Leaf(va)
    BY Zenon, <1>3 DEF MappedOK
  <2>3. \A va \in DOMAIN tlb : tlb[va] = Leaf(va)'
    BY Zenon, <1>1, <2>1, <2>2
  <2> QED
    BY <1>3, <2>1, <2>2, <2>3 DEF MappedOK
<1> QED
  BY Zenon, <1>2, <1>3

\* Two walks end at the same entry only if they are walks of one page, by one
\* name or by the two names of the bootstrap window.
LEMMA SameSlot ==
  ASSUME NEW lv, ShapeOK(lv), NEW a \in Canonical, NEW b \in Canonical,
         Reaches2(a), Reaches2(b), ~ e2(a).huge, ~ e2(b).huge,
         e2(a).to = e2(b).to, a[4] = b[4]
  PROVE  Name(a) = Name(b)
<1>1. LevelsOK(lv) /\ TreeOK(lv) /\ StaticOK
  BY Zenon DEF ShapeOK
<1>2. a \in Index \X Index \X Index \X Index /\ b \in Index \X Index \X Index \X Index
  BY Zenon, AddressAssumption
<1>3. ASSUME NEW va \in {a, b}
      PROVE  /\ pml4 \in DOMAIN tables /\ lv[pml4] = 4 /\ Link(pml4, va[1])
             /\ e4(va).to \in DOMAIN tables /\ lv[e4(va).to] = 3 /\ Link(e4(va).to, va[2])
             /\ e3(va).to \in DOMAIN tables /\ lv[e3(va).to] = 2 /\ Link(e3(va).to, va[3])
  <2>1. Reaches2(va) /\ ~ e2(va).huge
    BY Zenon, <1>3
  <2>2. /\ va[1] \in DOMAIN tables[pml4] /\ va[2] \in DOMAIN tables[e4(va).to]
        /\ va[3] \in DOMAIN tables[e3(va).to]
    BY Zenon, <2>1 DEF Reaches2
  <2>3. /\ e4(va).to \in DOMAIN tables /\ lv[e4(va).to] = 3
        /\ e3(va).to \in DOMAIN tables /\ lv[e3(va).to] = 2
    BY Zenon, <1>1, <2>2, WalkLevels
  <2>4. e3(va).to # pd
    BY Zenon, <1>1, <2>1, WalkLevels
  <2>5. pml4 \in DOMAIN tables /\ lv[pml4] = 4 /\ pml4 # pd /\ e4(va).to # pd
    BY <1>1, <2>3 DEF LevelsOK
  <2> QED
    BY Zenon, <2>2, <2>3, <2>4, <2>5 DEF Link
<1>4. ASSUME NEW s \in DOMAIN tables, NEW r \in DOMAIN tables, lv[s] > 1, lv[r] > 1,
             NEW j, NEW k, Link(s, j), Link(r, k), tables[s][j].to = tables[r][k].to
      PROVE  Joined(s, j, r, k)
  BY Zenon, <1>1, <1>4 DEF TreeOK, Link
<1>5. e3(a).to = e3(b).to /\ a[3] = b[3]
  <2>1. tables[e3(a).to][a[3]].to = tables[e3(b).to][b[3]].to
    BY Zenon DEF e2
  <2>2. Joined(e3(a).to, a[3], e3(b).to, b[3])
    BY SMTT(30), <1>3, <1>4, <2>1
  <2>3. ~ Window(e3(a).to, a[3])
    BY SMTT(30), <1>3, StaticLevels DEF Window
  <2> QED
    BY Zenon, <2>2, <2>3 DEF Joined
<1>6. Joined(e4(a).to, a[2], e4(b).to, b[2])
  <2>1. tables[e4(a).to][a[2]].to = tables[e4(b).to][b[2]].to
    BY Zenon, <1>5 DEF e3
  <2> QED
    BY <1>3, <1>4, <2>1
<1>7. ASSUME NEW c \in {a, b}, NEW m, Link(pml4, m), tables[pml4][m].to = e4(c).to
      PROVE  c[1] = m
  <2>1. tables[pml4][m].to = tables[pml4][c[1]].to
    BY Zenon, <1>7 DEF e4
  <2>2. Joined(pml4, c[1], pml4, m)
    BY <1>3, <1>4, <1>7, <2>1
  <2>3. ~ Window(pml4, m)
    BY DEF Window, pml4, pdpt, bootstrap_high_pdpt
  <2> QED
    BY Zenon, <2>2, <2>3 DEF Joined
<1>8. CASE e4(a).to = e4(b).to /\ a[2] = b[2]
  <2>1. a[1] = b[1]
    <3>1. Link(pml4, b[1]) /\ tables[pml4][b[1]].to = e4(a).to
      BY Zenon, <1>3, <1>8 DEF e4
    <3> QED
      BY Zenon, <1>7, <3>1
  <2>2. a = b
    BY <1>2, <1>5, <1>8, <2>1
  <2> QED
    BY Zenon, <2>2
<1>9. ASSUME NEW c \in {a, b}, Window(e4(c).to, c[2])
      PROVE  Name(c) = <<0, legacy_pdpt_i, c[3], c[4]>>
  <2>1. CASE e4(c).to = pdpt /\ c[2] = legacy_pdpt_i
    <3>1. c[1] = 0
      BY Zenon, <1>1, <1>7, <2>1 DEF StaticOK, Leads
    <3> QED
      BY <1>2, <2>1, <3>1 DEF Name, BOOTSTRAP_TEST_PML4_INDEX
  <2>2. CASE e4(c).to = bootstrap_high_pdpt /\ c[2] = 0
    <3>1. c[1] = 1
      BY <1>1, <1>7, <2>2 DEF StaticOK, Leads
    <3> QED
      BY Zenon, <2>2, <3>1 DEF Name, BOOTSTRAP_TEST_PML4_INDEX
  <2> QED
    BY Zenon, <1>9, <2>1, <2>2 DEF Window
<1> QED
  BY Zenon, <1>5, <1>6, <1>8, <1>9 DEF Joined

\* A walk by the second name of a page ends where the walk by the first does.
LEMMA AliasWalk ==
  ASSUME NEW lv, ShapeOK(lv), NEW va \in Canonical
  PROVE  LET n == Name(va) IN
         /\ n \in Canonical /\ Name(n) = n /\ n[3] = va[3] /\ n[4] = va[4]
         /\ Reaches2(n) <=> Reaches2(va)
         /\ Reaches2(va) => e2(n) = e2(va)
<1>1. StaticOK /\ va \in Index \X Index \X Index \X Index
  BY Zenon, AddressAssumption DEF ShapeOK
<1>2. CASE va[1] = BOOTSTRAP_TEST_PML4_INDEX /\ va[2] = 0
  <2> DEFINE n == <<0, legacy_pdpt_i, va[3], va[4]>>
  <2>1. Name(va) = n /\ n[1] = 0 /\ n[2] = legacy_pdpt_i /\ n[3] = va[3] /\ n[4] = va[4]
    BY Zenon, <1>2 DEF Name
  <2>2. n \in Canonical
    BY Zenon, <2>1, AddressAssumption
  <2> HIDE DEF n
  <2>3. Name(n) = n
    BY Zenon, <2>1 DEF Name, BOOTSTRAP_TEST_PML4_INDEX
  <2>4. va[1] \in DOMAIN tables[pml4] /\ e4(va).to = bootstrap_high_pdpt
    BY Zenon, <1>1, <1>2 DEF StaticOK, Leads, Link, e4, BOOTSTRAP_TEST_PML4_INDEX
  <2>5. va[2] \in DOMAIN tables[e4(va).to] /\ e3(va).to = bootstrap_pd
    BY Zenon, <1>1, <1>2, <2>4 DEF StaticOK, Leads, Link, e3
  <2>6. n[1] \in DOMAIN tables[pml4] /\ e4(n).to = pdpt
    BY Zenon, <1>1, <2>1 DEF StaticOK, Leads, Link, e4
  <2>7. n[2] \in DOMAIN tables[e4(n).to] /\ e3(n).to = bootstrap_pd
    BY Zenon, <1>1, <2>1, <2>6 DEF StaticOK, Leads, Link, e3
  <2>8. Reaches2(n) <=> Reaches2(va)
    BY Zenon, <2>1, <2>4, <2>5, <2>6, <2>7 DEF Reaches2
  <2>9. e2(n) = e2(va)
    BY Zenon, <2>1, <2>5, <2>7 DEF e2
  <2> QED
    BY Zenon, <2>1, <2>2, <2>3, <2>8, <2>9
<1>3. CASE ~ (va[1] = BOOTSTRAP_TEST_PML4_INDEX /\ va[2] = 0)
  BY Zenon, <1>3 DEF Name
<1> QED
  BY Zenon, <1>2, <1>3

\* A write to entry i of t leaves the other translations as they are.
LEMMA ButLeaf ==
  ASSUME NEW lv, ShapeOK(lv), ShapeOK(lv)', NEW t, NEW i, WalksBut(t, i),
         NEW va \in Canonical, ~ Slot(va, t, i)
  PROVE  /\ (Small(va) \/ Large(va))' <=> (Small(va) \/ Large(va))
         /\ Small(va) \/ Large(va) => Leaf(va)' = Leaf(va)
<1>1. /\ Small(va)' <=> Small(va)
      /\ Large(va)' <=> Large(va)
      /\ Small(va) => e1(va)' = e1(va)
      /\ Reaches2(va) => e2(va)' = e2(va)
  BY Zenon DEF WalksBut
<1>2. ASSUME Small(va) PROVE Leaf(va)' = Leaf(va)
  <2>1. Leaf(va)' = [frame |-> <<e1(va)'.to>>, w |-> e1(va)'.w, u |-> FALSE, nx |-> e1(va)'.nx]
    BY Zenon, <1>1, <1>2, LeafIsNext
  <2>2. Leaf(va) = [frame |-> <<e1(va).to>>, w |-> e1(va).w, u |-> FALSE, nx |-> e1(va).nx]
    BY Zenon, <1>2, LeafIs
  <2> QED
    BY Zenon, <1>1, <1>2, <2>1, <2>2
<1>3. ASSUME Large(va) PROVE Leaf(va)' = Leaf(va)
  <2>1. Leaf(va)' = [frame |-> <<e2(va)'.to, va[4]>>, w |-> TRUE, u |-> FALSE, nx |-> FALSE]
    BY Zenon, <1>1, <1>3, LeafIsNext
  <2>2. Leaf(va) = [frame |-> <<e2(va).to, va[4]>>, w |-> TRUE, u |-> FALSE, nx |-> FALSE]
    BY Zenon, <1>3, LeafIs
  <2>3. e2(va)' = e2(va)
    BY Zenon, <1>1, <1>3 DEF Large
  <2> QED
    BY Zenon, <2>1, <2>2, <2>3
<1> QED
  BY Zenon, <1>1, <1>2, <1>3

\* Of the pages' first names, only va's ends at va's entry.
LEMMA OneName ==
  ASSUME NEW lv, ShapeOK(lv), NEW t, NEW i, NEW va \in Canonical, Slot(va, t, i)
  PROVE  /\ Name(va) \in Canonical /\ Name(Name(va)) = Name(va)
         /\ Slot(Name(va), t, i)
         /\ \A v \in Canonical : Name(v) = v /\ v # Name(va) => ~ Slot(v, t, i)
<1>1. /\ Name(va) \in Canonical /\ Name(Name(va)) = Name(va)
      /\ Slot(Name(va), t, i)
  BY Zenon, AliasWalk DEF Slot
<1>2. ASSUME NEW v \in Canonical, Name(v) = v, v # Name(va), Slot(v, t, i) PROVE FALSE
  <2>1. Name(v) = Name(va)
    BY Zenon, <1>2, SameSlot DEF Slot
  <2> QED
    BY Zenon, <1>2, <2>1
<1> QED
  BY Zenon, <1>1, <1>2

\* Writing a vacant entry maps one page, which was not mapped.
LEMMA MapEffect ==
  ASSUME NEW lv, ShapeOK(lv), ShapeOK(lv)', NEW t, NEW i, WalksBut(t, i),
         NEW va \in Canonical, Slot(va, t, i),
         i \notin DOMAIN tables[t], i \in DOMAIN tables'[t]
  PROVE  /\ Small(va)'
         /\ Map!Adds(Mappings, Mappings', Name(va))
         /\ MappedOK /\ mapped' = mapped \cup {va} /\ invlpg(va) => MappedOK'
<1>1. ASSUME NEW v \in Canonical, Slot(v, t, i)
      PROVE  ~ Small(v) /\ ~ Large(v) /\ Small(v)'
  <2>1. Reaches2(v) /\ ~ e2(v).huge /\ e2(v).to = t /\ v[4] = i
    BY Zenon, <1>1 DEF Slot
  <2>2. Reaches2(v)' /\ e2(v)' = e2(v)
    BY Zenon, <2>1 DEF WalksBut
  <2> QED
    BY Zenon, <2>1, <2>2 DEF Small, Large
<1>2. Map!Adds(Mappings, Mappings', Name(va))
  <2> DEFINE n == Name(va)
  <2>1. /\ n \in Canonical /\ Name(n) = n /\ Slot(n, t, i)
        /\ \A v \in Canonical : Name(v) = v /\ v # n => ~ Slot(v, t, i)
    BY Zenon, OneName
  <2> HIDE DEF n
  <2>2. \A v \in Canonical : Name(v) = v /\ v # n =>
          /\ (Small(v) \/ Large(v))' <=> (Small(v) \/ Large(v))
          /\ Small(v) \/ Large(v) => Leaf(v)' = Leaf(v)
    BY Zenon, <2>1, ButLeaf
  <2>3. ~ Small(n) /\ ~ Large(n) /\ Small(n)'
    BY Zenon, <1>1, <2>1
  <2>4. /\ DOMAIN Mappings = {v \in Canonical : Name(v) = v /\ (Small(v) \/ Large(v))}
        /\ DOMAIN Mappings' = {v \in Canonical : Name(v) = v /\ (Small(v) \/ Large(v))'}
        /\ \A v \in DOMAIN Mappings : Mappings[v] = Leaf(v)
        /\ \A v \in DOMAIN Mappings' : Mappings'[v] = Leaf(v)'
    BY Zenon DEF Mappings
  <2>5. n \notin DOMAIN Mappings /\ DOMAIN Mappings' = DOMAIN Mappings \cup {n}
    BY Zenon, <2>1, <2>2, <2>3, <2>4
  <2>6. \A v \in DOMAIN Mappings : Mappings'[v] = Mappings[v]
    BY Zenon, <2>2, <2>3, <2>4, <2>5
  <2> QED
    BY Zenon, <2>5, <2>6 DEF Map!Adds, n
<1>3. ASSUME MappedOK, mapped' = mapped \cup {va}, invlpg(va) PROVE MappedOK'
  <2>1. \A v \in mapped : v \in Canonical /\ Small(v) /\ ~ Slot(v, t, i)
    BY Zenon, <1>1, <1>3 DEF MappedOK
  <2>2. \A v \in mapped : Small(v)' /\ e2(v)' = e2(v) /\ Leaf(v)' = Leaf(v)
    BY Zenon, <2>1, ButLeaf DEF WalksBut, Small
  <2>3. Small(va)' /\ e2(va)' = e2(va) /\ e2(va).to = t /\ va[4] = i
    BY Zenon, <1>1 DEF Slot, WalksBut
  <2>4. \A v \in mapped' : v \in Canonical /\ Small(v)'
    BY Zenon, <1>3, <2>1, <2>2, <2>3
  <2>5. \A v \in mapped : e2(v).to # t \/ v[4] # i
    BY Zenon, <2>1 DEF Slot, Small
  <2>6. \A a, b \in mapped' : e2(a)'.to = e2(b)'.to /\ a[4] = b[4] => a = b
    BY <1>3, <2>2, <2>3, <2>5 DEF MappedOK
  <2>7. DOMAIN tlb' \subseteq mapped /\ \A v \in DOMAIN tlb' : tlb'[v] = Leaf(v)
    BY Zenon, <1>3 DEF MappedOK, invlpg
  <2>8. DOMAIN tlb' \subseteq mapped' /\ \A v \in DOMAIN tlb' : tlb'[v] = Leaf(v)'
    BY Zenon, <1>3, <2>2, <2>7
  <2> QED
    BY Zenon, <2>4, <2>6, <2>8 DEF MappedOK
<1> QED
  BY Zenon, <1>1, <1>2, <1>3

\* Clearing an entry unmaps one page, and none of the boot identity map.
LEMMA UnmapEffect ==
  ASSUME NEW lv, ShapeOK(lv), ShapeOK(lv)', NEW t, NEW i, WalksBut(t, i),
         NEW va \in Canonical, Slot(va, t, i),
         i \in DOMAIN tables[t], i \notin DOMAIN tables'[t]
  PROVE  /\ Map!Adds(Mappings', Mappings, Name(va))
         /\ Name(va) \in DOMAIN Mappings \ DOMAIN Identity
         /\ MappedOK /\ va \in mapped /\ mapped' = mapped \ {va} /\ invlpg(va) => MappedOK'
<1> DEFINE n == Name(va)
<1>1. /\ n \in Canonical /\ Name(n) = n /\ Slot(n, t, i)
      /\ \A v \in Canonical : Name(v) = v /\ v # n => ~ Slot(v, t, i)
  BY Zenon, OneName
<1> HIDE DEF n
<1>2. \A v \in Canonical : Name(v) = v /\ v # n =>
        /\ (Small(v) \/ Large(v))' <=> (Small(v) \/ Large(v))
        /\ Small(v) \/ Large(v) => Leaf(v)' = Leaf(v)
  BY Zenon, <1>1, ButLeaf
<1>3. Small(n) /\ ~ Small(n)' /\ ~ Large(n)'
  <2>1. Reaches2(n) /\ ~ e2(n).huge /\ e2(n).to = t /\ n[4] = i
    BY Zenon, <1>1 DEF Slot
  <2>2. Reaches2(n)' /\ e2(n)' = e2(n)
    BY Zenon, <1>1, <2>1 DEF WalksBut
  <2> QED
    BY Zenon, <2>1, <2>2 DEF Small, Large
<1>4. /\ DOMAIN Mappings = {v \in Canonical : Name(v) = v /\ (Small(v) \/ Large(v))}
      /\ DOMAIN Mappings' = {v \in Canonical : Name(v) = v /\ (Small(v) \/ Large(v))'}
      /\ \A v \in DOMAIN Mappings : Mappings[v] = Leaf(v)
      /\ \A v \in DOMAIN Mappings' : Mappings'[v] = Leaf(v)'
  BY Zenon DEF Mappings
<1>5. n \notin DOMAIN Mappings' /\ DOMAIN Mappings = DOMAIN Mappings' \cup {n}
  BY Zenon, <1>1, <1>2, <1>3, <1>4
<1>6. \A v \in DOMAIN Mappings' : Mappings[v] = Mappings'[v]
  BY Zenon, <1>2, <1>3, <1>4, <1>5
<1>7. Map!Adds(Mappings', Mappings, n)
  BY Zenon, <1>5, <1>6 DEF Map!Adds
<1>8. n \notin DOMAIN Identity
  <2> SUFFICES ASSUME n[1] = 0, n[2] = 0 PROVE FALSE
    BY Zenon DEF Identity
  <2>1. LevelsOK(lv) /\ StaticOK
    BY Zenon DEF ShapeOK
  <2>2. e4(n).to = pdpt
    BY Zenon, <2>1 DEF StaticOK, Leads, e4
  <2>3. e3(n).to = pd
    BY Zenon, <2>1, <2>2 DEF StaticOK, Leads, e3
  <2> QED
    BY Zenon, <1>1, <2>1, <2>3, WalkLevels DEF Slot
<1>9. ASSUME MappedOK, va \in mapped, mapped' = mapped \ {va}, invlpg(va) PROVE MappedOK'
  <2>1. \A v \in mapped' : v \in mapped /\ v \in Canonical /\ Small(v) /\ ~ Slot(v, t, i)
    BY Zenon, <1>9 DEF MappedOK, Slot
  <2>2. \A v \in mapped' : Small(v)' /\ e2(v)' = e2(v) /\ Leaf(v)' = Leaf(v)
    BY Zenon, <2>1, ButLeaf DEF WalksBut, Small
  <2>3. \A a, b \in mapped' : e2(a)'.to = e2(b)'.to /\ a[4] = b[4] => a = b
    BY <1>9, <2>1, <2>2 DEF MappedOK
  <2>4. DOMAIN tlb' \subseteq mapped' /\ \A v \in DOMAIN tlb' : tlb'[v] = Leaf(v)
    BY Zenon, <1>9 DEF MappedOK, invlpg
  <2>5. \A v \in DOMAIN tlb' : tlb'[v] = Leaf(v)'
    BY Zenon, <2>2, <2>4
  <2> QED
    BY Zenon, <2>1, <2>2, <2>3, <2>4, <2>5 DEF MappedOK
<1> QED
  BY Zenon, <1>1, <1>3, <1>4, <1>7, <1>8, <1>9 DEF n

----------------------------------------------------------------------------
(* The boot tables and vmm_init *)

\* What the static indices and tables are told apart by.
LEMMA Statics ==
  /\ 0 \in Index /\ 1 \in Index /\ legacy_pdpt_i = 1 /\ BOOTSTRAP_TEST_PML4_INDEX = 1
  /\ pml4 = -1 /\ pdpt = -2 /\ pd = -3 /\ bootstrap_pd = -4 /\ bootstrap_pt = -5
  /\ bootstrap_high_pdpt = -6
  /\ test_virtual[1] = 0 /\ test_virtual[2] = 1 /\ test_virtual[3] = 0 /\ test_virtual[4] = 0
BY Zenon, AddressAssumption DEF test_virtual, legacy_pdpt_i, BOOTSTRAP_TEST_PML4_INDEX, pml4, pdpt,
   pd, bootstrap_pd, bootstrap_pt, bootstrap_high_pdpt

\* The tables of boot.S map the first gigabyte onto itself.
LEMMA BootMap ==
  ASSUME tables = BootTables
  PROVE  Mappings = Identity
<1>1. /\ DOMAIN tables[pml4] = {0} /\ tables[pml4][0] = Entry(pdpt, FALSE, WRITABLE)
      /\ DOMAIN tables[pdpt] = {0} /\ tables[pdpt][0] = Entry(pd, FALSE, WRITABLE)
      /\ DOMAIN tables[pd] = Index
      /\ \A i \in Index : tables[pd][i] = Entry(i, TRUE, WRITABLE)
  BY Statics DEF BootTables, Single
<1>2. ASSUME NEW to, NEW huge \in BOOLEAN
      PROVE  LET e == Entry(to, huge, WRITABLE) IN
             e.to = to /\ e.huge = huge /\ e.w = TRUE /\ e.u = FALSE /\ e.nx = FALSE
  BY Zenon DEF Entry, WRITABLE
<1>3. ASSUME NEW va \in Canonical
      PROVE  /\ Reaches2(va) <=> va[1] = 0 /\ va[2] = 0
             /\ Reaches2(va) => /\ e4(va) = Entry(pdpt, FALSE, WRITABLE)
                                /\ e3(va) = Entry(pd, FALSE, WRITABLE)
                                /\ e2(va) = Entry(va[3], TRUE, WRITABLE)
  <2>1. va[3] \in Index
    BY Zenon, AddressAssumption
  <2>2. CASE va[1] # 0
    BY Zenon, <1>1, <2>2 DEF Reaches2
  <2>3. CASE va[1] = 0
    <3>1. e4(va) = Entry(pdpt, FALSE, WRITABLE) /\ e4(va).to = pdpt
      <4>1. e4(va) = Entry(pdpt, FALSE, WRITABLE)
        BY Zenon, <1>1, <2>3 DEF e4
      <4> QED
        BY <4>1 DEF Entry
    <3>2. CASE va[2] # 0
      BY Zenon, <1>1, <3>1, <3>2 DEF Reaches2
    <3>3. CASE va[2] = 0
      <4>1. e3(va) = Entry(pd, FALSE, WRITABLE) /\ e3(va).to = pd
        <5>1. e3(va) = Entry(pd, FALSE, WRITABLE)
          BY Zenon, <1>1, <3>1, <3>3 DEF e3
        <5> QED
          BY <5>1 DEF Entry
      <4>2. e2(va) = Entry(va[3], TRUE, WRITABLE)
        BY Zenon, <1>1, <2>1, <4>1 DEF e2
      <4>3. Reaches2(va)
        BY Zenon, <1>1, <2>1, <2>3, <3>1, <3>3, <4>1 DEF Reaches2
      <4> QED
        BY Zenon, <2>3, <3>1, <3>3, <4>1, <4>2, <4>3
    <3> QED
      BY Zenon, <3>2, <3>3
  <2> QED
    BY Zenon, <2>2, <2>3
<1>4. ASSUME NEW va \in Canonical, va[1] = 0, va[2] = 0
      PROVE  /\ Name(va) = va
             /\ Leaf(va) = [frame |-> <<va[3], va[4]>>, w |-> TRUE, u |-> FALSE, nx |-> FALSE]
  <2>1. Large(va) /\ ~ Small(va)
    BY Zenon, <1>2, <1>3, <1>4 DEF Large, Small
  <2>2. vmm_translate(va) = <<va[3], va[4]>>
    BY ZenonT(40), <1>2, <1>3, <1>4, <2>1 DEF vmm_translate
  <2>3. /\ e4(va).w = TRUE /\ e3(va).w = TRUE /\ e2(va).w = TRUE
        /\ e4(va).u = FALSE /\ e4(va).nx = FALSE /\ e3(va).nx = FALSE /\ e2(va).nx = FALSE
    BY <1>3, <1>4 DEF Entry, WRITABLE
  <2>4. Name(va) = va
    BY <1>4, Statics DEF Name
  <2> QED
    BY Zenon, <2>1, <2>2, <2>3, <2>4 DEF Leaf
<1>5. ASSUME NEW va \in Canonical
      PROVE  (Name(va) = va /\ (Small(va) \/ Large(va))) <=> (va[1] = 0 /\ va[2] = 0)
  BY Zenon, <1>2, <1>3, <1>4 DEF Small, Large
<1> QED
  BY Zenon, <1>4, <1>5 DEF Mappings, Identity

\* The level of each static table.
StaticLevel == [t \in {pml4, pdpt, pd, bootstrap_pt, bootstrap_pd, bootstrap_high_pdpt} |->
                  IF t = pml4 THEN 4
                  ELSE IF t \in {pdpt, bootstrap_high_pdpt} THEN 3
                  ELSE IF t \in {pd, bootstrap_pd} THEN 2 ELSE 1]

\* One more entry in a table of one.
LEMMA WithIs ==
  ASSUME NEW f, DOMAIN f = {0}, NEW e
  PROVE  With(f, 1, e)[0] = f[0] /\ With(f, 1, e)[1] = e
BY DEF With

\* An entry that leads to a table with all rights.
Down(to) == Entry(to, FALSE, WRITABLE)

\* A link carries the flags vmm_init gives it.
LEMMA DownIs ==
  ASSUME NEW to
  PROVE  /\ Down(to).to = to /\ Down(to).huge = FALSE /\ Down(to).w = TRUE
         /\ Down(to).u = FALSE /\ Down(to).nx = FALSE
         /\ DOMAIN Down(to) = {"to", "huge", "w", "u", "nx"}
BY Zenon DEF Down, Entry, WRITABLE

\* vmm_init gives the tables their shape, maps nothing and unmaps nothing.
LEMMA InitStep ==
  ASSUME BootState, vmm_init
  PROVE  /\ ShapeOK(StaticLevel)' /\ ~ Mapping' /\ MappedOK' /\ TestOK'
         /\ Mappings' = Mappings
         /\ TablePages' = TablePages
<1> DEFINE T == {pml4, pdpt, pd, bootstrap_pt, bootstrap_pd, bootstrap_high_pdpt}
           lv == StaticLevel
<1>1. /\ DOMAIN tables' = T
      /\ DOMAIN tables'[pml4] = {0, 1} /\ DOMAIN tables'[pdpt] = {0, 1}
      /\ DOMAIN tables'[bootstrap_high_pdpt] = {0} /\ DOMAIN tables'[bootstrap_pd] = {0}
      /\ DOMAIN tables'[bootstrap_pt] = {} /\ DOMAIN tables'[pd] = Index
  <2>1. /\ DOMAIN tables = {pml4, pdpt, pd}
        /\ DOMAIN tables[pml4] = {0} /\ DOMAIN tables[pdpt] = {0} /\ DOMAIN tables[pd] = Index
    BY Statics DEF BootState, BootTables, Single, Down
  <2> QED
    BY SMTT(30), <2>1, Statics DEF vmm_init, Bootstrapped, With, Single, Empty
<1>2. /\ tables'[pml4][0] = Down(pdpt)
      /\ tables'[pml4][1] = Down(bootstrap_high_pdpt)
      /\ tables'[pdpt][0] = Down(pd)
      /\ tables'[pdpt][1] = Down(bootstrap_pd)
      /\ tables'[bootstrap_high_pdpt][0] = Down(bootstrap_pd)
      /\ tables'[bootstrap_pd][0] = Down(bootstrap_pt)
      /\ \A i \in Index : tables'[pd][i] = Entry(i, TRUE, WRITABLE)
  <2>1. /\ DOMAIN tables = {pml4, pdpt, pd}
        /\ DOMAIN tables[pml4] = {0} /\ DOMAIN tables[pdpt] = {0}
        /\ tables[pml4][0] = Down(pdpt)
        /\ tables[pdpt][0] = Down(pd)
        /\ \A i \in Index : tables[pd][i] = Entry(i, TRUE, WRITABLE)
    BY Statics DEF BootState, BootTables, Single, Down
  <2>2. /\ tables'[pml4] = With(tables[pml4], 1, Down(bootstrap_high_pdpt))
        /\ tables'[pdpt] = With(tables[pdpt], 1, Down(bootstrap_pd))
        /\ tables'[bootstrap_high_pdpt] = Single(0, Down(bootstrap_pd))
        /\ tables'[bootstrap_pd] = Single(0, Down(bootstrap_pt))
        /\ tables'[pd] = tables[pd]
    <3>1. tables'[pml4] = With(tables[pml4], 1, Down(bootstrap_high_pdpt))
      BY <2>1, Statics DEF vmm_init, Bootstrapped, Down
    <3>2. tables'[pdpt] = With(tables[pdpt], 1, Down(bootstrap_pd))
      <4>1. legacy_pdpt_i = 1 /\ legacy_pdpt_i \notin DOMAIN tables[pdpt]
        BY SMTT(20), <2>1, Statics
      <4>2. tables'[pdpt] = With(tables[pdpt], legacy_pdpt_i, Down(bootstrap_pd))
        BY SMTT(20), <2>1, <4>1, Statics DEF vmm_init, Bootstrapped, Down, Entry, WRITABLE
      <4> QED
        BY Zenon, <4>1, <4>2
    <3>3. /\ tables'[bootstrap_high_pdpt] = Single(0, Down(bootstrap_pd))
          /\ tables'[bootstrap_pd] = Single(0, Down(bootstrap_pt))
      BY SMTT(30), <2>1, Statics DEF vmm_init, Bootstrapped, Down
    <3>4. tables'[pd] = tables[pd]
      BY <2>1, Statics DEF vmm_init, Bootstrapped, Down
    <3> QED
      BY Zenon, <3>1, <3>2, <3>3, <3>4
  <2>3. /\ tables'[bootstrap_high_pdpt][0] = Down(bootstrap_pd)
        /\ tables'[bootstrap_pd][0] = Down(bootstrap_pt)
    BY Zenon, <2>2 DEF Single
  <2>4. /\ tables'[pml4][0] = Down(pdpt)
        /\ tables'[pml4][1] = Down(bootstrap_high_pdpt)
    BY SMTT(20), <2>1, <2>2, WithIs
  <2>5. /\ tables'[pdpt][0] = Down(pd)
        /\ tables'[pdpt][1] = Down(bootstrap_pd)
    BY SMTT(20), <2>1, <2>2, WithIs
  <2> QED
    BY Zenon, <2>1, <2>2, <2>3, <2>4, <2>5
<1>4. /\ lv \in [T -> 1 .. 4] /\ lv[pml4] = 4 /\ lv[pdpt] = 3 /\ lv[bootstrap_high_pdpt] = 3
      /\ lv[pd] = 2 /\ lv[bootstrap_pd] = 2 /\ lv[bootstrap_pt] = 1
  BY Statics DEF StaticLevel
<1> HIDE DEF lv, T
<1>5. ASSUME NEW t \in T, NEW i \in DOMAIN tables'[t], t # pd
      PROVE  \/ t = pml4 /\ i = 0 /\ tables'[t][i] = Down(pdpt)
             \/ t = pml4 /\ i = 1 /\ tables'[t][i] = Down(bootstrap_high_pdpt)
             \/ t = pdpt /\ i = 0 /\ tables'[t][i] = Down(pd)
             \/ t = pdpt /\ i = 1 /\ tables'[t][i] = Down(bootstrap_pd)
             \/ t = bootstrap_high_pdpt /\ i = 0
                /\ tables'[t][i] = Down(bootstrap_pd)
             \/ t = bootstrap_pd /\ i = 0 /\ tables'[t][i] = Down(bootstrap_pt)
  BY Zenon, <1>1, <1>2, <1>5 DEF T
<1>6. ASSUME NEW t \in T, NEW i \in DOMAIN tables'[t]
      PROVE  EntryOK(t, tables'[t][i]) /\ tables'[t][i].w = TRUE
  <2>1. CASE t = pd
    <3>1. tables'[t][i] = Entry(i, TRUE, WRITABLE)
      BY Zenon, <1>1, <1>2, <2>1
    <3> QED
      <4>1. /\ tables'[t][i].huge = TRUE /\ tables'[t][i].w = TRUE
            /\ tables'[t][i].u = FALSE /\ tables'[t][i].nx = FALSE
            /\ DOMAIN tables'[t][i] = {"to", "huge", "w", "u", "nx"}
        BY <3>1 DEF Entry, WRITABLE
      <4> QED
        BY Zenon, <2>1, <4>1 DEF EntryOK
  <2>2. CASE t # pd
    <3>1. PICK to : tables'[t][i] = Down(to)
      BY Zenon, <1>5, <2>2
    <3> QED
      <4>1. /\ tables'[t][i].huge = FALSE /\ tables'[t][i].w = TRUE
            /\ tables'[t][i].u = FALSE /\ tables'[t][i].nx = FALSE
            /\ DOMAIN tables'[t][i] = {"to", "huge", "w", "u", "nx"}
        BY ZenonT(40), <3>1, DownIs
      <4> QED
        BY Zenon, <2>2, <4>1 DEF EntryOK
  <2> QED
    BY Zenon, <2>1, <2>2
<1>7. ASSUME NEW t \in T, NEW i \in DOMAIN tables'[t], t # pd
      PROVE  /\ tables'[t][i].to \in T /\ lv[tables'[t][i].to] = lv[t] - 1
             /\ ~ tables'[t][i].nx
  <2>1. ASSUME NEW c \in T, tables'[t][i] = Down(c), lv[c] = lv[t] - 1
        PROVE  /\ tables'[t][i].to \in T /\ lv[tables'[t][i].to] = lv[t] - 1
               /\ ~ tables'[t][i].nx
    BY Zenon, <2>1, DownIs
  <2>2. {pdpt, bootstrap_high_pdpt, pd, bootstrap_pd, bootstrap_pt} \subseteq T
    BY Zenon DEF T
  <2>3. CASE t = pml4
    BY <1>4, <1>5, <1>7, <2>1, <2>2, <2>3, Statics
  <2>4. CASE t = pdpt
    BY SMTT(20), <1>4, <1>5, <1>7, <2>1, <2>2, <2>4, Statics
  <2>5. CASE t = bootstrap_high_pdpt
    BY SMTT(20), <1>4, <1>5, <1>7, <2>1, <2>2, <2>5, Statics
  <2>6. CASE t = bootstrap_pd
    BY SMTT(20), <1>4, <1>5, <1>7, <2>1, <2>2, <2>6, Statics
  <2> QED
    BY Zenon, <1>5, <1>7, <2>3, <2>4, <2>5, <2>6
<1>8. LevelsOK(lv)'
  <2>1. pml4 \in T /\ pd \in T
    BY Zenon DEF T
  <2> QED
    BY Zenon, <1>1, <1>4, <1>6, <1>7, <2>1 DEF LevelsOK, Link
<1>9. TreeOK(lv)'
  <2>1. ASSUME NEW t \in T, NEW i \in DOMAIN tables'[t], t # pd,
               NEW s \in T, NEW j \in DOMAIN tables'[s], s # pd,
               tables'[t][i].to = tables'[s][j].to
        PROVE  Joined(t, i, s, j)
    <3>1. \/ t = pml4 /\ i = 0 /\ tables'[t][i].to = pdpt
          \/ t = pml4 /\ i = 1 /\ tables'[t][i].to = bootstrap_high_pdpt
          \/ t = pdpt /\ i = 0 /\ tables'[t][i].to = pd
          \/ t = pdpt /\ i = 1 /\ tables'[t][i].to = bootstrap_pd
          \/ t = bootstrap_high_pdpt /\ i = 0 /\ tables'[t][i].to = bootstrap_pd
          \/ t = bootstrap_pd /\ i = 0 /\ tables'[t][i].to = bootstrap_pt
      BY SMTT(20), <1>5, <2>1 DEF Down, Entry
    <3>2. \/ s = pml4 /\ j = 0 /\ tables'[s][j].to = pdpt
          \/ s = pml4 /\ j = 1 /\ tables'[s][j].to = bootstrap_high_pdpt
          \/ s = pdpt /\ j = 0 /\ tables'[s][j].to = pd
          \/ s = pdpt /\ j = 1 /\ tables'[s][j].to = bootstrap_pd
          \/ s = bootstrap_high_pdpt /\ j = 0 /\ tables'[s][j].to = bootstrap_pd
          \/ s = bootstrap_pd /\ j = 0 /\ tables'[s][j].to = bootstrap_pt
      BY <1>5, <2>1 DEF Down, Entry
    <3> QED
      BY SMTT(20), <2>1, <3>1, <3>2, Statics DEF Joined, Window
  <2> QED
    BY Zenon, <1>1, <2>1 DEF TreeOK, Link
<1>10. StaticOK'
  <2>1. /\ Leads(pml4, 0, pdpt)' /\ Leads(pml4, 1, bootstrap_high_pdpt)'
        /\ Leads(pdpt, 0, pd)' /\ Leads(pdpt, 1, bootstrap_pd)'
        /\ Leads(bootstrap_high_pdpt, 0, bootstrap_pd)' /\ Leads(bootstrap_pd, 0, bootstrap_pt)'
    BY <1>1, <1>2, Statics DEF Leads, Link, Down, Entry, WRITABLE
  <2> QED
    BY ZenonT(40), <1>1, <1>2, <2>1, Statics DEF StaticOK, T
<1>11. ShapeOK(lv)'
  BY Zenon, <1>8, <1>9, <1>10 DEF ShapeOK
<1>12. ~ Mapping' /\ MappedOK' /\ TestOK'
  <2>1. /\ call'.pc = "take" /\ mapped' = {} /\ DOMAIN tlb' = {} /\ test' = <<>>
    BY Zenon DEF BootState, vmm_init, Empty
  <2>2. ~ Mapping' /\ MappedOK'
    BY Zenon, <2>1 DEF Mapping, MappedOK
  <2> QED
    BY <1>1, <2>1, <2>2 DEF TestOK
<1>13. Mappings' = Identity
  <2>1. ASSUME NEW va \in Canonical
        PROVE  /\ ~ Small(va)'
               /\ Large(va)' <=> va[1] = 0 /\ va[2] = 0
               /\ Large(va)' => e2(va)'.to = va[3]
    <3>1. va[3] \in Index
      BY Zenon, AddressAssumption
    <3>2. CASE ~ Reaches2(va)'
      <4>1. ~ (va[1] = 0 /\ va[2] = 0)
        <5> SUFFICES ASSUME va[1] = 0, va[2] = 0 PROVE Reaches2(va)'
          BY Zenon, <3>2
        <5>1. e4(va)'.to = pdpt
          BY SMTT(30), <1>2 DEF e4, Down, Entry
        <5>2. e3(va)'.to = pd
          BY <1>2, <5>1 DEF e3, Down, Entry
        <5> QED
          BY Zenon, <1>1, <3>1, <5>1, <5>2 DEF Reaches2
      <4> QED
        BY Zenon, <3>2, <4>1 DEF Small, Large
    <3>3. CASE Reaches2(va)'
      <4>1. /\ va[1] \in DOMAIN tables'[pml4] /\ va[2] \in DOMAIN tables'[e4(va)'.to]
            /\ va[3] \in DOMAIN tables'[e3(va)'.to]
        BY ZenonT(40), <3>3 DEF Reaches2
      <4>2. \/ va[1] = 0 /\ e4(va)'.to = pdpt
            \/ va[1] = 1 /\ e4(va)'.to = bootstrap_high_pdpt
        BY SMTT(20), <1>1, <1>2, <4>1 DEF e4, Down, Entry
      <4>3. \/ va[1] = 0 /\ va[2] = 0 /\ e3(va)'.to = pd
            \/ ~ (va[1] = 0 /\ va[2] = 0) /\ e3(va)'.to = bootstrap_pd
        <5>1. CASE va[1] = 0 /\ e4(va)'.to = pdpt
          BY SMTT(20), <1>1, <1>2, <4>1, <5>1 DEF e3, Down, Entry
        <5>2. CASE va[1] = 1 /\ e4(va)'.to = bootstrap_high_pdpt
          BY SMTT(20), <1>1, <1>2, <4>1, <5>2 DEF e3, Down, Entry
        <5> QED
          BY ZenonT(40), <4>2, <5>1, <5>2
      <4>4. CASE e3(va)'.to = pd
        <5>1. e2(va)' = Entry(va[3], TRUE, WRITABLE)
          BY Zenon, <1>2, <3>1, <4>4 DEF e2
        <5>2. va[1] = 0 /\ va[2] = 0
          BY <4>3, <4>4, Statics
        <5> QED
          BY SMTT(30), <3>3, <5>1, <5>2 DEF Small, Large, Entry
      <4>5. CASE e3(va)'.to = bootstrap_pd
        <5>1. e2(va)' = Down(bootstrap_pt)
          BY Zenon, <1>1, <1>2, <4>1, <4>5 DEF e2
        <5>2. ~ (va[1] = 0 /\ va[2] = 0)
          BY <4>3, <4>5, Statics
        <5> QED
          BY ZenonT(40), <1>1, <5>1, <5>2, DownIs DEF Small, Large
      <4> QED
        BY Zenon, <4>3, <4>4, <4>5
    <3> QED
      BY Zenon, <3>2, <3>3
  <2>2. ASSUME NEW va \in Canonical, va[1] = 0, va[2] = 0
        PROVE  /\ Name(va) = va
               /\ Leaf(va)' = [frame |-> <<va[3], va[4]>>, w |-> TRUE, u |-> FALSE, nx |-> FALSE]
    <3>1. Leaf(va)' = [frame |-> <<e2(va)'.to, va[4]>>, w |-> TRUE, u |-> FALSE, nx |-> FALSE]
      BY Zenon, <1>11, <2>1, <2>2, LeafIsNext
    <3>2. e2(va)'.to = va[3]
      BY Zenon, <2>1, <2>2
    <3>3. Name(va) = va
      BY <2>2, Statics DEF Name
    <3> QED
      BY Zenon, <3>1, <3>2, <3>3
  <2>3. ASSUME NEW va \in Canonical
        PROVE  (Name(va) = va /\ (Small(va) \/ Large(va))') <=> (va[1] = 0 /\ va[2] = 0)
    BY Zenon, <2>1, <2>2
  <2> QED
    BY Zenon, <2>2, <2>3 DEF Mappings, Identity
<1>14. Mappings = Identity
  BY Zenon, BootMap DEF BootState
<1>15. TablePages' = TablePages
  <2>1. DOMAIN tables = {pml4, pdpt, pd}
    BY Zenon DEF BootState, BootTables
  <2> QED
    BY <1>1, <2>1, Statics DEF TablePages, Pages, T
<1> QED
  BY SMTT(20), <1>11, <1>12, <1>13, <1>14, <1>15 DEF lv

----------------------------------------------------------------------------
(* The steps, one by one *)

\* While no table is written, their shape and every walk stay.
LEMMA TablesKept ==
  ASSUME tables' = tables
  PROVE  /\ \A lv : ShapeOK(lv) => ShapeOK(lv)'
         /\ \A va : Small(va)' = Small(va) /\ e2(va)' = e2(va) /\ Leaf(va)' = Leaf(va)
         /\ Mappings' = Mappings
         /\ MappedOK /\ UNCHANGED <<mapped, tlb>> => MappedOK'
<1>1. \A lv : ShapeOK(lv) => ShapeOK(lv)'
  <2>1. \A lv : LevelsOK(lv) => LevelsOK(lv)'
    BY SMTT(30) DEF LevelsOK, Link
  <2>2. \A lv : TreeOK(lv) => TreeOK(lv)'
    BY DEF TreeOK, Link
  <2>3. StaticOK => StaticOK'
    BY Zenon DEF StaticOK, Leads, Link
  <2> QED
    BY Zenon, <2>1, <2>2, <2>3 DEF ShapeOK
<1>2. \A va : /\ e4(va)' = e4(va) /\ e3(va)' = e3(va) /\ e2(va)' = e2(va)
              /\ e1(va)' = e1(va)
  BY Zenon DEF e4, e3, e2, e1
<1>3. \A va : Reaches2(va)' = Reaches2(va)
  BY Zenon, <1>2 DEF Reaches2
<1>4. \A va : Small(va)' = Small(va) /\ Large(va)' = Large(va)
  BY Zenon, <1>2, <1>3 DEF Small, Large
<1>5. \A va : vmm_translate(va)' = vmm_translate(va)
  BY ZenonT(40), <1>2, <1>4 DEF vmm_translate
<1>6. \A va : Leaf(va)' = Leaf(va)
  BY ZenonT(40), <1>2, <1>4, <1>5 DEF Leaf
<1>7. Mappings' = Mappings
  BY Zenon, <1>4, <1>6 DEF Mappings
<1>8. ASSUME MappedOK, UNCHANGED <<mapped, tlb>> PROVE MappedOK'
  BY Zenon, <1>2, <1>4, <1>6, <1>8 DEF MappedOK
<1> QED
  BY Zenon, <1>1, <1>2, <1>4, <1>6, <1>7, <1>8

\* The self-test's mapping goes through the static tables.
LEMMA TestWalk ==
  ASSUME NEW lv, Steady(lv), call.pc = "testmap"
  PROVE  /\ call.level < 4 => At \in DOMAIN Here /\ ~ Here[At].huge
         /\ call.level = 4 => call.table = bootstrap_pt /\ At = 0
<1> DEFINE va == test_virtual
<1>1. LevelsOK(lv) /\ StaticOK /\ CallOK /\ call.va = va /\ CallAt(va) /\ call.level \in 1 .. 4
  BY Zenon DEF Steady, ShapeOK, Mapping, TestOK, CallOK
<1>2. va[1] = 0 /\ va[2] = legacy_pdpt_i /\ va[3] = 0 /\ va[4] = 0
  BY Zenon, Statics
<1> HIDE DEF va
<1>3. 0 \in DOMAIN tables[pml4] /\ e4(va).to = pdpt
  BY Zenon, <1>1, <1>2 DEF StaticOK, Leads, Link, e4
<1>4. legacy_pdpt_i \in DOMAIN tables[pdpt] /\ e3(va).to = bootstrap_pd
  BY Zenon, <1>1, <1>2, <1>3 DEF StaticOK, Leads, Link, e3
<1>5. 0 \in DOMAIN tables[bootstrap_pd] /\ e2(va).to = bootstrap_pt
  BY Zenon, <1>1, <1>2, <1>4 DEF StaticOK, Leads, Link, e2
<1>6. /\ call.level = 1 => call.table = pml4 /\ At = 0
      /\ call.level = 2 => call.table = pdpt /\ At = legacy_pdpt_i
      /\ call.level = 3 => call.table = bootstrap_pd /\ At = 0
      /\ call.level = 4 => call.table = bootstrap_pt /\ At = 0
  BY SMTT(20), <1>1, <1>2, <1>3, <1>4, <1>5 DEF CallAt, At
<1>7. ASSUME NEW s \in {pml4, pdpt, bootstrap_pd}, NEW j \in DOMAIN tables[s]
      PROVE  ~ tables[s][j].huge
  <2>1. s \in DOMAIN tables /\ s # pd
    BY SMTT(20), <1>1, Statics DEF StaticOK, LevelsOK
  <2> QED
    BY Zenon, <1>1, <2>1 DEF LevelsOK, EntryOK
<1> QED
  BY SMTT(20), <1>1, <1>3, <1>4, <1>5, <1>6, <1>7 DEF Here

\* Raising rights, entry by entry.
LEMMA RaiseIs ==
  ASSUME NEW lv, ShapeOK(lv), NEW t \in DOMAIN tables, NEW i \in DOMAIN tables[t],
         ~ tables[t][i].huge, NEW f \in Flags,
         tables' = Put(t, i, Raised(tables[t][i], f))
  PROVE  Grown(t, i, f, tables[t][i].to) /\ DOMAIN tables' = DOMAIN tables
<1> DEFINE old == tables[t][i]
           new == Raised(old, f)
<1>1. /\ DOMAIN old = {"to", "huge", "w", "u", "nx"}
      /\ old.w \in BOOLEAN /\ old.u = FALSE
  <2>1. LevelsOK(lv)
    BY Zenon DEF ShapeOK
  <2>2. EntryOK(t, old)
    BY Zenon, <2>1 DEF LevelsOK
  <2> QED
    BY Zenon, <2>2 DEF EntryOK
<1>2. /\ new.to = old.to /\ new.huge = old.huge /\ new.w = (old.w \/ f.w)
  BY Zenon, <1>1 DEF Raised, Flags
<1> HIDE DEF new
<1>3. tables' = Put(t, i, new)
  BY Zenon DEF new
<1>4. /\ DOMAIN tables' = DOMAIN tables
      /\ DOMAIN tables'[t] = DOMAIN tables[t] \cup {i}
      /\ tables'[t][i] = new
      /\ \A j \in DOMAIN tables[t] \ {i} : tables'[t][j] = tables[t][j]
      /\ \A s \in DOMAIN tables \ {t} : tables'[s] = tables[s]
  BY <1>3, PutIs
<1>5. f.w \in BOOLEAN
  BY Zenon DEF Flags
<1> QED
  BY SMTT(20), <1>1, <1>2, <1>4, <1>5 DEF Grown

\* ensure_table on an entry that is there.
LEMMA EnsurePresentStep ==
  ASSUME NEW lv, Steady(lv), EnsurePresent
  PROVE  Steady(lv)' /\ Mappings' = Mappings /\ DOMAIN tables' = DOMAIN tables
<1> DEFINE t == call.table
           i == At
           f == call.flags
<1>1. /\ Mapping /\ call.level < 4 /\ i \in DOMAIN tables[t]
      /\ ShapeOK(lv) /\ CallOK /\ MappedOK /\ TestOK
      /\ UNCHANGED <<tlb, mapped, test>>
  BY Zenon DEF EnsurePresent, Steady, Here
<1>2. /\ t \in DOMAIN tables /\ lv[t] = 5 - call.level /\ Allowed(lv, t, f)
      /\ call.level \in 1 .. 4 /\ f \in Flags
  BY Zenon, <1>1, CallPlace DEF CallOK
<1>3. CASE tables[t][i].huge
  <2>1. tables' = tables /\ call' = Idle
    BY Zenon, <1>3 DEF EnsurePresent, Here, Return
  <2>2. call.pc = "map"
    BY Zenon, <1>1, <1>3, TestWalk DEF Mapping, Here
  <2>3. TestOK'
    BY Zenon, <1>1, <2>1, <2>2 DEF TestOK, Idle
  <2>4. ShapeOK(lv)' /\ MappedOK' /\ Mappings' = Mappings
    BY Zenon, <1>1, <2>1, TablesKept
  <2>5. ~ Mapping'
    BY Zenon, <2>1 DEF Mapping, Idle
  <2> QED
    BY Zenon, <2>1, <2>3, <2>4, <2>5 DEF Steady
<1>4. CASE ~ tables[t][i].huge
  <2>1. tables' = Put(t, i, Raised(tables[t][i], f)) /\ Descend(tables[t][i].to)
    BY Zenon, <1>4 DEF EnsurePresent, Here, Raised
  <2>2. t # pd /\ lv[t] > 1
    <3>1. tables[t][i].huge = (t = pd)
      BY Zenon, <1>1, <1>2 DEF ShapeOK, LevelsOK, EntryOK
    <3>2. t # pd
      BY Zenon, <1>4, <3>1
    <3>3. lv[t] > 1
      BY SMTT(20), <1>1, <1>2
    <3> QED
      BY Zenon, <3>2, <3>3
  <2>3. ShapeOK(lv)' /\ WalksKept
    BY Zenon, <1>1, <1>2, <2>1, <2>2, RaiseStep
  <2>4. Mappings' = Mappings /\ MappedOK'
    BY Zenon, <1>1, <2>3, KeptEffect
  <2>5. Grown(t, i, f, tables[t][i].to) /\ DOMAIN tables' = DOMAIN tables
    BY Zenon, <1>1, <1>2, <1>4, <2>1, RaiseIs
  <2>6. CallOK' /\ call'.pc = call.pc /\ call'.va = call.va
        /\ call'.flags = call.flags /\ call'.frame = call.frame
    BY ZenonT(40), <1>1, <2>1, <2>5, DescendOK
  <2>7. tables'[bootstrap_pt] = tables[bootstrap_pt]
    <3>1. bootstrap_pt \in DOMAIN tables \ {t}
      BY <1>1, <2>2, StaticLevels
    <3> QED
      BY SMTT(20), <1>2, <2>1, <3>1, PutIs
  <2>8. TestOK'
    BY Zenon, <1>1, <2>6, <2>7 DEF TestOK, Mapping
  <2> QED
    BY Zenon, <2>3, <2>4, <2>5, <2>6, <2>8 DEF Steady
<1> QED
  BY Zenon, <1>3, <1>4

\* ensure_table without a page.
LEMMA EnsureFailsStep ==
  ASSUME NEW lv, Steady(lv), EnsureFails
  PROVE  Steady(lv)' /\ Mappings' = Mappings
<1>1. /\ Mapping /\ call.level < 4 /\ At \notin DOMAIN Here
      /\ ShapeOK(lv) /\ MappedOK /\ TestOK
      /\ UNCHANGED <<tables, tlb, mapped, test>> /\ call' = Idle
  BY Zenon DEF EnsureFails, Steady, Return
<1>2. call.pc = "map"
  BY Zenon, <1>1, TestWalk DEF Mapping
<1>3. TestOK' /\ ~ Mapping'
  BY Zenon, <1>1, <1>2 DEF TestOK, Idle, Mapping
<1> QED
  BY Zenon, <1>1, <1>3, TablesKept DEF Steady

\* The last step of vmm_map_page.
LEMMA WritePTEStep ==
  ASSUME NEW lv, Steady(lv), WritePTE
  PROVE  /\ Steady(lv)' /\ DOMAIN tables' = DOMAIN tables
         /\ \/ Mappings' = Mappings
            \/ \E n : Map!Adds(Mappings, Mappings', n)
<1> DEFINE t == call.table
           i == At
           f == call.flags
<1>1. /\ Mapping /\ call.level = 4 /\ ShapeOK(lv) /\ CallOK /\ MappedOK /\ TestOK
      /\ test' = test
  BY Zenon DEF WritePTE, Steady
<1>2. PICK va \in Canonical : va = call.va /\ CallAt(va)
  BY Zenon, <1>1 DEF CallOK
<1>3. /\ t \in DOMAIN tables /\ lv[t] = 1 /\ Allowed(lv, t, f) /\ f \in Flags
  BY SMTT(20), <1>1, CallPlace DEF CallOK
<1>4. Slot(va, t, i)
  BY <1>1, <1>2 DEF CallAt, Slot, Reaches2, At
<1>5. CASE i \in DOMAIN tables[t]
  <2>1. UNCHANGED <<tables, tlb, mapped>> /\ call' = Idle
    BY Zenon, <1>5 DEF WritePTE, Vacant, Return
  <2>2. call.pc = "map"
    BY Zenon, <1>1, <1>5, TestWalk DEF Mapping, TestOK
  <2>3. TestOK' /\ ~ Mapping'
    BY Zenon, <1>1, <2>1, <2>2 DEF TestOK, Idle, Mapping
  <2> QED
    BY Zenon, <1>1, <2>1, <2>3, TablesKept DEF Steady
<1>6. CASE i \notin DOMAIN tables[t]
  <2> DEFINE new == Entry(call.frame, FALSE, f)
  <2>1. /\ tables' = Put(t, i, new) /\ invlpg(va) /\ mapped' = mapped \cup {va}
        /\ call' = IF call.pc = "testmap" THEN [pc |-> "use"] ELSE Idle
    BY Zenon, <1>2, <1>6 DEF WritePTE, Vacant, Return
  <2>2. /\ new.to = call.frame /\ new.huge = FALSE /\ new.w = f.w /\ new.u = FALSE
        /\ new.w \in BOOLEAN /\ new.nx \in BOOLEAN
        /\ DOMAIN new = {"to", "huge", "w", "u", "nx"}
    BY ZenonT(40), <1>3 DEF Entry, Flags
  <2> HIDE DEF new
  <2>3. /\ DOMAIN tables' = DOMAIN tables
        /\ DOMAIN tables'[t] = DOMAIN tables[t] \cup {i}
        /\ tables'[t][i] = new
        /\ \A j \in DOMAIN tables[t] \ {i} : tables'[t][j] = tables[t][j]
        /\ \A s \in DOMAIN tables \ {t} : tables'[s] = tables[s]
    <3>1. t \in DOMAIN tables /\ tables' = Put(t, i, new)
      BY Zenon, <1>3, <2>1
    <3> HIDE DEF t, i
    <3> QED
      BY SMTT(30), <3>1, PutIs
  <2>4. t # pd
    BY SMTT(20), <1>1, <1>3, StaticLevels
  <2>5. EntryOK(t, tables'[t][i]) /\ Allowed(lv, t, tables'[t][i])
    <3>1. EntryOK(t, new)
      BY Zenon, <2>2, <2>4 DEF EntryOK
    <3>2. Allowed(lv, t, new)
      BY Zenon, <1>3, <2>2 DEF Allowed
    <3> QED
      BY Zenon, <2>3, <3>1, <3>2
  <2>6. ShapeOK(lv)' /\ WalksBut(t, i)
    BY Zenon, <1>1, <1>3, <2>3, <2>5, LeafStep
  <2>7. i \in DOMAIN tables'[t]
    BY Zenon, <2>3
  <2>8. Map!Adds(Mappings, Mappings', Name(va)) /\ MappedOK'
    BY Zenon, <1>1, <1>4, <1>6, <2>1, <2>6, <2>7, MapEffect
  <2>9. ~ Mapping'
    BY Zenon, <2>1 DEF Mapping, Idle
  <2>10. ASSUME call.pc = "testmap" PROVE TestOK'
    <3>1. t = bootstrap_pt /\ i = 0 /\ va = test_virtual /\ call.frame = test[1] /\ Len(test) = 3
      BY Zenon, <1>1, <1>2, <2>10, TestWalk DEF TestOK
    <3>2. call'.pc = "use"
      BY Zenon, <2>1, <2>10
    <3> QED
      BY Zenon, <1>1, <2>1, <2>2, <2>3, <3>1, <3>2 DEF TestOK
  <2>11. ASSUME call.pc = "map" PROVE TestOK'
    BY Zenon, <1>1, <2>1, <2>11 DEF TestOK, Idle
  <2> QED
    BY Zenon, <1>1, <2>3, <2>6, <2>8, <2>9, <2>10, <2>11 DEF Steady, Mapping
<1> QED
  BY Zenon, <1>5, <1>6

\* vmm_unmap_page of a name that was mapped.
LEMMA UnmapStep ==
  ASSUME NEW lv, ShapeOK(lv), MappedOK, NEW va \in mapped, vmm_unmap_page(va)
  PROVE  /\ ShapeOK(lv)' /\ MappedOK' /\ DOMAIN tables' = DOMAIN tables
         /\ \E n \in DOMAIN Mappings \ DOMAIN Identity : Map!Adds(Mappings', Mappings, n)
<1> DEFINE t == e2(va).to
           i == va[4]
<1>1. /\ Small(va) /\ tables' = Drop(t, i) /\ invlpg(va) /\ mapped' = mapped \ {va}
      /\ va \in Canonical
  BY Zenon DEF vmm_unmap_page, MappedOK
<1>2. t \in DOMAIN tables /\ lv[t] = 1 /\ i \in DOMAIN tables[t]
  BY Zenon, <1>1, WalkLevels DEF ShapeOK, Small
<1>3. Slot(va, t, i)
  BY Zenon, <1>1 DEF Slot, Small
<1>4. /\ DOMAIN tables' = DOMAIN tables
      /\ DOMAIN tables'[t] = DOMAIN tables[t] \ {i}
      /\ \A j \in DOMAIN tables[t] \ {i} : tables'[t][j] = tables[t][j]
      /\ \A s \in DOMAIN tables \ {t} : tables'[s] = tables[s]
  BY <1>1, <1>2, DropIs
<1>5. PICK r : r = t
  OBVIOUS
<1>6. ShapeOK(lv)' /\ WalksBut(r, i)
  BY Zenon, <1>2, <1>4, <1>5, LeafStep
<1>7. /\ Map!Adds(Mappings', Mappings, Name(va))
      /\ Name(va) \in DOMAIN Mappings \ DOMAIN Identity
      /\ MappedOK'
  BY Zenon, <1>1, <1>2, <1>3, <1>4, <1>5, <1>6, UnmapEffect
<1> QED
  BY Zenon, <1>4, <1>6, <1>7

=============================================================================
