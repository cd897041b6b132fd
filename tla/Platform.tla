------------------------------ MODULE Platform ------------------------------
(***************************************************************************)
(* What decides where an interrupt goes: the segment descriptors of boot.S *)
(* and gdt.c, the task state segment, the interrupt descriptor table of    *)
(* interrupts.c, and the two 8259 interrupt controllers pic_remap programs.*)
(* The tables are the program's; how the processor and the controllers     *)
(* read them is external.                                                  *)
(***************************************************************************)
EXTENDS Integers, Sequences

CONSTANT Vectors         \* the interrupt vectors the model tells apart

VARIABLES gdt,           \* the table GDTR names, selector \div 8 as index
          task,          \* the TSS: is TR loaded, and RSP0
          idt,           \* the table IDTR names: vector -> gate
          pic            \* the two controllers

tables == <<gdt, task, idt, pic>>

SB_KERNEL_DATA_SELECTOR == 16
SB_KERNEL_CODE_SELECTOR == 24
SB_USER_CODE_SELECTOR == 35
SB_USER_DATA_SELECTOR == 43
SB_TSS_SELECTOR == 48
STACK_TOP == 600

\* Bit k of a byte.
Bit(n, k) == (n \div <<1, 2, 4, 8, 16, 32, 64, 128>>[k + 1]) % 2 = 1

----------------------------------------------------------------------------
(* Descriptors *)

\* The access byte and the flags nibble, as the processor reads them.
segment_descriptor(access, flags) ==
  [present |-> Bit(access, 7), dpl |-> (access \div 32) % 4,
   segment |-> Bit(access, 4), code |-> Bit(access, 3), long |-> Bit(flags, 1)]

\* A table that lacks the copy of the code descriptor at the boot selector.
MutOneCodeDescriptor ==
  <<segment_descriptor(154, 10), segment_descriptor(146, 12),
    segment_descriptor(250, 10), segment_descriptor(242, 12),
    segment_descriptor(137, 0)>>

\* boot.S: 0x08 32-bit code, 0x10 data, 0x18 64-bit code.
gdt64 == <<segment_descriptor(154, 12), segment_descriptor(146, 12),
           segment_descriptor(154, 2)>>

\* gdt.c: entries 1 to 6; entry 7 is the upper half of the TSS descriptor.
gdt_entries ==
  <<segment_descriptor(154, 10), segment_descriptor(146, 12),
    segment_descriptor(154, 10), segment_descriptor(250, 10),
    segment_descriptor(242, 12), segment_descriptor(137, 0)>>

Descriptor(sel) ==
  IF sel \div 8 \in DOMAIN gdt THEN gdt[sel \div 8] ELSE segment_descriptor(0, 0)

CodeOK(sel, cpl) == LET d == Descriptor(sel) IN
  d.present /\ d.segment /\ d.code /\ d.long /\ d.dpl = cpl /\ sel % 4 = cpl

\* In 64-bit mode ring 0 may have a null stack segment.
StackSegmentOK(sel, cpl) == LET d == Descriptor(sel) IN
  \/ cpl = 0 /\ sel = 0
  \/ d.present /\ d.segment /\ ~ d.code /\ d.dpl = cpl /\ sel % 4 = cpl

TaskOK(sel) == LET d == Descriptor(sel) IN d.present /\ ~ d.segment

----------------------------------------------------------------------------
(* Gates *)

\* The gates are trap gates: IF is left as it is.
MutTrapGate(dpl) == 143 + 32 * (dpl % 4)

type_attr(dpl) == 142 + 32 * (dpl % 4)                      \* 0x8E

Gate(stub, n, dpl) == [stub |-> stub, number |-> n, type |-> type_attr(dpl),
                       selector |-> SB_KERNEL_CODE_SELECTOR]

idt_set_gate(v, stub, dpl) == idt' = [idt EXCEPT ![v] = Gate(stub, v, dpl)]

interrupts_init ==
  idt' = [v \in Vectors |-> Gate("exc", IF v < 32 THEN v ELSE 0, 0)]

GateOK(v) ==
  v \in DOMAIN idt /\ Bit(idt[v].type, 7) /\ CodeOK(idt[v].selector, 0)
GateDPL(v) == (idt[v].type \div 32) % 4
IsInterruptGate(v) == idt[v].type % 16 = 14

----------------------------------------------------------------------------
(* The interrupt controllers (Intel 8259A) *)

\* As the firmware leaves them: vectors 8 and 0x70 up, nothing masked.
FirmwareChip(base) == [stage |-> 0, icw4 |-> FALSE, base |-> base, imr |-> 0,
                       isr |-> {}, auto |-> FALSE]

\* ICW1 starts initialisation; OCW2 0x20 ends the interrupt of highest priority.
Command(c, v) ==
  IF Bit(v, 4) THEN [c EXCEPT !.stage = 1, !.icw4 = Bit(v, 0), !.imr = 0, !.isr = {}]
  ELSE IF v = 32 /\ c.isr # {} THEN [c EXCEPT !.isr = {k \in @ : \E j \in @ : j < k}]
  ELSE c

\* ICW2, ICW3 and ICW4 follow ICW1; anything else is the mask.
Data(c, v) ==
  CASE c.stage = 0 -> [c EXCEPT !.imr = v]
    [] c.stage = 1 -> [c EXCEPT !.base = v, !.stage = 2]
    [] c.stage = 2 -> [c EXCEPT !.stage = IF c.icw4 THEN 3 ELSE 0]
    [] c.stage = 3 -> [c EXCEPT !.auto = Bit(v, 1), !.stage = 0]

WritePort(port, v) ==
  pic' = CASE port = 32  -> [pic EXCEPT !.master = Command(@, v)]
           [] port = 33  -> [pic EXCEPT !.master = Data(@, v)]
           [] port = 160 -> [pic EXCEPT !.slave = Command(@, v)]
           [] port = 161 -> [pic EXCEPT !.slave = Data(@, v)]
           [] OTHER      -> pic

Passes(c, k) == ~ Bit(c.imr, k) /\ \A j \in c.isr : k < j
Serve(c, k) == IF c.auto THEN c ELSE [c EXCEPT !.isr = @ \cup {k}]

\* The slave's lines come in through line 2 of the master.
LinePasses(line) ==
  IF line < 8 THEN Passes(pic.master, line)
  ELSE Passes(pic.slave, line - 8) /\ Passes(pic.master, 2)

LineVector(line) ==
  IF line < 8 THEN pic.master.base + line ELSE pic.slave.base + line - 8

Acknowledge(line) ==
  pic' = IF line < 8 THEN [pic EXCEPT !.master = Serve(@, line)]
         ELSE [master |-> Serve(pic.master, 2), slave |-> Serve(pic.slave, line - 8)]

----------------------------------------------------------------------------
\* When kmain is called: boot.S's table, no TSS, no IDT.
TablesInit ==
  /\ gdt = gdt64
  /\ task = [loaded |-> FALSE, rsp0 |-> 0]
  /\ idt = <<>>
  /\ pic = [master |-> FirmwareChip(8), slave |-> FirmwareChip(112)]

=============================================================================
