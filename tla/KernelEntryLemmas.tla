---------------------------- MODULE KernelEntryLemmas ----------------------------
(***************************************************************************)
(* Where control can go from the first instruction of kmain on, for every  *)
(* user program, every fault it can raise, every interrupt line and every  *)
(* interleaving of them with the kernel's instructions.                    *)
(***************************************************************************)
EXTENDS KernelEntry, TLAPS

-----------------------------------------------------------------------------
(* The inductive invariant *)

\* kmain's instructions, by number: 1 to 25 end with the sti of timer_init,
\* 26 to 36 are the way to user mode, 37 is the hlt loop.
Enabled == {26, 27, 28, 37}

Chip == [stage : 0 .. 3, icw4 : BOOLEAN, base : Int, imr : Int, isr : SUBSET Int,
         auto : BOOLEAN]

\* The tables when kmain is about to execute instruction i.
GateAt(i, v) ==
  IF v = 32 /\ i > 23 THEN Gate("irq", 32, 0)
  ELSE IF v = 128 /\ i > 4 THEN Gate("int80", 128, 3)
  ELSE Gate("exc", IF v < 32 THEN v ELSE 0, 0)

ChipAt(i, c) ==
  /\ i \in 11 .. 12 => c.stage = 1 /\ c.icw4
  /\ i \in 13 .. 14 => c.stage = 2 /\ c.icw4
  /\ i \in 15 .. 16 => c.stage = 3
  /\ i > 16 => c.stage = 0 /\ ~ c.auto
  /\ i > 12 => c.base = 32
  /\ i > 18 => c.imr = 254
  /\ i > 10 => c.isr \subseteq {0}

MasterAt(i) == ChipAt(i, pic.master)

TablesAt(i) ==
  /\ i > 1 => idt = [v \in Vectors |-> GateAt(i, v)]
  /\ i > 2 => gdt = gdt_entries /\ task.rsp0 = STACK_TOP
  /\ i > 3 => task.loaded
  /\ MasterAt(i)

\* From the software interrupt in timer_init on they stay as they are.
Ready == TablesAt(24)

\* The frame arch_enter_user builds on the user stack, as far as it has come.
UserFrame(i) ==
  /\ Len(stack) = CASE i < 33 -> i - 30 [] i \in 33 .. 34 -> 3 [] OTHER -> i - 31
  /\ i > 30 => stack[1] = SB_USER_DATA_SELECTOR
  /\ i > 33 => stack[3] = IF_BIT + 2
  /\ i > 34 => stack[4] = SB_USER_CODE_SELECTOR

KmainInv ==
  prog = "kmain" =>
    /\ ip \in 1 .. 37 /\ TablesAt(ip)
    /\ cs = SB_KERNEL_CODE_SELECTOR /\ ss = SB_KERNEL_DATA_SELECTOR
    /\ iflag <=> ip \in Enabled
    /\ ip \in 27 .. 36 => cr3 = "process"
    /\ ip \notin 30 .. 36 => stack = <<>> /\ area = "kernel"
    /\ ip \in 30 .. 36 => area = "user" /\ UserFrame(ip)
    /\ ip \in 31 .. 36 => nxe

UserInv ==
  prog = "user" =>
    /\ Ready /\ iflag /\ stack = <<>>
    /\ cs = SB_USER_CODE_SELECTOR /\ ss = SB_USER_DATA_SELECTOR

\* What a handler was entered from: user mode, or kmain between two of its
\* instructions.
FromUser ==
  /\ entered.cs = SB_USER_CODE_SELECTOR
  /\ entered.stack[1] = SB_USER_DATA_SELECTOR
  /\ entered.flags = IF_BIT + 2

FromKmain ==
  /\ prog = "irq"
  /\ entered.cs = SB_KERNEL_CODE_SELECTOR
  /\ entered.stack[1] = SB_KERNEL_DATA_SELECTOR
  /\ entered.rip \in Enabled \cup {25}
  /\ entered.flags = IF entered.rip = 25 THEN 2 ELSE IF_BIT + 2
  /\ entered.rip \in {27, 28} => cr3 = "process"

HandlerInv ==
  prog \in {"irq", "int80", "exc"} =>
    /\ Ready /\ ~ iflag /\ area = "kernel" /\ cs = SB_KERNEL_CODE_SELECTOR
    /\ entered.stack \in Seq(Int) /\ Len(entered.stack) = 5
    /\ entered.stack[5] = entered.rip
    /\ entered.stack[4] = entered.cs
    /\ entered.stack[3] = entered.flags
    /\ FromUser \/ FromKmain

\* The stack holds the frame, and above it the first n registers of an order.
SavedOn(s, e, order, n) ==
  /\ Len(s) = 5 + n
  /\ \A j \in 1 .. 5 : s[j] = e.stack[j]
  /\ \A j \in 1 .. n : s[5 + j] = e.regs[order[j]]

Saved(order, n) == SavedOn(stack, entered, order, n)

IrqOrder == <<"rax", "rcx", "rdx", "rsi", "rdi", "r8", "r9", "r10", "r11">>
Int80Order == <<"r11", "r10", "r9", "r8", "rcx", "rdx", "rsi", "rdi", "rax">>

IrqDepth(i) == CASE i <= 10 -> i - 1 [] i \in 11 .. 15 -> 9 [] i \in 16 .. 24 -> 24 - i
                 [] OTHER -> 0

IrqInv ==
  prog = "irq" =>
    /\ ip \in 1 .. 25 /\ entered.vector = 32
    /\ Saved(IrqOrder, IrqDepth(ip))
    /\ ip <= 10 => regs = entered.regs
    /\ ip \in 15 .. 24 =>
         \A j \in 1 .. 9 : j > IrqDepth(ip) => regs[IrqOrder[j]] = entered.regs[IrqOrder[j]]
    /\ ip = 25 => regs = Output(entered.regs, 1016, 82)

Int80Depth(i) == CASE i <= 10 -> i - 1 [] i \in 11 .. 17 -> 9 [] OTHER -> 0

Int80Inv ==
  prog = "int80" =>
    /\ ip \in 1 .. 18 /\ entered.vector = 128
    /\ Saved(Int80Order, Int80Depth(ip))
    /\ ip <= 10 => regs = entered.regs

\* The stub of a vector pushes one or two words, then the common part reports.
StubPushes(v) == IF HasErrorStub(v) THEN 1 ELSE 2
ErrorOf(v) == IF PushesError(v) THEN FAULT_ERROR ELSE 0

FaultEntered ==
  /\ entered.cs = SB_USER_CODE_SELECTOR
  /\ entered.vector \in FaultVectors \cup {13} /\ entered.stub = entered.vector

Words == StubPushes(entered.vector)

ExcState ==
  /\ ip \in 1 .. Words + 8
  /\ Len(stack) = IF ip <= Words THEN 6 - Words + ip ELSE 7
  /\ \A j \in 1 .. 5 : stack[j] = entered.stack[j]
  /\ ip >= Words => stack[6] = ErrorOf(entered.vector)
  /\ ip > Words => stack[7] = entered.vector
  /\ ip > Words + 3 => regs["rdi"] = entered.vector
  /\ ip > Words + 4 => regs["rsi"] = ErrorOf(entered.vector)
  /\ ip > Words + 5 => regs["rdx"] = entered.rip
  /\ ip > Words + 6 => regs["rcx"] = entered.cs
  /\ ip > Words + 7 => regs["r8"] = entered.flags

ExcInv == prog = "exc" => FaultEntered /\ ExcState

PanicInv == prog = "panic" => FaultEntered /\ PanicReportsFault
ResetInv == prog = "reset" => ~ StackUsable
SoftInv == (entered.soft /\ entered.cs = SB_USER_CODE_SELECTOR) => entered.vector = 128

TypeInv ==
  /\ prog \in {"kmain", "user", "irq", "int80", "exc", "panic", "reset"}
  /\ ip \in Int /\ ticks \in Int /\ iflag \in BOOLEAN
  /\ regs \in [Regs -> Int] /\ entered.regs \in [Regs -> Int]
  /\ stack \in Seq(Int)
  /\ pic \in [master : Chip, slave : Chip]
  /\ task \in [loaded : BOOLEAN, rsp0 : Int]

IInv == /\ TypeInv /\ SoftInv /\ PanicInv /\ ResetInv
        /\ KmainInv /\ UserInv /\ HandlerInv /\ IrqInv /\ Int80Inv /\ ExcInv

-----------------------------------------------------------------------------
(* The start, and standing still *)

\* kmain starts with interrupts off and an empty stack.
LEMMA InitInv == Init => IInv
<1> SUFFICES ASSUME Init PROVE IInv
  OBVIOUS
<1>1. TypeInv
  <2>1. iflag \in BOOLEAN
    BY Zenon DEF Init
  <2>2. stack \in Seq(Int)
    BY DEF Init
  <2>3. regs \in [Regs -> Int] /\ entered.regs = regs
    BY SMTT(30) DEF Init, CLOBBERED
  <2>4. pic \in [master : Chip, slave : Chip] /\ task \in [loaded : BOOLEAN, rsp0 : Int]
    BY SMTT(30) DEF Init, TablesInit, Chip, FirmwareChip
  <2> QED
    BY <2>1, <2>2, <2>3, <2>4 DEF TypeInv, Init
<1>2. KmainInv
  <2>1. TablesAt(1)
    BY DEF TablesAt, MasterAt, ChipAt
  <2>2. ~ (1 \in Enabled) /\ ~ iflag
    BY DEF Enabled, Init
  <2> QED
    BY <2>1, <2>2 DEF KmainInv, Init
<1> QED
  BY Zenon, <1>1, <1>2 DEF IInv, SoftInv, PanicInv, ResetInv, UserInv, HandlerInv, IrqInv, Int80Inv,
     ExcInv, Init

\* A step that changes nothing.
LEMMA Stutter ==
  ASSUME IInv, UNCHANGED vars
  PROVE  IInv'
<1>1. UNCHANGED <<prog, ip, regs, stack, area, iflag, cs, ss, cr3, nxe, ticks, entered,
                  dispatched, pic, task, idt, gdt>>
  BY Zenon DEF vars, cpu, start, tables
<1>2. TypeInv' /\ SoftInv' /\ PanicInv' /\ ResetInv'
  BY <1>1 DEF IInv, TypeInv, SoftInv, PanicInv, PanicReportsFault, FaultEntered, ResetInv,
     StackUsable
<1>3. KmainInv' /\ UserInv'
  BY SMTT(30), <1>1 DEF IInv, KmainInv, UserInv, Ready, TablesAt, MasterAt, UserFrame
<1>4. HandlerInv'
  BY Zenon, <1>1 DEF IInv, HandlerInv, Ready, TablesAt, MasterAt, FromUser, FromKmain
<1>5. IrqInv' /\ Int80Inv'
  BY SMTT(30), <1>1 DEF IInv, IrqInv, Int80Inv, Saved
<1>6. ExcInv'
  BY Zenon, <1>1 DEF IInv, ExcInv, ExcState, Words, FaultEntered
<1> QED
  BY Zenon, <1>2, <1>3, <1>4, <1>5, <1>6 DEF IInv

-----------------------------------------------------------------------------
(* The code, instruction by instruction *)

\* irq.S.
LEMMA IrqCode ==
  /\ sb_timer_irq_stub[1] = Push("rax")
  /\ sb_timer_irq_stub[2] = Push("rcx")
  /\ sb_timer_irq_stub[3] = Push("rdx")
  /\ sb_timer_irq_stub[4] = Push("rsi")
  /\ sb_timer_irq_stub[5] = Push("rdi")
  /\ sb_timer_irq_stub[6] = Push("r8")
  /\ sb_timer_irq_stub[7] = Push("r9")
  /\ sb_timer_irq_stub[8] = Push("r10")
  /\ sb_timer_irq_stub[9] = Push("r11")
  /\ sb_timer_irq_stub[10] = OutB(1016, 69)
  /\ sb_timer_irq_stub[11] = Call("sb_timer_tick")
  /\ sb_timer_irq_stub[12] = OutB(1016, 84)
  /\ sb_timer_irq_stub[13] = OutB(32, 32)
  /\ sb_timer_irq_stub[14] = OutB(1016, 79)
  /\ sb_timer_irq_stub[15] = Pop("r11")
  /\ sb_timer_irq_stub[16] = Pop("r10")
  /\ sb_timer_irq_stub[17] = Pop("r9")
  /\ sb_timer_irq_stub[18] = Pop("r8")
  /\ sb_timer_irq_stub[19] = Pop("rdi")
  /\ sb_timer_irq_stub[20] = Pop("rsi")
  /\ sb_timer_irq_stub[21] = Pop("rdx")
  /\ sb_timer_irq_stub[22] = Pop("rcx")
  /\ sb_timer_irq_stub[23] = Pop("rax")
  /\ sb_timer_irq_stub[24] = OutB(1016, 82)
  /\ sb_timer_irq_stub[25] = Do("iretq")
BY DEF sb_timer_irq_stub, Pushes, Pops, RestoreRegs, SendEOI, serial_mark

\* syscall.S.
LEMMA Int80Code ==
  /\ sb_syscall_int80_stub[1] = Push("r11")
  /\ sb_syscall_int80_stub[2] = Push("r10")
  /\ sb_syscall_int80_stub[3] = Push("r9")
  /\ sb_syscall_int80_stub[4] = Push("r8")
  /\ sb_syscall_int80_stub[5] = Push("rcx")
  /\ sb_syscall_int80_stub[6] = Push("rdx")
  /\ sb_syscall_int80_stub[7] = Push("rsi")
  /\ sb_syscall_int80_stub[8] = Push("rdi")
  /\ sb_syscall_int80_stub[9] = Push("rax")
  /\ sb_syscall_int80_stub[10] = Load(64, "rdi")
  /\ sb_syscall_int80_stub[11] = Load(56, "rsi")
  /\ sb_syscall_int80_stub[12] = Load(48, "rdx")
  /\ sb_syscall_int80_stub[13] = Load(40, "rcx")
  /\ sb_syscall_int80_stub[14] = Load(8, "r8")
  /\ sb_syscall_int80_stub[15] = Load(24, "r9")
  /\ sb_syscall_int80_stub[16] = Call("sb_syscall_dispatch_entry")
  /\ sb_syscall_int80_stub[17] = AddRsp(72)
  /\ sb_syscall_int80_stub[18] = Do("iretq")
BY DEF sb_syscall_int80_stub, Pushes, DropSaved

-----------------------------------------------------------------------------
(* The stack *)

Pushed(t, s, v) ==
  /\ t \in Seq(Int) /\ Len(t) = Len(s) + 1
  /\ \A j \in 1 .. Len(s) : t[j] = s[j]
  /\ t[Len(s) + 1] = v

DroppedOff(t, s, n) ==
  /\ t \in Seq(Int) /\ Len(t) = Len(s) - n
  /\ \A j \in 1 .. Len(s) - n : t[j] = s[j]

Frame(t, a, b, c, d, e) ==
  /\ t \in Seq(Int) /\ Len(t) = 5
  /\ t[1] = a /\ t[2] = b /\ t[3] = c /\ t[4] = d /\ t[5] = e

\* What a push leaves.
LEMMA PushStack ==
  ASSUME NEW s \in Seq(Int), NEW v \in Int
  PROVE  Pushed(Append(s, v), s, v)
BY DEF Pushed

\* What a pop, an add to rsp and iretq leave.
LEMMA DropStack ==
  ASSUME NEW s \in Seq(Int), NEW n \in 0 .. Len(s)
  PROVE  DroppedOff(SubSeq(s, 1, Len(s) - n), s, n)
BY DEF DroppedOff

\* The five words the processor pushes.
LEMMA FrameStack ==
  ASSUME NEW a \in Int, NEW b \in Int, NEW c \in Int, NEW d \in Int, NEW e \in Int
  PROVE  Frame(<<>> \o <<a, b, c, d, e>>, a, b, c, d, e)
BY DEF Frame

\* The words of a stack are numbers.
LEMMA WordType ==
  ASSUME NEW s \in Seq(Int), NEW j \in 1 .. Len(s)
  PROVE  s[j] \in Int
OBVIOUS

\* Stacks with the same words are the same.
LEMMA SameStack ==
  ASSUME NEW s \in Seq(Int), NEW t \in Seq(Int), Len(s) = Len(t),
         \A j \in 1 .. Len(s) : s[j] = t[j]
  PROVE  s = t
BY SMTT(30)

\* A stack without words is the empty one.
LEMMA EmptyStack ==
  ASSUME NEW s \in Seq(Int), Len(s) = 0
  PROVE  s = <<>>
OBVIOUS

-----------------------------------------------------------------------------
(* The tables *)

\* The selectors the code uses are valid in the table of gdt.c.
LEMMA Selectors ==
  ASSUME gdt = gdt_entries
  PROVE  /\ CodeOK(24, 0) /\ CodeOK(35, 3) /\ TaskOK(48)
         /\ StackSegmentOK(16, 0) /\ StackSegmentOK(43, 3)
<1>1. DOMAIN gdt = 1 .. 6 /\ 24 \div 8 = 3 /\ 35 \div 8 = 4 /\ 48 \div 8 = 6
      /\ 16 \div 8 = 2 /\ 43 \div 8 = 5
  BY DEF gdt_entries
<1>2. /\ gdt[2] = segment_descriptor(146, 12) /\ gdt[3] = segment_descriptor(154, 10)
      /\ gdt[4] = segment_descriptor(250, 10) /\ gdt[5] = segment_descriptor(242, 12)
      /\ gdt[6] = segment_descriptor(137, 0)
  BY Zenon DEF gdt_entries
<1>3. /\ Descriptor(16) = segment_descriptor(146, 12)
      /\ Descriptor(24) = segment_descriptor(154, 10)
      /\ Descriptor(35) = segment_descriptor(250, 10)
      /\ Descriptor(43) = segment_descriptor(242, 12)
      /\ Descriptor(48) = segment_descriptor(137, 0)
  BY <1>1, <1>2 DEF Descriptor
<1>4. /\ Bit(146, 7) /\ Bit(146, 4) /\ ~ Bit(146, 3) /\ (146 \div 32) % 4 = 0
      /\ Bit(154, 7) /\ Bit(154, 4) /\ Bit(154, 3) /\ (154 \div 32) % 4 = 0
      /\ Bit(250, 7) /\ Bit(250, 4) /\ Bit(250, 3) /\ (250 \div 32) % 4 = 3
      /\ Bit(242, 7) /\ Bit(242, 4) /\ ~ Bit(242, 3) /\ (242 \div 32) % 4 = 3
      /\ Bit(137, 7) /\ ~ Bit(137, 4) /\ Bit(10, 1)
  BY DEF Bit
<1>5. 24 % 4 = 0 /\ 35 % 4 = 3 /\ 16 % 4 = 0 /\ 43 % 4 = 3
  OBVIOUS
<1>6. CodeOK(24, 0) /\ CodeOK(35, 3)
  BY <1>3, <1>4, <1>5 DEF CodeOK, segment_descriptor
<1>7. StackSegmentOK(16, 0) /\ StackSegmentOK(43, 3)
  BY <1>3, <1>4, <1>5 DEF StackSegmentOK, segment_descriptor
<1>8. TaskOK(48)
  BY <1>3, <1>4 DEF TaskOK, segment_descriptor
<1> QED
  BY Zenon, <1>6, <1>7, <1>8

\* Every gate is an interrupt gate into the kernel; only int 0x80 is open to
\* user mode.
LEMMA Gates ==
  ASSUME Ready, NEW v \in Vectors
  PROVE  /\ idt[v] = GateAt(24, v) /\ GateOK(v) /\ IsInterruptGate(v)
         /\ GateDPL(v) = IF v = 128 THEN 3 ELSE 0
         /\ idt[v].selector = SB_KERNEL_CODE_SELECTOR
<1>1. /\ DOMAIN idt = Vectors /\ idt[v] = GateAt(24, v)
      /\ gdt = gdt_entries
  BY DEF Ready, TablesAt
<1>2. idt[v].selector = 24 /\ idt[v].type = IF v = 128 THEN 238 ELSE 142
  BY <1>1 DEF GateAt, Gate, type_attr, SB_KERNEL_CODE_SELECTOR
<1>3. GateOK(v)
  BY <1>1, <1>2, Selectors DEF GateOK, Bit
<1>4. IsInterruptGate(v) /\ GateDPL(v) = IF v = 128 THEN 3 ELSE 0
  BY <1>2 DEF IsInterruptGate, GateDPL
<1>5. idt[v].selector = SB_KERNEL_CODE_SELECTOR
  BY Zenon, <1>2 DEF SB_KERNEL_CODE_SELECTOR
<1> QED
  BY Zenon, <1>1, <1>3, <1>4, <1>5

\* pic_remap leaves line 0 alone unmasked, and it comes in at vector 32.
LEMMA OnlyTimer ==
  ASSUME TypeInv, MasterAt(24), NEW line \in Lines, LinePasses(line), Acknowledge(line)
  PROVE  /\ line = 0 /\ LineVector(line) = 32
         /\ MasterAt(24)' /\ pic' \in [master : Chip, slave : Chip]
<1>1. /\ pic.master.imr = 254 /\ pic.master.base = 32 /\ ~ pic.master.auto
      /\ pic.master.stage = 0 /\ pic.master.isr \subseteq {0}
  BY DEF MasterAt, ChipAt
<1>2. \A k \in 1 .. 7 : ~ Passes(pic.master, k)
  BY <1>1 DEF Passes, Bit
<1>3. line = 0
  BY <1>2, LinesAssumption DEF LinePasses
<1>4. LineVector(line) = 32
  BY <1>1, <1>3 DEF LineVector
<1>5. pic' = [pic EXCEPT !.master = Serve(pic.master, 0)]
  BY <1>3 DEF Acknowledge
<1>6. Serve(pic.master, 0) = [pic.master EXCEPT !.isr = pic.master.isr \cup {0}]
  BY Zenon, <1>1 DEF Serve
<1>7. pic.master \in Chip /\ pic.slave \in Chip /\ pic = [master |-> pic.master, slave |-> pic.slave]
  BY Zenon DEF TypeInv
<1>8. pic'.master = [pic.master EXCEPT !.isr = pic.master.isr \cup {0}] /\ pic'.slave = pic.slave
  BY Zenon, <1>5, <1>6, <1>7
<1>9. pic' \in [master : Chip, slave : Chip]
  <2>1. pic'.master \in Chip
    BY <1>7, <1>8 DEF Chip
  <2> QED
    BY Zenon, <2>1, <1>5, <1>6, <1>7, <1>8
<1>10. MasterAt(24)'
  BY <1>1, <1>7, <1>8 DEF MasterAt, ChipAt, Chip
<1> QED
  BY Zenon, <1>3, <1>4, <1>9, <1>10

\* The tables stay ready while nobody writes them.
LEMMA ReadyStays ==
  ASSUME Ready, UNCHANGED tables
  PROVE  Ready'
BY Zenon DEF Ready, TablesAt, MasterAt, tables

\* They are ready from the gate of the timer on.
LEMMA ReadyAt ==
  ASSUME NEW i \in 24 .. 37, TablesAt(i)
  PROVE  Ready
<1>1. \A v \in Vectors : GateAt(i, v) = GateAt(24, v)
  BY DEF GateAt
<1>2. MasterAt(24)
  BY DEF TablesAt, MasterAt, ChipAt
<1> QED
  BY <1>1, <1>2 DEF Ready, TablesAt

\* And so they are at each instruction of kmain behind it.
LEMMA ReadyOn ==
  ASSUME Ready, UNCHANGED tables, ip' \in 24 .. 37
  PROVE  (TablesAt(ip))'
<1>1. Ready'
  BY Zenon, ReadyStays
<1>2. \A v \in Vectors : GateAt(ip', v) = GateAt(24, v)
  BY DEF GateAt
<1>3. (MasterAt(ip))'
  BY <1>1 DEF Ready, TablesAt, MasterAt, ChipAt
<1> QED
  BY <1>1, <1>2, <1>3 DEF Ready, TablesAt

-----------------------------------------------------------------------------
(* One instruction *)

(* What each instruction does: of the alternatives of KernelCode only its own
   is possible. *)

\* A push of a register.
LEMMA OpPush ==
  ASSUME KernelCode, NEW r, Instr = Push(r)
  PROVE  DoPush(regs[r])
BY Zenon DEF KernelCode, DoStack, DoRegs, DoTables, DoStart, DoCall, DoInt, DoIretq, Push

\* A push of a constant.
LEMMA OpPushImm ==
  ASSUME KernelCode, NEW n, Instr = PushImm(n)
  PROVE  DoPush(n)
BY Zenon DEF KernelCode, DoStack, DoRegs, DoTables, DoStart, DoCall, DoInt, DoIretq, PushImm

\* A load from the stack.
LEMMA OpLoad ==
  ASSUME KernelCode, NEW n, NEW r, Instr = Load(n, r)
  PROVE  /\ regs' = [regs EXCEPT ![r] = FromTop(n \div 8)]
         /\ UNCHANGED <<stack, iflag>> /\ Keep
BY Zenon DEF KernelCode, DoStack, DoRegs, DoTables, DoStart, DoCall, DoInt, DoIretq, Load

\* An out.
LEMMA OpOut ==
  ASSUME KernelCode, NEW port, NEW ch, Instr = OutB(port, ch)
  PROVE  /\ regs' = Output(regs, port, ch) /\ WritePort(port, ch)
         /\ UNCHANGED <<stack, iflag, start, ticks, gdt, task, idt>> /\ Step
BY Zenon DEF KernelCode, DoStack, DoRegs, DoTables, DoStart, DoCall, DoInt, DoIretq, OutB

\* A call into C.
LEMMA OpCall ==
  ASSUME KernelCode, NEW f, Instr = Call(f)
  PROVE  /\ dispatched' = [fn |-> f, regs |-> regs]
         /\ UNCHANGED <<stack, area, iflag, cs, ss, start, entered, tables>>
         /\ \/ /\ f = "sb_timer_tick"
               /\ ticks' = (ticks + 1) % TICK_WRAP
               /\ regs' = AfterC(CLOBBERED)
               /\ ip' = ip + 1 /\ UNCHANGED prog
            \/ /\ f = "sb_syscall_dispatch_entry"
               /\ \E r \in Results(regs["rdi"]) : regs' = AfterC(r)
               /\ ip' = ip + 1 /\ UNCHANGED <<prog, ticks>>
            \/ /\ f = "sb_panic_from_exception"
               /\ prog' = "panic" /\ UNCHANGED <<ip, regs, ticks>>
BY Zenon DEF KernelCode, DoStack, DoRegs, DoTables, DoStart, DoCall, DoInt, DoIretq, Call

\* iretq.
LEMMA OpIretq ==
  ASSUME KernelCode, Instr = Do("iretq")
  PROVE  DoIretq
BY Zenon DEF KernelCode, DoStack, DoRegs, DoTables, DoStart, DoCall, DoInt, DoIretq, Do

\* The instructions without operands.
LEMMA OpDo ==
  ASSUME KernelCode, NEW o, Instr = Do(o)
  PROVE  /\ o = "cli" => iflag' = FALSE /\ UNCHANGED <<regs, stack>> /\ Keep
         /\ o = "sti" => iflag' = TRUE /\ UNCHANGED <<regs, stack>> /\ Keep
         /\ o = "pushf" => DoPush(Flags)
         /\ o = "or_if" => /\ stack' = Append(Dropped(1), IF_BIT + 2)
                           /\ UNCHANGED <<regs, iflag>> /\ Keep
         /\ o = "set_rsp" =>
              /\ stack' = <<>> /\ area' = "user" /\ ip' = ip + 1
              /\ UNCHANGED <<prog, regs, iflag, cs, ss, start, ticks, entered, dispatched,
                             tables>>
         /\ o = "arguments" =>
              /\ regs' = [regs EXCEPT !["rdi"] = USER_ENTRY, !["rsi"] = USER_STACK]
              /\ UNCHANGED <<stack, iflag>> /\ Keep
BY Zenon DEF KernelCode, DoStack, DoRegs, DoTables, DoStart, DoCall, DoInt, DoIretq, Do

-----------------------------------------------------------------------------
(* What a port write and a register write leave *)

\* Replacing the low bits of a number leaves a number.
LEMMA LowType ==
  ASSUME NEW v, NEW m, NEW x, v \in Int, m \in Nat \ {0}, x \in Int
  PROVE  WithLow(v, m, x) \in Int
BY DEF WithLow

\* A mark on the serial port leaves numbers in the registers.
LEMMA OutputType ==
  ASSUME NEW f \in [Regs -> Int], NEW port \in Int, NEW ch \in Int
  PROVE  Output(f, port, ch) \in [Regs -> Int]
<1> DEFINE a == WithLow(f["rdx"], 65536, port)
           g == [f EXCEPT !["rdx"] = a]
           b == WithLow(g["rax"], 256, ch)
<1>1. "rdx" \in Regs /\ "rax" \in Regs
  BY Zenon DEF Regs
<1>2. f["rdx"] \in Int
  BY Zenon, <1>1
<1>3. a \in Int
  <2>1. 65536 \in Nat \ {0}
    BY SMT
  <2> QED
    BY <1>2, <2>1, LowType, SMT
<1> HIDE DEF a
<1>4. g \in [Regs -> Int]
  BY <1>1, <1>3, SMT
<1> HIDE DEF g
<1>5. g["rax"] \in Int
  BY Zenon, <1>1, <1>4
<1>6. b \in Int
  <2>1. 256 \in Nat \ {0}
    BY SMT
  <2> QED
    BY <1>5, <2>1, LowType, SMT
<1> HIDE DEF b
<1>7. [g EXCEPT !["rax"] = b] \in [Regs -> Int]
  BY Zenon, <1>1, <1>4, <1>6
<1>8. Output(f, port, ch) = [g EXCEPT !["rax"] = b]
  BY SMT DEF Output, a, b, g
<1> QED
  BY Zenon, <1>7, <1>8

\* A word written to a port leaves the controllers well formed.
LEMMA PortType ==
  ASSUME TypeInv, NEW port \in Int, NEW ch \in Int, WritePort(port, ch)
  PROVE  pic' \in [master : Chip, slave : Chip]
<1>1. pic.master \in Chip /\ pic.slave \in Chip
  BY Zenon DEF TypeInv
<1>2. \A c \in Chip : Command(c, ch) \in Chip
  <2> SUFFICES ASSUME NEW c \in Chip PROVE Command(c, ch) \in Chip
    OBVIOUS
  <2>1. [c EXCEPT !.stage = 1, !.icw4 = Bit(ch, 0), !.imr = 0, !.isr = {}] \in Chip
    <3> DEFINE c1 == [c EXCEPT !.stage = 1]
               c2 == [c1 EXCEPT !.icw4 = Bit(ch, 0)]
               c3 == [c2 EXCEPT !.imr = 0]
               c4 == [c3 EXCEPT !.isr = {}]
    <3>1. Bit(ch, 0) \in BOOLEAN
      BY Zenon DEF Bit
    <3>2. c1 \in Chip
      BY DEF Chip
    <3> HIDE DEF c1
    <3>3. c2 \in Chip
      BY Zenon, <3>1, <3>2 DEF Chip
    <3> HIDE DEF c2
    <3>4. c3 \in Chip
      BY <3>3 DEF Chip
    <3> HIDE DEF c3
    <3>5. c4 \in Chip
      BY Zenon, <3>4 DEF Chip
    <3>6. [c EXCEPT !.stage = 1, !.icw4 = Bit(ch, 0), !.imr = 0, !.isr = {}] = c4
      BY Zenon DEF c1, c2, c3
    <3> QED
      BY Zenon, <3>5, <3>6
  <2>2. {k \in c.isr : \E j \in c.isr : j < k} \in SUBSET Int
    BY Zenon DEF Chip
  <2>3. [c EXCEPT !.isr = {k \in c.isr : \E j \in c.isr : j < k}] \in Chip
    BY Zenon, <2>2 DEF Chip
  <2> QED
    BY Zenon, <2>1, <2>3 DEF Command
<1>3. \A c \in Chip : Data(c, ch) \in Chip
  <2> SUFFICES ASSUME NEW c \in Chip PROVE Data(c, ch) \in Chip
    OBVIOUS
  <2>1. c.stage \in 0 .. 3 /\ Bit(ch, 1) \in BOOLEAN
    BY Zenon DEF Chip, Bit
  <2>2. /\ [c EXCEPT !.imr = ch] \in Chip
        /\ [c EXCEPT !.base = ch, !.stage = 2] \in Chip
        /\ [c EXCEPT !.stage = IF c.icw4 THEN 3 ELSE 0] \in Chip
        /\ [c EXCEPT !.auto = Bit(ch, 1), !.stage = 0] \in Chip
    <3>1. \A d \in Chip, s \in 0 .. 3 : [d EXCEPT !.stage = s] \in Chip
      BY Zenon DEF Chip
    <3>2. [c EXCEPT !.imr = ch] \in Chip
      BY Zenon DEF Chip
    <3>3. [c EXCEPT !.base = ch] \in Chip /\ [c EXCEPT !.auto = Bit(ch, 1)] \in Chip
      BY Zenon, <2>1 DEF Chip
    <3>4. [c EXCEPT !.stage = IF c.icw4 THEN 3 ELSE 0] \in Chip
      BY DEF Chip
    <3>5. 0 \in 0 .. 3 /\ 2 \in 0 .. 3
      OBVIOUS
    <3> QED
      BY <3>1, <3>2, <3>3, <3>4, <3>5, Zenon
  <2>3. c.stage = 0 \/ c.stage = 1 \/ c.stage = 2 \/ c.stage = 3
    BY <2>1
  <2> QED
    BY Zenon, <2>2, <2>3 DEF Data
<1>4. /\ [pic EXCEPT !.master = Command(pic.master, ch)] \in [master : Chip, slave : Chip]
      /\ [pic EXCEPT !.master = Data(pic.master, ch)] \in [master : Chip, slave : Chip]
      /\ [pic EXCEPT !.slave = Command(pic.slave, ch)] \in [master : Chip, slave : Chip]
      /\ [pic EXCEPT !.slave = Data(pic.slave, ch)] \in [master : Chip, slave : Chip]
  BY Zenon, <1>1, <1>2, <1>3 DEF TypeInv
<1> QED
  BY Zenon, <1>4 DEF WritePort, TypeInv

\* What a write does to the master.
LEMMA PortMaster ==
  ASSUME TypeInv, NEW port \in Int, NEW ch \in Int, WritePort(port, ch)
  PROVE  /\ port = 32 => pic'.master = Command(pic.master, ch)
         /\ port = 33 => pic'.master = Data(pic.master, ch)
         /\ port \notin {32, 33} => pic'.master = pic.master
<1>1. pic = [master |-> pic.master, slave |-> pic.slave]
  BY Zenon DEF TypeInv
<1> QED
  BY <1>1 DEF WritePort

-----------------------------------------------------------------------------
(* In the handlers *)

\* What the invariant says of a handler.
LEMMA HandlerFacts ==
  ASSUME IInv, prog \in {"irq", "int80", "exc"}
  PROVE  /\ TypeInv /\ Ready /\ ~ iflag /\ area = "kernel" /\ cs = 24 /\ StackUsable
         /\ stack \in Seq(Int) /\ regs \in [Regs -> Int] /\ entered.regs \in [Regs -> Int]
         /\ gdt = gdt_entries /\ (FromUser \/ FromKmain)
BY SMTT(30) DEF IInv, TypeInv, HandlerInv, StackUsable, SB_KERNEL_CODE_SELECTOR, Ready, TablesAt

\* A step inside a handler: it keeps the frame it was entered with.
LEMMA HandlerStays ==
  ASSUME IInv, prog \in {"irq", "int80", "exc"},
         UNCHANGED <<prog, area, cs, entered, start, task>>, iflag' = FALSE,
         Ready', ip' \in Int, ticks' \in Int, regs' \in [Regs -> Int], stack' \in Seq(Int),
         pic' \in [master : Chip, slave : Chip],
         IrqInv', Int80Inv', ExcInv'
  PROVE  IInv'
<1>1. TypeInv'
  <2>1. iflag' \in BOOLEAN
    BY Zenon
  <2> QED
    BY Zenon, <2>1 DEF IInv, TypeInv
<1>2. HandlerInv'
  BY Zenon DEF IInv, HandlerInv, FromUser, FromKmain, start
<1>3. SoftInv'
  BY Zenon DEF IInv, SoftInv
<1> QED
  BY Zenon, <1>1, <1>2, <1>3 DEF IInv, PanicInv, ResetInv, KmainInv, UserInv

\* The same, for an instruction that leaves the tables alone.
LEMMA HandlerKeeps ==
  ASSUME IInv, prog \in {"irq", "int80", "exc"}, Keep, iflag' = iflag,
         regs' \in [Regs -> Int], stack' \in Seq(Int), IrqInv', Int80Inv', ExcInv'
  PROVE  IInv'
<1>1. /\ UNCHANGED <<prog, area, cs, entered, start, ticks, tables>> /\ ip' = ip + 1
  BY Zenon DEF Keep, Step
<1>2. TypeInv /\ Ready /\ ~ iflag
  BY Zenon, HandlerFacts
<1>3. iflag' = FALSE
  BY <1>2, Zenon DEF TypeInv
<1>4. Ready'
  BY Zenon, <1>1, <1>2, ReadyStays
<1>5. /\ ip' \in Int /\ ticks' \in Int /\ task' = task
      /\ pic' \in [master : Chip, slave : Chip]
  BY <1>1, <1>2 DEF TypeInv, tables
<1> QED
  BY Zenon, <1>1, <1>3, <1>4, <1>5, HandlerStays

\* A push in a handler, whose stack is the kernel's.
LEMMA HandlerPush ==
  ASSUME IInv, prog \in {"irq", "int80", "exc"}, NEW v, v \in Int, DoPush(v)
  PROVE  Pushed(stack', stack, v) /\ UNCHANGED <<regs, iflag>> /\ Keep
<1>1. StackUsable /\ stack \in Seq(Int)
  BY Zenon, HandlerFacts
<1>2. stack' = Append(stack, v) /\ UNCHANGED <<regs, iflag>> /\ Keep
  BY Zenon, <1>1 DEF DoPush
<1> QED
  BY <1>1, <1>2, PushStack, Zenon

\* A port write of a handler: the end of interrupt, or a mark on the serial port.
LEMMA HandlerOut ==
  ASSUME TypeInv, MasterAt(24), NEW port, NEW ch, port = 1016 \/ (port = 32 /\ ch = 32),
         ch \in Int, WritePort(port, ch)
  PROVE  MasterAt(24)' /\ pic' \in [master : Chip, slave : Chip]
<1>1. port \in Int
  OBVIOUS
<1>2. pic' \in [master : Chip, slave : Chip]
  BY Zenon, <1>1, PortType
<1>3. pic.master \in Chip
  BY Zenon DEF TypeInv
<1>4. CASE port = 1016
  <2>1. pic'.master = pic.master
    BY <1>1, <1>4, PortMaster
  <2> QED
    BY Zenon, <1>2, <2>1 DEF MasterAt
<1>5. CASE port = 32 /\ ch = 32
  <2>1. pic'.master = Command(pic.master, 32)
    BY Zenon, <1>1, <1>5, PortMaster
  <2>2. ~ Bit(32, 4)
    BY DEF Bit
  <2>3. \/ pic'.master = pic.master
        \/ pic'.master = [pic.master EXCEPT !.isr = {k \in pic.master.isr :
                                                       \E j \in pic.master.isr : j < k}]
    BY Zenon, <2>1, <2>2 DEF Command
  <2>4. ChipAt(24, pic'.master)
    BY <1>3, <2>3 DEF ChipAt, MasterAt, Chip
  <2> QED
    BY Zenon, <1>2, <2>4 DEF MasterAt
<1> QED
  BY <1>4, <1>5

\* What a port write of a handler leaves.
LEMMA HandlerPort ==
  ASSUME IInv, prog \in {"irq", "int80", "exc"}, KernelCode, NEW port, NEW ch,
         Instr = OutB(port, ch), port = 1016 \/ (port = 32 /\ ch = 32), ch \in Int
  PROVE  /\ regs' = Output(regs, port, ch) /\ regs' \in [Regs -> Int]
         /\ UNCHANGED <<stack, iflag, start, ticks, gdt, task, idt>> /\ Step
         /\ MasterAt(24)' /\ pic' \in [master : Chip, slave : Chip] /\ Ready'
<1>1. TypeInv /\ Ready /\ regs \in [Regs -> Int] /\ port \in Int
  BY HandlerFacts
<1>2. /\ regs' = Output(regs, port, ch) /\ WritePort(port, ch)
      /\ UNCHANGED <<stack, iflag, start, ticks, gdt, task, idt>> /\ Step
  BY Zenon, OpOut
<1>3. MasterAt(24)
  BY Zenon, <1>1 DEF Ready, TablesAt
<1>4. MasterAt(24)' /\ pic' \in [master : Chip, slave : Chip]
  BY Zenon, <1>1, <1>2, <1>3, HandlerOut
<1>5. Ready'
  BY Zenon, <1>1, <1>2, <1>4 DEF Ready, TablesAt
<1>6. regs' \in [Regs -> Int]
  BY Zenon, <1>1, <1>2, OutputType
<1> QED
  BY Zenon, <1>2, <1>4, <1>5, <1>6

\* A load from the kernel's stack in a handler.
LEMMA HandlerLoad ==
  ASSUME IInv, prog \in {"irq", "int80", "exc"}, KernelCode, NEW n, NEW r, r \in Regs,
         Instr = Load(n, r), n \div 8 \in 0 .. Len(stack) - 1
  PROVE  /\ regs' = [regs EXCEPT ![r] = stack[Len(stack) - (n \div 8)]]
         /\ regs' \in [Regs -> Int] /\ UNCHANGED <<stack, iflag>> /\ Keep
<1>1. stack \in Seq(Int) /\ regs \in [Regs -> Int]
  BY Zenon, HandlerFacts
<1>2. /\ regs' = [regs EXCEPT ![r] = stack[Len(stack) - (n \div 8)]]
      /\ UNCHANGED <<stack, iflag>> /\ Keep
  BY Zenon, OpLoad DEF FromTop
<1>3. stack[Len(stack) - (n \div 8)] \in Int
  <2>1. Len(stack) - (n \div 8) \in 1 .. Len(stack)
    <3>1. Len(stack) \in Nat
      BY <1>1
    <3> QED
      BY <3>1
  <2> QED
    BY <1>1, <2>1, WordType, Zenon
<1>4. regs' \in [Regs -> Int]
  BY Zenon, <1>1, <1>2, <1>3
<1> QED
  BY Zenon, <1>2, <1>4

\* What a C function leaves in the registers.
LEMMA AfterCType ==
  ASSUME NEW r, r \in Int
  PROVE  AfterC(r) \in [Regs -> Int]
BY DEF AfterC, CLOBBERED

\* Right after the entry nothing is saved but the frame.
LEMMA SaveNone ==
  ASSUME NEW s, NEW e, NEW order, Len(s) = 5, \A j \in 1 .. 5 : s[j] = e.stack[j]
  PROVE  SavedOn(s, e, order, 0)
BY SMTT(30) DEF SavedOn

\* A register saved on top of the ones before it.
LEMMA SavePush ==
  ASSUME NEW s, NEW t, NEW e, NEW order, NEW n, n \in Nat, SavedOn(s, e, order, n),
         Pushed(t, s, e.regs[order[n + 1]])
  PROVE  SavedOn(t, e, order, n + 1)
<1>1. /\ Len(s) = 5 + n /\ Len(t) = 5 + n + 1
      /\ \A j \in 1 .. 5 + n : t[j] = s[j]
      /\ t[5 + n + 1] = e.regs[order[n + 1]]
  BY Zenon DEF SavedOn, Pushed
<1>2. \A j \in 1 .. 5 : t[j] = e.stack[j]
  BY <1>1 DEF SavedOn
<1>3. \A j \in 1 .. n + 1 : t[5 + j] = e.regs[order[j]]
  <2> SUFFICES ASSUME NEW j \in 1 .. n + 1
               PROVE  t[5 + j] = e.regs[order[j]]
    OBVIOUS
  <2>1. CASE j = n + 1
    <3>1. 5 + j = 5 + n + 1
      BY <2>1
    <3> QED
      BY Zenon, <1>1, <2>1, <3>1
  <2>2. CASE j \in 1 .. n
    <3>1. s[5 + j] = e.regs[order[j]]
      BY Zenon, <2>2 DEF SavedOn
    <3>2. t[5 + j] = s[5 + j]
      BY <1>1, <2>2
    <3> QED
      BY Zenon, <3>1, <3>2
  <2> QED
    BY <2>1, <2>2
<1> QED
  BY <1>1, <1>2, <1>3 DEF SavedOn

-----------------------------------------------------------------------------
(* exception.S *)

\* Every instruction of the exceptions' stubs.
LEMMA ExcStep == IInv /\ prog = "exc" /\ KernelCode => IInv'
\* exception.S, EXC_ERR.
<1>ErrCode. ASSUME NEW v, HasErrorStub(v)
            PROVE  /\ sb_exception(v)[1] = PushImm(v)
                   /\ sb_exception(v)[2] = OutB(1016, 88)
                   /\ sb_exception(v)[3] = Do("cli")
                   /\ sb_exception(v)[4] = Load(0, "rdi")
                   /\ sb_exception(v)[5] = Load(8, "rsi")
                   /\ sb_exception(v)[6] = Load(16, "rdx")
                   /\ sb_exception(v)[7] = Load(24, "rcx")
                   /\ sb_exception(v)[8] = Load(32, "r8")
                   /\ sb_exception(v)[9] = Call("sb_panic_from_exception")
  BY SMTT(30), <1>ErrCode DEF sb_exception, EXC_ERR, sb_exception_common, serial_mark
\* exception.S, EXC_NOERR.
<1>NoErrCode. ASSUME NEW v, ~ HasErrorStub(v)
              PROVE  /\ sb_exception(v)[1] = PushImm(0)
                     /\ sb_exception(v)[2] = PushImm(v)
                     /\ sb_exception(v)[3] = OutB(1016, 88)
                     /\ sb_exception(v)[4] = Do("cli")
                     /\ sb_exception(v)[5] = Load(0, "rdi")
                     /\ sb_exception(v)[6] = Load(8, "rsi")
                     /\ sb_exception(v)[7] = Load(16, "rdx")
                     /\ sb_exception(v)[8] = Load(24, "rcx")
                     /\ sb_exception(v)[9] = Load(32, "r8")
                     /\ sb_exception(v)[10] = Call("sb_panic_from_exception")
  BY SMTT(30), <1>NoErrCode DEF sb_exception, EXC_NOERR, sb_exception_common, serial_mark
\* Both kinds of stub, counted from the words they push.
<1>ExcCode. ASSUME NEW v
            PROVE  /\ StubPushes(v) \in {1, 2}
                   /\ sb_exception(v)[StubPushes(v)] = PushImm(v)
                   /\ StubPushes(v) = 2 => sb_exception(v)[1] = PushImm(0)
                   /\ sb_exception(v)[StubPushes(v) + 1] = OutB(1016, 88)
                   /\ sb_exception(v)[StubPushes(v) + 2] = Do("cli")
                   /\ sb_exception(v)[StubPushes(v) + 3] = Load(0, "rdi")
                   /\ sb_exception(v)[StubPushes(v) + 4] = Load(8, "rsi")
                   /\ sb_exception(v)[StubPushes(v) + 5] = Load(16, "rdx")
                   /\ sb_exception(v)[StubPushes(v) + 6] = Load(24, "rcx")
                   /\ sb_exception(v)[StubPushes(v) + 7] = Load(32, "r8")
                   /\ sb_exception(v)[StubPushes(v) + 8] = Call("sb_panic_from_exception")
  <2> USE <1>ExcCode
  <2>1. CASE HasErrorStub(v)
    <3>1. StubPushes(v) = 1
      BY Zenon, <2>1 DEF StubPushes
    <3> QED
      BY <2>1, <3>1, <1>ErrCode, SMTT(30)
  <2>2. CASE ~ HasErrorStub(v)
    <3>1. StubPushes(v) = 2
      BY Zenon, <2>2 DEF StubPushes
    <3> QED
      BY <2>2, <3>1, <1>NoErrCode, SMTT(30)
  <2> QED
    BY Zenon, <2>1, <2>2
\* What the invariant says of an exception's stub.
<1>ExcFacts. ASSUME IInv, prog = "exc"
             PROVE  /\ FaultEntered /\ ExcState /\ Instr = sb_exception(entered.vector)[ip]
                    /\ entered.vector \in Int /\ ErrorOf(entered.vector) \in Int
                    /\ Words = 1 => ErrorOf(entered.vector) = FAULT_ERROR
                    /\ Words = 2 => ErrorOf(entered.vector) = 0
                    /\ Words \in {1, 2}
  <2> USE <1>ExcFacts
  <2>1. FaultEntered /\ ExcState
    BY Zenon DEF IInv, ExcInv
  <2>2. /\ entered.vector \in Int /\ entered.vector \in 0 .. 31
        /\ entered.vector # 17 /\ entered.vector # 30 /\ entered.stub = entered.vector
    <3>1. \A v \in FaultVectors \cup {13} : v \in Int /\ v \in 0 .. 31 /\ v # 17 /\ v # 30
      BY FaultsAssumption
    <3> QED
      BY <2>1, <3>1, Zenon DEF FaultEntered
  <2>3. PushesError(entered.vector) <=> HasErrorStub(entered.vector)
    BY Zenon, <2>2 DEF PushesError, HasErrorStub
  <2>4. /\ ErrorOf(entered.vector) \in Int
        /\ Words = 1 => ErrorOf(entered.vector) = FAULT_ERROR
        /\ Words = 2 => ErrorOf(entered.vector) = 0
        /\ Words \in {1, 2}
    BY <2>3 DEF ErrorOf, FAULT_ERROR, Words, StubPushes
  <2>5. Instr = sb_exception(entered.vector)[ip]
    BY Zenon, <2>2 DEF Instr, Code
  <2> QED
    BY Zenon, <2>1, <2>2, <2>4, <2>5
\* A step inside the stub that keeps its part of the invariant.
<1>ExcKeeps. ASSUME IInv, prog = "exc", Keep, iflag' = iflag, regs' \in [Regs -> Int],
                    stack' \in Seq(Int), ExcState'
             PROVE  IInv'
  <2> USE <1>ExcKeeps
  <2>1. UNCHANGED <<prog, entered>>
    BY Zenon DEF Keep, Step
  <2>2. ExcInv'
    BY Zenon, <2>1, <1>ExcFacts DEF ExcInv, FaultEntered
  <2>3. IrqInv' /\ Int80Inv'
    BY Zenon, <2>1 DEF IrqInv, Int80Inv
  <2> QED
    BY Zenon, <2>2, <2>3, HandlerKeeps
\* The error code the processor did not push, and the number.
<1>ExcPush. ASSUME IInv, prog = "exc", ip <= Words, KernelCode
            PROVE  IInv'
  <2> USE <1>ExcPush
  <2> DEFINE v == entered.vector
             w == IF ip = Words THEN v ELSE 0
  <2>1. /\ ExcState /\ Instr = sb_exception(v)[ip] /\ v \in Int /\ Words \in {1, 2}
        /\ Words = 2 => ErrorOf(v) = 0
    BY Zenon, <1>ExcFacts
  <2>2. ip = Words \/ (Words = 2 /\ ip = 1)
    BY SMTT(30), <2>1 DEF ExcState
  <2>3. Instr = PushImm(w)
    BY <2>1, <2>2, <1>ExcCode DEF Words
  <2>4. w \in Int
    BY <2>1
  <2>5. stack \in Seq(Int) /\ regs \in [Regs -> Int]
    BY Zenon, HandlerFacts
  <2> HIDE DEF w
  <2>6. DoPush(w)
    BY Zenon, <2>3, OpPushImm
  <2>7. Pushed(stack', stack, w) /\ UNCHANGED <<regs, iflag>> /\ Keep
    BY Zenon, <2>4, <2>6, HandlerPush
  <2>8. UNCHANGED entered /\ ip' = ip + 1 /\ Words' = Words
    BY Zenon, <2>7 DEF Keep, Step, Words
  <2>9. stack' \in Seq(Int) /\ regs' \in [Regs -> Int]
    BY Zenon, <2>5, <2>7 DEF Pushed
  <2>10. Len(stack) = 6 - Words + ip /\ \A j \in 1 .. 5 : stack[j] = entered.stack[j]
    BY Zenon, <2>1 DEF ExcState
  <2>11. /\ Len(stack') = 6 - Words + ip'
         /\ \A j \in 1 .. 5 : stack'[j] = entered.stack[j]
         /\ stack'[6 - Words + ip'] = w
    <3> DEFINE n == Len(stack)
    <3>1. n \in 5 .. 6 /\ n + 1 = 6 - Words + ip'
      BY SMTT(30), <2>1, <2>2, <2>8, <2>10
    <3>2. /\ Len(stack') = Len(stack) + 1 /\ stack'[Len(stack) + 1] = w
          /\ \A j \in 1 .. Len(stack) : stack'[j] = stack[j]
      BY Zenon, <2>7 DEF Pushed
    <3>3. ASSUME NEW j \in 1 .. 5
          PROVE  stack'[j] = entered.stack[j]
      <4>1. n \in 5 .. 6
        BY Zenon, <3>1
      <4> HIDE DEF n
      <4>2. j \in 1 .. n
        BY <4>1
      <4> QED
        BY Zenon, <2>10, <3>2, <4>2 DEF n
    <3> QED
      BY Zenon, <3>1, <3>2, <3>3
  <2>12. CASE ip = Words
    <3>1. w = v /\ Len(stack) = 6 /\ stack[6] = ErrorOf(v)
      BY SMTT(30), <2>1, <2>10, <2>12 DEF w, ExcState
    <3>2. stack'[7] = v /\ stack'[6] = ErrorOf(v) /\ Len(stack') = 7
      BY SMTT(30), <2>1, <2>7, <2>8, <2>11, <2>12, <3>1 DEF Pushed
    <3>3. ExcState'
      BY SMTT(30), <2>1, <2>8, <2>11, <2>12, <3>2 DEF ExcState
    <3> QED
      BY Zenon, <2>7, <2>9, <3>3, <1>ExcKeeps
  <2>13. CASE Words = 2 /\ ip = 1
    <3>1. w = 0 /\ ErrorOf(v) = 0
      BY <2>1, <2>13 DEF w
    <3>2. stack'[6] = ErrorOf(v) /\ Len(stack') = 6
      BY SMTT(30), <2>8, <2>11, <2>13, <3>1
    <3>3. ExcState'
      BY SMTT(30), <2>1, <2>8, <2>11, <2>13, <3>2 DEF ExcState
    <3> QED
      BY Zenon, <2>7, <2>9, <3>3, <1>ExcKeeps
  <2> QED
    BY Zenon, <2>2, <2>12, <2>13
\* The mark.
<1>ExcOut. ASSUME IInv, prog = "exc", ip = Words + 1, KernelCode
           PROVE  IInv'
  <2> USE <1>ExcOut
  <2>1. ExcState /\ Instr = sb_exception(entered.vector)[ip] /\ Words \in {1, 2}
    BY Zenon, <1>ExcFacts
  <2>2. Instr = OutB(1016, 88) /\ TypeInv /\ stack \in Seq(Int)
    BY <2>1, <1>ExcCode, HandlerFacts, SMTT(30) DEF Words
  <2>3. /\ regs' \in [Regs -> Int]
        /\ UNCHANGED <<stack, iflag, start, ticks, gdt, task, idt>> /\ Step
        /\ pic' \in [master : Chip, slave : Chip] /\ Ready'
    <3> DEFINE port == 1016
               ch == 88
    <3>1. Instr = OutB(port, ch) /\ (port = 1016 \/ (port = 32 /\ ch = 32)) /\ ch \in Int
      BY <2>2, SMT
    <3> HIDE DEF port, ch
    <3> QED
      BY Zenon, <3>1, HandlerPort
  <2>4. UNCHANGED <<prog, area, cs, entered>> /\ ip' = ip + 1 /\ Words' = Words
    BY Zenon, <2>3 DEF Step, Words
  <2>5. ExcState'
    BY SMTT(30), <2>1, <2>3, <2>4 DEF ExcState
  <2>6. ExcInv'
    BY Zenon, <2>4, <2>5, <1>ExcFacts DEF ExcInv, FaultEntered
  <2>7. IrqInv' /\ Int80Inv'
    BY Zenon, <2>4 DEF IrqInv, Int80Inv
  <2>8. iflag' = FALSE
    BY <2>2, <2>3, HandlerFacts, Zenon DEF TypeInv
  <2>9. ip' \in Int /\ stack' \in Seq(Int) /\ ticks' \in Int
    BY <2>2, <2>3, <2>4 DEF TypeInv
  <2> QED
    BY Zenon, <2>3, <2>4, <2>6, <2>7, <2>8, <2>9, HandlerStays
\* The cli.
<1>ExcCli. ASSUME IInv, prog = "exc", ip = Words + 2, KernelCode
           PROVE  IInv'
  <2> USE <1>ExcCli
  <2>1. ExcState /\ Instr = sb_exception(entered.vector)[ip] /\ Words \in {1, 2}
    BY Zenon, <1>ExcFacts
  <2>2. Instr = Do("cli")
    BY <2>1, <1>ExcCode DEF Words
  <2>3. iflag' = FALSE /\ UNCHANGED <<regs, stack>> /\ Keep
    BY Zenon, <2>2, OpDo
  <2>4. UNCHANGED entered /\ ip' = ip + 1 /\ Words' = Words
    BY Zenon, <2>3 DEF Keep, Step, Words
  <2>5. ExcState'
    BY <2>1, <2>3, <2>4 DEF ExcState
  <2>6. iflag' = iflag
    BY <2>3, HandlerFacts, Zenon DEF TypeInv
  <2>7. regs' \in [Regs -> Int] /\ stack' \in Seq(Int)
    BY Zenon, <2>3, HandlerFacts
  <2> QED
    BY Zenon, <2>3, <2>5, <2>6, <2>7, <1>ExcKeeps
\* The loads of what the panic screen shows.
<1>ExcLoad. ASSUME IInv, prog = "exc", ip \in Words + 3 .. Words + 7, KernelCode
            PROVE  IInv'
  <2> USE <1>ExcLoad
  <2>1. /\ ExcState /\ Instr = sb_exception(entered.vector)[ip] /\ Words \in {1, 2}
        /\ stack \in Seq(Int) /\ regs \in [Regs -> Int]
    BY Zenon, <1>ExcFacts, HandlerFacts
  <2>2. /\ Len(stack) = 7 /\ stack[7] = entered.vector /\ stack[6] = ErrorOf(entered.vector)
        /\ stack[5] = entered.rip /\ stack[4] = entered.cs /\ stack[3] = entered.flags
    <3>1. /\ entered.stack[5] = entered.rip /\ entered.stack[4] = entered.cs
          /\ entered.stack[3] = entered.flags
      BY Zenon DEF IInv, HandlerInv
    <3> QED
      BY <2>1, <3>1 DEF ExcState
  <2>3. /\ "rdi" \in Regs /\ "rsi" \in Regs /\ "rdx" \in Regs /\ "rcx" \in Regs /\ "r8" \in Regs
        /\ 0 \div 8 = 0 /\ 8 \div 8 = 1 /\ 16 \div 8 = 2 /\ 24 \div 8 = 3 /\ 32 \div 8 = 4
    BY SMTT(30) DEF Regs
  <2>4. /\ regs' \in [Regs -> Int] /\ UNCHANGED <<stack, iflag>> /\ Keep
        /\ \/ ip = Words + 3 /\ regs' = [regs EXCEPT !["rdi"] = entered.vector]
           \/ ip = Words + 4 /\ regs' = [regs EXCEPT !["rsi"] = ErrorOf(entered.vector)]
           \/ ip = Words + 5 /\ regs' = [regs EXCEPT !["rdx"] = entered.rip]
           \/ ip = Words + 6 /\ regs' = [regs EXCEPT !["rcx"] = entered.cs]
           \/ ip = Words + 7 /\ regs' = [regs EXCEPT !["r8"] = entered.flags]
    <3>1. CASE ip = Words + 3
      <4>1. Instr = Load(0, "rdi")
        BY <2>1, <3>1, <1>ExcCode DEF Words
      <4>2. 0 \div 8 \in 0 .. Len(stack) - 1 /\ stack[Len(stack) - (0 \div 8)] = entered.vector
        BY <2>2, <2>3
      <4> QED
        BY SMTT(30), <2>3, <3>1, <4>1, <4>2, HandlerLoad
    <3>2. CASE ip = Words + 4
      <4>1. Instr = Load(8, "rsi")
        BY <2>1, <3>2, <1>ExcCode DEF Words
      <4>2. /\ 8 \div 8 \in 0 .. Len(stack) - 1
            /\ stack[Len(stack) - (8 \div 8)] = ErrorOf(entered.vector)
        BY <2>2, <2>3
      <4> QED
        BY ZenonT(40), <2>3, <3>2, <4>1, <4>2, HandlerLoad
    <3>3. CASE ip = Words + 5
      <4>1. Instr = Load(16, "rdx")
        BY <2>1, <3>3, <1>ExcCode DEF Words
      <4>2. 16 \div 8 \in 0 .. Len(stack) - 1 /\ stack[Len(stack) - (16 \div 8)] = entered.rip
        BY <2>2, <2>3
      <4> QED
        BY ZenonT(40), <2>3, <3>3, <4>1, <4>2, HandlerLoad
    <3>4. CASE ip = Words + 6
      <4>1. Instr = Load(24, "rcx")
        BY SMTT(30), <2>1, <3>4, <1>ExcCode DEF Words
      <4>2. 24 \div 8 \in 0 .. Len(stack) - 1 /\ stack[Len(stack) - (24 \div 8)] = entered.cs
        BY <2>2, <2>3
      <4> QED
        BY ZenonT(40), <2>3, <3>4, <4>1, <4>2, HandlerLoad
    <3>5. CASE ip = Words + 7
      <4>1. Instr = Load(32, "r8")
        BY <2>1, <3>5, <1>ExcCode DEF Words
      <4>2. 32 \div 8 \in 0 .. Len(stack) - 1 /\ stack[Len(stack) - (32 \div 8)] = entered.flags
        BY <2>2, <2>3
      <4> QED
        BY ZenonT(40), <2>3, <3>5, <4>1, <4>2, HandlerLoad
    <3> QED
      BY SMTT(30), <2>1, <3>1, <3>2, <3>3, <3>4, <3>5
  <2>5. UNCHANGED entered /\ ip' = ip + 1 /\ Words' = Words
    BY Zenon, <2>4 DEF Keep, Step, Words
  <2>6. ExcState'
    <3>1. DOMAIN regs = Regs
      BY Zenon, <2>1
    <3>2. /\ Len(stack') = 7 /\ \A j \in 1 .. 5 : stack'[j] = entered'.stack[j]
          /\ stack'[6] = ErrorOf(entered'.vector) /\ stack'[7] = entered'.vector
      BY Zenon, <2>1, <2>2, <2>4, <2>5 DEF ExcState
    <3>3. /\ ip > Words + 3 => regs["rdi"] = entered'.vector
          /\ ip > Words + 4 => regs["rsi"] = ErrorOf(entered'.vector)
          /\ ip > Words + 5 => regs["rdx"] = entered'.rip
          /\ ip > Words + 6 => regs["rcx"] = entered'.cs
      BY Zenon, <2>1, <2>5 DEF ExcState
    <3>4. Words \in {1, 2} /\ ip' = ip + 1 /\ Words' = Words
      BY Zenon, <2>1, <2>5
    <3>5. ip' \in 1 .. Words' + 8 /\ ~ (ip' <= Words')
      BY SMTT(30), <3>4
    <3>6. CASE ip = Words + 3
      <4>1. regs' = [regs EXCEPT !["rdi"] = entered.vector]
        BY SMTT(30), <3>4, <2>4, <3>6
      <4>2. regs'["rdi"] = entered.vector
        BY Zenon, <2>3, <3>1, <4>1
      <4>3. /\ ~ (ip' > Words' + 4) /\ ~ (ip' > Words' + 5) /\ ~ (ip' > Words' + 6)
            /\ ~ (ip' > Words' + 7)
        BY <3>4, <3>6
      <4> QED
        BY Zenon, <2>5, <3>2, <3>3, <3>5, <4>2, <4>3 DEF ExcState
    <3>7. CASE ip = Words + 4
      <4>1. regs' = [regs EXCEPT !["rsi"] = ErrorOf(entered.vector)]
        BY SMTT(30), <3>4, <2>4, <3>7
      <4>2. /\ regs'["rdi"] = regs["rdi"] /\ regs'["rsi"] = ErrorOf(entered.vector)
        BY Zenon, <2>3, <3>1, <4>1
      <4>3. /\ ip > Words + 3 /\ ~ (ip' > Words' + 5) /\ ~ (ip' > Words' + 6)
            /\ ~ (ip' > Words' + 7)
        BY <3>4, <3>7
      <4> QED
        BY Zenon, <2>5, <3>2, <3>3, <3>5, <4>2, <4>3 DEF ExcState
    <3>8. CASE ip = Words + 5
      <4>1. regs' = [regs EXCEPT !["rdx"] = entered.rip]
        BY SMTT(30), <3>4, <2>4, <3>8
      <4>2. /\ regs'["rdi"] = regs["rdi"] /\ regs'["rsi"] = regs["rsi"]
            /\ regs'["rdx"] = entered.rip
        BY Zenon, <2>3, <3>1, <4>1
      <4>3. /\ ip > Words + 3 /\ ip > Words + 4 /\ ~ (ip' > Words' + 6)
            /\ ~ (ip' > Words' + 7)
        BY <3>4, <3>8
      <4> QED
        BY Zenon, <2>5, <3>2, <3>3, <3>5, <4>2, <4>3 DEF ExcState
    <3>9. CASE ip = Words + 6
      <4>1. regs' = [regs EXCEPT !["rcx"] = entered.cs]
        BY SMTT(30), <3>4, <2>4, <3>9
      <4>2. /\ regs'["rdi"] = regs["rdi"] /\ regs'["rsi"] = regs["rsi"]
            /\ regs'["rdx"] = regs["rdx"] /\ regs'["rcx"] = entered.cs
        BY Zenon, <2>3, <3>1, <4>1
      <4>3. /\ ip > Words + 3 /\ ip > Words + 4 /\ ip > Words + 5
            /\ ~ (ip' > Words' + 7)
        BY <3>4, <3>9
      <4> QED
        BY Zenon, <2>5, <3>2, <3>3, <3>5, <4>2, <4>3 DEF ExcState
    <3>10. CASE ip = Words + 7
      <4>1. regs' = [regs EXCEPT !["r8"] = entered.flags]
        BY SMTT(30), <3>4, <2>4, <3>10
      <4>2. /\ regs'["rdi"] = regs["rdi"] /\ regs'["rsi"] = regs["rsi"]
            /\ regs'["rdx"] = regs["rdx"] /\ regs'["rcx"] = regs["rcx"]
            /\ regs'["r8"] = entered.flags
        BY Zenon, <2>3, <3>1, <4>1
      <4>3. /\ ip > Words + 3 /\ ip > Words + 4 /\ ip > Words + 5
            /\ ip > Words + 6
        BY <3>4, <3>10
      <4> QED
        BY Zenon, <2>5, <3>2, <3>3, <3>5, <4>2, <4>3 DEF ExcState
    <3> QED
      BY SMTT(30), <3>4, <3>6, <3>7, <3>8, <3>9, <3>10
  <2>7. stack' \in Seq(Int)
    BY Zenon, <2>1, <2>4
  <2> QED
    BY Zenon, <2>4, <2>6, <2>7, <1>ExcKeeps
\* sb_panic_from_exception is given them.
<1>ExcCall. ASSUME IInv, prog = "exc", ip = Words + 8, KernelCode
            PROVE  IInv'
  <2> USE <1>ExcCall
  <2>1. /\ ExcState /\ FaultEntered /\ Instr = sb_exception(entered.vector)[ip]
        /\ Words \in {1, 2} /\ TypeInv
    BY Zenon, <1>ExcFacts, HandlerFacts
  <2>2. Instr = Call("sb_panic_from_exception")
    BY <2>1, <1>ExcCode DEF Words
  <2>3. /\ dispatched' = [fn |-> "sb_panic_from_exception", regs |-> regs]
        /\ UNCHANGED <<stack, area, iflag, cs, ss, start, entered, tables, ip, regs, ticks>>
        /\ prog' = "panic"
    BY SMTT(30), <2>2, OpCall
  <2>4. /\ regs["rdi"] = entered.vector /\ regs["rsi"] = ErrorOf(entered.vector)
        /\ regs["rdx"] = entered.rip /\ regs["rcx"] = entered.cs /\ regs["r8"] = entered.flags
    BY SMTT(30), <2>1 DEF ExcState
  <2>5. PanicInv'
    BY Zenon, <2>1, <2>3, <2>4 DEF PanicInv, PanicReportsFault, FaultEntered, ErrorOf
  <2>6. TypeInv'
    BY Zenon, <2>1, <2>3 DEF TypeInv, tables
  <2>7. SoftInv'
    BY Zenon, <2>3 DEF IInv, SoftInv
  <2> QED
    BY ZenonT(40), <2>3, <2>5, <2>6, <2>7 DEF IInv, ResetInv, KmainInv, UserInv, HandlerInv, IrqInv,
       Int80Inv, ExcInv
<1> SUFFICES ASSUME IInv, prog = "exc", KernelCode
             PROVE  IInv'
  OBVIOUS
<1>1. ip \in 1 .. Words + 8 /\ Words \in {1, 2}
  BY Zenon, <1>ExcFacts DEF ExcState
<1>2. CASE ip <= Words
  BY Zenon, <1>2, <1>ExcPush
<1>3. CASE ip = Words + 1
  BY Zenon, <1>3, <1>ExcOut
<1>4. CASE ip = Words + 2
  BY Zenon, <1>4, <1>ExcCli
<1>5. CASE ip \in Words + 3 .. Words + 7
  BY Zenon, <1>5, <1>ExcLoad
<1>6. CASE ip = Words + 8
  BY Zenon, <1>6, <1>ExcCall
<1> QED
  BY SMTT(30), <1>1, <1>2, <1>3, <1>4, <1>5, <1>6

-----------------------------------------------------------------------------
(* Entries *)

Delivered(v, error, rip, soft) ==
  /\ prog' = GateAt(24, v).stub /\ ip' = 1 /\ regs' = regs
  /\ area' = IF cs = 35 THEN "kernel" ELSE area
  /\ iflag' = FALSE /\ cs' = SB_KERNEL_CODE_SELECTOR
  /\ entered'.regs = regs /\ entered'.vector = v
  /\ entered'.stub = GateAt(24, v).number /\ entered'.rip = rip
  /\ entered'.cs = cs /\ entered'.flags = Flags /\ entered'.soft = soft
  /\ entered'.stack \in Seq(Int) /\ Len(entered'.stack) = 5
  /\ entered'.stack[1] = ss /\ entered'.stack[3] = Flags
  /\ entered'.stack[4] = cs /\ entered'.stack[5] = rip
  /\ stack' \in Seq(Int) /\ Len(stack') = IF error THEN 6 ELSE 5
  /\ \A j \in 1 .. 5 : stack'[j] = entered'.stack[j]
  /\ error => stack'[6] = FAULT_ERROR

\* An interrupt or an exception, once the tables are ready: it is taken at its
\* gate, with interrupts off, and the five words of the frame say what it came
\* from.
LEMMA Delivery ==
  ASSUME Ready, TypeInv, NEW v \in Vectors, NEW error \in BOOLEAN, NEW rip \in Int,
         NEW soft, Deliver(v, error, rip, soft),
         stack = <<>>, ss \in Int, cs = 35 \/ (cs = 24 /\ StackUsable)
  PROVE  Delivered(v, error, rip, soft)
<1> DEFINE outer == cs % 4 = 3
           base == (IF outer THEN <<>> ELSE stack)
                     \o <<ss, IF outer THEN USER_STACK ELSE STACK_TOP, Flags, cs, rip>>
           good == GateOK(v) /\ (IF outer THEN task.loaded /\ task.rsp0 # 0
                                 ELSE StackUsable)
<1>1. outer <=> cs = 35
  BY SMTT(30)
<1>2. /\ GateOK(v) /\ IsInterruptGate(v) /\ idt[v] = GateAt(24, v)
      /\ task.loaded /\ task.rsp0 # 0 /\ idt[v].selector = SB_KERNEL_CODE_SELECTOR
  BY Gates DEF Ready, TablesAt, STACK_TOP
<1>3. good
  BY Zenon, <1>1, <1>2
<1>4. base = <<>> \o <<ss, IF outer THEN USER_STACK ELSE STACK_TOP, Flags, cs, rip>>
  OBVIOUS
<1>5. Flags \in Int /\ cs \in Int /\ (IF outer THEN USER_STACK ELSE STACK_TOP) \in Int
  BY DEF Flags, IF_BIT, USER_STACK, STACK_TOP
<1>6. Frame(base, ss, IF outer THEN USER_STACK ELSE STACK_TOP, Flags, cs, rip)
  <2> DEFINE top == IF outer THEN USER_STACK ELSE STACK_TOP
  <2> HIDE DEF top
  <2>1. Frame(<<>> \o <<ss, top, Flags, cs, rip>>, ss, top, Flags, cs, rip)
    <3>1. top \in Int
      BY Zenon, <1>5 DEF top
    <3> QED
      BY <1>5, <3>1, FrameStack, Zenon
  <2> QED
    BY <1>4, <2>1, Zenon DEF top
<1>7. /\ prog' = idt[v].stub /\ ip' = 1
      /\ stack' = IF error THEN Append(base, FAULT_ERROR) ELSE base
      /\ area' = IF outer THEN "kernel" ELSE area
      /\ entered' = [regs |-> regs, vector |-> v, stub |-> idt[v].number,
                     rip |-> rip, cs |-> cs, flags |-> Flags,
                     stack |-> base, soft |-> soft]
      /\ iflag' = (iflag /\ ~ IsInterruptGate(v))
      /\ cs' = idt[v].selector /\ regs' = regs
  BY Zenon, <1>3 DEF Deliver
<1> HIDE DEF base, outer, good
<1>8. /\ base \in Seq(Int) /\ Len(base) = 5
      /\ base[1] = ss /\ base[3] = Flags /\ base[4] = cs /\ base[5] = rip
  BY Zenon, <1>6 DEF Frame
<1>9. /\ stack' \in Seq(Int) /\ Len(stack') = IF error THEN 6 ELSE 5
      /\ \A j \in 1 .. 5 : stack'[j] = base[j]
      /\ error => stack'[6] = FAULT_ERROR
  <2>1. CASE error
    <3>1. stack' = Append(base, FAULT_ERROR) /\ FAULT_ERROR \in Int
      BY <1>7, <2>1 DEF FAULT_ERROR
    <3>2. Pushed(stack', base, FAULT_ERROR)
      BY <1>8, <3>1, PushStack, Zenon
    <3> QED
      BY <1>8, <2>1, <3>2 DEF Pushed
  <2>2. CASE ~ error
    BY Zenon, <1>7, <1>8, <2>2
  <2> QED
    BY Zenon, <2>1, <2>2
<1>10. /\ entered'.regs = regs /\ entered'.vector = v
       /\ entered'.stub = GateAt(24, v).number /\ entered'.rip = rip
       /\ entered'.cs = cs /\ entered'.flags = Flags /\ entered'.soft = soft
       /\ entered'.stack = base
  BY Zenon, <1>2, <1>7
<1>11. /\ prog' = GateAt(24, v).stub /\ ip' = 1 /\ regs' = regs
       /\ area' = IF cs = 35 THEN "kernel" ELSE area
       /\ iflag' = FALSE /\ cs' = SB_KERNEL_CODE_SELECTOR
  BY Zenon, <1>1, <1>2, <1>7
<1> QED
  BY Zenon, <1>8, <1>9, <1>10, <1>11 DEF Delivered

\* What the invariant says of user mode.
LEMMA UserFacts ==
  ASSUME IInv, prog = "user"
  PROVE  /\ TypeInv /\ Ready /\ iflag /\ stack = <<>> /\ cs = 35 /\ ss = 43
         /\ USER_ENTRY \in Int
<1>1. USER_ENTRY \in Int
  BY SMT DEF USER_ENTRY
<1> QED
  BY Zenon, <1>1 DEF IInv, UserInv, SB_USER_CODE_SELECTOR, SB_USER_DATA_SELECTOR

\* The timer's interrupt, out of user mode or of kmain.
LEMMA EnterIrq ==
  ASSUME IInv, Ready, Ready', pic' \in [master : Chip, slave : Chip],
         UNCHANGED <<start, ticks, task>>,
         NEW rip \in Int, NEW soft, Deliver(32, FALSE, rip, soft), stack = <<>>,
         \/ cs = 35 /\ ss = 43 /\ iflag /\ ~ soft
         \/ /\ cs = 24 /\ ss = 16 /\ area = "kernel" /\ rip \in Enabled \cup {25}
            /\ iflag <=> rip # 25
            /\ rip \in {27, 28} => cr3 = "process"
  PROVE  IInv'
<1>1. TypeInv
  BY Zenon DEF IInv
<1>2. 32 \in Vectors /\ FALSE \in BOOLEAN /\ ss \in Int
  BY VectorsAssumption
<1>3. cs = 35 \/ (cs = 24 /\ StackUsable)
  BY Zenon DEF StackUsable
<1>4. GateAt(24, 32) = Gate("irq", 32, 0)
  BY SMTT(30) DEF GateAt
<1>5. /\ prog' = "irq" /\ ip' = 1 /\ regs' = regs /\ area' = "kernel"
      /\ iflag' = FALSE /\ cs' = SB_KERNEL_CODE_SELECTOR
      /\ entered'.regs = regs /\ entered'.vector = 32 /\ entered'.rip = rip
      /\ entered'.cs = cs /\ entered'.flags = Flags /\ entered'.soft = soft
      /\ entered'.stack \in Seq(Int) /\ Len(entered'.stack) = 5
      /\ entered'.stack[1] = ss /\ entered'.stack[3] = Flags
      /\ entered'.stack[4] = cs /\ entered'.stack[5] = rip
      /\ stack' \in Seq(Int) /\ Len(stack') = 5
      /\ \A j \in 1 .. 5 : stack'[j] = entered'.stack[j]
  <2>1. Delivered(32, FALSE, rip, soft)
    BY Zenon, <1>1, <1>2, <1>3, Delivery
  <2>2. GateAt(24, 32).stub = "irq"
    BY <1>4 DEF Gate
  <2> QED
    BY Zenon, <2>1, <2>2 DEF Delivered
<1>6. TypeInv'
  <2>1. iflag' \in BOOLEAN /\ prog' \in {"kmain", "user", "irq", "int80", "exc", "panic", "reset"}
    BY <1>5, Zenon
  <2>2. ip' \in Int
    BY SMTT(30), <1>5
  <2> QED
    BY Zenon, <1>1, <1>5, <2>1, <2>2 DEF TypeInv
<1>7. SoftInv'
  BY <1>5 DEF SoftInv, SB_USER_CODE_SELECTOR
<1>8. (FromUser \/ FromKmain)'
  <2>1. CASE cs = 35 /\ ss = 43 /\ iflag /\ ~ soft
    BY Zenon, <1>5, <2>1 DEF FromUser, Flags, SB_USER_CODE_SELECTOR, SB_USER_DATA_SELECTOR
  <2>2. CASE /\ cs = 24 /\ ss = 16 /\ area = "kernel" /\ rip \in Enabled \cup {25}
             /\ iflag <=> rip # 25
             /\ rip \in {27, 28} => cr3 = "process"
    BY Zenon, <1>5, <2>2 DEF FromKmain, Flags, SB_KERNEL_CODE_SELECTOR, SB_KERNEL_DATA_SELECTOR, start
  <2> QED
    BY Zenon, <2>1, <2>2
<1>9. HandlerInv'
  BY Zenon, <1>5, <1>8 DEF HandlerInv
<1>10. IrqInv'
  <2>1. IrqDepth(1) = 0 /\ 1 \in 1 .. 25 /\ ~ (1 \in 15 .. 24) /\ 1 # 25
    BY SMTT(30) DEF IrqDepth
  <2>2. (Saved(IrqOrder, 0))'
    BY Zenon, <1>5, SaveNone DEF Saved
  <2> QED
    BY Zenon, <1>5, <2>1, <2>2 DEF IrqInv
<1> QED
  BY Zenon, <1>5, <1>6, <1>7, <1>9, <1>10 DEF IInv, PanicInv, ResetInv, KmainInv, UserInv, Int80Inv,
     ExcInv

\* A fault in a user program: the stub of its number, with an error code on
\* the stack where the processor pushes one.
LEMMA EnterExc ==
  ASSUME IInv, prog = "user", NEW v \in FaultVectors \cup {13},
         NEW error \in BOOLEAN, error <=> PushesError(v),
         Enter(v, error, USER_ENTRY, FALSE)
  PROVE  IInv'
<1>1. /\ TypeInv /\ Ready /\ iflag /\ stack = <<>> /\ cs = 35 /\ ss = 43
      /\ USER_ENTRY \in Int /\ ss \in Int
  BY UserFacts
<1>2. /\ Deliver(v, error, USER_ENTRY, FALSE)
      /\ UNCHANGED <<start, ticks, dispatched, tables>>
  BY Zenon DEF Enter
<1>3. /\ v \in Vectors /\ v \in 0 .. 31
      /\ error <=> HasErrorStub(v)
  <2>1. v \in Vectors /\ v \in 0 .. 31 /\ v # 17 /\ v # 30
    BY VectorsAssumption, FaultsAssumption
  <2>2. PushesError(v) <=> HasErrorStub(v)
    BY Zenon, <2>1 DEF PushesError, HasErrorStub
  <2> QED
    BY Zenon, <2>1, <2>2
<1>4. Delivered(v, error, USER_ENTRY, FALSE)
  BY Zenon, <1>1, <1>2, <1>3, Delivery
<1>5. GateAt(24, v) = Gate("exc", v, 0)
  BY SMTT(30), <1>3 DEF GateAt
<1>6. /\ prog' = "exc" /\ ip' = 1 /\ regs' = regs /\ area' = "kernel"
      /\ iflag' = FALSE /\ cs' = SB_KERNEL_CODE_SELECTOR
      /\ entered'.regs = regs /\ entered'.vector = v /\ entered'.stub = v
      /\ entered'.rip = USER_ENTRY /\ entered'.cs = 35 /\ entered'.flags = Flags
      /\ entered'.soft = FALSE
      /\ entered'.stack \in Seq(Int) /\ Len(entered'.stack) = 5
      /\ entered'.stack[1] = ss /\ entered'.stack[3] = Flags
      /\ entered'.stack[4] = 35 /\ entered'.stack[5] = USER_ENTRY
      /\ stack' \in Seq(Int) /\ Len(stack') = IF error THEN 6 ELSE 5
      /\ \A j \in 1 .. 5 : stack'[j] = entered'.stack[j]
      /\ error => stack'[6] = FAULT_ERROR
  BY SMTT(30), <1>1, <1>4, <1>5 DEF Gate, Delivered
<1>7. TypeInv'
  <2>1. iflag' \in BOOLEAN
    BY <1>6, Zenon
  <2>2. /\ prog' = "exc" /\ ip' = 1 /\ regs' = regs /\ entered'.regs = regs
        /\ stack' \in Seq(Int)
    BY <1>6, Zenon
  <2> QED
    BY SMTT(30), <1>1, <1>2, <2>1, <2>2 DEF TypeInv, tables
<1>8. Ready'
  BY Zenon, <1>1, <1>2, ReadyStays
<1>9. HandlerInv'
  <2>1. FromUser'
    BY Zenon, <1>1, <1>6 DEF FromUser, Flags, SB_USER_CODE_SELECTOR, SB_USER_DATA_SELECTOR
  <2> QED
    BY Zenon, <1>6, <1>8, <2>1 DEF HandlerInv
<1>10. ExcInv'
  <2>1. FaultEntered'
    BY Zenon, <1>6 DEF FaultEntered, SB_USER_CODE_SELECTOR
  <2> QED
    BY SMTT(30), <1>3, <1>6, <2>1 DEF ExcInv, ExcState, Words, StubPushes, ErrorOf
<1>11. SoftInv'
  BY Zenon, <1>6 DEF SoftInv
<1> QED
  BY ZenonT(40), <1>6, <1>7, <1>9, <1>10, <1>11 DEF IInv, PanicInv, ResetInv, KmainInv, UserInv, IrqInv,
     Int80Inv

-----------------------------------------------------------------------------
(* The way back *)

\* iretq with a whole frame of five words on the stack.
LEMMA Return ==
  ASSUME TypeInv, gdt = gdt_entries, Len(stack) = 5, KernelCode, Instr = Do("iretq"),
         \/ stack[4] = 35 /\ stack[1] = 43
         \/ stack[4] = 24 /\ stack[1] = 16
  PROVE  /\ cs' = stack[4] /\ ss' = stack[1] /\ ip' = stack[5]
         /\ iflag' = (stack[3] >= IF_BIT)
         /\ prog' = IF stack[4] = 35 THEN "user" ELSE "kmain"
         /\ area' = IF stack[4] = 35 THEN "user" ELSE area
         /\ stack' = <<>>
         /\ UNCHANGED <<regs, start, ticks, entered, dispatched, tables>>
<1>1. /\ FromTop(0) = stack[5] /\ FromTop(1) = stack[4] /\ FromTop(2) = stack[3]
      /\ FromTop(4) = stack[1]
  BY DEF FromTop
<1>2. DoIretq
  BY Zenon, OpIretq
<1>3. 35 % 4 = 3 /\ 24 % 4 = 0
  OBVIOUS
<1>4. Dropped(5) = <<>>
  <2>1. stack \in Seq(Int) /\ 5 \in 0 .. Len(stack)
    BY DEF TypeInv
  <2>2. DroppedOff(Dropped(5), stack, 5)
    BY <2>1, DropStack, Zenon DEF Dropped
  <2>3. Dropped(5) \in Seq(Int) /\ Len(Dropped(5)) = 0
    BY SMTT(30), <2>2 DEF DroppedOff
  <2> QED
    BY <2>3, EmptyStack, Zenon
<1>5. CASE stack[4] = 35 /\ stack[1] = 43
  <2>1. CodeOK(FromTop(1), FromTop(1) % 4) /\ StackSegmentOK(FromTop(4), FromTop(1) % 4)
    BY SMTT(30), <1>1, <1>3, <1>5, Selectors
  <2> QED
    BY Zenon, <1>1, <1>2, <1>3, <1>4, <1>5, <2>1 DEF DoIretq
<1>6. CASE stack[4] = 24 /\ stack[1] = 16
  <2>1. CodeOK(FromTop(1), FromTop(1) % 4) /\ StackSegmentOK(FromTop(4), FromTop(1) % 4)
    BY Zenon, <1>1, <1>3, <1>6, Selectors
  <2> QED
    BY SMTT(30), <1>1, <1>2, <1>3, <1>4, <1>6, <2>1 DEF DoIretq
<1> QED
  BY Zenon, <1>5, <1>6

\* In user mode only its own part of the invariant says anything.
LEMMA UserEntered ==
  ASSUME IInv, Ready, prog' = "user", cs' = 35, ss' = 43, iflag' = TRUE, stack' = <<>>,
         ip' \in Int, regs' \in [Regs -> Int], UNCHANGED <<ticks, entered, tables>>
  PROVE  IInv'
<1>1. Ready'
  BY Zenon, ReadyStays
<1>2. TypeInv'
  BY DEF IInv, TypeInv, tables
<1>3. UserInv'
  BY Zenon, <1>1 DEF UserInv, SB_USER_CODE_SELECTOR, SB_USER_DATA_SELECTOR
<1> QED
  BY Zenon, <1>2, <1>3 DEF IInv, SoftInv, PanicInv, ResetInv, KmainInv, HandlerInv, IrqInv, Int80Inv,
     ExcInv

\* The flags a frame can hold say whether interrupts come back on.
LEMMA FlagsBack ==
  (IF_BIT + 2 >= IF_BIT) = TRUE /\ (2 >= IF_BIT) = FALSE
BY SMTT(30) DEF IF_BIT

\* The frame a handler returns through is the one it was entered with.
LEMMA FrameBack ==
  ASSUME IInv, prog \in {"irq", "int80"}, NEW order, SavedOn(stack, entered, order, 0)
  PROVE  /\ stack = entered.stack /\ Len(stack) = 5
         /\ stack[5] = entered.rip /\ stack[4] = entered.cs /\ stack[3] = entered.flags
         /\ stack[1] = entered.stack[1] /\ stack[5] \in Int
<1>1. /\ entered.stack \in Seq(Int) /\ Len(entered.stack) = 5 /\ stack \in Seq(Int)
      /\ entered.stack[5] = entered.rip /\ entered.stack[4] = entered.cs
      /\ entered.stack[3] = entered.flags
  BY Zenon DEF IInv, HandlerInv, TypeInv
<1>2. Len(stack) = 5 /\ \A j \in 1 .. Len(stack) : stack[j] = entered.stack[j]
  BY DEF SavedOn
<1>3. stack = entered.stack
  BY <1>1, <1>2, SameStack, Zenon
<1>4. 5 \in 1 .. Len(stack)
  BY <1>2
<1>5. stack[5] \in Int
  BY <1>1, <1>4, WordType, Zenon
<1> QED
  BY Zenon, <1>1, <1>2, <1>3, <1>5

\* A return to user mode.
LEMMA BackToUser ==
  ASSUME IInv, prog \in {"irq", "int80"}, NEW order, SavedOn(stack, entered, order, 0),
         KernelCode, Instr = Do("iretq"), FromUser
  PROVE  IInv'
<1>1. TypeInv /\ Ready /\ gdt = gdt_entries /\ regs \in [Regs -> Int]
  BY Zenon, HandlerFacts
<1>2. /\ Len(stack) = 5 /\ stack[4] = 35 /\ stack[1] = 43 /\ stack[3] = IF_BIT + 2
      /\ stack[5] \in Int
  BY Zenon, FrameBack DEF FromUser, SB_USER_CODE_SELECTOR, SB_USER_DATA_SELECTOR
<1>3. /\ cs' = 35 /\ ss' = 43 /\ ip' = stack[5] /\ prog' = "user" /\ stack' = <<>>
      /\ iflag' = (IF_BIT + 2 >= IF_BIT)
      /\ UNCHANGED <<regs, start, ticks, entered, dispatched, tables>>
  BY Zenon, <1>1, <1>2, Return
<1>4. iflag' = TRUE
  BY <1>3, FlagsBack, ZenonT(40)
<1> QED
  BY Zenon, <1>1, <1>2, <1>3, <1>4, UserEntered

-----------------------------------------------------------------------------
(* syscall.S *)

\* The pushes of syscall.S.
LEMMA Int80Saves ==
  \A j \in 1 .. 9 : /\ sb_syscall_int80_stub[j] = Push(Int80Order[j])
                    /\ Int80Order[j] \in Regs
<1>1. /\ Int80Order[1] = "r11" /\ Int80Order[2] = "r10" /\ Int80Order[3] = "r9"
      /\ Int80Order[4] = "r8" /\ Int80Order[5] = "rcx" /\ Int80Order[6] = "rdx"
      /\ Int80Order[7] = "rsi" /\ Int80Order[8] = "rdi" /\ Int80Order[9] = "rax"
  BY Zenon DEF Int80Order
<1> QED
  BY <1>1, Int80Code DEF Regs

\* What the invariant says of the handler of int 0x80: only user mode calls it.
LEMMA Int80Facts ==
  ASSUME IInv, prog = "int80"
  PROVE  /\ ip \in 1 .. 18 /\ Instr = sb_syscall_int80_stub[ip] /\ entered.vector = 128
         /\ SavedOn(stack, entered, Int80Order, Int80Depth(ip)) /\ FromUser
         /\ ip <= 10 => regs = entered.regs
<1>1. FromUser
  BY Zenon, HandlerFacts DEF FromKmain
<1> QED
  BY Zenon, <1>1 DEF IInv, Int80Inv, Saved, Instr, Code

\* Every instruction of the system call's handler.
LEMMA Int80Step == IInv /\ prog = "int80" /\ KernelCode => IInv'
\* An add to the stack pointer.
<1>OpAddRsp. ASSUME KernelCode, NEW n, Instr = AddRsp(n)
             PROVE  stack' = Dropped(n \div 8) /\ UNCHANGED <<regs, iflag>> /\ Keep
  BY Zenon, <1>OpAddRsp DEF KernelCode, DoStack, DoRegs, DoTables, DoStart, DoCall, DoInt, DoIretq, AddRsp
\* All of them dropped.
<1>SaveDrop. ASSUME NEW s, NEW t, NEW e, NEW order, SavedOn(s, e, order, 9), DroppedOff(t, s, 9)
             PROVE  SavedOn(t, e, order, 0)
  BY SMTT(30), <1>SaveDrop DEF SavedOn, DroppedOff
\* The pushes.
<1>Int80Push. ASSUME IInv, prog = "int80", ip \in 1 .. 9, KernelCode
              PROVE  IInv'
  <2> USE <1>Int80Push
  <2>1. /\ Instr = sb_syscall_int80_stub[ip] /\ regs = entered.regs
        /\ SavedOn(stack, entered, Int80Order, Int80Depth(ip))
        /\ stack \in Seq(Int) /\ regs \in [Regs -> Int]
    BY Int80Facts, HandlerFacts
  <2>2. Int80Order[ip] \in Regs /\ Instr = Push(Int80Order[ip])
    BY Zenon, <2>1, Int80Saves
  <2>3. regs[Int80Order[ip]] \in Int
    BY Zenon, <2>1, <2>2
  <2>4. DoPush(regs[Int80Order[ip]])
    BY Zenon, <2>2, OpPush
  <2>5. Pushed(stack', stack, regs[Int80Order[ip]]) /\ UNCHANGED <<regs, iflag>> /\ Keep
    BY Zenon, <2>3, <2>4, HandlerPush
  <2>6. UNCHANGED <<prog, entered>> /\ ip' = ip + 1 /\ ip - 1 \in Nat /\ ip - 1 + 1 = ip
    BY <2>5 DEF Keep, Step
  <2>7. Int80Depth(ip) = ip - 1 /\ Int80Depth(ip') = ip
    BY <2>6 DEF Int80Depth
  <2>8. SavedOn(stack', entered, Int80Order, ip)
    <3>1. SavedOn(stack, entered, Int80Order, ip - 1)
      BY Zenon, <2>1, <2>7
    <3>2. Pushed(stack', stack, entered.regs[Int80Order[ip - 1 + 1]])
      BY Zenon, <2>1, <2>5, <2>6
    <3>3. SavedOn(stack', entered, Int80Order, ip - 1 + 1)
      BY <2>6, <3>1, <3>2, SavePush, Zenon
    <3> QED
      BY Zenon, <2>6, <3>3
  <2>9. Int80Inv'
    BY SMTT(30), <2>1, <2>5, <2>6, <2>7, <2>8, Int80Facts DEF Int80Inv, Saved
  <2>10. IrqInv' /\ ExcInv'
    BY Zenon, <2>6 DEF IrqInv, ExcInv
  <2>11. stack' \in Seq(Int) /\ regs' \in [Regs -> Int]
    BY Zenon, <2>1, <2>5 DEF Pushed
  <2> QED
    BY Zenon, <2>5, <2>9, <2>10, <2>11, HandlerKeeps
\* The loads of the call's arguments.
<1>Int80Load. ASSUME IInv, prog = "int80", ip \in 10 .. 15, KernelCode
              PROVE  IInv'
  <2> USE <1>Int80Load
  <2>1. /\ Instr = sb_syscall_int80_stub[ip] /\ stack \in Seq(Int)
        /\ SavedOn(stack, entered, Int80Order, Int80Depth(ip))
    BY Zenon, Int80Facts, HandlerFacts
  <2>2. Int80Depth(ip) = 9 /\ Len(stack) = 14
    BY SMTT(30), <2>1 DEF SavedOn, Int80Depth
  <2>3. PICK n, r : Instr = Load(n, r) /\ n \div 8 \in 0 .. 13 /\ r \in Regs
    <3>1. 64 \div 8 \in 0 .. 13 /\ "rdi" \in Regs
      BY DEF Regs
    <3>2. 56 \div 8 \in 0 .. 13 /\ "rsi" \in Regs
      BY DEF Regs
    <3>3. 48 \div 8 \in 0 .. 13 /\ "rdx" \in Regs
      BY DEF Regs
    <3>4. 40 \div 8 \in 0 .. 13 /\ "rcx" \in Regs
      BY DEF Regs
    <3>5. 8 \div 8 \in 0 .. 13 /\ "r8" \in Regs
      BY DEF Regs
    <3>6. 24 \div 8 \in 0 .. 13 /\ "r9" \in Regs
      BY DEF Regs
    <3>7. \/ Instr = Load(64, "rdi") \/ Instr = Load(56, "rsi") \/ Instr = Load(48, "rdx")
          \/ Instr = Load(40, "rcx") \/ Instr = Load(8, "r8") \/ Instr = Load(24, "r9")
      <4>1. \/ ip = 10 \/ ip = 11 \/ ip = 12 \/ ip = 13 \/ ip = 14 \/ ip = 15
        OBVIOUS
      <4> QED
        BY ZenonT(40), <2>1, <4>1, Int80Code
    <3> QED
      BY Zenon, <3>1, <3>2, <3>3, <3>4, <3>5, <3>6, <3>7
  <2>4. regs' \in [Regs -> Int] /\ UNCHANGED <<stack, iflag>> /\ Keep
    <3>1. n \div 8 \in 0 .. Len(stack) - 1
      BY <2>2, <2>3
    <3> QED
      BY Zenon, <2>3, <3>1, HandlerLoad
  <2>5. UNCHANGED <<prog, entered>> /\ ip' = ip + 1
    BY Zenon, <2>4 DEF Keep, Step
  <2>6. Int80Inv'
    <3>1. Int80Depth(ip') = 9
      BY <2>5 DEF Int80Depth
    <3> QED
      BY SMTT(30), <2>1, <2>2, <2>4, <2>5, <3>1, Int80Facts DEF Int80Inv, Saved
  <2>7. IrqInv' /\ ExcInv'
    BY Zenon, <2>5 DEF IrqInv, ExcInv
  <2> QED
    BY Zenon, <2>1, <2>4, <2>6, <2>7, HandlerKeeps
\* The dispatcher, whatever number it is given.
<1>Int80Call. ASSUME IInv, prog = "int80", ip = 16, KernelCode
              PROVE  IInv'
  <2> USE <1>Int80Call
  <2>1. /\ Instr = Call("sb_syscall_dispatch_entry") /\ TypeInv /\ Ready /\ stack \in Seq(Int)
        /\ SavedOn(stack, entered, Int80Order, Int80Depth(ip)) /\ entered.vector = 128
    <3>1. Instr = Call("sb_syscall_dispatch_entry")
      BY Zenon, Int80Facts, Int80Code
    <3> QED
      BY Zenon, <3>1, Int80Facts, HandlerFacts
  <2>2. /\ UNCHANGED <<stack, area, iflag, cs, start, entered, tables, ticks, prog>>
        /\ ip' = ip + 1 /\ \E r \in Results(regs["rdi"]) : regs' = AfterC(r)
    BY <2>1, OpCall
  <2>3. PICK r \in Results(regs["rdi"]) : regs' = AfterC(r)
    BY Zenon, <2>2
  <2>4. r \in Int
    BY SMTT(30), <2>1, TasksAssumption DEF Results, TypeInv, UINT64_MAX
  <2>5. regs' \in [Regs -> Int]
    BY Zenon, <2>3, <2>4, AfterCType
  <2>6. Int80Inv'
    <3>1. Int80Depth(16) = 9 /\ Int80Depth(17) = 9
      BY SMTT(30) DEF Int80Depth
    <3> QED
      BY SMTT(30), <2>1, <2>2, <3>1 DEF Int80Inv, Saved
  <2>7. IrqInv' /\ ExcInv'
    BY Zenon, <2>2 DEF IrqInv, ExcInv
  <2>8. Ready'
    BY Zenon, <2>1, <2>2, ReadyStays
  <2>9. iflag' = FALSE
    BY <2>1, <2>2, HandlerFacts, Zenon DEF TypeInv
  <2>10. /\ ip' \in Int /\ ticks' \in Int /\ stack' \in Seq(Int) /\ task' = task
         /\ pic' \in [master : Chip, slave : Chip]
    BY <2>1, <2>2 DEF TypeInv, tables
  <2> QED
    BY Zenon, <2>2, <2>5, <2>6, <2>7, <2>8, <2>9, <2>10, HandlerStays
\* The saved registers are dropped, not restored.
<1>Int80Drop. ASSUME IInv, prog = "int80", ip = 17, KernelCode
              PROVE  IInv'
  <2> USE <1>Int80Drop
  <2>1. /\ Instr = AddRsp(72) /\ regs \in [Regs -> Int] /\ stack \in Seq(Int)
        /\ SavedOn(stack, entered, Int80Order, Int80Depth(ip)) /\ entered.vector = 128
    <3>1. Instr = AddRsp(72)
      BY Int80Facts, Int80Code, SMTT(30)
    <3> QED
      BY <3>1, Int80Facts, HandlerFacts, SMTT(30)
  <2>2. stack' = Dropped(72 \div 8) /\ UNCHANGED <<regs, iflag>> /\ Keep
    BY <2>1, <1>OpAddRsp, SMTT(30)
  <2>3. stack' = Dropped(9) /\ Int80Depth(ip) = 9 /\ Len(stack) = 14
    <3>1. 72 \div 8 = 9 /\ Int80Depth(ip) = 9
      BY DEF Int80Depth
    <3> QED
      BY SMTT(30), <2>1, <2>2, <3>1 DEF SavedOn
  <2>4. DroppedOff(stack', stack, 9)
    <3>1. /\ 9 \in 0 .. Len(stack) /\ stack \in Seq(Int)
          /\ stack' = SubSeq(stack, 1, Len(stack) - 9)
      BY SMTT(30), <2>1, <2>3 DEF Dropped
    <3> QED
      BY <3>1, DropStack, Zenon
  <2>5. SavedOn(stack', entered, Int80Order, 0)
    BY SMTT(30), <2>1, <2>3, <2>4, <1>SaveDrop
  <2>6. UNCHANGED <<prog, entered>> /\ ip' = 18
    BY SMTT(30), <2>2 DEF Keep, Step
  <2>7. Int80Inv'
    <3>1. Int80Depth(18) = 0
      BY DEF Int80Depth
    <3> QED
      BY SMTT(30), <2>1, <2>5, <2>6, <3>1 DEF Int80Inv, Saved
  <2>8. IrqInv' /\ ExcInv'
    BY Zenon, <2>6 DEF IrqInv, ExcInv
  <2>9. stack' \in Seq(Int) /\ regs' \in [Regs -> Int]
    BY Zenon, <2>1, <2>2, <2>4 DEF DroppedOff
  <2> QED
    BY Zenon, <2>2, <2>7, <2>8, <2>9, HandlerKeeps
<1> SUFFICES ASSUME IInv, prog = "int80", KernelCode
             PROVE  IInv'
  OBVIOUS
<1>1. /\ ip \in 1 .. 18 /\ Instr = sb_syscall_int80_stub[ip] /\ FromUser
      /\ SavedOn(stack, entered, Int80Order, Int80Depth(ip))
  BY Zenon, Int80Facts
<1>2. CASE ip \in 1 .. 9
  BY Zenon, <1>2, <1>Int80Push
<1>3. CASE ip \in 10 .. 15
  BY Zenon, <1>3, <1>Int80Load
<1>4. CASE ip = 16
  BY Zenon, <1>4, <1>Int80Call
<1>5. CASE ip = 17
  BY Zenon, <1>5, <1>Int80Drop
<1>6. CASE ip = 18
  <2>1. Instr = Do("iretq") /\ SavedOn(stack, entered, Int80Order, 0)
    BY SMTT(30), <1>1, <1>6, Int80Code DEF Int80Depth
  <2> QED
    BY Zenon, <1>1, <2>1, BackToUser
<1> QED
  BY SMTT(30), <1>1, <1>2, <1>3, <1>4, <1>5, <1>6

=============================================================================
