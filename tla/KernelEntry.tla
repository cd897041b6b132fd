----------------------------- MODULE KernelEntry -----------------------------
(***************************************************************************)
(* The processor from kmain on, instruction by instruction: the steps of   *)
(* kmain that build the tables and program the timer, the jump to user     *)
(* mode (user_mode.S), the timer interrupt (irq.S), int 0x80 (syscall.S)   *)
(* and the exception stubs (exception.S).  Each is a sequence of           *)
(* instructions the machine executes over a register file, a stack and the *)
(* tables of Platform.  Registers the C functions must save are left out:  *)
(* the stubs do not touch them.                                            *)
(***************************************************************************)
EXTENDS Platform

CONSTANTS UserFiles,     \* register files a user program may be running with
          FaultVectors,  \* exceptions the running code can raise
          Lines,         \* interrupt lines on which a device may ask
          TASK_IDS,      \* what scheduler_current()->id may be
          TICK_WRAP      \* the tick counter's range (2^64 in the code)

VARIABLES prog, ip,      \* the code that is executing
          regs, stack,   \* top of the stack last
          area,          \* whose memory the stack is in
          iflag, cs, ss, \* RFLAGS.IF, code and stack segment
          init_process,  \* what prepare_init_process returned
          cr3,           \* the active root: boot.S's or the process's
          nxe,           \* EFER.NXE, as the loader left it
          ticks,
          entered,       \* at the last entry: registers, gate, stack
          dispatched     \* what the last call into C was given

cpu == <<regs, stack, area, iflag, cs, ss>>
start == <<init_process, cr3, nxe>>
vars == <<prog, ip, cpu, start, ticks, entered, dispatched, tables>>

Regs == {"rax", "rcx", "rdx", "rsi", "rdi", "r8", "r9", "r10", "r11"}

ASSUME UserFilesAssumption == UserFiles \subseteq [Regs -> Int]
ASSUME LinesAssumption == Lines \subseteq 0 .. 15
ASSUME TasksAssumption == TASK_IDS \subseteq Nat
ASSUME TicksAssumption == TICK_WRAP \in Nat \ {0}

UINT64_MAX == -1
CLOBBERED == -2          \* whatever a C function leaves in a register
USER_ENTRY == 400
USER_STACK == 500
IF_BIT == 512
FAULT_ERROR == 700       \* the error code the processor pushes

----------------------------------------------------------------------------
(* Instructions *)

Push(r) == [op |-> "push", reg |-> r]
Pop(r) == [op |-> "pop", reg |-> r]
PushImm(n) == [op |-> "pushimm", val |-> n]
Load(n, r) == [op |-> "load", off |-> n, reg |-> r]   \* movq n(%rsp), r
Call(f) == [op |-> "call", fn |-> f]
AddRsp(n) == [op |-> "addrsp", off |-> n]
OutB(port, ch) == [op |-> "out", port |-> port, ch |-> ch]
SetGate(v, stub, dpl) == [op |-> "gate", vec |-> v, stub |-> stub, dpl |-> dpl]
IntN(v) == [op |-> "int", vec |-> v]
Do(o) == [op |-> o]

Pushes(rs) == [i \in 1 .. Len(rs) |-> Push(rs[i])]
Pops(rs) == [i \in 1 .. Len(rs) |-> Pop(rs[i])]
serial_mark(ch) == OutB(1016, ch)                      \* 0x3F8

----------------------------------------------------------------------------
(* Mutants *)

\* The registers are popped in the order they were pushed.
MutPopsInPushOrder ==
  Pops(<<"rax", "rcx", "rdx", "rsi", "rdi", "r8", "r9", "r10", "r11">>)

\* An exception without an error code pushes only its number.
MutNoDummyError(v) == <<PushImm(v)>>

\* The interrupt is ended at the other controller.
MutSlaveEOI == OutB(160, 32)

----------------------------------------------------------------------------
(* The code *)

\* lgdt, with the TSS descriptor and RSP0 written before it; ltr.
gdt_init == <<Do("lgdt"), Do("ltr")>>

\* The slave's ICW4 goes to its command port.
pic_remap ==
  <<OutB(33, 255), OutB(161, 255), OutB(32, 17), OutB(160, 17),
    OutB(33, 32), OutB(161, 40), OutB(33, 4), OutB(161, 2),
    OutB(33, 1), OutB(160, 1), OutB(33, 254), OutB(161, 255)>>

\* A rate of 0 means 100; the divisor is at least 1 and at most 0xFFFF.
Divisor(hz) == LET d == 1193182 \div (IF hz = 0 THEN 100 ELSE hz) IN
  IF d = 0 THEN 1 ELSE IF d > 65535 THEN 65535 ELSE d

timer_init(hz) ==
  <<Do("cli"), Do("zero_ticks")>> \o pic_remap
    \o <<OutB(67, 54), OutB(64, Divisor(hz) % 256), OutB(64, Divisor(hz) \div 256),
         SetGate(32, "irq", 0), IntN(32), Do("sti")>>

\* RFLAGS pushed with IF forced on.
PushUserFlags == <<Do("pushf"), Do("or_if")>>

arch_enter_user ==
  <<Do("cli"), Do("set_rsp"), PushImm(SB_USER_DATA_SELECTOR), Push("rsi")>>
    \o PushUserFlags
    \o <<PushImm(SB_USER_CODE_SELECTOR), Push("rdi"), Do("iretq")>>

\* Without a process the jump to user mode is skipped; the last instruction
\* is the hlt loop.
kmain ==
  <<Do("lidt")>> \o gdt_init
    \o <<SetGate(128, "int80", 3), Do("prepare_init_process")>> \o timer_init(100)
    \o <<Do("process_activate"), Do("arguments")>> \o arch_enter_user
    \o <<Do("hlt")>>

RestoreRegs ==
  Pops(<<"r11", "r10", "r9", "r8", "rdi", "rsi", "rdx", "rcx", "rax">>)

SendEOI == OutB(32, 32)

sb_timer_irq_stub ==
  Pushes(<<"rax", "rcx", "rdx", "rsi", "rdi", "r8", "r9", "r10", "r11">>)
    \o <<serial_mark(69), Call("sb_timer_tick"), serial_mark(84),
         SendEOI, serial_mark(79)>>
    \o RestoreRegs
    \o <<serial_mark(82), Do("iretq")>>

DropSaved == AddRsp(72)

sb_syscall_int80_stub ==
  Pushes(<<"r11", "r10", "r9", "r8", "rcx", "rdx", "rsi", "rdi", "rax">>)
    \o <<Load(64, "rdi"), Load(56, "rsi"), Load(48, "rdx"), Load(40, "rcx"),
         Load(8, "r8"), Load(24, "r9"), Call("sb_syscall_dispatch_entry"),
         DropSaved, Do("iretq")>>

EXC_NOERR(v) == <<PushImm(0), PushImm(v)>>
EXC_ERR(v) == <<PushImm(v)>>

\* Which stub each vector has, as listed in exception.S.
HasErrorStub(v) == v \in {8, 10, 11, 12, 13, 14, 21, 30}

sb_exception_common ==
  <<serial_mark(88), Do("cli"), Load(0, "rdi"), Load(8, "rsi"),
    Load(16, "rdx"), Load(24, "rcx"), Load(32, "r8"),
    Call("sb_panic_from_exception")>>

sb_exception(v) ==
  (IF HasErrorStub(v) THEN EXC_ERR(v) ELSE EXC_NOERR(v)) \o sb_exception_common

\* The exceptions for which the processor itself pushes an error code
\* (Intel SDM vol. 3, table 6-1).
PushesError(v) == v \in {8, 10, 11, 12, 13, 14, 17, 21}

\* Every fault has a gate.  The stubs of 17 (alignment check) and 30 do not
\* agree with the processor; boot.S leaves CR0.AM clear, so that 17 is not
\* raised, and 30 is raised under a hypervisor extension nobody turns on.
ASSUME VectorsAssumption == FaultVectors \cup {13, 14, 32, 128} \subseteq Vectors
ASSUME FaultsAssumption == FaultVectors \subseteq 0 .. 31 \ {17, 30}

Code(p) == CASE p = "kmain" -> kmain
             [] p = "irq"   -> sb_timer_irq_stub
             [] p = "int80" -> sb_syscall_int80_stub
             [] p = "exc"   -> sb_exception(entered.stub)

----------------------------------------------------------------------------
(* The processor *)

FromTop(n) == stack[Len(stack) - n]
Dropped(n) == SubSeq(stack, 1, Len(stack) - n)
Flags == IF iflag THEN IF_BIT + 2 ELSE 2

\* %dx and %al are the low 16 and 8 bits of rdx and rax.
WithLow(v, m, x) == IF v = CLOBBERED THEN v ELSE (v - (v % m)) + x
Output(f, port, ch) == [f EXCEPT !["rdx"] = WithLow(@, 65536, port),
                                 !["rax"] = WithLow(@, 256, ch)]

\* The user stack's pages are mapped in the process's root only, with the
\* no-execute bit, which is a reserved bit while EFER.NXE is 0.
StackUsable == area = "user" => cr3 = "process" /\ nxe

\* From user mode the stack is TSS.rsp0's, empty; from the kernel it goes on.
\* An interrupt that cannot be delivered resets the machine.
Deliver(v, error, rip, soft) ==
  LET outer == cs % 4 = 3
      base == (IF outer THEN <<>> ELSE stack)
                \o <<ss, IF outer THEN USER_STACK ELSE STACK_TOP, Flags, cs, rip>>
      good == GateOK(v) /\ (IF outer THEN task.loaded /\ task.rsp0 # 0
                            ELSE StackUsable)
  IN IF ~ good
     THEN prog' = "reset" /\ UNCHANGED <<ip, cpu, entered>>
     ELSE /\ prog' = idt[v].stub /\ ip' = 1
          /\ stack' = IF error THEN Append(base, FAULT_ERROR) ELSE base
          /\ area' = IF outer THEN "kernel" ELSE area
          /\ entered' = [regs |-> regs, vector |-> v, stub |-> idt[v].number,
                         rip |-> rip, cs |-> cs, flags |-> Flags,
                         stack |-> base, soft |-> soft]
          /\ iflag' = (iflag /\ ~ IsInterruptGate(v))
          /\ cs' = idt[v].selector /\ ss' = IF outer THEN 0 ELSE ss
          /\ UNCHANGED regs

Enter(v, error, rip, soft) ==
  Deliver(v, error, rip, soft) /\ UNCHANGED <<start, ticks, dispatched, tables>>

\* A device asks on a line; the controller passes it on while IF is set.
Interrupt(line) ==
  /\ iflag /\ prog \notin {"panic", "reset"} /\ LinePasses(line)
  /\ Acknowledge(line)
  /\ Deliver(LineVector(line), FALSE, IF prog = "user" THEN USER_ENTRY ELSE ip, FALSE)
  /\ UNCHANGED <<start, ticks, dispatched, gdt, task, idt>>

\* int n in user mode: through a gate of privilege 3 only.
UserInt == \E v \in {32, 128} :
  /\ prog = "user"
  /\ IF GateDPL(v) = 3 THEN Enter(v, FALSE, USER_ENTRY, TRUE)
     ELSE Enter(13, TRUE, USER_ENTRY, FALSE)

Exception == \E v \in FaultVectors :
  prog = "user" /\ Enter(v, PushesError(v), USER_ENTRY, FALSE)

\* The user program computes.
UserCode ==
  /\ prog = "user"
  /\ regs' \in UserFiles
  /\ UNCHANGED <<prog, ip, stack, area, iflag, cs, ss, start, ticks, entered,
                 dispatched, tables>>

----------------------------------------------------------------------------
(* One instruction of the kernel's code *)

Instr == Code(prog)[ip]

Step == /\ ip' = ip + 1
        /\ UNCHANGED <<prog, area, cs, ss, entered, dispatched>>
Keep == Step /\ UNCHANGED <<start, ticks, tables>>

\* A push on a stack that is not usable is a page fault.
DoPush(v) ==
  IF StackUsable THEN stack' = Append(stack, v) /\ UNCHANGED <<regs, iflag>> /\ Keep
  ELSE Enter(14, TRUE, ip, FALSE)

DoStack ==
  \/ Instr.op = "push" /\ DoPush(regs[Instr.reg])
  \/ Instr.op = "pushimm" /\ DoPush(Instr.val)
  \/ Instr.op = "pushf" /\ DoPush(Flags)
  \/ /\ Instr.op = "or_if"
     /\ stack' = Append(Dropped(1), IF_BIT + 2)
     /\ UNCHANGED <<regs, iflag>> /\ Keep
  \/ /\ Instr.op = "set_rsp"                 \* movq %rsi, %rsp
     /\ stack' = <<>> /\ area' = "user" /\ ip' = ip + 1
     /\ UNCHANGED <<prog, regs, iflag, cs, ss, start, ticks, entered, dispatched,
                    tables>>
  \/ /\ Instr.op = "addrsp"
     /\ stack' = Dropped(Instr.off \div 8)
     /\ UNCHANGED <<regs, iflag>> /\ Keep

DoRegs ==
  \/ /\ Instr.op = "pop"
     /\ regs' = [regs EXCEPT ![Instr.reg] = FromTop(0)]
     /\ stack' = Dropped(1) /\ UNCHANGED iflag /\ Keep
  \/ /\ Instr.op = "load"
     /\ regs' = [regs EXCEPT ![Instr.reg] = FromTop(Instr.off \div 8)]
     /\ UNCHANGED <<stack, iflag>> /\ Keep
  \/ /\ Instr.op = "arguments"
     /\ regs' = [regs EXCEPT !["rdi"] = USER_ENTRY, !["rsi"] = USER_STACK]
     /\ UNCHANGED <<stack, iflag>> /\ Keep
  \/ /\ Instr.op = "out"
     /\ regs' = Output(regs, Instr.port, Instr.ch)
     /\ WritePort(Instr.port, Instr.ch)
     /\ UNCHANGED <<stack, iflag, start, ticks, gdt, task, idt>> /\ Step
  \/ /\ Instr.op = "cli"
     /\ iflag' = FALSE /\ UNCHANGED <<regs, stack>> /\ Keep
  \/ /\ Instr.op = "sti"
     /\ iflag' = TRUE /\ UNCHANGED <<regs, stack>> /\ Keep

DoTables ==
  /\ UNCHANGED <<regs, stack, iflag, pic>>
  /\ \/ /\ Instr.op = "lidt"
        /\ interrupts_init
        /\ Step /\ UNCHANGED <<start, ticks, gdt, task>>
     \/ /\ Instr.op = "lgdt"
        /\ gdt' = gdt_entries /\ task' = [task EXCEPT !.rsp0 = STACK_TOP]
        /\ Step /\ UNCHANGED <<start, ticks, idt>>
     \/ /\ Instr.op = "ltr"
        /\ task' = [task EXCEPT !.loaded = TaskOK(SB_TSS_SELECTOR)]
        /\ Step /\ UNCHANGED <<start, ticks, gdt, idt>>
     \/ /\ Instr.op = "gate"
        /\ idt_set_gate(Instr.vec, Instr.stub, Instr.dpl)
        /\ Step /\ UNCHANGED <<start, ticks, gdt, task>>

\* Whether the module is found, loaded and given a stack is Process's matter.
DoStart ==
  /\ UNCHANGED <<regs, stack, iflag, nxe, tables>>
  /\ \/ /\ Instr.op = "prepare_init_process"
        /\ init_process' \in {"prepared", "failed"}
        /\ Step /\ UNCHANGED <<cr3, ticks>>
     \/ /\ Instr.op = "zero_ticks"
        /\ ticks' = 0
        /\ Step /\ UNCHANGED <<init_process, cr3>>
     \/ /\ Instr.op = "process_activate"
        /\ cr3' = IF init_process = "prepared" THEN "process" ELSE cr3
        /\ ip' = IF init_process = "prepared" THEN ip + 1 ELSE Len(kmain)
        /\ UNCHANGED <<prog, area, cs, ss, entered, dispatched, init_process, ticks>>

\* syscall_dispatch; a number left over from C code may be anything.
Results(number) ==
  CASE number = 0 -> {ticks}
    [] number = 1 -> TASK_IDS
    [] number = 2 -> {0}
    [] number = CLOBBERED -> TASK_IDS \cup {ticks, 0, UINT64_MAX}
    [] OTHER -> {UINT64_MAX}

AfterC(rax) == [r \in Regs |-> IF r = "rax" THEN rax ELSE CLOBBERED]

DoCall ==
  /\ Instr.op = "call"
  /\ dispatched' = [fn |-> Instr.fn, regs |-> regs]
  /\ UNCHANGED <<stack, area, iflag, cs, ss, start, entered, tables>>
  /\ \/ /\ Instr.fn = "sb_timer_tick"
        /\ ticks' = (ticks + 1) % TICK_WRAP
        /\ regs' = AfterC(CLOBBERED)
        /\ ip' = ip + 1 /\ UNCHANGED prog
     \/ /\ Instr.fn = "sb_syscall_dispatch_entry"
        /\ \E r \in Results(regs["rdi"]) : regs' = AfterC(r)
        /\ ip' = ip + 1 /\ UNCHANGED <<prog, ticks>>
     \/ /\ Instr.fn = "sb_panic_from_exception"      \* never returns
        /\ prog' = "panic"
        /\ UNCHANGED <<ip, regs, ticks>>

DoInt == Instr.op = "int" /\ Enter(Instr.vec, FALSE, ip + 1, TRUE)

\* rip, cs, rflags, rsp and ss are popped; selectors the tables do not allow
\* are a general protection fault.
DoIretq ==
  /\ Instr.op = "iretq"
  /\ LET to == FromTop(1) % 4 IN
       IF CodeOK(FromTop(1), to) /\ StackSegmentOK(FromTop(4), to)
       THEN /\ cs' = FromTop(1) /\ ss' = FromTop(4)
            /\ iflag' = (FromTop(2) >= IF_BIT)
            /\ prog' = IF to = 3 THEN "user" ELSE "kmain"
            /\ ip' = FromTop(0)
            /\ stack' = Dropped(5)
            /\ area' = IF to = 3 THEN "user" ELSE area
            /\ UNCHANGED <<regs, start, ticks, entered, dispatched, tables>>
       ELSE Enter(13, TRUE, ip, FALSE)

KernelCode ==
  /\ prog \in {"kmain", "irq", "int80", "exc"}
  /\ DoStack \/ DoRegs \/ DoTables \/ DoStart \/ DoCall \/ DoInt \/ DoIretq

\* The hlt loops of the panic screen and of kmain, and a machine that was reset.
Halted == /\ \/ prog \in {"panic", "reset"}
             \/ prog = "kmain" /\ Instr.op = "hlt"
          /\ UNCHANGED vars

----------------------------------------------------------------------------
\* boot.S calls kmain with interrupts off.  It sets EFER.LME only, and leaves
\* the rest of EFER as the loader had it.
Init ==
  /\ prog = "kmain" /\ ip = 1
  /\ regs = [r \in Regs |-> CLOBBERED] /\ stack = <<>> /\ area = "kernel"
  /\ iflag = FALSE
  /\ cs = SB_KERNEL_CODE_SELECTOR /\ ss = SB_KERNEL_DATA_SELECTOR
  /\ init_process = "none" /\ cr3 = "boot" /\ nxe \in BOOLEAN
  /\ ticks = 0
  /\ entered = [regs |-> regs, vector |-> 0, stub |-> 0, rip |-> 0, cs |-> cs,
                flags |-> 0, stack |-> <<>>, soft |-> FALSE]
  /\ dispatched = [fn |-> "none", regs |-> regs]
  /\ TablesInit

Next == \/ \E line \in Lines : Interrupt(line)
        \/ UserInt \/ Exception \/ UserCode \/ KernelCode \/ Halted

Spec == Init /\ [][Next]_vars

\* The processor goes on, and the PIT asks again and again: a request waits in
\* the controller until it can be taken.
FairSpec == Spec /\ WF_vars(KernelCode) /\ SF_vars(Interrupt(0))

----------------------------------------------------------------------------
(* Properties *)

Handlers == {"irq", "int80"}
Returning == prog \in Handlers /\ Instr.op = "iretq"

\* Every entry goes where the code means it to: a line only to the timer stub
\* at vector 32 (pic_remap masks all others), an exception to the stub of its
\* own number and only out of user mode, a user program's int only to 0x80;
\* a handler leaves through the frame it was entered with, and the selectors in
\* it are valid in the tables, which change under running code (gdt.c keeps
\* the boot selector).  Only the user stack can make a transfer fail.
TransfersValid ==
  /\ prog = "irq" => entered.vector = 32
  /\ prog = "int80" => entered.vector = 128
  /\ prog \in {"exc", "panic"} => /\ entered.cs = SB_USER_CODE_SELECTOR
                                  /\ entered.vector < 32
                                  /\ entered.stub = entered.vector
  /\ (entered.soft /\ entered.cs = SB_USER_CODE_SELECTOR) => entered.vector = 128
  /\ Returning => stack = entered.stack
  /\ prog = "reset" => ~ StackUsable

\* The timer goes on interrupting, in user mode and in kmain's hlt loop, until
\* the machine stops: each interrupt is ended at the controller that has it in
\* service (irq.S) and IRQ 0 stays unmasked.
TimerKeepsTicking == []<>(prog = "irq") \/ <>(prog \in {"panic", "reset"})

\* A handler is never interrupted, and a user program always can be: the
\* flags arch_enter_user builds have IF set although it runs after cli.
InterruptsOnlyOutside ==
  /\ prog = "user" => iflag /\ cs = SB_USER_CODE_SELECTOR
  /\ prog \in {"irq", "int80", "exc"} => ~ iflag

\* The timer interrupt gives the interrupted program its registers back, all
\* but the %al and %dx that the mark after the last pop writes.
TimerKeepsOthers ==
  (Returning /\ prog = "irq") => regs = Output(entered.regs, 1016, 82)

\* The panic screen shows the vector, the error code, and the rip, cs and
\* flags of the code that faulted, whichever stub the vector has.
PanicReportsFault ==
  prog = "panic" =>
    LET shown == dispatched.regs IN
      /\ shown["rdi"] = entered.vector
      /\ shown["rsi"] = IF PushesError(entered.vector) THEN FAULT_ERROR ELSE 0
      /\ shown["rdx"] = entered.rip
      /\ shown["rcx"] = entered.cs
      /\ shown["r8"] = entered.flags

\* docs/USERMODE.md, line 43: "A process must have a valid address space, code
\* mapping, stack mapping, and syscall permissions before entering ring 3": the
\* stack arch_enter_user pushes its frame on can be written.
StackReady == StackUsable

\* syscall.S, line 33, and docs/SYSCALL_ABI.md, line 17: the number handed to
\* the dispatcher is the rax of the program that executed int 0x80.
NumberIsRax ==
  (dispatched.fn = "sb_syscall_dispatch_entry" /\ prog = "int80" /\ Returning)
    => dispatched.regs["rdi"] = entered.regs["rax"]

=============================================================================
