-------------------------- MODULE KernelEntryProofs --------------------------
(***************************************************************************)
(* The timer's handler, kmain and the user programs, and the theorems that *)
(* the steps of every program make up.                                     *)
(***************************************************************************)
EXTENDS KernelEntryLemmas

-----------------------------------------------------------------------------
(* irq.S *)

\* It pops them in the opposite order.
LEMMA IrqSaves ==
  \A j \in 1 .. 9 : /\ sb_timer_irq_stub[j] = Push(IrqOrder[j])
                    /\ sb_timer_irq_stub[24 - j] = Pop(IrqOrder[j])
<1>1. /\ IrqOrder[1] = "rax" /\ IrqOrder[2] = "rcx" /\ IrqOrder[3] = "rdx"
      /\ IrqOrder[4] = "rsi" /\ IrqOrder[5] = "rdi" /\ IrqOrder[6] = "r8"
      /\ IrqOrder[7] = "r9" /\ IrqOrder[8] = "r10" /\ IrqOrder[9] = "r11"
  BY Zenon DEF IrqOrder
<1> QED
  BY <1>1, IrqCode

\* What the invariant says of the timer's handler.
LEMMA IrqFacts ==
  ASSUME IInv, prog = "irq"
  PROVE  /\ ip \in 1 .. 25 /\ Instr = sb_timer_irq_stub[ip]
         /\ SavedOn(stack, entered, IrqOrder, IrqDepth(ip))
         /\ ip <= 10 => regs = entered.regs
         /\ ip \in 15 .. 24 =>
              \A j \in 1 .. 9 :
                j > IrqDepth(ip) => regs[IrqOrder[j]] = entered.regs[IrqOrder[j]]
BY SMTT(30) DEF IInv, IrqInv, Saved, Instr, Code

\* A handler that is about to return has its whole frame, and nothing else, on
\* the stack.
LEMMA AtReturn ==
  ASSUME IInv, Returning
  PROVE  /\ stack = entered.stack
         /\ prog = "irq" => regs = Output(entered.regs, 1016, 82)
<1>1. prog \in {"irq", "int80"} /\ Instr.op = "iretq"
  BY Zenon DEF Returning, Handlers
<1>2. CASE prog = "irq"
  <2>1. ip \in 1 .. 25 /\ Instr = sb_timer_irq_stub[ip]
    BY Zenon, <1>2, IrqFacts
  <2>2. ip = 25
    <3>1. CASE ip \in 1 .. 9
      BY SMTT(30), <1>1, <2>1, <3>1, IrqSaves DEF Push
    <3>2. CASE ip \in {10, 12, 13, 14, 24}
      BY SMTT(30), <1>1, <2>1, <3>2, IrqCode DEF OutB
    <3>3. CASE ip = 11
      BY <1>1, <2>1, <3>3, IrqCode DEF Call
    <3>4. CASE ip \in 15 .. 23
      <4>1. 24 - ip \in 1 .. 9 /\ 24 - (24 - ip) = ip
        BY <3>4
      <4>2. Instr = Pop(IrqOrder[24 - ip])
        BY Zenon, <2>1, <4>1, IrqSaves
      <4> QED
        BY Zenon, <1>1, <4>2 DEF Pop
    <3> QED
      BY SMTT(30), <2>1, <3>1, <3>2, <3>3, <3>4
  <2>3. SavedOn(stack, entered, IrqOrder, 0)
    BY <1>2, <2>2, IrqFacts DEF IrqDepth
  <2>4. regs = Output(entered.regs, 1016, 82)
    BY <1>2, <2>2 DEF IInv, IrqInv
  <2> QED
    BY Zenon, <1>2, <2>3, <2>4, FrameBack
<1>3. CASE prog = "int80"
  <2>1. ip \in 1 .. 18 /\ Instr = sb_syscall_int80_stub[ip]
    BY Zenon, <1>3, Int80Facts
  <2>2. ip = 18
    <3>1. CASE ip \in 1 .. 9
      BY SMTT(30), <1>1, <2>1, <3>1, Int80Saves DEF Push
    <3>2. CASE ip \in 10 .. 15
      BY SMTT(30), <1>1, <2>1, <3>2, Int80Code DEF Load
    <3>3. CASE ip = 16
      BY SMTT(30), <1>1, <2>1, <3>3, Int80Code DEF Call
    <3>4. CASE ip = 17
      BY SMTT(30), <1>1, <2>1, <3>4, Int80Code DEF AddRsp
    <3> QED
      BY SMTT(30), <2>1, <3>1, <3>2, <3>3, <3>4
  <2>3. SavedOn(stack, entered, Int80Order, 0)
    BY SMTT(30), <1>3, <2>2, Int80Facts DEF Int80Depth
  <2> QED
    BY <1>3, <2>3, FrameBack
<1> QED
  BY Zenon, <1>1, <1>2, <1>3

\* Every instruction of the timer's handler.
LEMMA IrqStep == IInv /\ prog = "irq" /\ KernelCode => IInv'
\* A pop.
<1>OpPop. ASSUME KernelCode, NEW r, Instr = Pop(r)
          PROVE  /\ regs' = [regs EXCEPT ![r] = FromTop(0)]
                 /\ stack' = Dropped(1) /\ UNCHANGED iflag /\ Keep
  BY Zenon, <1>OpPop DEF KernelCode, DoStack, DoRegs, DoTables, DoStart, DoCall, DoInt, DoIretq, Pop
\* The top one popped.
<1>SavePop. ASSUME NEW s, NEW t, NEW e, NEW order, NEW n, n \in Nat, SavedOn(s, e, order, n + 1),
                   DroppedOff(t, s, 1)
            PROVE  SavedOn(t, e, order, n)
  <2> USE <1>SavePop
  <2>1. /\ Len(t) = 5 + n /\ \A j \in 1 .. 5 + n : t[j] = s[j]
    BY DEF SavedOn, DroppedOff
  <2>2. \A j \in 1 .. 5 : t[j] = e.stack[j]
    BY SMTT(30), <2>1 DEF SavedOn
  <2>3. \A j \in 1 .. n : t[5 + j] = e.regs[order[j]]
    <3> SUFFICES ASSUME NEW j \in 1 .. n PROVE t[5 + j] = e.regs[order[j]]
      OBVIOUS
    <3>1. s[5 + j] = e.regs[order[j]]
      BY DEF SavedOn
    <3> QED
      BY SMTT(30), <2>1, <3>1
  <2> QED
    BY Zenon, <2>1, <2>2, <2>3 DEF SavedOn
\* The nine registers it saves are all there are.
<1>IrqRegs. /\ \A j \in 1 .. 9 : IrqOrder[j] \in Regs
            /\ \A r \in Regs : \E j \in 1 .. 9 : r = IrqOrder[j]
            /\ \A j, k \in 1 .. 9 : j # k => IrqOrder[j] # IrqOrder[k]
  <2>1. /\ IrqOrder[1] = "rax" /\ IrqOrder[2] = "rcx" /\ IrqOrder[3] = "rdx"
        /\ IrqOrder[4] = "rsi" /\ IrqOrder[5] = "rdi" /\ IrqOrder[6] = "r8"
        /\ IrqOrder[7] = "r9" /\ IrqOrder[8] = "r10" /\ IrqOrder[9] = "r11"
    BY Zenon DEF IrqOrder
  <2> QED
    BY <2>1 DEF Regs
\* The pushes.
<1>IrqPush. ASSUME IInv, prog = "irq", ip \in 1 .. 9, KernelCode
            PROVE  IInv'
  <2> USE <1>IrqPush
  <2>1. /\ Instr = sb_timer_irq_stub[ip] /\ SavedOn(stack, entered, IrqOrder, IrqDepth(ip))
        /\ regs = entered.regs /\ stack \in Seq(Int) /\ regs \in [Regs -> Int]
    BY IrqFacts, HandlerFacts
  <2>2. IrqOrder[ip] \in Regs /\ Instr = Push(IrqOrder[ip])
    BY Zenon, <2>1, IrqSaves, <1>IrqRegs
  <2>3. regs[IrqOrder[ip]] \in Int
    BY Zenon, <2>1, <2>2
  <2>4. DoPush(regs[IrqOrder[ip]])
    BY Zenon, <2>2, OpPush
  <2>5. Pushed(stack', stack, regs[IrqOrder[ip]]) /\ UNCHANGED <<regs, iflag>> /\ Keep
    BY Zenon, <2>3, <2>4, HandlerPush
  <2>6. UNCHANGED <<prog, entered>> /\ ip' = ip + 1 /\ ip - 1 \in Nat /\ ip - 1 + 1 = ip
    BY <2>5 DEF Keep, Step
  <2>7. IrqDepth(ip) = ip - 1 /\ IrqDepth(ip') = ip
    BY <2>6 DEF IrqDepth
  <2>8. SavedOn(stack', entered, IrqOrder, ip)
    <3>1. SavedOn(stack, entered, IrqOrder, ip - 1)
      BY Zenon, <2>1, <2>7
    <3>2. Pushed(stack', stack, entered.regs[IrqOrder[ip - 1 + 1]])
      BY Zenon, <2>1, <2>5, <2>6
    <3>3. SavedOn(stack', entered, IrqOrder, ip - 1 + 1)
      BY <2>6, <3>1, <3>2, SavePush, Zenon
    <3> QED
      BY Zenon, <2>6, <3>3
  <2>9. IrqInv'
    <3>1. entered.vector = 32
      BY Zenon DEF IInv, IrqInv
    <3> QED
      BY SMTT(30), <2>1, <2>5, <2>6, <2>7, <2>8, <3>1 DEF IrqInv, Saved
  <2>10. Int80Inv' /\ ExcInv'
    BY Zenon, <2>6 DEF Int80Inv, ExcInv
  <2>11. stack' \in Seq(Int) /\ regs' \in [Regs -> Int]
    BY Zenon, <2>1, <2>5 DEF Pushed
  <2> QED
    BY Zenon, <2>5, <2>9, <2>10, <2>11, HandlerKeeps
\* A step of the timer's handler that leaves the saved registers on the stack.
<1>IrqMiddle. ASSUME IInv, prog = "irq", ip \in 10 .. 14, Step, stack' = stack,
                     UNCHANGED <<start, iflag, task, gdt, idt>>, ticks' \in Int,
                     regs' \in [Regs -> Int], pic' \in [master : Chip, slave : Chip], MasterAt(24)'
              PROVE  IInv'
  <2> USE <1>IrqMiddle
  <2>1. /\ SavedOn(stack, entered, IrqOrder, IrqDepth(ip)) /\ TypeInv /\ Ready /\ ~ iflag
        /\ stack \in Seq(Int)
    BY Zenon, IrqFacts, HandlerFacts
  <2>2. /\ ip' = ip + 1 /\ UNCHANGED <<prog, area, cs, entered>>
    BY Zenon DEF Step
  <2>3. IrqDepth(ip) = 9 /\ IrqDepth(ip') = 9
    BY SMTT(30), <2>2 DEF IrqDepth
  <2>4. IrqInv'
    <3>1. entered.vector = 32
      BY Zenon DEF IInv, IrqInv
    <3> QED
      BY SMTT(30), <2>1, <2>2, <2>3, <3>1 DEF IrqInv, Saved
  <2>5. Int80Inv' /\ ExcInv'
    BY Zenon, <2>2 DEF Int80Inv, ExcInv
  <2>6. Ready'
    BY Zenon, <2>1 DEF Ready, TablesAt
  <2>7. iflag' = FALSE
    BY <2>1, Zenon DEF TypeInv
  <2>8. ip' \in Int /\ stack' \in Seq(Int)
    BY SMTT(30), <2>1, <2>2
  <2> QED
    BY Zenon, <2>2, <2>4, <2>5, <2>6, <2>7, <2>8, HandlerStays
\* The marks before the pops, and the end of interrupt.
<1>IrqOut. ASSUME IInv, prog = "irq", ip \in {10, 12, 13, 14}, KernelCode
           PROVE  IInv'
  <2> USE <1>IrqOut
  <2>1. Instr = sb_timer_irq_stub[ip] /\ TypeInv
    BY Zenon, IrqFacts, HandlerFacts
  <2>2. PICK port, ch : /\ Instr = OutB(port, ch) /\ ch \in Int
                        /\ port = 1016 \/ (port = 32 /\ ch = 32)
    <3>1. CASE ip = 10
      BY SMTT(30), <2>1, <3>1, IrqCode
    <3>2. CASE ip = 12
      BY SMTT(30), <2>1, <3>2, IrqCode
    <3>3. CASE ip = 13
      BY SMTT(30), <2>1, <3>3, IrqCode
    <3>4. CASE ip = 14
      BY SMTT(30), <2>1, <3>4, IrqCode
    <3> QED
      BY Zenon, <3>1, <3>2, <3>3, <3>4
  <2>3. /\ regs' \in [Regs -> Int]
        /\ UNCHANGED <<stack, iflag, start, ticks, gdt, task, idt>> /\ Step
        /\ MasterAt(24)' /\ pic' \in [master : Chip, slave : Chip]
    BY <2>2, HandlerPort
  <2> QED
    BY SMTT(30), <2>1, <2>3, <1>IrqMiddle DEF TypeInv
\* sb_timer_tick.
<1>IrqCall. ASSUME IInv, prog = "irq", ip = 11, KernelCode
            PROVE  IInv'
  <2> USE <1>IrqCall
  <2>1. Instr = Call("sb_timer_tick") /\ TypeInv /\ Ready
    BY SMTT(30), IrqFacts, HandlerFacts, IrqCode
  <2>2. /\ UNCHANGED <<stack, area, iflag, cs, start, entered, tables>>
        /\ ticks' = (ticks + 1) % TICK_WRAP /\ regs' = AfterC(CLOBBERED)
        /\ ip' = ip + 1 /\ UNCHANGED prog
    BY SMTT(30), <2>1, OpCall
  <2>3. ticks' \in Int
    BY SMTT(30), <2>1, <2>2, TicksAssumption DEF TypeInv
  <2>4. regs' \in [Regs -> Int]
    BY SMTT(30), <2>2, AfterCType DEF CLOBBERED
  <2>5. SavedOn(stack', entered', IrqOrder, 9) /\ entered.vector = 32 /\ stack' \in Seq(Int)
    BY SMTT(30), <2>1, <2>2, IrqFacts DEF IInv, IrqInv, TypeInv, IrqDepth
  <2>6. IrqInv'
    BY <2>2, <2>5 DEF IrqInv, Saved, IrqDepth
  <2>7. Int80Inv' /\ ExcInv'
    BY Zenon, <2>2 DEF Int80Inv, ExcInv
  <2>8. Ready'
    BY Zenon, <2>1, <2>2, ReadyStays
  <2>9. iflag' = FALSE
    BY <2>1, <2>2, HandlerFacts, Zenon DEF TypeInv
  <2>10. ip' \in Int /\ pic' \in [master : Chip, slave : Chip] /\ task' = task
    BY <2>1, <2>2 DEF TypeInv, tables
  <2> QED
    BY Zenon, <2>2, <2>3, <2>4, <2>5, <2>6, <2>7, <2>8, <2>9, <2>10, HandlerStays
\* The pops.
<1>IrqPop. ASSUME IInv, prog = "irq", ip \in 15 .. 23, KernelCode
           PROVE  IInv'
  <2> USE <1>IrqPop
  <2> DEFINE n == 24 - ip
             r == IrqOrder[n]
  <2>1. /\ Instr = sb_timer_irq_stub[ip] /\ SavedOn(stack, entered, IrqOrder, IrqDepth(ip))
        /\ stack \in Seq(Int) /\ regs \in [Regs -> Int] /\ entered.regs \in [Regs -> Int]
        /\ \A j \in 1 .. 9 : j > IrqDepth(ip) => regs[IrqOrder[j]] = entered.regs[IrqOrder[j]]
    BY SMTT(30), IrqFacts, HandlerFacts
  <2>2. n \in 1 .. 9 /\ 24 - n = ip /\ n - 1 \in Nat /\ n - 1 + 1 = n /\ IrqDepth(ip) = n
    BY DEF IrqDepth
  <2>3. r \in Regs /\ Instr = Pop(r)
    BY Zenon, <2>1, <2>2, IrqSaves, <1>IrqRegs
  <2>4. regs' = [regs EXCEPT ![r] = FromTop(0)] /\ stack' = Dropped(1) /\ UNCHANGED iflag /\ Keep
    BY Zenon, <2>3, <1>OpPop
  <2>5. UNCHANGED <<prog, entered>> /\ ip' = ip + 1
    BY Zenon, <2>4 DEF Keep, Step
  <2>6. IrqDepth(ip') = n - 1
    BY <2>5 DEF IrqDepth
  <2>7. Len(stack) = 5 + n
    BY Zenon, <2>1, <2>2 DEF SavedOn
  <2>8. DroppedOff(stack', stack, 1)
    <3>1. 1 \in 0 .. Len(stack)
      BY <2>2, <2>7
    <3> QED
      BY <2>1, <2>4, <3>1, DropStack, Zenon DEF Dropped
  <2>9. /\ SavedOn(stack', entered, IrqOrder, n - 1)
        /\ stack[Len(stack)] = entered.regs[IrqOrder[n]]
    <3> DEFINE m == n - 1
    <3>1. m \in Nat /\ SavedOn(stack, entered, IrqOrder, m + 1)
      BY Zenon, <2>1, <2>2
    <3> HIDE DEF m
    <3>2. SavedOn(stack', entered, IrqOrder, m)
      BY <2>8, <3>1, <1>SavePop, Zenon
    <3>3. stack[5 + n] = entered.regs[IrqOrder[n]]
      <4>1. SavedOn(stack, entered, IrqOrder, n) /\ n \in 1 .. n
        BY SMTT(30), <2>1, <2>2
      <4> HIDE DEF n
      <4> QED
        BY <4>1, Zenon DEF SavedOn
    <3> QED
      BY Zenon, <2>7, <3>2, <3>3 DEF m
  <2>10. FromTop(0) = entered.regs[r] /\ entered.regs[r] \in Int
    BY <2>1, <2>3, <2>7, <2>9 DEF FromTop
  <2>11. regs' = [regs EXCEPT ![r] = entered.regs[r]]
    BY Zenon, <2>4, <2>10
  <2>12. regs' \in [Regs -> Int] /\ stack' \in Seq(Int)
    BY Zenon, <2>1, <2>3, <2>8, <2>10, <2>11 DEF DroppedOff
  <2> HIDE DEF n
  <2>13. \A j \in 1 .. 9 : j > n - 1 => regs'[IrqOrder[j]] = entered.regs[IrqOrder[j]]
    <3> SUFFICES ASSUME NEW j \in 1 .. 9, j > n - 1
                 PROVE  regs'[IrqOrder[j]] = entered.regs[IrqOrder[j]]
      OBVIOUS
    <3>1. CASE j = n
      BY Zenon, <2>1, <2>3, <2>11, <3>1
    <3>2. CASE j # n
      <4>1. j > IrqDepth(ip)
        BY <2>2, <3>2
      <4>2. IrqOrder[j] # r /\ IrqOrder[j] \in Regs
        BY Zenon, <2>2, <3>2, <1>IrqRegs
      <4>3. regs[IrqOrder[j]] = entered.regs[IrqOrder[j]]
        BY Zenon, <2>1, <4>1
      <4> QED
        BY Zenon, <2>1, <2>11, <4>2, <4>3
    <3> QED
      BY Zenon, <3>1, <3>2
  <2>14. IrqInv'
    <3>1. entered.vector = 32
      BY Zenon DEF IInv, IrqInv
    <3> QED
      BY SMTT(30), <2>5, <2>6, <2>9, <2>13, <3>1 DEF IrqInv, Saved
  <2>15. Int80Inv' /\ ExcInv'
    BY Zenon, <2>5 DEF Int80Inv, ExcInv
  <2> QED
    BY Zenon, <2>4, <2>12, <2>14, <2>15, HandlerKeeps
\* The mark after the pops.
<1>IrqLast. ASSUME IInv, prog = "irq", ip = 24, KernelCode
            PROVE  IInv'
  <2> USE <1>IrqLast
  <2>1. /\ Instr = OutB(1016, 82) /\ SavedOn(stack, entered, IrqOrder, IrqDepth(ip))
        /\ regs \in [Regs -> Int] /\ entered.regs \in [Regs -> Int] /\ stack \in Seq(Int)
        /\ \A j \in 1 .. 9 : j > IrqDepth(ip) => regs[IrqOrder[j]] = entered.regs[IrqOrder[j]]
    <3>1. Instr = OutB(1016, 82)
      BY IrqFacts, IrqCode
    <3>2. ip \in 15 .. 24
      OBVIOUS
    <3>3. /\ SavedOn(stack, entered, IrqOrder, IrqDepth(ip))
          /\ regs \in [Regs -> Int] /\ entered.regs \in [Regs -> Int] /\ stack \in Seq(Int)
          /\ \A j \in 1 .. 9 : j > IrqDepth(ip) => regs[IrqOrder[j]] = entered.regs[IrqOrder[j]]
      BY Zenon, <3>2, IrqFacts, HandlerFacts
    <3> QED
      BY Zenon, <3>1, <3>3
  <2>2. IrqDepth(ip) = 0
    BY DEF IrqDepth
  <2>3. \A r \in Regs : regs[r] = entered.regs[r]
    <3> SUFFICES ASSUME NEW r \in Regs PROVE regs[r] = entered.regs[r]
      OBVIOUS
    <3>1. PICK j \in 1 .. 9 : r = IrqOrder[j]
      BY Zenon, <1>IrqRegs
    <3>2. j > IrqDepth(ip)
      BY SMTT(30), <2>2
    <3> QED
      BY Zenon, <2>1, <3>1, <3>2
  <2>4. regs = entered.regs
    BY <2>1, <2>3
  <2>5. /\ regs' = Output(regs, 1016, 82) /\ regs' \in [Regs -> Int]
        /\ UNCHANGED <<stack, iflag, start, ticks, gdt, task, idt>> /\ Step
        /\ pic' \in [master : Chip, slave : Chip] /\ Ready'
    <3> DEFINE port == 1016
               ch == 82
    <3>1. Instr = OutB(port, ch) /\ (port = 1016 \/ (port = 32 /\ ch = 32)) /\ ch \in Int
      BY <2>1, SMTT(30)
    <3> HIDE DEF port, ch
    <3>2. /\ regs' = Output(regs, port, ch) /\ regs' \in [Regs -> Int]
          /\ UNCHANGED <<stack, iflag, start, ticks, gdt, task, idt>> /\ Step
          /\ pic' \in [master : Chip, slave : Chip] /\ Ready'
      BY Zenon, <3>1, HandlerPort
    <3> QED
      BY <3>2, SMTT(30) DEF port, ch
  <2>6. UNCHANGED <<prog, area, cs, entered>> /\ ip' = 25
    BY SMTT(30), <2>5 DEF Step
  <2>7. IrqInv'
    <3>1. entered.vector = 32 /\ IrqDepth(25) = 0
      BY DEF IInv, IrqInv, IrqDepth
    <3> QED
      BY SMTT(30), <2>1, <2>2, <2>4, <2>5, <2>6, <3>1 DEF IrqInv, Saved
  <2>8. Int80Inv' /\ ExcInv'
    BY Zenon, <2>6 DEF Int80Inv, ExcInv
  <2>9. iflag' = FALSE
    BY <2>5, HandlerFacts, Zenon DEF TypeInv
  <2>10. ip' \in Int /\ stack' \in Seq(Int) /\ ticks' \in Int
    BY SMTT(30), <2>1, <2>5, <2>6, HandlerFacts DEF TypeInv
  <2> QED
    BY Zenon, <2>5, <2>6, <2>7, <2>8, <2>9, <2>10, HandlerStays
\* A return to kmain, between the two instructions it was interrupted at.
<1>BackToKmain. ASSUME IInv, prog = "irq", NEW order, SavedOn(stack, entered, order, 0),
                       KernelCode, Instr = Do("iretq"), FromKmain
                PROVE  IInv'
  <2> USE <1>BackToKmain
  <2>1. TypeInv /\ Ready /\ gdt = gdt_entries /\ area = "kernel"
    BY Zenon, HandlerFacts
  <2>2. /\ Len(stack) = 5 /\ stack[4] = 24 /\ stack[1] = 16 /\ stack[5] = entered.rip
        /\ stack[3] = IF entered.rip = 25 THEN 2 ELSE IF_BIT + 2
        /\ entered.rip \in {25, 26, 27, 28, 37}
        /\ entered.rip \in {27, 28} => cr3 = "process"
    BY Zenon, FrameBack DEF FromKmain, SB_KERNEL_CODE_SELECTOR, SB_KERNEL_DATA_SELECTOR, Enabled
  <2>3. /\ cs' = 24 /\ ss' = 16 /\ ip' = entered.rip /\ prog' = "kmain" /\ stack' = <<>>
        /\ iflag' = (stack[3] >= IF_BIT) /\ area' = "kernel"
        /\ UNCHANGED <<regs, start, ticks, entered, dispatched, tables>>
    BY SMTT(30), <2>1, <2>2, Return
  <2>4. ip' \in 24 .. 37 /\ ip' \notin 30 .. 36 /\ (ip' \in Enabled <=> ip' # 25)
    BY SMTT(30), <2>2, <2>3 DEF Enabled
  <2>5. iflag' \in BOOLEAN /\ (iflag' <=> ip' # 25)
    <3>1. CASE ip' = 25
      <4>1. stack[3] = 2
        BY Zenon, <2>2, <2>3, <3>1
      <4>2. iflag' = FALSE
        BY <2>3, <4>1, FlagsBack, Zenon
      <4> QED
        BY <3>1, <4>2, Zenon
    <3>2. CASE ip' # 25
      <4>1. stack[3] = IF_BIT + 2
        BY Zenon, <2>2, <2>3, <3>2
      <4>2. iflag' = TRUE
        BY <2>3, <4>1, FlagsBack, Zenon
      <4> QED
        BY <3>2, <4>2, Zenon
    <3> QED
      BY <3>1, <3>2, Zenon
  <2>6. (TablesAt(ip))'
    <3>1. UNCHANGED tables /\ ip' \in 24 .. 37
      BY Zenon, <2>3, <2>4
    <3> QED
      BY Zenon, <2>1, <3>1, ReadyOn
  <2>7. KmainInv'
    BY SMTT(30), <2>2, <2>3, <2>4, <2>5, <2>6 DEF KmainInv, start, SB_KERNEL_CODE_SELECTOR,
       SB_KERNEL_DATA_SELECTOR
  <2>8. TypeInv'
    <3>1. ip' \in Int
      BY <2>4
    <3> QED
      BY <2>1, <2>3, <2>5, <3>1 DEF TypeInv, tables
  <2>9. prog' = "kmain" /\ SoftInv'
    BY Zenon, <2>3 DEF IInv, SoftInv
  <2>10. PanicInv' /\ ResetInv' /\ UserInv' /\ HandlerInv' /\ IrqInv' /\ Int80Inv' /\ ExcInv'
    BY Zenon, <2>9 DEF PanicInv, ResetInv, UserInv, HandlerInv, IrqInv, Int80Inv, ExcInv
  <2> QED
    BY Zenon, <2>7, <2>8, <2>9, <2>10 DEF IInv
<1> SUFFICES ASSUME IInv, prog = "irq", KernelCode
             PROVE  IInv'
  OBVIOUS
<1>1. /\ ip \in 1 .. 25 /\ Instr = sb_timer_irq_stub[ip]
      /\ SavedOn(stack, entered, IrqOrder, IrqDepth(ip)) /\ (FromUser \/ FromKmain)
  BY Zenon, IrqFacts, HandlerFacts
<1>2. CASE ip \in 1 .. 9
  BY Zenon, <1>2, <1>IrqPush
<1>3. CASE ip \in {10, 12, 13, 14}
  BY Zenon, <1>3, <1>IrqOut
<1>4. CASE ip = 11
  BY Zenon, <1>4, <1>IrqCall
<1>5. CASE ip \in 15 .. 23
  BY Zenon, <1>5, <1>IrqPop
<1>6. CASE ip = 24
  BY Zenon, <1>6, <1>IrqLast
<1>7. CASE ip = 25
  <2>1. Instr = Do("iretq") /\ SavedOn(stack, entered, IrqOrder, 0)
    BY SMTT(30), <1>1, <1>7, IrqCode DEF IrqDepth
  <2>2. CASE FromUser
    BY Zenon, <2>1, <2>2, BackToUser
  <2>3. CASE FromKmain
    BY Zenon, <2>1, <2>3, <1>BackToKmain
  <2> QED
    BY Zenon, <1>1, <2>2, <2>3
<1> QED
  BY SMTT(30), <1>1, <1>2, <1>3, <1>4, <1>5, <1>6, <1>7

-----------------------------------------------------------------------------
(* kmain *)

\* What the invariant says of kmain's next instruction.
LEMMA KmainFacts ==
  ASSUME IInv, prog = "kmain"
  PROVE  /\ ip \in 1 .. 37 /\ TypeInv /\ TablesAt(ip) /\ Instr = kmain[ip]
         /\ cs = 24 /\ ss = 16 /\ (iflag <=> ip \in Enabled)
         /\ ip \notin 30 .. 36 => stack = <<>> /\ area = "kernel"
         /\ ip \in 30 .. 36 => area = "user" /\ UserFrame(ip)
         /\ ip \in 27 .. 36 => cr3 = "process"
         /\ ip \in 31 .. 36 => nxe
BY Zenon DEF IInv, KmainInv, Instr, Code, SB_KERNEL_CODE_SELECTOR, SB_KERNEL_DATA_SELECTOR

\* A line of the interrupt controllers.
LEMMA InterruptStep ==
  ASSUME IInv, NEW line \in Lines, Interrupt(line)
  PROVE  IInv'
<1>1. /\ iflag /\ LinePasses(line) /\ Acknowledge(line)
      /\ Deliver(LineVector(line), FALSE, IF prog = "user" THEN USER_ENTRY ELSE ip, FALSE)
      /\ UNCHANGED <<start, ticks, dispatched, gdt, task, idt>>
      /\ prog \notin {"panic", "reset"}
  BY Zenon DEF Interrupt
<1>2. TypeInv /\ prog \in {"kmain", "user"}
  BY Zenon, <1>1 DEF IInv, TypeInv, HandlerInv
<1>3. Ready
  <2>1. CASE prog = "user"
    BY Zenon, <2>1, UserFacts
  <2>2. CASE prog = "kmain"
    <3>1. TablesAt(ip) /\ ip \in 24 .. 37
      BY SMTT(30), <1>1, <2>2, KmainFacts DEF Enabled
    <3> QED
      BY Zenon, <3>1, ReadyAt
  <2> QED
    BY Zenon, <1>2, <2>1, <2>2
<1>4. LineVector(line) = 32 /\ MasterAt(24)' /\ pic' \in [master : Chip, slave : Chip]
  BY Zenon, <1>1, <1>2, <1>3, OnlyTimer DEF Ready, TablesAt
<1>5. Ready'
  BY Zenon, <1>1, <1>3, <1>4 DEF Ready, TablesAt
<1>6. CASE prog = "user"
  <2>1. Deliver(32, FALSE, USER_ENTRY, FALSE)
    BY Zenon, <1>1, <1>4, <1>6
  <2> QED
    BY Zenon, <1>1, <1>3, <1>4, <1>5, <1>6, <2>1, EnterIrq, UserFacts
<1>7. CASE prog = "kmain"
  <2>1. Deliver(32, FALSE, ip, FALSE)
    BY Zenon, <1>1, <1>4, <1>7
  <2>2. /\ ip \in Int /\ ip \in Enabled /\ stack = <<>> /\ cs = 24 /\ ss = 16
        /\ area = "kernel" /\ (ip \in {27, 28} => cr3 = "process") /\ ip # 25
    BY SMTT(30), <1>1, <1>7, KmainFacts DEF Enabled
  <2> QED
    BY Zenon, <1>1, <1>3, <1>4, <1>5, <2>1, <2>2, EnterIrq
<1> QED
  BY Zenon, <1>2, <1>6, <1>7

\* Every instruction of kmain.
LEMMA KmainStep == IInv /\ prog = "kmain" /\ KernelCode => IInv'
\* kmain, with gdt_init, timer_init and arch_enter_user in their places.
<1>KmainCode. /\ kmain[1] = Do("lidt")
              /\ kmain[2] = Do("lgdt")
              /\ kmain[3] = Do("ltr")
              /\ kmain[4] = SetGate(128, "int80", 3)
              /\ kmain[5] = Do("prepare_init_process")
              /\ kmain[6] = Do("cli")
              /\ kmain[7] = Do("zero_ticks")
              /\ kmain[8] = OutB(33, 255)
              /\ kmain[9] = OutB(161, 255)
              /\ kmain[10] = OutB(32, 17)
              /\ kmain[11] = OutB(160, 17)
              /\ kmain[12] = OutB(33, 32)
              /\ kmain[13] = OutB(161, 40)
              /\ kmain[14] = OutB(33, 4)
              /\ kmain[15] = OutB(161, 2)
              /\ kmain[16] = OutB(33, 1)
              /\ kmain[17] = OutB(160, 1)
              /\ kmain[18] = OutB(33, 254)
              /\ kmain[19] = OutB(161, 255)
              /\ kmain[20] = OutB(67, 54)
              /\ kmain[21] = OutB(64, Divisor(100) % 256)
              /\ kmain[22] = OutB(64, Divisor(100) \div 256)
              /\ kmain[23] = SetGate(32, "irq", 0)
              /\ kmain[24] = IntN(32)
              /\ kmain[25] = Do("sti")
              /\ kmain[26] = Do("process_activate")
              /\ kmain[27] = Do("arguments")
              /\ kmain[28] = Do("cli")
              /\ kmain[29] = Do("set_rsp")
              /\ kmain[30] = PushImm(SB_USER_DATA_SELECTOR)
              /\ kmain[31] = Push("rsi")
              /\ kmain[32] = Do("pushf")
              /\ kmain[33] = Do("or_if")
              /\ kmain[34] = PushImm(SB_USER_CODE_SELECTOR)
              /\ kmain[35] = Push("rdi")
              /\ kmain[36] = Do("iretq")
              /\ kmain[37] = Do("hlt")
  BY SMTT(30) DEF kmain, gdt_init, timer_init, pic_remap, arch_enter_user, PushUserFlags
\* kmain has 37 instructions, the last of them its hlt loop.
<1>KmainLen. Len(kmain) = 37
  BY SMTT(30) DEF kmain, gdt_init, timer_init, pic_remap, arch_enter_user, PushUserFlags
\* idt_set_gate.
<1>OpGate. ASSUME KernelCode, NEW v, NEW stub, NEW dpl, Instr = SetGate(v, stub, dpl)
           PROVE  /\ idt_set_gate(v, stub, dpl)
                  /\ UNCHANGED <<regs, stack, iflag, pic, start, ticks, gdt, task>> /\ Step
  BY ZenonT(40), <1>OpGate DEF KernelCode, DoStack, DoRegs, DoTables, DoStart, DoCall, DoInt, DoIretq, SetGate
\* int n.
<1>OpInt. ASSUME KernelCode, NEW v, Instr = IntN(v)
          PROVE  Enter(v, FALSE, ip + 1, TRUE)
  BY ZenonT(40), <1>OpInt DEF KernelCode, DoStack, DoRegs, DoTables, DoStart, DoCall, DoInt, DoIretq, IntN
\* lidt, lgdt and ltr.
<1>OpTables. ASSUME KernelCode, NEW o, Instr = Do(o)
             PROVE  /\ o \in {"lidt", "lgdt", "ltr"} =>
                         UNCHANGED <<regs, stack, iflag, pic, start, ticks>> /\ Step
                    /\ o = "lidt" => interrupts_init /\ UNCHANGED <<gdt, task>>
                    /\ o = "lgdt" => /\ gdt' = gdt_entries /\ task' = [task EXCEPT !.rsp0 = STACK_TOP]
                                     /\ UNCHANGED idt
                    /\ o = "ltr" => /\ task' = [task EXCEPT !.loaded = TaskOK(SB_TSS_SELECTOR)]
                                    /\ UNCHANGED <<gdt, idt>>
  BY ZenonT(40), <1>OpTables DEF KernelCode, DoStack, DoRegs, DoTables, DoStart, DoCall, DoInt, DoIretq, Do
\* The calls of kmain that other modules model.
<1>OpStart. ASSUME KernelCode, NEW o, Instr = Do(o)
            PROVE  /\ o \in {"prepare_init_process", "zero_ticks", "process_activate"} =>
                        UNCHANGED <<prog, area, cs, ss, entered, dispatched,
                                    regs, stack, iflag, nxe, tables>>
                   /\ o = "prepare_init_process" => ip' = ip + 1 /\ UNCHANGED <<cr3, ticks>>
                   /\ o = "zero_ticks" => ip' = ip + 1 /\ ticks' = 0 /\ UNCHANGED cr3
                   /\ o = "process_activate" =>
                        /\ UNCHANGED ticks
                        /\ \/ cr3' = "process" /\ ip' = ip + 1
                           \/ ip' = Len(kmain)
  BY ZenonT(40), <1>OpStart DEF KernelCode, DoStack, DoRegs, DoTables, DoStart, DoCall, DoInt, DoIretq, Do, Step
\* hlt is not an instruction of KernelCode.
<1>OpHlt. ASSUME Instr = Do("hlt")
          PROVE  ~ KernelCode
  BY ZenonT(40), <1>OpHlt DEF KernelCode, DoStack, DoRegs, DoTables, DoStart, DoCall, DoInt, DoIretq, Do
\* An exception on a stack that cannot be written resets the machine.
<1>NoDelivery. ASSUME cs = 24, ~ StackUsable, NEW v, NEW error, NEW rip, NEW soft,
                      Deliver(v, error, rip, soft)
               PROVE  prog' = "reset" /\ UNCHANGED <<ip, cpu, entered>>
  <2> USE <1>NoDelivery
  <2>1. ~ (cs % 4 = 3)
    BY SMTT(30)
  <2> QED
    BY Zenon, <2>1 DEF Deliver
\* While kmain runs only its own part of the invariant says anything.
<1>KmainStays. ASSUME IInv, TypeInv', prog' = "kmain", entered' = entered, KmainInv'
               PROVE  IInv'
  BY Zenon, <1>KmainStays DEF IInv, SoftInv, PanicInv, ResetInv, UserInv, HandlerInv, IrqInv, Int80Inv, ExcInv
\* The way to the next instruction before the frame of user mode is built.
<1>KmainGoesOn. ASSUME IInv, prog = "kmain", ip \in 1 .. 28, ip' \in {ip + 1, 37},
                       prog' = "kmain", entered' = entered, stack' = stack, area' = area,
                       cs' = cs, ss' = ss, iflag' <=> ip' \in Enabled, (TablesAt(ip))',
                       ip' \in 27 .. 36 => cr3' = "process", TypeInv'
                PROVE  IInv'
  <2> USE <1>KmainGoesOn
  <2>1. KmainInv'
    <3>1. stack = <<>> /\ area = "kernel" /\ cs = 24 /\ ss = 16
      BY SMTT(30), KmainFacts
    <3>2. ip' \in 1 .. 37 /\ ip' \notin 30 .. 36
      OBVIOUS
    <3> QED
      BY SMTT(30), <3>1, <3>2 DEF KmainInv, SB_KERNEL_CODE_SELECTOR, SB_KERNEL_DATA_SELECTOR
  <2> QED
    BY Zenon, <2>1, <1>KmainStays
\* The tables: lidt, lgdt, ltr and the gate of int 0x80.
<1>KmainTables. ASSUME IInv, prog = "kmain", ip \in 1 .. 4, KernelCode
                PROVE  IInv'
  <2> USE <1>KmainTables
  <2>1. /\ TypeInv /\ TablesAt(ip) /\ Instr = kmain[ip] /\ ~ iflag
    BY SMTT(30), KmainFacts DEF Enabled
  <2>2. ASSUME UNCHANGED <<regs, stack, iflag, pic, start, ticks>>, Step,
               (TablesAt(ip))', task' \in [loaded : BOOLEAN, rsp0 : Int]
        PROVE  IInv'
    <3>1. TypeInv'
      BY SMTT(30), <2>1, <2>2 DEF TypeInv, Step
    <3>2. /\ ip' = ip + 1 /\ prog' = "kmain" /\ entered' = entered /\ stack' = stack
          /\ area' = area /\ cs' = cs /\ ss' = ss /\ ~ iflag'
      BY Zenon, <2>1, <2>2 DEF Step
    <3>3. ip' \in {ip + 1, 37} /\ (iflag' <=> ip' \in Enabled) /\ ip' \notin 27 .. 36
      BY SMTT(30), <3>2 DEF Enabled
    <3> QED
      BY SMTT(30), <2>2, <3>1, <3>2, <3>3, <1>KmainGoesOn
  <2>3. CASE ip = 1
    <3>1. /\ UNCHANGED <<regs, stack, iflag, pic, start, ticks>> /\ Step
          /\ interrupts_init /\ UNCHANGED <<gdt, task>>
      BY SMTT(30), <2>1, <2>3, <1>KmainCode, <1>OpTables
    <3>2. ip' = 2 /\ (TablesAt(ip))'
      BY SMTT(30), <2>3, <3>1 DEF TablesAt, MasterAt, ChipAt, GateAt, Step, interrupts_init
    <3> QED
      BY Zenon, <2>1, <2>2, <2>3, <3>1, <3>2 DEF TypeInv
  <2>4. CASE ip = 2
    <3>1. /\ UNCHANGED <<regs, stack, iflag, pic, start, ticks>> /\ Step
          /\ gdt' = gdt_entries /\ task' = [task EXCEPT !.rsp0 = STACK_TOP] /\ UNCHANGED idt
      BY SMTT(30), <2>1, <2>4, <1>KmainCode, <1>OpTables
    <3>2. task'.rsp0 = STACK_TOP /\ task' \in [loaded : BOOLEAN, rsp0 : Int]
      <4>1. STACK_TOP \in Int
        BY SMT DEF STACK_TOP
      <4> QED
        BY <2>1, <3>1, <4>1, SMTT(30) DEF TypeInv
    <3>3. ip' = 3 /\ (TablesAt(ip))'
      BY <2>1, <2>4, <3>1, <3>2 DEF TablesAt, MasterAt, ChipAt, GateAt, Step
    <3> QED
      BY Zenon, <2>2, <2>4, <3>1, <3>2, <3>3
  <2>5. CASE ip = 3
    <3>1. /\ UNCHANGED <<regs, stack, iflag, pic, start, ticks>> /\ Step
          /\ task' = [task EXCEPT !.loaded = TaskOK(SB_TSS_SELECTOR)] /\ UNCHANGED <<gdt, idt>>
      BY ZenonT(40), <2>1, <2>5, <1>KmainCode, <1>OpTables
    <3>2. TaskOK(SB_TSS_SELECTOR) = TRUE
      BY <2>1, <2>5, Selectors DEF TablesAt, TaskOK, SB_TSS_SELECTOR
    <3>3. task' = [task EXCEPT !.loaded = TRUE]
      BY <3>1, <3>2, Zenon
    <3>4. task'.loaded /\ task'.rsp0 = task.rsp0 /\ task' \in [loaded : BOOLEAN, rsp0 : Int]
      BY Zenon, <2>1, <3>3 DEF TypeInv
    <3>5. ip' = 4 /\ (TablesAt(ip))'
      BY SMTT(30), <2>1, <2>5, <3>1, <3>4 DEF TablesAt, MasterAt, ChipAt, GateAt, Step
    <3> QED
      BY Zenon, <2>2, <2>5, <3>1, <3>4, <3>5
  <2>6. CASE ip = 4
    <3>1. /\ UNCHANGED <<regs, stack, iflag, pic, start, ticks, gdt, task>> /\ Step
          /\ idt_set_gate(128, "int80", 3)
      BY SMTT(30), <2>1, <2>6, <1>KmainCode, <1>OpGate
    <3>2. idt' = [v \in Vectors |-> GateAt(5, v)]
      <4>1. idt = [v \in Vectors |-> GateAt(4, v)]
        BY <2>1, <2>6 DEF TablesAt
      <4>2. idt' = [idt EXCEPT ![128] = Gate("int80", 128, 3)]
        BY Zenon, <3>1 DEF idt_set_gate
      <4>3. GateAt(5, 128) = Gate("int80", 128, 3)
        BY DEF GateAt
      <4>4. \A v \in Vectors : v # 128 => GateAt(5, v) = GateAt(4, v)
        BY DEF GateAt
      <4>5. 128 \in Vectors
        BY Zenon, VectorsAssumption
      <4> QED
        BY Zenon, <4>1, <4>2, <4>3, <4>4, <4>5
    <3>3. ip' = 5 /\ (TablesAt(ip))'
      BY SMTT(30), <2>1, <2>6, <3>1, <3>2 DEF TablesAt, MasterAt, ChipAt, GateAt, Step
    <3> QED
      BY ZenonT(40), <2>1, <2>2, <2>6, <3>1, <3>3 DEF TypeInv
  <2> QED
    BY SMTT(30), <2>3, <2>4, <2>5, <2>6
\* Steps that leave the tables alone: prepare_init_process, cli, the tick
\* counter, sti, process_activate and the arguments of arch_enter_user.
<1>KmainPlain. ASSUME IInv, prog = "kmain", ip \in {5, 6, 7, 25, 26, 27, 28}, KernelCode
               PROVE  IInv'
  <2> USE <1>KmainPlain
  <2>1. /\ TypeInv /\ TablesAt(ip) /\ Instr = kmain[ip] /\ (iflag <=> ip \in Enabled)
        /\ ip \in 27 .. 36 => cr3 = "process"
    BY Zenon, KmainFacts
  <2>2. ASSUME UNCHANGED <<prog, area, cs, ss, entered, stack, tables>>,
               ip' \in {ip + 1, 37}, ip' = 37 => ip = 26,
               regs' \in [Regs -> Int], ticks' \in Int, iflag' \in BOOLEAN,
               iflag' <=> ip' \in Enabled, ip' \in 27 .. 36 => cr3' = "process"
        PROVE  IInv'
    <3>1. TypeInv'
      BY SMTT(30), <2>1, <2>2 DEF TypeInv, tables
    <3>2. (TablesAt(ip))'
      BY SMTT(30), <2>1, <2>2 DEF TablesAt, MasterAt, ChipAt, GateAt, tables
    <3> QED
      BY SMTT(30), <2>2, <3>1, <3>2, <1>KmainGoesOn
  <2>3. CASE ip = 5
    <3>1. /\ UNCHANGED <<prog, area, cs, ss, entered, regs, stack, iflag, tables, ticks>>
          /\ ip' = ip + 1
      BY SMTT(30), <2>1, <2>3, <1>KmainCode, <1>OpStart
    <3> QED
      BY SMTT(30), <2>1, <2>2, <2>3, <3>1 DEF TypeInv, Enabled
  <2>4. CASE ip = 6
    <3>1. iflag' = FALSE /\ UNCHANGED <<regs, stack>> /\ Keep
      BY Zenon, <2>1, <2>4, <1>KmainCode, OpDo
    <3>2. /\ UNCHANGED <<prog, area, cs, ss, entered, stack, tables>>
          /\ ip' = 7 /\ regs' = regs /\ ticks' = ticks
      BY <2>1, <2>4, <3>1 DEF Keep, Step
    <3>3. iflag' \in BOOLEAN /\ (iflag' <=> ip' \in Enabled)
      <4>1. ip' \notin Enabled
        BY SMTT(30), <3>2 DEF Enabled
      <4> QED
        BY <3>1, <4>1, Zenon
    <3> QED
      BY SMTT(30), <2>1, <2>2, <2>4, <3>2, <3>3 DEF TypeInv
  <2>5. CASE ip = 7
    <3>1. /\ UNCHANGED <<prog, area, cs, ss, entered, regs, stack, iflag, tables>>
          /\ ip' = ip + 1 /\ ticks' = 0
      BY SMTT(30), <2>1, <2>5, <1>KmainCode, <1>OpStart
    <3> QED
      BY SMTT(30), <2>1, <2>2, <2>5, <3>1 DEF TypeInv, Enabled
  <2>6. CASE ip = 25
    <3>1. iflag' = TRUE /\ UNCHANGED <<regs, stack>> /\ Keep
      BY Zenon, <2>1, <2>6, <1>KmainCode, OpDo
    <3> QED
      BY SMTT(30), <2>1, <2>2, <2>6, <3>1 DEF TypeInv, Enabled, Keep, Step
  <2>7. CASE ip = 26
    <3>1. /\ UNCHANGED <<prog, area, cs, ss, entered, regs, stack, iflag, tables, ticks>>
          /\ \/ cr3' = "process" /\ ip' = ip + 1
             \/ ip' = 37
      BY SMTT(30), <2>1, <2>7, <1>KmainCode, <1>KmainLen, <1>OpStart
    <3> QED
      BY SMTT(30), <2>1, <2>2, <2>7, <3>1 DEF TypeInv, Enabled
  <2>8. CASE ip = 27
    <3>1. /\ regs' = [regs EXCEPT !["rdi"] = USER_ENTRY, !["rsi"] = USER_STACK]
          /\ UNCHANGED <<stack, iflag>> /\ Keep
      BY Zenon, <2>1, <2>8, <1>KmainCode, OpDo
    <3>2. "rdi" \in Regs /\ "rsi" \in Regs
      BY Zenon DEF Regs
    <3>3. USER_ENTRY \in Int /\ USER_STACK \in Int
      BY SMT DEF USER_ENTRY, USER_STACK
    <3>4. regs' \in [Regs -> Int]
      BY Zenon, <2>1, <3>1, <3>2, <3>3 DEF TypeInv
    <3> QED
      BY SMTT(30), <2>1, <2>2, <2>8, <3>1, <3>4 DEF TypeInv, Enabled, Keep, Step, start
  <2>9. CASE ip = 28
    <3>1. iflag' = FALSE /\ UNCHANGED <<regs, stack>> /\ Keep
      BY ZenonT(40), <2>1, <2>9, <1>KmainCode, OpDo
    <3>2. /\ UNCHANGED <<prog, area, cs, ss, entered, stack, tables>>
          /\ ip' = 29 /\ cr3' = "process" /\ regs' = regs /\ ticks' = ticks
      BY <2>1, <2>9, <3>1 DEF Keep, Step, start
    <3>3. iflag' \in BOOLEAN /\ (iflag' <=> ip' \in Enabled)
      <4>1. ip' \notin Enabled
        BY SMTT(30), <3>2 DEF Enabled
      <4> QED
        BY <3>1, <4>1, Zenon
    <3> QED
      BY SMTT(30), <2>1, <2>2, <2>9, <3>2, <3>3 DEF TypeInv
  <2> QED
    BY Zenon, <2>3, <2>4, <2>5, <2>6, <2>7, <2>8, <2>9
\* A write to a port, given what it leaves in the master.
<1>KmainOut. ASSUME IInv, prog = "kmain", ip \in 8 .. 22, KernelCode,
                    NEW port \in Int, NEW ch \in Int, Instr = OutB(port, ch), ChipAt(ip + 1, pic'.master)
             PROVE  IInv'
  <2> USE <1>KmainOut
  <2>1. TypeInv /\ TablesAt(ip) /\ ~ iflag
    BY KmainFacts DEF Enabled
  <2>2. /\ regs' = Output(regs, port, ch) /\ WritePort(port, ch)
        /\ UNCHANGED <<stack, iflag, start, ticks, gdt, task, idt>> /\ Step
    BY Zenon, OpOut
  <2>3. /\ ip' = ip + 1 /\ prog' = "kmain" /\ ~ iflag' /\ ip' \in 9 .. 23
        /\ UNCHANGED <<area, cs, ss, entered, stack>>
    BY SMTT(30), <2>1, <2>2 DEF Step
  <2>4. regs' \in [Regs -> Int]
    <3>1. regs \in [Regs -> Int]
      BY Zenon, <2>1 DEF TypeInv
    <3> QED
      BY Zenon, <2>2, <3>1, OutputType
  <2>5. pic' \in [master : Chip, slave : Chip]
    BY Zenon, <2>1, <2>2, PortType
  <2>6. TypeInv'
    BY SMTT(30), <2>1, <2>2, <2>3, <2>4, <2>5 DEF TypeInv
  <2>7. (TablesAt(ip))'
    BY SMTT(30), <2>1, <2>2, <2>3 DEF TablesAt, GateAt, MasterAt, ChipAt
  <2>8. (iflag' <=> ip' \in Enabled) /\ ip' \notin 27 .. 36 /\ ip' \in {ip + 1, 37}
    BY SMTT(30), <2>3 DEF Enabled
  <2> QED
    BY SMTT(30), <2>3, <2>6, <2>7, <2>8, <1>KmainGoesOn
\* The controllers and the rate of the timer.
<1>KmainPorts. ASSUME IInv, prog = "kmain", ip \in 8 .. 22, KernelCode
               PROVE  IInv'
  <2> USE <1>KmainPorts
  <2>1. TypeInv /\ ChipAt(ip, pic.master) /\ Instr = kmain[ip] /\ pic.master \in Chip
    BY Zenon, KmainFacts DEF TablesAt, MasterAt, TypeInv
  <2>2. ASSUME NEW port \in Int \ {32, 33}, NEW ch \in Int, Instr = OutB(port, ch),
               ip \notin {10, 12, 14, 16, 18}
        PROVE  IInv'
    <3>1. WritePort(port, ch)
      BY Zenon, <2>2, OpOut
    <3>2. pic'.master = pic.master
      BY ZenonT(40), <2>1, <2>2, <3>1, PortMaster
    <3>3. ChipAt(ip + 1, pic'.master)
      BY SMTT(30), <2>1, <2>2, <3>2 DEF MasterAt, ChipAt
    <3> QED
      BY Zenon, <2>2, <3>3, <1>KmainOut
  <2>3. ASSUME NEW ch \in Int, Instr = OutB(33, ch), ip \in {12, 14, 16, 18} \/ ip = 8,
               ip = 12 => ch = 32, ip = 16 => ch = 1, ip = 18 => ch = 254
        PROVE  IInv'
    <3>1. WritePort(33, ch)
      BY SMTT(30), <2>3, OpOut
    <3>2. pic'.master = Data(pic.master, ch)
      BY SMTT(30), <2>1, <2>3, <3>1, PortMaster
    <3>3. ChipAt(ip + 1, pic'.master)
      <4>1. CASE ip = 8
        BY <4>1 DEF MasterAt, ChipAt
      <4>2. CASE ip = 12
        <5>1. pic'.master = [pic.master EXCEPT !.base = 32, !.stage = 2]
          BY SMTT(30), <2>1, <2>3, <3>2, <4>2 DEF Data, ChipAt
        <5> QED
          BY SMTT(30), <2>1, <4>2, <5>1 DEF ChipAt, Chip
      <4>3. CASE ip = 14
        <5>1. pic'.master = [pic.master EXCEPT !.stage = 3]
          BY SMTT(30), <2>1, <2>3, <3>2, <4>3 DEF Data, ChipAt
        <5> QED
          BY SMTT(30), <2>1, <4>3, <5>1 DEF ChipAt, Chip
      <4>4. CASE ip = 16
        <5>1. ~ Bit(1, 1)
          BY DEF Bit
        <5>2. pic'.master = [pic.master EXCEPT !.auto = Bit(1, 1), !.stage = 0]
          BY SMTT(30), <2>1, <2>3, <3>2, <4>4 DEF Data, ChipAt
        <5> QED
          BY SMTT(30), <2>1, <4>4, <5>1, <5>2 DEF ChipAt, Chip
      <4>5. CASE ip = 18
        <5>1. pic'.master = [pic.master EXCEPT !.imr = 254]
          BY SMTT(30), <2>1, <2>3, <3>2, <4>5 DEF Data, ChipAt
        <5> QED
          BY SMTT(30), <2>1, <4>5, <5>1 DEF ChipAt, Chip
      <4> QED
        BY ZenonT(40), <2>3, <4>1, <4>2, <4>3, <4>4, <4>5
    <3> QED
      BY SMTT(30), <2>3, <3>3, <1>KmainOut
  <2>4. CASE ip = 10
    <3>1. Instr = OutB(32, 17)
      BY ZenonT(40), <2>1, <2>4, <1>KmainCode
    <3>2. pic'.master = Command(pic.master, 17)
      BY <2>1, <3>1, OpOut, PortMaster
    <3>3. Bit(17, 4) /\ Bit(17, 0)
      BY DEF Bit
    <3>4. pic'.master = [pic.master EXCEPT !.stage = 1, !.icw4 = Bit(17, 0), !.imr = 0, !.isr = {}]
      BY Zenon, <3>2, <3>3 DEF Command
    <3>5. ChipAt(ip + 1, pic'.master)
      BY SMTT(30), <2>1, <2>4, <3>3, <3>4 DEF ChipAt, Chip
    <3> QED
      BY SMTT(30), <2>4, <3>1, <3>5, <1>KmainOut
  <2>5. CASE ip \in {9, 11, 13, 15, 17, 19}
    BY SMTT(30), <2>1, <2>2, <2>5, <1>KmainCode
  <2>6. CASE ip \in {8, 12, 14, 16, 18}
    BY SMTT(30), <2>1, <2>3, <2>6, <1>KmainCode
  <2>7. CASE ip \in 20 .. 22
    <3>1. Divisor(100) % 256 \in Int /\ Divisor(100) \div 256 \in Int
      BY SMTT(30) DEF Divisor
    <3> QED
      BY SMTT(30), <2>1, <2>2, <2>7, <3>1, <1>KmainCode
  <2> QED
    BY SMTT(30), <2>4, <2>5, <2>6, <2>7
\* The gate of the timer.
<1>KmainGate. ASSUME IInv, prog = "kmain", ip = 23, KernelCode
              PROVE  IInv'
  <2> USE <1>KmainGate
  <2>1. /\ TypeInv /\ TablesAt(ip) /\ Instr = kmain[ip] /\ ~ iflag
    BY SMTT(30), KmainFacts DEF Enabled
  <2>2. /\ UNCHANGED <<regs, stack, iflag, pic, start, ticks, gdt, task>> /\ Step
        /\ idt_set_gate(32, "irq", 0)
    BY SMTT(30), <2>1, <1>KmainCode, <1>OpGate
  <2>3. idt' = [v \in Vectors |-> GateAt(24, v)]
    <3>1. idt = [v \in Vectors |-> GateAt(23, v)]
      BY SMTT(30), <2>1 DEF TablesAt
    <3>2. idt' = [idt EXCEPT ![32] = Gate("irq", 32, 0)]
      BY Zenon, <2>2 DEF idt_set_gate
    <3>3. GateAt(24, 32) = Gate("irq", 32, 0)
      BY SMTT(30) DEF GateAt
    <3>4. \A v \in Vectors : v # 32 => GateAt(24, v) = GateAt(23, v)
      BY DEF GateAt
    <3>5. 32 \in Vectors
      BY Zenon, VectorsAssumption
    <3> QED
      BY Zenon, <3>1, <3>2, <3>3, <3>4, <3>5
  <2>4. /\ ip' = 24 /\ prog' = "kmain" /\ ~ iflag'
        /\ UNCHANGED <<area, cs, ss, entered, stack>>
    BY SMTT(30), <2>1, <2>2 DEF Step
  <2>5. (TablesAt(ip))'
    BY SMTT(30), <2>1, <2>2, <2>3, <2>4 DEF TablesAt, MasterAt, ChipAt
  <2>6. TypeInv'
    BY SMTT(30), <2>1, <2>2, <2>4 DEF TypeInv
  <2>7. (iflag' <=> ip' \in Enabled) /\ ip' \notin 27 .. 36 /\ ip' \in {ip + 1, 37}
    BY SMTT(30), <2>4 DEF Enabled
  <2> QED
    BY SMTT(30), <2>4, <2>5, <2>6, <2>7, <1>KmainGoesOn
\* arch_enter_user moves to the user stack.
<1>KmainSetRsp. ASSUME IInv, prog = "kmain", ip = 29, KernelCode
                PROVE  IInv'
  <2> USE <1>KmainSetRsp
  <2>1. /\ TypeInv /\ TablesAt(ip) /\ Instr = kmain[ip] /\ ~ iflag /\ cr3 = "process"
        /\ cs = 24 /\ ss = 16
    BY KmainFacts DEF Enabled
  <2>2. /\ stack' = <<>> /\ area' = "user" /\ ip' = ip + 1
        /\ UNCHANGED <<prog, regs, iflag, cs, ss, start, ticks, entered, dispatched, tables>>
    BY ZenonT(40), <2>1, <1>KmainCode, OpDo
  <2>3. TypeInv'
    BY SMTT(30), <2>1, <2>2 DEF TypeInv, tables
  <2>4. (TablesAt(ip))'
    <3>1. ip \in 24 .. 37 /\ ip' \in 24 .. 37
      BY SMTT(30), <2>2
    <3>2. Ready
      BY Zenon, <2>1, <3>1, ReadyAt
    <3> QED
      BY Zenon, <2>2, <3>1, <3>2, ReadyOn
  <2>5. (UserFrame(ip))'
    BY SMTT(30), <2>2 DEF UserFrame
  <2>6. KmainInv'
    BY SMTT(30), <2>1, <2>2, <2>4, <2>5 DEF KmainInv, Enabled, start, SB_KERNEL_CODE_SELECTOR,
       SB_KERNEL_DATA_SELECTOR
  <2> QED
    BY Zenon, <2>2, <2>3, <2>6, <1>KmainStays
\* A push, on a stack that may turn out not to be usable.
<1>KmainPush. ASSUME IInv, prog = "kmain", ip \in {30, 31, 32, 34, 35}, NEW v \in Int, DoPush(v),
                     ip = 30 => v = SB_USER_DATA_SELECTOR, ip = 34 => v = SB_USER_CODE_SELECTOR
              PROVE  IInv'
  <2> USE <1>KmainPush
  <2>1. /\ TypeInv /\ TablesAt(ip) /\ ~ iflag /\ cr3 = "process" /\ cs = 24 /\ ss = 16
        /\ area = "user" /\ UserFrame(ip)
    BY SMTT(30), KmainFacts DEF Enabled
  <2>2. CASE StackUsable
    <3>1. stack' = Append(stack, v) /\ UNCHANGED <<regs, iflag>> /\ Keep
      BY Zenon, <2>2 DEF DoPush
    <3>2. /\ ip' = ip + 1 /\ UNCHANGED <<prog, area, cs, ss, entered, cr3, nxe, ticks, tables>>
      BY Zenon, <3>1 DEF Keep, Step, start
    <3>3. Pushed(stack', stack, v)
      BY <2>1, <3>1, PushStack, Zenon DEF TypeInv
    <3>4. TypeInv'
      BY SMTT(30), <2>1, <3>1, <3>2, <3>3 DEF TypeInv, tables, Pushed
    <3>5. (TablesAt(ip))'
      <4>1. ip \in 24 .. 37 /\ ip' \in 24 .. 37
        BY SMTT(30), <3>2
      <4>2. Ready
        BY Zenon, <2>1, <4>1, ReadyAt
      <4> QED
        BY Zenon, <3>2, <4>1, <4>2, ReadyOn
    <3>6. (UserFrame(ip))'
      <4>1. CASE ip = 30
        BY SMTT(30), <2>1, <3>2, <3>3, <4>1 DEF UserFrame, Pushed
      <4>2. CASE ip = 31
        BY SMTT(30), <2>1, <3>2, <3>3, <4>2 DEF UserFrame, Pushed
      <4>3. CASE ip = 32
        BY SMTT(30), <2>1, <3>2, <3>3, <4>3 DEF UserFrame, Pushed
      <4>4. CASE ip = 34
        BY SMTT(30), <2>1, <3>2, <3>3, <4>4 DEF UserFrame, Pushed
      <4>5. CASE ip = 35
        BY SMTT(30), <2>1, <3>2, <3>3, <4>5 DEF UserFrame, Pushed
      <4> QED
        BY Zenon, <4>1, <4>2, <4>3, <4>4, <4>5
    <3>7. nxe
      BY Zenon, <2>1, <2>2 DEF StackUsable
    <3>8. KmainInv'
      BY SMTT(30), <2>1, <3>1, <3>2, <3>5, <3>6, <3>7 DEF KmainInv, Enabled, SB_KERNEL_CODE_SELECTOR,
         SB_KERNEL_DATA_SELECTOR
    <3> QED
      BY Zenon, <3>2, <3>4, <3>8, <1>KmainStays
  <2>3. CASE ~ StackUsable
    <3>1. Deliver(14, TRUE, ip, FALSE) /\ UNCHANGED <<start, ticks, dispatched, tables>>
      BY Zenon, <2>3 DEF DoPush, Enter
    <3>2. prog' = "reset" /\ UNCHANGED <<ip, cpu, entered>>
      BY ZenonT(40), <2>1, <2>3, <3>1, <1>NoDelivery
    <3>3. TypeInv'
      BY Zenon, <2>1, <3>1, <3>2 DEF TypeInv, tables, cpu
    <3>4. ~ StackUsable'
      BY Zenon, <2>3, <3>1, <3>2 DEF StackUsable, cpu, start
    <3> QED
      BY ZenonT(40), <3>2, <3>3, <3>4 DEF IInv, SoftInv, PanicInv, ResetInv, KmainInv, UserInv,
         HandlerInv, IrqInv, Int80Inv, ExcInv
  <2> QED
    BY Zenon, <2>2, <2>3
\* The frame of user mode.
<1>KmainFrame. ASSUME IInv, prog = "kmain", ip \in 30 .. 35, KernelCode
               PROVE  IInv'
  <2> USE <1>KmainFrame
  <2>1. /\ TypeInv /\ TablesAt(ip) /\ ~ iflag /\ cr3 = "process" /\ cs = 24 /\ ss = 16
        /\ area = "user" /\ UserFrame(ip) /\ Instr = kmain[ip] /\ (ip # 30 => nxe)
    BY SMTT(30), KmainFacts DEF Enabled
  <2>2. CASE ip = 30
    <3>1. DoPush(SB_USER_DATA_SELECTOR)
      BY Zenon, <2>1, <2>2, <1>KmainCode, OpPushImm
    <3> QED
      BY SMTT(30), <2>2, <3>1, <1>KmainPush DEF SB_USER_DATA_SELECTOR
  <2>3. CASE ip = 31 \/ ip = 35
    <3>1. DoPush(regs["rsi"]) \/ DoPush(regs["rdi"])
      BY SMTT(30), <2>1, <2>3, <1>KmainCode, OpPush
    <3>2. regs["rsi"] \in Int /\ regs["rdi"] \in Int
      BY Zenon, <2>1 DEF TypeInv, Regs
    <3> QED
      BY SMTT(30), <2>3, <3>1, <3>2, <1>KmainPush
  <2>4. CASE ip = 32
    <3>1. DoPush(Flags)
      BY Zenon, <2>1, <2>4, <1>KmainCode, OpDo
    <3>2. Flags \in Int
      BY SMT DEF Flags, IF_BIT
    <3> QED
      BY SMTT(30), <2>4, <3>1, <3>2, <1>KmainPush
  <2>5. CASE ip = 33
    <3>1. stack' = Append(Dropped(1), IF_BIT + 2) /\ UNCHANGED <<regs, iflag>> /\ Keep
      BY ZenonT(40), <2>1, <2>5, <1>KmainCode, OpDo
    <3>2. /\ ip' = ip + 1 /\ UNCHANGED <<prog, area, cs, ss, entered, cr3, nxe, ticks, tables>>
      BY Zenon, <3>1 DEF Keep, Step, start
    <3>3. stack \in Seq(Int) /\ Len(stack) = 3 /\ IF_BIT + 2 \in Int /\ 1 \in 0 .. Len(stack)
      BY <2>1, <2>5, SMT DEF TypeInv, UserFrame, IF_BIT
    <3>4. DroppedOff(Dropped(1), stack, 1)
      BY <3>3, DropStack, Zenon DEF Dropped
    <3>5. Dropped(1) \in Seq(Int)
      BY Zenon, <3>4 DEF DroppedOff
    <3>6. Pushed(stack', Dropped(1), IF_BIT + 2)
      BY <3>1, <3>3, <3>5, PushStack, Zenon
    <3>7. /\ stack' \in Seq(Int) /\ Len(stack') = 3 /\ stack'[1] = stack[1]
          /\ stack'[3] = IF_BIT + 2
      <4>1. Len(Dropped(1)) = 2 /\ Dropped(1)[1] = stack[1]
        BY SMTT(30), <3>3, <3>4 DEF DroppedOff
      <4> DEFINE s == Dropped(1)
                 w == IF_BIT + 2
      <4>2. Pushed(stack', s, w) /\ Len(s) = 2 /\ s[1] = stack[1]
        BY <3>6, <4>1, Zenon
      <4> HIDE DEF s, w
      <4>3. stack' \in Seq(Int) /\ Len(stack') = 3 /\ stack'[1] = s[1] /\ stack'[3] = w
        BY SMTT(30), <4>2 DEF Pushed
      <4> QED
        BY <4>2, <4>3, Zenon DEF w
    <3>8. TypeInv'
      BY SMTT(30), <2>1, <3>1, <3>2, <3>7 DEF TypeInv, tables
    <3>9. (TablesAt(ip))'
      <4>1. ip \in 24 .. 37 /\ ip' \in 24 .. 37
        BY SMTT(30), <3>2
      <4>2. Ready
        BY Zenon, <2>1, <4>1, ReadyAt
      <4> QED
        BY Zenon, <3>2, <4>1, <4>2, ReadyOn
    <3>10. (UserFrame(ip))'
      BY SMTT(30), <2>1, <2>5, <3>2, <3>7 DEF UserFrame
    <3>11. KmainInv'
      BY SMTT(30), <2>1, <2>5, <3>1, <3>2, <3>9, <3>10 DEF KmainInv, Enabled, SB_KERNEL_CODE_SELECTOR,
         SB_KERNEL_DATA_SELECTOR
    <3> QED
      BY Zenon, <3>2, <3>8, <3>11, <1>KmainStays
  <2>6. CASE ip = 34
    <3>1. DoPush(SB_USER_CODE_SELECTOR)
      BY Zenon, <2>1, <2>6, <1>KmainCode, OpPushImm
    <3> QED
      BY SMTT(30), <2>6, <3>1, <1>KmainPush DEF SB_USER_CODE_SELECTOR
  <2> QED
    BY SMTT(30), <2>2, <2>3, <2>4, <2>5, <2>6
\* The test interrupt of timer_init.
<1>KmainInt. ASSUME IInv, prog = "kmain", ip = 24, KernelCode
             PROVE  IInv'
  <2> USE <1>KmainInt
  <2>1. /\ TypeInv /\ Ready /\ Instr = kmain[ip] /\ ~ iflag /\ stack = <<>>
        /\ area = "kernel" /\ cs = 24 /\ ss = 16
    BY KmainFacts DEF Enabled, Ready
  <2>2. Deliver(32, FALSE, 25, TRUE) /\ UNCHANGED <<start, ticks, dispatched, tables>>
    <3>1. Enter(32, FALSE, ip + 1, TRUE)
      <4>1. Instr = IntN(32)
        BY Zenon, <2>1, <1>KmainCode
      <4> QED
        BY Zenon, <4>1, <1>OpInt
    <3>2. ip + 1 = 25
      BY SMTT(30)
    <3> QED
      BY <3>1, <3>2, Zenon DEF Enter
  <2>3. Ready'
    BY Zenon, <2>1, <2>2, ReadyStays
  <2>4. pic' \in [master : Chip, slave : Chip] /\ task' = task
    BY Zenon, <2>1, <2>2 DEF TypeInv, tables
  <2>5. /\ cs = 24 /\ ss = 16 /\ area = "kernel" /\ 25 \in Enabled \cup {25} /\ 25 \in Int
        /\ iflag <=> 25 # 25
        /\ 25 \in {27, 28} => cr3 = "process"
    BY SMTT(30), <2>1
  <2> QED
    BY Zenon, <2>1, <2>2, <2>3, <2>4, <2>5, EnterIrq
\* arch_enter_user's iretq.
<1>KmainIretq. ASSUME IInv, prog = "kmain", ip = 36, KernelCode
               PROVE  IInv'
  <2> USE <1>KmainIretq
  <2>1. /\ TypeInv /\ TablesAt(ip) /\ Instr = kmain[ip] /\ UserFrame(ip)
    BY SMTT(30), KmainFacts
  <2>2. Ready /\ gdt = gdt_entries
    BY SMTT(30), <2>1, ReadyAt DEF TablesAt
  <2>3. /\ Len(stack) = 5 /\ stack[4] = 35 /\ stack[1] = 43 /\ stack[3] = IF_BIT + 2
        /\ stack[5] \in Int
    <3>1. /\ Len(stack) = 5 /\ stack[4] = 35 /\ stack[1] = 43 /\ stack[3] = IF_BIT + 2
      BY SMTT(30), <2>1 DEF UserFrame, SB_USER_CODE_SELECTOR, SB_USER_DATA_SELECTOR
    <3>2. stack \in Seq(Int)
      BY Zenon, <2>1 DEF TypeInv
    <3>3. 5 \in 1 .. Len(stack)
      BY <3>1
    <3>4. stack[5] \in Int
      BY <3>2, <3>3, WordType, ZenonT(40)
    <3> QED
      BY Zenon, <3>1, <3>4
  <2>4. Instr = Do("iretq")
    BY Zenon, <2>1, <1>KmainCode
  <2>5. /\ cs' = 35 /\ ss' = 43 /\ ip' = stack[5] /\ prog' = "user" /\ stack' = <<>>
        /\ iflag' = (IF_BIT + 2 >= IF_BIT)
        /\ UNCHANGED <<regs, start, ticks, entered, dispatched, tables>>
    BY Zenon, <2>1, <2>2, <2>3, <2>4, Return
  <2>6. iflag' = TRUE
    BY <2>5, FlagsBack, Zenon
  <2> QED
    BY Zenon, <2>1, <2>2, <2>3, <2>5, <2>6, UserEntered DEF TypeInv
<1> SUFFICES ASSUME IInv, prog = "kmain", KernelCode
             PROVE  IInv'
  BY Zenon
<1>1. ip \in 1 .. 37 /\ Instr = kmain[ip]
  BY Zenon, KmainFacts
<1>2. CASE ip = 37
  BY SMTT(30), <1>1, <1>2, <1>KmainCode, <1>OpHlt
<1>3. CASE ip \in 1 .. 4
  BY Zenon, <1>3, <1>KmainTables
<1>4. CASE ip \in {5, 6, 7, 25, 26, 27, 28}
  BY Zenon, <1>4, <1>KmainPlain
<1>5. CASE ip \in 8 .. 22
  BY Zenon, <1>5, <1>KmainPorts
<1>6. CASE ip = 23
  BY Zenon, <1>6, <1>KmainGate
<1>7. CASE ip = 24
  BY Zenon, <1>7, <1>KmainInt
<1>8. CASE ip = 29
  BY Zenon, <1>8, <1>KmainSetRsp
<1>9. CASE ip \in 30 .. 35
  BY Zenon, <1>9, <1>KmainFrame
<1>10. CASE ip = 36
  BY Zenon, <1>10, <1>KmainIretq
<1> QED
  BY SMTT(30), <1>1, <1>2, <1>3, <1>4, <1>5, <1>6, <1>7, <1>8, <1>9, <1>10

-----------------------------------------------------------------------------
(* User programs *)

\* int n in user mode.
LEMMA UserIntStep == IInv /\ UserInt => IInv'
\* int 0x80 in a user program.
<1>EnterInt80. ASSUME IInv, prog = "user", Enter(128, FALSE, USER_ENTRY, TRUE)
               PROVE  IInv'
  <2> USE <1>EnterInt80
  <2>1. /\ TypeInv /\ Ready /\ iflag /\ stack = <<>> /\ cs = 35 /\ ss = 43
        /\ USER_ENTRY \in Int /\ ss \in Int
    BY UserFacts
  <2>2. Deliver(128, FALSE, USER_ENTRY, TRUE) /\ UNCHANGED <<start, ticks, dispatched, tables>>
    BY Zenon DEF Enter
  <2>3. Delivered(128, FALSE, USER_ENTRY, TRUE)
    <3>1. 128 \in Vectors /\ FALSE \in BOOLEAN
      BY Zenon, VectorsAssumption
    <3> QED
      BY Zenon, <2>1, <2>2, <3>1, Delivery
  <2>4. GateAt(24, 128) = Gate("int80", 128, 3)
    BY SMTT(30) DEF GateAt
  <2>5. /\ prog' = "int80" /\ ip' = 1 /\ regs' = regs /\ area' = "kernel"
        /\ iflag' = FALSE /\ cs' = SB_KERNEL_CODE_SELECTOR
        /\ entered'.regs = regs /\ entered'.vector = 128 /\ entered'.rip = USER_ENTRY
        /\ entered'.cs = 35 /\ entered'.flags = Flags
        /\ entered'.stack \in Seq(Int) /\ Len(entered'.stack) = 5
        /\ entered'.stack[1] = ss /\ entered'.stack[3] = Flags
        /\ entered'.stack[4] = 35 /\ entered'.stack[5] = USER_ENTRY
        /\ stack' \in Seq(Int) /\ Len(stack') = 5
        /\ \A j \in 1 .. 5 : stack'[j] = entered'.stack[j]
    <3>1. GateAt(24, 128).stub = "int80"
      BY <2>4 DEF Gate
    <3> QED
      BY ZenonT(40), <2>1, <2>3, <3>1 DEF Delivered
  <2>6. TypeInv'
    <3>1. iflag' \in BOOLEAN /\ prog' \in {"kmain", "user", "irq", "int80", "exc", "panic", "reset"}
      BY <2>5, Zenon
    <3>2. ip' \in Int
      BY SMTT(30), <2>5
    <3> QED
      BY Zenon, <2>1, <2>2, <2>5, <3>1, <3>2 DEF TypeInv, tables
  <2>7. Ready'
    BY Zenon, <2>1, <2>2, ReadyStays
  <2>8. HandlerInv'
    <3>1. FromUser'
      BY Zenon, <2>1, <2>5 DEF FromUser, Flags, SB_USER_CODE_SELECTOR, SB_USER_DATA_SELECTOR
    <3> QED
      BY Zenon, <2>5, <2>7, <3>1 DEF HandlerInv
  <2>9. Int80Inv'
    <3>1. Int80Depth(1) = 0
      BY DEF Int80Depth
    <3>2. (Saved(Int80Order, 0))'
      BY Zenon, <2>5, SaveNone DEF Saved
    <3> QED
      BY SMTT(30), <2>5, <3>1, <3>2 DEF Int80Inv
  <2> QED
    BY ZenonT(40), <2>5, <2>6, <2>8, <2>9 DEF IInv, SoftInv, PanicInv, ResetInv, KmainInv, UserInv, IrqInv,
       ExcInv
\* int n through a gate that user mode may not use is a general protection fault.
<1>UserFault. ASSUME IInv, prog = "user", Enter(13, TRUE, USER_ENTRY, FALSE)
              PROVE  IInv'
  <2> USE <1>UserFault
  <2> DEFINE gp == 13
             yes == TRUE
  <2>1. PushesError(13) /\ 13 \in FaultVectors \cup {13}
    BY Zenon DEF PushesError
  <2>2. /\ gp \in FaultVectors \cup {13} /\ yes \in BOOLEAN /\ (yes <=> PushesError(gp))
        /\ Enter(gp, yes, USER_ENTRY, FALSE)
    BY <2>1, Zenon
  <2> HIDE DEF gp, yes
  <2> QED
    BY <2>2, EnterExc, Zenon
<1> SUFFICES ASSUME IInv, UserInt
             PROVE  IInv'
  OBVIOUS
<1>1. PICK v \in {32, 128} :
        /\ prog = "user"
        /\ IF GateDPL(v) = 3 THEN Enter(v, FALSE, USER_ENTRY, TRUE)
           ELSE Enter(13, TRUE, USER_ENTRY, FALSE)
  BY Zenon DEF UserInt
<1>2. v \in Vectors /\ GateDPL(v) = IF v = 128 THEN 3 ELSE 0
  BY SMTT(30), <1>1, VectorsAssumption, Gates, UserFacts
<1>3. CASE v = 128
  BY Zenon, <1>1, <1>2, <1>3, <1>EnterInt80
<1>4. CASE v = 32
  <2>1. Enter(13, TRUE, USER_ENTRY, FALSE)
    <3>1. ~ (GateDPL(v) = 3)
      BY <1>2, <1>4
    <3> QED
      BY <1>1, <3>1, Zenon
  <2> QED
    BY <1>1, <2>1, <1>UserFault, SMTT(30)
<1> QED
  BY Zenon, <1>3, <1>4

\* An exception in user mode.
LEMMA ExceptionStep ==
  ASSUME IInv, Exception
  PROVE  IInv'
<1>1. PICK v \in FaultVectors : prog = "user" /\ Enter(v, PushesError(v), USER_ENTRY, FALSE)
  BY Zenon DEF Exception
<1>2. PushesError(v) \in BOOLEAN
  BY SMTT(30) DEF PushesError
<1> QED
  BY <1>1, <1>2, EnterExc, Zenon

\* The user program computes.
LEMMA UserCodeStep ==
  ASSUME IInv, UserCode
  PROVE  IInv'
<1>1. /\ prog = "user" /\ regs' \in UserFiles
      /\ UNCHANGED <<prog, ip, stack, area, iflag, cs, ss, start, ticks, entered,
                     dispatched, tables>>
  BY Zenon DEF UserCode
<1>2. /\ TypeInv /\ Ready /\ iflag /\ stack = <<>> /\ cs = 35 /\ ss = 43
  BY Zenon, <1>1, UserFacts
<1>3. regs' \in [Regs -> Int]
  BY Zenon, <1>1, UserFilesAssumption
<1>4. iflag' = TRUE
  BY <1>1, <1>2, Zenon DEF TypeInv
<1> QED
  BY Zenon, <1>1, <1>2, <1>3, <1>4, UserEntered DEF TypeInv

-----------------------------------------------------------------------------
(* The theorems *)

\* The kernel's instructions, the interrupt lines and whatever a user program
\* does keep the invariant.
THEOREM KernelEntryInvariant == Spec => []IInv
<1>1. IInv /\ [Next]_vars => IInv'
  <2> SUFFICES ASSUME IInv, [Next]_vars PROVE IInv'
    OBVIOUS
  <2>1. ASSUME NEW line \in Lines, Interrupt(line) PROVE IInv'
    BY Zenon, <2>1, InterruptStep
  <2>2. CASE UserInt
    BY Zenon, <2>2, UserIntStep
  <2>3. CASE Exception
    BY Zenon, <2>3, ExceptionStep
  <2>4. CASE UserCode
    BY Zenon, <2>4, UserCodeStep
  <2>5. CASE KernelCode
    <3>1. prog \in {"kmain", "irq", "int80", "exc"}
      BY Zenon, <2>5 DEF KernelCode
    <3>2. CASE prog = "kmain"
      BY Zenon, <2>5, <3>2, KmainStep
    <3>3. CASE prog = "irq"
      BY Zenon, <2>5, <3>3, IrqStep
    <3>4. CASE prog = "int80"
      BY Zenon, <2>5, <3>4, Int80Step
    <3>5. CASE prog = "exc"
      BY Zenon, <2>5, <3>5, ExcStep
    <3> QED
      BY Zenon, <3>1, <3>2, <3>3, <3>4, <3>5
  <2>6. CASE Halted
    BY Zenon, <2>6, Stutter DEF Halted
  <2>7. CASE UNCHANGED vars
    BY Zenon, <2>7, Stutter
  <2> QED
    BY Zenon, <2>1, <2>2, <2>3, <2>4, <2>5, <2>6, <2>7 DEF Next
<1> QED
  BY <1>1, InitInv, PTL DEF Spec

\* For every user program, fault and interrupt: transfers go where the code means
\* them to (the TransfersValid of KernelEntry).
THEOREM TransfersValidHolds == Spec => []TransfersValid
<1>1. IInv => TransfersValid
  <2> SUFFICES ASSUME IInv PROVE TransfersValid
    BY Zenon
  <2>1. prog = "irq" => entered.vector = 32
    BY Zenon DEF IInv, IrqInv
  <2>2. prog = "int80" => entered.vector = 128
    BY Zenon DEF IInv, Int80Inv
  <2>3. prog \in {"exc", "panic"} => /\ entered.cs = SB_USER_CODE_SELECTOR
                                     /\ entered.vector < 32
                                     /\ entered.stub = entered.vector
    <3>1. prog \in {"exc", "panic"} => FaultEntered
      BY Zenon DEF IInv, ExcInv, PanicInv
    <3>2. \A v \in FaultVectors \cup {13} : v < 32
      BY SMTT(30), FaultsAssumption
    <3> QED
      BY Zenon, <3>1, <3>2 DEF FaultEntered
  <2>4. (entered.soft /\ entered.cs = SB_USER_CODE_SELECTOR) => entered.vector = 128
    BY Zenon DEF IInv, SoftInv
  <2>5. Returning => stack = entered.stack
    BY Zenon, AtReturn
  <2>6. prog = "reset" => ~ StackUsable
    BY Zenon DEF IInv, ResetInv
  <2> QED
    BY Zenon, <2>1, <2>2, <2>3, <2>4, <2>5, <2>6 DEF TransfersValid
<1> QED
  BY <1>1, KernelEntryInvariant, PTL

\* No handler runs with interrupts on, and user mode always does.
THEOREM InterruptsOnlyOutsideHolds == Spec => []InterruptsOnlyOutside
<1>1. IInv => InterruptsOnlyOutside
  BY Zenon DEF IInv, UserInv, HandlerInv, InterruptsOnlyOutside
<1> QED
  BY <1>1, KernelEntryInvariant, PTL

\* The timer's handler gives the interrupted program its registers back.
THEOREM TimerKeepsOthersHolds == Spec => []TimerKeepsOthers
<1>1. IInv => TimerKeepsOthers
  BY SMTT(30), AtReturn DEF TimerKeepsOthers
<1> QED
  BY <1>1, KernelEntryInvariant, PTL

\* The panic screen shows the fault that happened.
THEOREM PanicReportsFaultHolds == Spec => []PanicReportsFault
<1>1. IInv => PanicReportsFault
  BY Zenon DEF IInv, PanicInv, PanicReportsFault
<1> QED
  BY <1>1, KernelEntryInvariant, PTL

=============================================================================
