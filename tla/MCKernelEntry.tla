---------------------------- MODULE MCKernelEntry ----------------------------
(* A user program whose registers are all different, with every system call  *)
(* number in rax and in r11 and bits above the low 16 everywhere; a fault    *)
(* with an error code and one without; a timer, a keyboard and a device on   *)
(* the slave controller.                                                     *)
EXTENDS KernelEntry

Distinct == [r \in Regs |->
  65536 * (CHOOSE k \in 1 .. 9 :
             r = <<"rax", "rcx", "rdx", "rsi", "rdi",
                   "r8", "r9", "r10", "r11">>[k]) + 77]

MCUserFiles == {[Distinct EXCEPT !["rax"] = a, !["r11"] = b] :
                  a \in 0 .. 3, b \in 0 .. 3} \cup {Distinct}

MCFaultVectors == {0, 13, 14}
MCLines == {0, 1, 8}

\* Faults, the lines before and after pic_remap, int 0x80.
MCVectors == MCFaultVectors \cup {8, 9, 32, 33, 40, 112, 128}

=============================================================================
