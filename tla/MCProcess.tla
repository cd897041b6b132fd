------------------------------ MODULE MCProcess ------------------------------
(* Two processes, tables of two entries, pages of two bytes: the user slot    *)
(* has eight pages from 16 to 31, the stack is 20 to 23.  Memory is enough    *)
(* for two programs, and every destroyed process leaves less of it.           *)
EXTENDS Process

MCPages == 1 .. 16

Ph(vaddr, memsz, filesz, offset, w, x) ==
  [load |-> TRUE, vaddr |-> vaddr, memsz |-> memsz, filesz |-> filesz,
   offset |-> offset, w |-> w, x |-> x]
Note == [load |-> FALSE, vaddr |-> 0, memsz |-> 3, filesz |-> 9,
         offset |-> 0, w |-> FALSE, x |-> FALSE]
Elf(type, entry, segs) ==
  [header_ok |-> TRUE, ph_end |-> 4, size |-> 9, type |-> type,
   entry |-> entry, segs |-> segs]

\* Code, then data that ends inside a page and has a zero tail.
CodeAndData == Elf("EXEC", 17, <<Ph(16, 2, 2, 4, FALSE, TRUE), Note,
                                 Ph(25, 4, 2, 6, TRUE, FALSE)>>)
\* Position independent, linked at 4: everything moves to 16.
Pie == Elf("DYN", 4, <<Ph(5, 3, 2, 5, FALSE, TRUE)>>)
\* Position independent, with a segment before the entry's page.
PieBelow == Elf("DYN", 4, <<Ph(2, 2, 2, 5, FALSE, TRUE), Ph(4, 1, 1, 5, FALSE, TRUE)>>)
\* Read-only data next to writable data, and nothing executable.
DataOnly == Elf("EXEC", 18, <<Ph(16, 2, 1, 5, FALSE, FALSE), Ph(18, 2, 1, 5, TRUE, FALSE)>>)
\* Writable code; two segments on one page; one where the stack goes.
WritableCode == Elf("EXEC", 16, <<Ph(16, 1, 1, 5, TRUE, TRUE)>>)
SharedPage == Elf("EXEC", 16, <<Ph(16, 1, 1, 5, FALSE, TRUE), Ph(17, 1, 1, 6, TRUE, FALSE)>>)
OnStack == Elf("EXEC", 20, <<Ph(20, 2, 2, 5, FALSE, TRUE)>>)
\* Past the user slot, past the user range, past 2^64; no entry; no header.
NextSlot == Elf("EXEC", 32, <<Ph(31, 2, 0, 5, FALSE, TRUE)>>)
PastLimit == Elf("EXEC", 47, <<Ph(47, 2, 0, 5, FALSE, TRUE)>>)
Wraps == Elf("EXEC", 127, <<Ph(127, 4, 0, 5, FALSE, TRUE)>>)
NoEntry == Elf("EXEC", 30, <<Ph(16, 1, 1, 5, FALSE, TRUE)>>)
TooLong == Elf("EXEC", 16, <<Ph(16, 2, 2, 8, FALSE, TRUE)>>)

MCImages == {CodeAndData, Pie, PieBelow, DataOnly, WritableCode, SharedPage,
             OnStack, NextSlot, PastLimit, Wraps, NoEntry, TooLong}

=============================================================================
