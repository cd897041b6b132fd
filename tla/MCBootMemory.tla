----------------------------- MODULE MCBootMemory -----------------------------
(* Seven pages of 64 bytes; the kernel in page 1, the fallback window pages *)
(* 3 to 5.  Tag and entry sizes are real; ranges are unaligned, overlapping *)
(* and overflowing ones.                                                    *)
EXTENDS BootMemory

MCInfoAddresses == {0, 336}
MCTotalSizes == {8, 60, 72, 80, 104, 120, 152}
\* The known types and their sizes have a NUL behind their first byte, the end
\* tag is all NULs there; an unknown type may have none before its size.
Plain(type, size, stop) == [type |-> type, size |-> size, stop |-> stop]
\* The first text bytes behind the header are neither NUL nor space.
Module(size, range, text, named) ==
  [type |-> "module", size |-> size, stop |-> 1, range |-> range, text |-> text,
   named |-> named]
Mmap(size, entry_size) ==
  [type |-> "mmap", size |-> size, stop |-> 1, entry_size |-> entry_size]
Screen(size, direct, good) ==
  [type |-> "framebuffer", size |-> size, stop |-> 1, direct |-> direct,
   dimensions |-> good, colours |-> good]
MCTags == {Plain("end", 8, 0), Plain("end", 16, 0), Plain("other", 4, 5),
           Plain("other", 12, 5), Plain("other", 1016, 8),
           Module(12, <<200, 260>>, 0, TRUE), Module(18, <<200, 260>>, 1, TRUE),
           Module(18, <<200, 260>>, 8, FALSE), Module(16, <<250, 200>>, 0, TRUE),
           Mmap(12, 24), Mmap(40, 8), Mmap(40, 24), Mmap(40, 48), Mmap(64, 24),
           Screen(38, TRUE, TRUE), Screen(32, TRUE, TRUE), Screen(40, FALSE, TRUE),
           Screen(40, TRUE, FALSE)}
Entry(a, l, v) == [addr |-> a, len |-> l, available |-> v]
MCMapEntries == {Entry(0, 448, TRUE), Entry(70, 250, TRUE), Entry(130, 70, FALSE),
                 Entry(440, 1000, TRUE), Entry(300, 600, TRUE), Entry(0, 0, TRUE)}

=============================================================================
