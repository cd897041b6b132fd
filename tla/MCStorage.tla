----------------------------- MODULE MCStorage -----------------------------
(* Ten sectors on the drive, three on each memory disk, LBA registers of one *)
(* bit each, two polls per wait; a table of three devices, so that it is     *)
(* full before or after the drive is found, or never.                        *)
EXTENDS Storage

\* One sector, two up to the end, more than a command moves, past the end, none.
MCRequests == {<<2, 1>>, <<8, 2>>, <<2, 3>>, <<9, 2>>, <<9, 0>>}
=============================================================================
