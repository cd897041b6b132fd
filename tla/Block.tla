------------------------------- MODULE Block -------------------------------
(* The table of block devices (kernel/block.c) and the two disks in memory   *)
(* that the self-tests of block.c and storage_selftest.c put into it.        *)
EXTENDS Integers, Sequences, Functions

CONSTANTS
    SB_MAX_BLOCK_DEVICES,
    TEST_SECTORS         \* sectors of a memory disk (8)

ASSUME TableAssumption == SB_MAX_BLOCK_DEVICES \in Nat
ASSUME TestSectorExists == TEST_SECTORS \in Nat /\ TEST_SECTORS > 2

VARIABLES
    g_devices,           \* the devices registered, in order
    g_test_disk          \* what the sectors of each memory disk hold

MemoryDisks == {"memory-test", "memtest0"}

\* A sector's contents: the sector it was written for, and which data.
Contents(lba, data) == <<lba, data>>
Blank == [l \in 0..(TEST_SECTORS - 1) |-> Contents(l, "zero")]

\* Mutant: the table is not checked for room, the last slot is overwritten.
MutNoLimit(device, sectors) ==
    IF sectors = 0 THEN UNCHANGED g_devices
    ELSE g_devices' = Append(IF Len(g_devices) < SB_MAX_BLOCK_DEVICES THEN g_devices
                             ELSE SubSeq(g_devices, 1, Len(g_devices) - 1), device)

Registers(sectors) == sectors # 0 /\ Len(g_devices) < SB_MAX_BLOCK_DEVICES

sb_block_register(device, sectors) ==
    g_devices' = IF Registers(sectors) THEN Append(g_devices, device) ELSE g_devices

\* A count of 0, a start past the end and a run past the end are refused.
InRange(lba, count, sectors) == count # 0 /\ lba < sectors /\ count <= sectors - lba

test_disk_read(disk, lba, count) == SubSeq([i \in 1..TEST_SECTORS |-> g_test_disk[disk][i - 1]],
                                           lba + 1, lba + count)

test_disk_write(disk, lba, count, data) ==
    g_test_disk' = [g_test_disk EXCEPT ![disk] =
        [l \in DOMAIN @ |-> IF l \in lba..(lba + count - 1) THEN Contents(l, data) ELSE @[l]]]

\* Registers its disk, writes a pattern to sector 2 and reads it back.
sb_block_selftest ==
    /\ sb_block_register("memory-test", TEST_SECTORS)
    /\ IF Registers(TEST_SECTORS) THEN test_disk_write("memory-test", 2, 1, "pattern")
       ELSE UNCHANGED g_test_disk

BlockInit ==
    /\ g_devices = <<>>
    /\ g_test_disk = [d \in MemoryDisks |-> Blank]
=============================================================================
