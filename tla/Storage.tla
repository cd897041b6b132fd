------------------------------ MODULE Storage ------------------------------
(* The sector layer of the VFS (kernel/vfs.c) over the devices: the ATA drive *)
(* and the memory disks.  kmain runs the storage self-test and probes the     *)
(* drive; then clients mount devices and read and write through the mount.    *)
EXTENDS ATA

CONSTANT Requests        \* the LBA and the count calls are made with

\* Both are unsigned.
ASSUME RequestsAssumption == Requests \subseteq Nat \X Nat

VARIABLES
    mount,               \* the client's sb_vfs_mount_t
    status               \* what the last VFS call returned

vars == <<block, drive, g_ata_ready, pc, call, sector, polls, buffer, result, mount, status>>

NoMount == [block_device |-> "null", total_sectors |-> 0]
Devices == MemoryDisks \cup {"ata"}

Sectors(d) == IF d = "ata" THEN SECTORS ELSE TEST_SECTORS

\* What every device holds.
Stored == [d \in Devices |-> IF d = "ata" THEN medium ELSE g_test_disk[d]]

-----------------------------------------------------------------------------
(* Start-up                                                                   *)

\* Registers the disk, mounts it, writes sector 2 and reads it back.
sb_storage_selftest ==
    /\ pc = "start"
    /\ sb_block_register("memtest0", TEST_SECTORS)
    /\ IF Registers(TEST_SECTORS) THEN test_disk_write("memtest0", 2, 1, "pattern")
       ELSE UNCHANGED g_test_disk
    /\ pc' = "probe"
    /\ UNCHANGED <<drive, g_ata_ready, call, sector, polls, buffer, result, mount, status>>

BlockSelftest ==
    /\ pc \in {"start", "idle"}
    /\ sb_block_selftest
    /\ UNCHANGED <<drive, g_ata_ready, pc, call, sector, polls, buffer, result, mount, status>>

-----------------------------------------------------------------------------
(* vfs.c                                                                      *)

\* The devices a client can name: the table's, and sb_ata_pio_device's.
Reachable == Range(g_devices) \cup (IF g_ata_ready THEN {"ata"} ELSE {})

sb_vfs_mount ==
    /\ pc = "idle"
    /\ \E d \in Reachable :
         mount' = [block_device |-> d, total_sectors |-> Sectors(d)]
    /\ UNCHANGED <<block, drive, g_ata_ready, pc, call, sector, polls, buffer, result, status>>

MountChecks(lba, count) == InRange(lba, count, mount.total_sectors)

\* The bound call.quiet: a behaviour ends with the first call that found the
\* drive busy with an abandoned command.
Callable == pc = "idle" /\ mount # NoMount /\ call.quiet

Called(op, lba, count) ==
    /\ Callable /\ MountChecks(lba, count)
    /\ call' = [op |-> op, device |-> mount.block_device, lba |-> lba, count |-> count,
                quiet |-> ~ dev.bsy, before |-> Stored]
    /\ UNCHANGED <<g_devices, drive, g_ata_ready, mount>>

Refused(lba, count) ==
    /\ Callable /\ ~ MountChecks(lba, count)
    /\ status' = "invalid"
    /\ UNCHANGED <<block, drive, g_ata_ready, pc, call, sector, polls, buffer, result, mount>>

ToDrive(op, lba, count) ==
    /\ Called(op, lba, count)
    /\ mount.block_device = "ata"
    /\ BeginTransfer(lba, count)
    /\ status' = "pending"
    /\ UNCHANGED g_test_disk

ToMemory(op, lba, count) ==
    /\ Called(op, lba, count)
    /\ mount.block_device \in MemoryDisks
    /\ IF op = "read"
       THEN buffer' = test_disk_read(mount.block_device, lba, count) /\ UNCHANGED g_test_disk
       ELSE test_disk_write(mount.block_device, lba, count, "new") /\ buffer' = <<>>
    /\ status' = "ok" /\ result' = "ok"
    /\ UNCHANGED <<pc, sector, polls>>

\* The driver's answer becomes the VFS's; kmain only reports it.
Returned ==
    /\ pc = "return"
    /\ pc' = "idle"
    /\ status' = IF call.op = "identify" THEN status
                 ELSE IF result = "ok" THEN "ok" ELSE "io_error"
    /\ UNCHANGED <<block, drive, g_ata_ready, call, sector, polls, buffer, result, mount>>

-----------------------------------------------------------------------------
StorageInit ==
    /\ BlockInit /\ ATAInit
    /\ pc = "start" /\ mount = NoMount /\ status = "none"
    /\ call = [op |-> "identify", device |-> "ata", lba |-> 0, count |-> 0,
               quiet |-> TRUE, before |-> Stored]

Code ==
    \/ sb_storage_selftest \/ Returned
    \/ Driver /\ UNCHANGED <<mount, status>>

Calls == \E op \in {"read", "write"}, r \in Requests :
    Refused(r[1], r[2]) \/ ToDrive(op, r[1], r[2]) \/ ToMemory(op, r[1], r[2])

StorageNext ==
    \/ Code \/ Calls \/ BlockSelftest \/ sb_vfs_mount
    \/ Drive /\ UNCHANGED <<mount, status>>

\* The kernel runs on by itself; nothing is assumed of the drive.
StorageSpec == StorageInit /\ [][StorageNext]_vars /\ WF_vars(Code)

-----------------------------------------------------------------------------
Requested == call.lba..(call.lba + call.count - 1)
Finished(op) == pc = "idle" /\ call.op = op /\ status = "ok" /\ call.quiet

\* A read that returns OK delivers the sectors asked for, in order, of the
\* mounted device, when the drive was not busy with an abandoned command
\* (vfs.c, 15-30; ata_read, 84-102).
ReadExact ==
    Finished("read") =>
        buffer = [i \in 1..call.count |-> call.before[call.device][call.lba + i - 1]]

\* sb_block_selftest may run again at any time, and writes its sector each time.
SelfTested(d, l) == d = "memory-test" /\ l = 2 /\ Stored[d][l] = Contents(l, "pattern")

\* A write that returns OK has stored every sector: the drive is waited for after
\* the last word (ata_write, 126-130).  While a write runs, and also when it fails
\* half-way, no sector outside the request and no other device changes, and a
\* sector of the request holds its old or its new data.
WriteExact ==
    /\ Finished("write") =>
         \A l \in Requested :
            Stored[call.device][l] = NewData(l) \/ SelfTested(call.device, l)
    /\ call.op = "write" /\ call.quiet =>
         \A d \in Devices : \A l \in DOMAIN Stored[d] :
            \/ Stored[d][l] = call.before[d][l]
            \/ d = call.device /\ l \in Requested /\ Stored[d][l] = NewData(l)
            \/ SelfTested(d, l)

Grows(old, new) == Len(old) <= Len(new) /\ \A i \in 1..Len(old) : new[i] = old[i]

\* The table only grows, up to its limit, and keeps every device where it was
\* registered (clients hold indices); the drive is in it only once it is ready.
TableKeepsDevices ==
    [][/\ Grows(g_devices, g_devices')
       /\ Len(g_devices') <= SB_MAX_BLOCK_DEVICES
       /\ "ata" \in Range(g_devices') => g_ata_ready' /\ present]_vars

\* Every call returns, whatever the drive does: the polls are bounded.
CallsReturn == pc # "idle" ~> pc = "idle"
=============================================================================
