------------------------------- MODULE FAT32 -------------------------------
(* The read-only FAT32 driver (kernel/fs/fat32.c) on a mounted block device   *)
(* (sb_vfs_read_sectors in kernel/vfs.c).  A disk is a boot sector, a table   *)
(* and directory sectors; a byte of file data is named by its place, so a     *)
(* buffer is the sequence of places its bytes were copied from.  Every sector *)
(* read is a step of its own and may fail.                                    *)
EXTENDS Integers, Sequences

CONSTANTS
    U32,                    \* values of a uint32_t
    SB_FAT32_SECTOR_BYTES,
    SB_FAT32_ENTRY_SIZE,    \* bytes of a directory entry
    FAT_ENTRY_BYTES,        \* bytes of a table entry (the 4u of the code)
    FAT_MASK,               \* 0x0FFFFFFF + 1
    SB_FAT32_EOC_MIN,
    Disks,                  \* the disks considered
    Words,                  \* what a sector outside the tables may read as
    Indices,                \* directory indices asked for
    Requests                \* <<offset, length>> pairs asked for

\* Sectors hold whole entries, and the table offset of a masked cluster number
\* fits a uint32_t.
ASSUME SizesAssumption ==
    /\ {U32, FAT_MASK, SB_FAT32_SECTOR_BYTES, SB_FAT32_ENTRY_SIZE, FAT_ENTRY_BYTES}
         \subseteq Nat \ {0}
    /\ SB_FAT32_EOC_MIN \in 2..FAT_MASK
    /\ FAT_MASK * FAT_ENTRY_BYTES <= U32
    /\ SB_FAT32_SECTOR_BYTES % SB_FAT32_ENTRY_SIZE = 0
    /\ SB_FAT32_SECTOR_BYTES % FAT_ENTRY_BYTES = 0
    /\ U32 % FAT_ENTRY_BYTES = 0

\* A directory entry is free (or a long name) or has these fields.
Free == [kind |-> "free"]
Files == [kind : {"file"}, directory : BOOLEAN, first_cluster : 0..U32 - 1,
          file_size : 0..U32 - 1]

\* The fields of the boot sector are unsigned numbers, and the table has the
\* words its size in the boot sector calls for.
ASSUME DisksAssumption == \A d \in Disks :
    /\ d.boot \in [signature : BOOLEAN, bytes_per_sector : Nat, sectors_per_cluster : Nat,
                   reserved_sectors : 0..U32 - 1, total_sectors : 0..U32 - 1,
                   fat_size_sectors : 0..U32 - 1, root_cluster : 0..U32 - 1]
    /\ d.sector_size \in Nat /\ d.total_sectors \in Nat
    /\ d.fat \in [0..(d.boot.fat_size_sectors * d.boot.bytes_per_sector)
                        \div FAT_ENTRY_BYTES - 1 -> 0..U32 - 1]
    /\ \A lba \in DOMAIN d.dir :
          d.dir[lba] \in [0..SB_FAT32_SECTOR_BYTES \div SB_FAT32_ENTRY_SIZE - 1 -> Files \cup {Free}]

ASSUME CallsAssumption ==
    /\ Words \subseteq 0..U32 - 1
    /\ Indices \subseteq 0..U32 - 1
    /\ Requests \subseteq (0..U32 - 1) \X (0..U32 - 1)

VARIABLES
    disk,       \* the block device behind the mount
    fs,         \* sb_fat32_t
    mounted,    \* what the last sb_fat32_mount returned
    pc,         \* where the running call is, "idle" between calls
    req,        \* the running or the last call and its arguments
    entry,      \* sb_fat32_dirent_t of the caller
    cluster, offset, remaining, dst,
    result,     \* what the last call returned
    failed      \* a sector read of this call failed

vars == <<disk, fs, mounted, pc, req, entry, cluster, offset, remaining, dst, result, failed>>
callVars == <<req, entry, cluster, offset, remaining, dst, failed>>

NoEntry == [kind |-> "file", directory |-> FALSE, first_cluster |-> 0, file_size |-> 0]

-----------------------------------------------------------------------------
(* Sectors, clusters and the table                                            *)

\* sb_vfs_read_sectors, for one sector: refused outside the device, and the
\* device may fail.
read_sector(lba, device_ok) == lba < disk.total_sectors /\ device_ok

cluster_to_lba(c) ==
    (fs.first_data_sector + (c - 2) * fs.sectors_per_cluster) % U32

fat_offset(c) == (c * FAT_ENTRY_BYTES) % U32
fat_sector(c) == (fs.reserved_sectors + fat_offset(c) \div fs.bytes_per_sector) % U32
fat_index(c) == fat_offset(c) % fs.bytes_per_sector

TableEntries == (fs.fat_size_sectors * fs.bytes_per_sector) \div FAT_ENTRY_BYTES

\* What the word for cluster c may read as: both copies of the table hold the
\* same entries, and beyond them lies file data.
FatWord(c) ==
    LET e == fat_offset(c) \div FAT_ENTRY_BYTES IN
    IF e < 2 * TableEntries THEN {disk.fat[e % TableEntries]} ELSE Words

WordInSector(c) == fat_index(c) + FAT_ENTRY_BYTES <= fs.bytes_per_sector

LookupOK(c, device_ok) == WordInSector(c) /\ read_sector(fat_sector(c), device_ok)

\* A chain ends at an end-of-chain mark and at the values below 2.
ChainEnds(next) == next >= SB_FAT32_EOC_MIN \/ next < 2

cluster_size == fs.bytes_per_sector * fs.sectors_per_cluster
entries_per_sector == fs.bytes_per_sector \div SB_FAT32_ENTRY_SIZE
entries_per_cluster == entries_per_sector * fs.sectors_per_cluster

-----------------------------------------------------------------------------
(* sb_fat32_mount                                                             *)

BootOK(boot) == boot.signature /\ boot.bytes_per_sector = SB_FAT32_SECTOR_BYTES

TotalSectors(boot) ==
    IF boot.total_sectors = 0 THEN disk.total_sectors % U32 ELSE boot.total_sectors

FieldsOK(boot) ==
    /\ boot.sectors_per_cluster # 0
    /\ boot.reserved_sectors # 0
    /\ boot.fat_size_sectors # 0
    /\ boot.root_cluster >= 2
    /\ TotalSectors(boot) # 0

\* Mutant: the table size is not checked for overflow.
MutSizeUnchecked(boot) == TRUE

FatSizeOK(boot) == boot.fat_size_sectors <= (U32 - 1 - boot.reserved_sectors) \div 2

first_data(boot) == (boot.reserved_sectors + 2 * boot.fat_size_sectors) % U32

\* The fields are stored before they are checked, so a refused boot sector
\* leaves them behind; first_data_sector is stored last.
sb_fat32_mount(device_ok) ==
    LET boot == disk.boot
        read == disk.sector_size >= SB_FAT32_SECTOR_BYTES /\ read_sector(0, device_ok)
        good == FieldsOK(boot) /\ FatSizeOK(boot) /\ first_data(boot) < disk.total_sectors
    IN  /\ pc = "idle"
        /\ \/ /\ ~ (read /\ BootOK(boot))
              /\ mounted' = FALSE
              /\ UNCHANGED fs
           \/ /\ read /\ BootOK(boot)
              /\ mounted' = good
              /\ fs' = [bytes_per_sector |-> boot.bytes_per_sector,
                        sectors_per_cluster |-> boot.sectors_per_cluster,
                        reserved_sectors |-> boot.reserved_sectors,
                        fat_size_sectors |-> boot.fat_size_sectors,
                        root_cluster |-> boot.root_cluster,
                        first_data_sector |-> IF good THEN first_data(boot)
                                              ELSE fs.first_data_sector]
        /\ UNCHANGED <<disk, pc, result, callVars>>

-----------------------------------------------------------------------------
(* One call at a time: Begin, steps that each read one sector, Return         *)

Begin(call) ==
    /\ pc = "idle" /\ mounted
    /\ req' = call
    /\ failed' = FALSE
    /\ dst' = <<>>
    /\ UNCHANGED <<disk, fs, mounted, entry>>

Return(status) == pc' = "idle" /\ result' = status

\* fat_next_cluster and the check every caller makes of it; Continue is taken
\* with the next cluster in place.
Follow(device_ok, Continue) ==
    \/ /\ ~ LookupOK(cluster, device_ok)
       /\ failed' = WordInSector(cluster)
       /\ Return("fail")
       /\ UNCHANGED <<cluster, offset, remaining>>
    \/ /\ LookupOK(cluster, device_ok)
       /\ UNCHANGED failed
       /\ \E word \in FatWord(cluster) :
              LET next == word % FAT_MASK IN
              \/ /\ ChainEnds(next)
                 /\ Return("fail")
                 /\ UNCHANGED <<cluster, offset, remaining>>
              \/ /\ ~ ChainEnds(next)
                 /\ cluster' = next
                 /\ Continue

-----------------------------------------------------------------------------
(* sb_fat32_read_root_entry                                                   *)

RootBegin(index) ==
    /\ Begin([call |-> "root", index |-> index])
    /\ cluster' = fs.root_cluster
    /\ remaining' = index
    /\ pc' = "walk"
    /\ UNCHANGED <<offset, result>>

\* Mutant: the walk stops one entry too late.
MutOneTooFar == remaining > entries_per_cluster

BeyondCluster == remaining >= entries_per_cluster

RootWalk(device_ok) ==
    /\ pc = "walk" /\ BeyondCluster
    /\ Follow(device_ok, /\ remaining' = remaining - entries_per_cluster
                         /\ UNCHANGED <<offset, pc, result>>)
    /\ UNCHANGED <<disk, fs, mounted, req, entry, dst>>

RootRead(device_ok) ==
    LET lba == (cluster_to_lba(cluster) + remaining \div entries_per_sector) % U32
        raw == IF lba \in DOMAIN disk.dir
               THEN disk.dir[lba][remaining % entries_per_sector] ELSE Free
    IN  /\ pc = "walk" /\ ~ BeyondCluster
        /\ failed' = ~ read_sector(lba, device_ok)
        /\ IF read_sector(lba, device_ok) /\ raw.kind = "file"
           THEN entry' = raw /\ Return("ok")
           ELSE UNCHANGED entry /\ Return("fail")
        /\ UNCHANGED <<disk, fs, mounted, req, cluster, offset, remaining, dst>>

-----------------------------------------------------------------------------
(* sb_fat32_read_file                                                         *)

ArgumentsOK(off, length) ==
    /\ ~ entry.directory
    /\ off <= entry.file_size /\ length <= entry.file_size - off
    /\ entry.first_cluster >= 2

FileBegin(off, length) ==
    /\ Begin([call |-> "file", offset |-> off, length |-> length])
    /\ cluster' = entry.first_cluster
    /\ offset' = off
    /\ remaining' = length
    /\ \/ ~ ArgumentsOK(off, length) /\ Return("fail")
       \/ ArgumentsOK(off, length) /\ length = 0 /\ Return("ok")
       \/ ArgumentsOK(off, length) /\ length > 0 /\ pc' = "skip" /\ UNCHANGED result

\* Mutant: the offset is not reduced by the cluster that was skipped.
MutNotConsumed == offset

OffsetInNext == offset - cluster_size

FileSkip(device_ok) ==
    /\ pc = "skip" /\ offset >= cluster_size
    /\ Follow(device_ok, /\ offset' = OffsetInNext
                         /\ UNCHANGED <<remaining, pc, result>>)
    /\ UNCHANGED <<disk, fs, mounted, req, entry, dst>>

FileSkipped ==
    /\ pc = "skip" /\ offset < cluster_size
    /\ pc' = "copy"
    /\ UNCHANGED <<disk, fs, mounted, result, callVars>>

\* Mutant: the next cluster is looked up although nothing is left to read.
MutEagerFollow(left, off) == off >= cluster_size

NeedsNext(left, off) == left > 0 /\ off >= cluster_size

copy_len ==
    LET room == fs.bytes_per_sector - (offset % fs.bytes_per_sector)
    IN  IF room > remaining THEN remaining ELSE room

FileCopy(device_ok) ==
    LET lba == (cluster_to_lba(cluster) + offset \div fs.bytes_per_sector) % U32
        in_sector == offset % fs.bytes_per_sector
        left == remaining - copy_len
    IN  /\ pc = "copy"
        /\ \/ /\ ~ read_sector(lba, device_ok)
              /\ failed' = TRUE
              /\ Return("fail")
              /\ UNCHANGED <<dst, remaining, offset>>
           \/ /\ read_sector(lba, device_ok)
              /\ dst' = dst \o [i \in 1..copy_len |-> <<lba, in_sector + i - 1>>]
              /\ remaining' = left
              /\ offset' = offset + copy_len
              /\ IF NeedsNext(left, offset + copy_len) THEN pc' = "follow" /\ UNCHANGED result
                 ELSE IF left > 0 THEN UNCHANGED <<pc, result>> ELSE Return("ok")
              /\ UNCHANGED failed
        /\ UNCHANGED <<disk, fs, mounted, req, entry, cluster>>

\* Mutant: the offset is not reset at the start of a cluster.
MutOffsetKept == offset

OffsetAfterFollow == 0

FileFollow(device_ok) ==
    /\ pc = "follow"
    /\ Follow(device_ok, /\ offset' = OffsetAfterFollow
                         /\ pc' = "copy"
                         /\ UNCHANGED <<remaining, result>>)
    /\ UNCHANGED <<disk, fs, mounted, req, entry, dst>>

-----------------------------------------------------------------------------
NoFs == [bytes_per_sector |-> 0, sectors_per_cluster |-> 0, reserved_sectors |-> 0,
         fat_size_sectors |-> 0, root_cluster |-> 0, first_data_sector |-> 0]

Init ==
    /\ disk \in Disks
    /\ fs = NoFs /\ mounted = FALSE
    /\ pc = "idle" /\ req = [call |-> "none"] /\ result = "none"
    /\ entry = NoEntry
    /\ cluster = 0 /\ offset = 0 /\ remaining = 0 /\ dst = <<>>
    /\ failed = FALSE

Step ==
    \/ FileSkipped
    \/ \E device_ok \in BOOLEAN :
          \/ RootWalk(device_ok) \/ RootRead(device_ok)
          \/ FileSkip(device_ok) \/ FileCopy(device_ok) \/ FileFollow(device_ok)

Call ==
    \/ \E device_ok \in BOOLEAN : sb_fat32_mount(device_ok)
    \/ \E index \in Indices : RootBegin(index)
    \/ \E r \in Requests : FileBegin(r[1], r[2])

Next == Call \/ Step

\* A call that has begun runs on: the driver is ordinary straight-line code.
Spec == Init /\ [][Next]_vars /\ WF_vars(Step)

-----------------------------------------------------------------------------
(* What a file and a directory are: the reference the reads are held to       *)

\* The cluster numbers of a table with so many entries.
Clusters(entries) == {c \in 2..(entries - 1) : c < SB_FAT32_EOC_MIN}

\* The n-th cluster of the chain that starts at c, 0 where the chain has none.
Chain(fat, entries, c) ==
    LET nth[n \in 0..U32] ==
            IF n = 0 THEN (IF c \in Clusters(entries) THEN c ELSE 0)
            ELSE IF nth[n - 1] # 0 /\ fat[nth[n - 1]] % FAT_MASK \in Clusters(entries)
                 THEN fat[nth[n - 1]] % FAT_MASK ELSE 0
    IN  nth

ChainOf(c) == Chain(disk.fat, TableEntries, c)

\* Where byte k of a chain lies on the disk.
ByteOf(chain, k) ==
    <<disk.boot.reserved_sectors + 2 * disk.boot.fat_size_sectors
        + (chain[k \div cluster_size] - 2) * disk.boot.sectors_per_cluster
        + (k % cluster_size) \div SB_FAT32_SECTOR_BYTES,
      k % SB_FAT32_SECTOR_BYTES>>

\* Every cluster a call can come to has sector numbers that fit a uint32_t.
NoWrap ==
    \A c \in {entry.first_cluster, SB_FAT32_EOC_MIN - 1} :
        fs.first_data_sector + (c - 1) * fs.sectors_per_cluster <= U32

-----------------------------------------------------------------------------
\* A successful mount describes the disk: the data area begins right after the
\* two tables, in true arithmetic, and inside the device (fat32.c 97-105).
MountSound ==
    mounted =>
        /\ fs.first_data_sector = disk.boot.reserved_sectors + 2 * disk.boot.fat_size_sectors
        /\ fs.first_data_sector < disk.total_sectors

\* The caller's buffer receives the bytes offset, offset + 1, ... of the file's
\* cluster chain, in order, across sector and cluster boundaries and on cyclic
\* chains; never more than length of them, also in a call that fails later, and
\* all of them in one that returns 1 (sb_fat32_read_file, 181-221).  A byte is
\* the right one where its sector number fits the uint32_t the driver computes
\* it in, and while no number can wrap, no byte of the boot sector or of a table
\* is delivered, whatever the chain.
ReadExact ==
    req.call = "file" =>
        /\ Len(dst) <= req.length
        /\ pc = "idle" /\ result = "ok" => Len(dst) = req.length
        /\ NoWrap => \A i \in 1..Len(dst) : dst[i][1] >= fs.first_data_sector
        /\ LET chain == ChainOf(entry.first_cluster) IN
           \A i \in 1..Len(dst) :
               LET k == req.offset + i - 1 IN
               chain[k \div cluster_size] # 0 /\ ByteOf(chain, k)[1] < U32 =>
                   dst[i] = ByteOf(chain, k)

\* A read inside the file fails only for a reason: a sector could not be read, or
\* the chain has no cluster for some byte asked for.  In particular a file that
\* fills its last cluster is readable to its end (fat32.c 210), and no table
\* word lies across two sectors (35).
FailsForAReason ==
    pc = "idle" /\ req.call = "file" /\ result = "fail" /\ ~ failed
    /\ ArgumentsOK(req.offset, req.length) =>
        LET chain == ChainOf(entry.first_cluster) IN
        chain[(req.offset + req.length - 1) \div cluster_size] = 0

\* A directory entry that is returned is the index-th entry of the root chain
\* (sb_fat32_read_root_entry, 124-154).
EntryExact ==
    pc = "idle" /\ req.call = "root" /\ result = "ok" =>
        LET chain == ChainOf(disk.boot.root_cluster)
            place == ByteOf(chain, req.index * SB_FAT32_ENTRY_SIZE)
        IN  chain[req.index \div entries_per_cluster] # 0 /\ place[1] < U32 =>
                entry = disk.dir[place[1]][place[2] \div SB_FAT32_ENTRY_SIZE]

\* Every call returns, also on a disk whose chains run in circles.
CallsReturn == pc # "idle" ~> pc = "idle"
=============================================================================
