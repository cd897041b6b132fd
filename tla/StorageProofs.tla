---------------------------- MODULE StorageProofs ----------------------------
(***************************************************************************)
(* What the sector layer promises its clients, for every drive, every      *)
(* request and every number of polls: reads deliver and writes store       *)
(* exactly the sectors asked for, and the device table only grows.         *)
(***************************************************************************)
EXTENDS Storage, TLAPS

-----------------------------------------------------------------------------
(* The inductive invariant *)

Loop == TaskFile \cup {"command", "notbusy", "drq", "transfer", "flush"}

TypeInv ==
    /\ pc \in Loop \cup {"start", "probe", "return", "idle"}
    /\ DOMAIN medium = 0..(SECTORS - 1)
    /\ DOMAIN g_test_disk = MemoryDisks
    /\ \A d \in MemoryDisks : DOMAIN g_test_disk[d] = 0..(TEST_SECTORS - 1)
    /\ DOMAIN dev = {"bsy", "drq", "err", "cmd", "lba", "got"}
    /\ dev.bsy \in BOOLEAN
    /\ DOMAIN task = TaskFile
    /\ call.op \in {"identify", "read", "write"} /\ call.device \in Devices
    /\ call.lba \in Nat /\ call.count \in Nat /\ call.quiet \in BOOLEAN
    /\ sector \in Nat
    /\ mount # NoMount => /\ mount.block_device \in Devices
                          /\ mount.total_sectors = Sectors(mount.block_device)

\* The table holds the drive only once it was found.
TableInv ==
    /\ g_devices \in Seq(Devices) /\ Len(g_devices) <= SB_MAX_BLOCK_DEVICES
    /\ "ata" \in Range(g_devices) => g_ata_ready /\ present
    /\ call.op = "identify" /\ pc \in {"notbusy", "drq", "transfer"} => present
    /\ call.op = "identify" => pc \notin TaskFile \cup {"command", "flush"}
    /\ pc \in {"start", "probe"} => call.op = "identify"

\* A call in progress moves sectors the drive has.
RangeInv ==
    /\ pc \in Loop /\ call.op # "identify" =>
         /\ call.device = "ata" /\ call.lba + call.count <= SECTORS /\ sector < call.count
         /\ call.op = "read" => pc # "flush"
    /\ call.op # "identify" =>
         Requested \subseteq 0..(Sectors(call.device) - 1)

\* The registers written before the one at pc.
Written == [DRIVE |-> {}, LBA0 |-> {"DRIVE"}, LBA1 |-> {"DRIVE", "LBA0"},
            LBA2 |-> {"DRIVE", "LBA0", "LBA1"}, command |-> TaskFile]

\* Driver and drive agree on the command under way.
DriveInv ==
    /\ dev.bsy /\ dev.got # JUNK =>
         /\ call.op = "write" /\ call.device = "ata"
         /\ dev.lba \in Requested /\ dev.got = NewData(dev.lba)
    /\ call.op # "identify" =>
         /\ pc \in TaskFile \cup {"command"} =>
              ~ dev.bsy /\ \A r \in Written[pc] : task[r] = Digit(r)
         /\ pc \in {"notbusy", "drq", "transfer"} =>
              dev.cmd = call.op /\ dev.lba = current /\ dev.got = JUNK
         /\ pc \in {"drq", "transfer"} => ~ dev.bsy
         /\ pc = "flush" => /\ dev.lba = current /\ dev.got = NewData(current)
                            /\ ~ dev.bsy => dev.err \/ medium[current] = NewData(current)

\* What a call has done when it has moved n sectors.
Moved(n) ==
    /\ call.op = "read" =>
         buffer = [i \in 1..n |-> call.before[call.device][call.lba + i - 1]]
    /\ call.op = "write" =>
         \A l \in call.lba..(call.lba + n - 1) :
            Stored[call.device][l] = NewData(l) \/ SelfTested(call.device, l)

Transferred(n) == Moved(n) /\ (call.op = "write" /\ call.device = "ata" => ~ dev.bsy)

ProgressInv ==
    /\ call.op # "identify" /\ pc \in Loop =>
         Moved(sector) /\ (call.op = "read" => medium = call.before["ata"])
    /\ call.op # "identify" /\ pc = "return" /\ result = "ok" => Transferred(call.count)
    /\ call.op # "identify" /\ pc = "idle" /\ status = "ok" => Transferred(call.count)

\* Nothing but the request changes.
OnlyRequested ==
    call.op = "write" =>
        \A d \in Devices : \A l \in DOMAIN Stored[d] :
            \/ Stored[d][l] = call.before[d][l]
            \/ d = call.device /\ l \in Requested /\ Stored[d][l] = NewData(l)
            \/ SelfTested(d, l)

StorageInv ==
    /\ TypeInv /\ TableInv /\ RangeInv
    /\ call.quiet => DriveInv /\ ProgressInv /\ OnlyRequested

-----------------------------------------------------------------------------
(* The table *)

\* sb_block_register appends or leaves the table alone.
LEMMA RegisterStep ==
  ASSUME g_devices \in Seq(Devices), Len(g_devices) <= SB_MAX_BLOCK_DEVICES,
         NEW d \in Devices, NEW n, sb_block_register(d, n)
  PROVE  /\ g_devices' \in Seq(Devices) /\ Len(g_devices') <= SB_MAX_BLOCK_DEVICES
         /\ Grows(g_devices, g_devices')
         /\ Range(g_devices') \subseteq Range(g_devices) \cup {d}
<1>1. CASE g_devices' = g_devices
  BY <1>1 DEF Grows
<1>2. CASE Len(g_devices) < SB_MAX_BLOCK_DEVICES /\ g_devices' = Append(g_devices, d)
  <2>1. /\ g_devices' \in Seq(Devices) /\ Len(g_devices') = Len(g_devices) + 1
        /\ Len(g_devices) \in Nat
        /\ \A i \in 1..Len(g_devices) : g_devices'[i] = g_devices[i]
        /\ g_devices'[Len(g_devices) + 1] = d
    BY <1>2
  <2>2. Len(g_devices') <= SB_MAX_BLOCK_DEVICES
    BY <1>2, <2>1, TableAssumption
  <2>3. Grows(g_devices, g_devices')
    <3>1. SubSeq(g_devices, 1, Len(g_devices)) = SubSeq(g_devices', 1, Len(g_devices))
      BY <2>1
    <3> QED
      BY <2>1, <3>1 DEF Grows
  <2>4. Range(g_devices') \subseteq Range(g_devices) \cup {d}
    BY <2>1 DEF Range
  <2> QED
    BY Zenon, <2>1, <2>2, <2>3, <2>4
<1> QED
  BY Zenon, <1>1, <1>2 DEF sb_block_register, Registers

\* Writing a memory disk keeps its size and every other disk.
LEMMA DiskWrite ==
  ASSUME TypeInv, NEW d \in MemoryDisks, NEW lba, NEW count, NEW data,
         test_disk_write(d, lba, count, data)
  PROVE  /\ DOMAIN g_test_disk' = MemoryDisks
         /\ \A e \in MemoryDisks : DOMAIN g_test_disk'[e] = 0..(TEST_SECTORS - 1)
         /\ \A e \in MemoryDisks : e # d => g_test_disk'[e] = g_test_disk[e]
         /\ \A l \in 0..(TEST_SECTORS - 1) :
              g_test_disk'[d][l] = IF l \in lba..(lba + count - 1) THEN Contents(l, data)
                                   ELSE g_test_disk[d][l]
BY Zenon DEF test_disk_write, TypeInv

\* The self-test of block.c registers its disk and writes one sector of it.
LEMMA SelftestStep ==
  ASSUME TypeInv, TableInv, sb_block_selftest
  PROVE  /\ g_devices' \in Seq(Devices) /\ Len(g_devices') <= SB_MAX_BLOCK_DEVICES
         /\ Grows(g_devices, g_devices')
         /\ Range(g_devices') \subseteq Range(g_devices) \cup {"memory-test"}
         /\ DOMAIN g_test_disk' = MemoryDisks
         /\ \A e \in MemoryDisks : DOMAIN g_test_disk'[e] = 0..(TEST_SECTORS - 1)
         /\ \A e \in MemoryDisks : \A l \in 0..(TEST_SECTORS - 1) :
              \/ g_test_disk'[e][l] = g_test_disk[e][l]
              \/ e = "memory-test" /\ l = 2 /\ g_test_disk'[e][l] = Contents(l, "pattern")
<1>1. "memory-test" \in MemoryDisks /\ "memory-test" \in Devices
  BY Zenon DEF MemoryDisks, Devices
<1>2. sb_block_register("memory-test", TEST_SECTORS)
  BY Zenon DEF sb_block_selftest
<1>3. CASE UNCHANGED g_test_disk
  BY Zenon, <1>1, <1>2, <1>3, RegisterStep DEF TypeInv, TableInv
<1>4. CASE test_disk_write("memory-test", 2, 1, "pattern")
  <2>1. 2..(2 + 1 - 1) = {2}
    OBVIOUS
  <2>2. \A e \in MemoryDisks : \A l \in 0..(TEST_SECTORS - 1) :
              \/ g_test_disk'[e][l] = g_test_disk[e][l]
              \/ e = "memory-test" /\ l = 2 /\ g_test_disk'[e][l] = Contents(l, "pattern")
    BY <1>1, <1>4, <2>1, DiskWrite
  <2> QED
    BY Zenon, <1>1, <1>2, <1>4, <2>2, RegisterStep, DiskWrite DEF TableInv
<1> QED
  BY Zenon, <1>3, <1>4 DEF sb_block_selftest

-----------------------------------------------------------------------------
(* The four LBA registers *)

\* A quotient is the only number of whole divisors.
LEMMA Quotient ==
  ASSUME NEW a \in Nat, NEW m \in Nat \ {0}, NEW q \in Nat, NEW x \in Nat, x < m,
         a = q * m + x
  PROVE  a \div m = q /\ a % m = x
<1>1. /\ a \div m \in Nat /\ a % m \in Nat /\ a % m < m
      /\ a = m * (a \div m) + (a % m)
  OBVIOUS
<1>2. PICK k \in Int : k = (a \div m) - q
  <2>1. (a \div m) - q \in Int
    BY <1>1
  <2> QED
    BY Zenon, <2>1
<1>3. m * k = x - (a % m)
  BY <1>1, <1>2
<1>4. m * k < m /\ m * k > -m
  BY <1>1, <1>3
<1>5. k = 0
  <2>1. k >= 1 => m * k >= m
    BY <1>1
  <2>2. k <= -1 => m * k <= -m
    BY <1>1
  <2> QED
    BY <1>4, <2>1, <2>2
<1> QED
  BY <1>1, <1>2, <1>3, <1>5

\* Dividing twice is dividing by the product.
LEMMA DivTwice ==
  ASSUME NEW a \in Nat, NEW m \in Nat \ {0}, NEW n \in Nat \ {0}
  PROVE  (a \div m) \div n = a \div (m * n)
<1> DEFINE b == a \div m
           q == b \div n
           x == a % m
           y == b % n
<1>1. b \in Nat /\ x \in Nat /\ x < m /\ a = m * b + x
  OBVIOUS
<1>2. q \in Nat /\ y \in Nat /\ y < n /\ b = n * q + y
  BY <1>1
<1> HIDE DEF b, q, x, y
<1>3. m * n \in Nat \ {0}
  OBVIOUS
<1>4. m * y + x \in Nat /\ m * y + x < m * n
  <2>1. y + 1 <= n
    BY <1>2
  <2>2. m * (y + 1) <= m * n
    BY <1>2, <2>1
  <2>3. m * (y + 1) = m * y + m
    BY <1>2
  <2> QED
    BY <1>1, <1>2, <2>2, <2>3
<1>5. a = q * (m * n) + (m * y + x)
  BY <1>1, <1>2
<1>6. a \div (m * n) = q
  BY Zenon, <1>2, <1>3, <1>4, <1>5, Quotient
<1> QED
  BY Zenon, <1>6 DEF b, q

\* The drive puts together the sector number the driver took apart.
LEMMA LatchedIs ==
  ASSUME current \in Nat, current < SECTORS, \A r \in TaskFile : task[r] = Digit(r)
  PROVE  Latched = current
<1>1. PICK c \in Nat, D \in Nat \ {0}, T \in Nat \ {0} :
        c = current /\ D = DIGIT /\ T = TOP_DIGIT
  BY Zenon, DriveAssumption
<1>2. /\ task["LBA0"] = c % D
      /\ task["LBA1"] = (c \div D) % D
      /\ task["LBA2"] = (c \div (D * D)) % D
      /\ task["DRIVE"] = (c \div (D * D * D)) % T
  BY Zenon, <1>1 DEF TaskFile, Digit
<1>3. PICK c1 \in Nat : c1 = c \div D /\ c = c1 * D + (c % D)
  <2>1. c \div D \in Nat /\ c = (c \div D) * D + (c % D)
    OBVIOUS
  <2> QED
    BY Zenon, <2>1
<1>4. PICK c2 \in Nat : c2 = c1 \div D /\ c1 = c2 * D + (c1 % D)
  <2>1. c1 \div D \in Nat /\ c1 = (c1 \div D) * D + (c1 % D)
    OBVIOUS
  <2> QED
    BY Zenon, <2>1
<1>5. PICK c3 \in Nat : c3 = c2 \div D /\ c2 = c3 * D + (c2 % D)
  <2>1. c2 \div D \in Nat /\ c2 = (c2 \div D) * D + (c2 % D)
    OBVIOUS
  <2> QED
    BY Zenon, <2>1
<1>6. D * D \in Nat \ {0} /\ D * D * D \in Nat \ {0}
  OBVIOUS
<1>7. c2 = c \div (D * D)
  BY Zenon, <1>3, <1>4, DivTwice
<1>8. c3 = c \div (D * D * D)
  BY ZenonT(40), <1>5, <1>6, <1>7, DivTwice
<1>9. c3 % T = c3
  <2>1. c < T * D * D * D
    BY <1>1, DriveAssumption
  <2>2. c3 * (D * D * D) <= c
    BY <1>6, <1>8
  <2>3. c3 < T
    <3>1. c3 >= T => c3 * (D * D * D) >= T * (D * D * D)
      BY <1>6
    <3>2. T * (D * D * D) = T * D * D * D
      OBVIOUS
    <3> QED
      BY <1>6, <2>1, <2>2, <3>1, <3>2
  <2> QED
    BY <2>3
<1>10. /\ task["LBA0"] = c % D /\ task["LBA1"] = c1 % D /\ task["LBA2"] = c2 % D
       /\ task["DRIVE"] = c3
  BY Zenon, <1>2, <1>3, <1>7, <1>8, <1>9
<1>11. Latched = ((c3 * D + (c2 % D)) * D + (c1 % D)) * D + (c % D)
  BY Zenon, <1>1, <1>10 DEF Latched
<1> QED
  BY Zenon, <1>1, <1>3, <1>4, <1>5, <1>11

-----------------------------------------------------------------------------
(* Types, the table and the ranges: what no call disturbs *)

StructInv == TypeInv /\ TableInv /\ RangeInv

\* The steps of the drive.
LEMMA StructDrive ==
  ASSUME StructInv, Drive, UNCHANGED <<mount, status>>
  PROVE  StructInv'
<1>1. UNCHANGED <<g_devices, g_test_disk, present, task, g_ata_ready, pc, call, sector, mount>>
  BY Zenon DEF Drive, Complete, Fault, block
<1>2. /\ DOMAIN medium' = DOMAIN medium /\ DOMAIN dev' = DOMAIN dev /\ dev'.bsy = FALSE
  BY Zenon DEF Drive, Complete, Fault, StructInv, TypeInv
<1>3. TypeInv'
  BY Zenon, <1>1, <1>2 DEF StructInv, TypeInv
<1> QED
  BY Zenon, <1>1, <1>3 DEF StructInv, TableInv, RangeInv, Requested

\* The steps of the driver that leave the table alone.
LEMMA StructDriver ==
  ASSUME StructInv, UNCHANGED <<mount, status, block>>,
         \/ NoDrive \/ Probe \/ WriteRegister \/ Command \/ ata_wait_not_busy
         \/ ata_wait_drq \/ ReadData \/ WriteData \/ Flush
  PROVE  StructInv'
<1>1. UNCHANGED <<g_devices, g_test_disk, present, g_ata_ready, call, mount, medium>>
  BY Zenon DEF block, drive, NoDrive, Probe, WriteRegister, Command, ata_wait_not_busy,
     ata_wait_drq, ReadData, WriteData, Flush
<1>2. DOMAIN dev' = DOMAIN dev /\ dev'.bsy \in BOOLEAN /\ DOMAIN task' = DOMAIN task
  <2>1. CASE NoDrive \/ ata_wait_not_busy \/ ata_wait_drq \/ Flush
    BY Zenon, <2>1 DEF NoDrive, ata_wait_not_busy, ata_wait_drq, Flush, drive, StructInv, TypeInv
  <2>2. CASE Probe \/ Command
    <3>1. PICK cmd : Accept(cmd)
      BY Zenon, <2>2 DEF Probe, Command
    <3>2. DOMAIN dev' = DOMAIN dev /\ dev'.bsy \in BOOLEAN
      <4>1. CASE dev' = dev
        BY Zenon, <4>1 DEF StructInv, TypeInv
      <4>2. CASE dev' = [bsy |-> TRUE, drq |-> FALSE, err |-> FALSE, cmd |-> cmd,
                         lba |-> Latched, got |-> JUNK]
        <5>1. dev'.bsy = TRUE
          BY Zenon, <4>2
        <5>2. DOMAIN dev' = DOMAIN dev
          BY Zenon, <4>2 DEF StructInv, TypeInv
        <5> QED
          BY Zenon, <5>1, <5>2
      <4> QED
        BY Zenon, <3>1, <4>1, <4>2 DEF Accept
    <3>3. DOMAIN task' = DOMAIN task
      BY Zenon, <2>2 DEF Probe, Command, StructInv, TypeInv
    <3> QED
      BY Zenon, <3>2, <3>3
  <2>3. CASE WriteRegister
    BY Zenon, <2>3 DEF WriteRegister, StructInv, TypeInv
  <2>4. CASE ReadData \/ WriteData
    BY Zenon, <2>4 DEF ReadData, WriteData, StructInv, TypeInv
  <2> QED
    BY Zenon, <2>1, <2>2, <2>3, <2>4
<1>3. /\ pc' \in Loop \cup {"return"} /\ sector' \in Nat
      /\ call.op = "identify" => pc' \notin TaskFile \cup {"command", "flush"}
      /\ call.op = "identify" /\ pc' \in {"notbusy", "drq", "transfer"} => present
      /\ call.op # "identify" /\ pc' \in Loop =>
           pc \in Loop /\ sector' < call.count /\ (call.op = "read" => pc' # "flush")
  <2>0. sector \in Nat /\ TableInv /\ RangeInv /\ call.count \in Nat
    BY Zenon DEF StructInv, TypeInv
  <2>1. CASE NoDrive
    BY Zenon, <2>0, <2>1 DEF NoDrive, Return, TableInv, RangeInv, Loop, TaskFile
  <2>2. CASE Probe
    BY Zenon, <2>0, <2>2 DEF Probe, TableInv, RangeInv, Loop, TaskFile
  <2>3. CASE WriteRegister
    <3>1. pc \in TaskFile /\ pc' \in {"LBA0", "LBA1", "LBA2", "command"} /\ sector' = sector
      BY <2>3 DEF WriteRegister, After, TaskFile
    <3> QED
      BY Zenon, <2>0, <3>1 DEF TableInv, RangeInv, Loop, TaskFile
  <2>4. CASE Command
    BY Zenon, <2>0, <2>4 DEF Command, TableInv, RangeInv, Loop, TaskFile
  <2>5. CASE ata_wait_not_busy
    <3>1. pc = "notbusy" /\ sector' = sector /\ pc' \in {"notbusy", "return", "drq"}
      BY Zenon, <2>5 DEF ata_wait_not_busy, PollAgain, Return
    <3> QED
      BY Zenon, <2>0, <3>1 DEF TableInv, RangeInv, Loop, TaskFile
  <2>6. CASE ata_wait_drq
    <3>1. pc = "drq" /\ sector' = sector /\ pc' \in {"drq", "return", "transfer"}
      BY Zenon, <2>6 DEF ata_wait_drq, PollAgain, Return
    <3> QED
      BY Zenon, <2>0, <3>1 DEF TableInv, RangeInv, Loop, TaskFile
  <2>7. CASE ReadData
    <3>1. /\ pc = "transfer" /\ call.op = "read" /\ sector' = sector + 1
          /\ pc' = "return" \/ (pc' = "DRIVE" /\ sector + 1 < call.count)
      BY Zenon, <2>7 DEF ReadData, SectorDone, Return
    <3> QED
      BY <2>0, <3>1 DEF TableInv, RangeInv, Loop, TaskFile
  <2>8. CASE WriteData
    <3>1. pc = "transfer" /\ call.op = "write" /\ sector' = sector /\ pc' = "flush"
      BY Zenon, <2>8 DEF WriteData, FinalWait
    <3> QED
      BY Zenon, <2>0, <3>1 DEF TableInv, RangeInv, Loop, TaskFile
  <2>9. CASE Flush
    <3>1. /\ pc = "flush"
          /\ \/ sector' = sector /\ pc' \in {"flush", "return"}
             \/ /\ sector' = sector + 1
                /\ pc' = "return" \/ (pc' = "DRIVE" /\ sector + 1 < call.count)
      BY Zenon, <2>9 DEF Flush, PollAgain, SectorDone, Return
    <3> QED
      BY <2>0, <3>1 DEF TableInv, RangeInv, Loop, TaskFile
  <2> QED
    BY Zenon, <2>1, <2>2, <2>3, <2>4, <2>5, <2>6, <2>7, <2>8, <2>9
<1>4. TypeInv'
  BY Zenon, <1>1, <1>2, <1>3 DEF StructInv, TypeInv
<1>5. TableInv'
  BY Zenon, <1>1, <1>3 DEF StructInv, TableInv, Loop, TaskFile
<1>6. RangeInv'
  BY Zenon, <1>1, <1>3 DEF StructInv, RangeInv, Requested
<1> QED
  BY Zenon, <1>4, <1>5, <1>6 DEF StructInv

\* IDENTIFY ends: the drive is registered, if there is room for it.
LEMMA StructIdentified ==
  ASSUME StructInv, Identified, UNCHANGED <<g_test_disk, mount, status>>
  PROVE  StructInv' /\ Grows(g_devices, g_devices')
<1>1. /\ pc = "transfer" /\ call.op = "identify" /\ pc' = "return"
      /\ dev' = [dev EXCEPT !.drq = FALSE]
      /\ UNCHANGED <<present, medium, task, call, sector, mount, g_test_disk>>
  BY Zenon DEF Identified, Return
<1>2. present
  BY Zenon, <1>1 DEF StructInv, TableInv
<1>3. /\ g_devices' \in Seq(Devices) /\ Len(g_devices') <= SB_MAX_BLOCK_DEVICES
      /\ Grows(g_devices, g_devices')
      /\ "ata" \in Range(g_devices') => g_ata_ready'
  <2>1. g_devices \in Seq(Devices) /\ Len(g_devices) <= SB_MAX_BLOCK_DEVICES
        /\ ("ata" \in Range(g_devices) => g_ata_ready)
    BY Zenon DEF StructInv, TableInv
  <2>2. CASE UNCHANGED <<g_ata_ready, g_devices>>
    BY <2>1, <2>2 DEF Grows
  <2>3. CASE g_ata_ready' = TRUE /\ sb_block_register("ata", SECTORS)
    <3>1. "ata" \in Devices
      BY Zenon DEF Devices
    <3> QED
      BY Zenon, <2>1, <2>3, <3>1, RegisterStep
  <2> QED
    BY Zenon, <2>2, <2>3 DEF Identified
<1>4. DOMAIN dev' = DOMAIN dev /\ dev'.bsy = dev.bsy
  BY Zenon, <1>1 DEF StructInv, TypeInv
<1>5. TypeInv'
  BY Zenon, <1>1, <1>4 DEF StructInv, TypeInv
<1>6. TableInv'
  BY Zenon, <1>1, <1>2, <1>3 DEF TableInv, TaskFile
<1>7. RangeInv'
  BY Zenon, <1>1 DEF StructInv, RangeInv, Requested, Loop, TaskFile
<1> QED
  BY Zenon, <1>3, <1>5, <1>6, <1>7 DEF StructInv

\* The steps around the driver.
LEMMA StructVFS ==
  ASSUME StructInv
  PROVE  /\ sb_storage_selftest => StructInv' /\ Grows(g_devices, g_devices')
         /\ BlockSelftest => StructInv' /\ Grows(g_devices, g_devices')
         /\ Returned => StructInv'
         /\ sb_vfs_mount => StructInv'
         /\ \A lba, count : Refused(lba, count) => StructInv'
<1>0. TypeInv /\ TableInv /\ RangeInv
  BY Zenon DEF StructInv
<1>1. ASSUME sb_storage_selftest PROVE StructInv' /\ Grows(g_devices, g_devices')
  <2>1. /\ pc = "start" /\ pc' = "probe" /\ sb_block_register("memtest0", TEST_SECTORS)
        /\ test_disk_write("memtest0", 2, 1, "pattern") \/ UNCHANGED g_test_disk
        /\ UNCHANGED <<present, medium, dev, task, g_ata_ready, call, sector, mount>>
    BY Zenon, <1>1 DEF sb_storage_selftest, drive
  <2>2. "memtest0" \in MemoryDisks /\ "memtest0" \in Devices /\ "memtest0" # "ata"
    BY Zenon DEF MemoryDisks, Devices
  <2>3. /\ g_devices' \in Seq(Devices) /\ Len(g_devices') <= SB_MAX_BLOCK_DEVICES
        /\ Grows(g_devices, g_devices')
        /\ Range(g_devices') \subseteq Range(g_devices) \cup {"memtest0"}
    BY Zenon, <1>0, <2>1, <2>2, RegisterStep DEF TableInv
  <2>4. /\ DOMAIN g_test_disk' = MemoryDisks
        /\ \A e \in MemoryDisks : DOMAIN g_test_disk'[e] = 0..(TEST_SECTORS - 1)
    <3>1. CASE UNCHANGED g_test_disk
      BY Zenon, <1>0, <3>1 DEF TypeInv
    <3>2. CASE test_disk_write("memtest0", 2, 1, "pattern")
      BY Zenon, <1>0, <2>2, <3>2, DiskWrite
    <3> QED
      BY Zenon, <2>1, <3>1, <3>2
  <2>5. TypeInv'
    BY Zenon, <1>0, <2>1, <2>4 DEF TypeInv
  <2>6. TableInv'
    BY Zenon, <1>0, <2>1, <2>2, <2>3 DEF TableInv, TaskFile
  <2>7. RangeInv'
    BY Zenon, <1>0, <2>1 DEF RangeInv, Requested, Loop, TaskFile, TableInv
  <2> QED
    BY Zenon, <2>3, <2>5, <2>6, <2>7 DEF StructInv
<1>2. ASSUME BlockSelftest PROVE StructInv' /\ Grows(g_devices, g_devices')
  <2>1. /\ sb_block_selftest
        /\ UNCHANGED <<present, medium, dev, task, g_ata_ready, pc, call, sector, mount>>
    BY Zenon, <1>2 DEF BlockSelftest, drive
  <2>2. /\ g_devices' \in Seq(Devices) /\ Len(g_devices') <= SB_MAX_BLOCK_DEVICES
        /\ Grows(g_devices, g_devices')
        /\ Range(g_devices') \subseteq Range(g_devices) \cup {"memory-test"}
        /\ DOMAIN g_test_disk' = MemoryDisks
        /\ \A e \in MemoryDisks : DOMAIN g_test_disk'[e] = 0..(TEST_SECTORS - 1)
    BY Zenon, <1>0, <2>1, SelftestStep
  <2>3. TypeInv'
    BY Zenon, <1>0, <2>1, <2>2 DEF TypeInv
  <2>4. TableInv'
    BY Zenon, <1>0, <2>1, <2>2 DEF TableInv
  <2>5. RangeInv'
    BY Zenon, <1>0, <2>1 DEF RangeInv, Requested
  <2> QED
    BY Zenon, <2>2, <2>3, <2>4, <2>5 DEF StructInv
<1>3. ASSUME Returned PROVE StructInv'
  <2>1. /\ pc = "return" /\ pc' = "idle"
        /\ UNCHANGED <<g_devices, g_test_disk, present, medium, dev, task, g_ata_ready, call,
                       sector, mount>>
    BY Zenon, <1>3 DEF Returned, block, drive
  <2>2. TypeInv' /\ TableInv' /\ RangeInv'
    BY Zenon, <1>0, <2>1 DEF TypeInv, TableInv, RangeInv, Requested, Loop, TaskFile
  <2> QED
    BY Zenon, <2>2 DEF StructInv
<1>4. ASSUME sb_vfs_mount PROVE StructInv'
  <2>1. UNCHANGED <<g_devices, g_test_disk, present, medium, dev, task, g_ata_ready, pc, call,
                    sector>>
    BY Zenon, <1>4 DEF sb_vfs_mount, block, drive
  <2>2. PICK d \in Reachable : mount' = [block_device |-> d, total_sectors |-> Sectors(d)]
    BY Zenon, <1>4 DEF sb_vfs_mount
  <2>3. d \in Devices
    <3>1. \A i \in DOMAIN g_devices : g_devices[i] \in Devices
      BY <1>0 DEF TableInv
    <3> QED
      BY Zenon, <3>1 DEF Reachable, Range, Devices
  <2>4. mount'.block_device = d /\ mount'.total_sectors = Sectors(d)
    BY Zenon, <2>2
  <2>5. TypeInv'
    BY Zenon, <1>0, <2>1, <2>3, <2>4 DEF TypeInv
  <2> QED
    BY Zenon, <1>0, <2>1, <2>5 DEF StructInv, TableInv, RangeInv, Requested
<1>5. ASSUME NEW lba, NEW count, Refused(lba, count) PROVE StructInv'
  <2>1. UNCHANGED <<g_devices, g_test_disk, present, medium, dev, task, g_ata_ready, pc, call,
                    sector, mount>>
    BY Zenon, <1>5 DEF Refused, block, drive
  <2> QED
    BY <1>0, <2>1 DEF StructInv, TypeInv, TableInv, RangeInv, Requested
<1> QED
  BY Zenon, <1>1, <1>2, <1>3, <1>4, <1>5

\* A call the mount's checks let through names sectors of its device.
LEMMA StructCalled ==
  ASSUME StructInv, NEW op \in {"read", "write"}, NEW lba \in Nat, NEW count \in Nat,
         ToDrive(op, lba, count) \/ ToMemory(op, lba, count)
  PROVE  StructInv'
<1>0. TypeInv /\ TableInv /\ RangeInv
  BY Zenon DEF StructInv
<1>1. Callable /\ MountChecks(lba, count)
  BY Zenon DEF ToDrive, ToMemory, Called
<1>2. UNCHANGED <<g_devices, present, medium, dev, task, g_ata_ready, mount>>
  BY Zenon DEF ToDrive, ToMemory, Called, drive
<1>3. /\ call'.op = op /\ call'.device = mount.block_device /\ call'.lba = lba
      /\ call'.count = count /\ call'.quiet = ~ dev.bsy
  BY DEF ToDrive, ToMemory, Called
<1>4. PICK d \in Devices : d = mount.block_device /\ mount.total_sectors = Sectors(d)
  BY Zenon, <1>0, <1>1 DEF TypeInv, Callable
<1>5. Sectors(d) \in Nat
  BY Zenon, DriveAssumption, TestSectorExists DEF Sectors
<1>6. count # 0 /\ lba + count <= Sectors(d)
  BY <1>1, <1>4, <1>5 DEF MountChecks, InRange
<1>7. lba..(lba + count - 1) \subseteq 0..(Sectors(d) - 1)
  BY <1>5, <1>6
<1>8. (Requested \subseteq 0..(Sectors(call.device) - 1))'
  BY Zenon, <1>3, <1>4, <1>7 DEF Requested, Sectors
<1>9. call'.quiet \in BOOLEAN
  BY Zenon, <1>3
<1>10. ASSUME ToDrive(op, lba, count) PROVE StructInv'
  <2>1. UNCHANGED g_test_disk /\ sector' = 0 /\ mount.block_device = "ata"
    BY Zenon, <1>10 DEF ToDrive, BeginTransfer
  <2>2. pc' \in {"DRIVE", "return"}
    BY Zenon, <1>10 DEF ToDrive, BeginTransfer, Return
  <2>3. TypeInv'
    BY Zenon, <1>0, <1>2, <1>3, <1>4, <1>9, <2>1, <2>2 DEF TypeInv, Loop, TaskFile
  <2>4. TableInv'
    BY Zenon, <1>0, <1>2, <1>3, <2>2 DEF TableInv, TaskFile
  <2>5. Sectors(d) = SECTORS
    BY Zenon, <1>4, <2>1 DEF Sectors
  <2>6. (pc \in Loop /\ call.op # "identify" =>
         /\ call.device = "ata" /\ call.lba + call.count <= SECTORS /\ sector < call.count
         /\ call.op = "read" => pc # "flush")'
    BY <1>3, <1>6, <2>1, <2>2, <2>5 DEF Loop, TaskFile
  <2> QED
    BY Zenon, <1>8, <2>3, <2>4, <2>6 DEF StructInv, RangeInv
<1>11. ASSUME ToMemory(op, lba, count) PROVE StructInv'
  <2>1. UNCHANGED <<pc, sector>> /\ mount.block_device \in MemoryDisks /\ pc = "idle"
    BY Zenon, <1>1, <1>11 DEF ToMemory, Callable
  <2>2. /\ DOMAIN g_test_disk' = MemoryDisks
        /\ \A e \in MemoryDisks : DOMAIN g_test_disk'[e] = 0..(TEST_SECTORS - 1)
    <3>1. CASE UNCHANGED g_test_disk
      BY Zenon, <1>0, <3>1 DEF TypeInv
    <3>2. CASE test_disk_write(mount.block_device, lba, count, "new")
      BY Zenon, <1>0, <2>1, <3>2, DiskWrite
    <3> QED
      BY Zenon, <1>11, <3>1, <3>2 DEF ToMemory
  <2>3. TypeInv'
    BY Zenon, <1>0, <1>2, <1>3, <1>4, <1>9, <2>1, <2>2 DEF TypeInv
  <2>4. TableInv'
    BY Zenon, <1>0, <1>2, <1>3, <2>1 DEF TableInv, TaskFile
  <2>5. RangeInv'
    BY Zenon, <1>8, <2>1 DEF RangeInv, Loop, TaskFile
  <2> QED
    BY Zenon, <2>3, <2>4, <2>5 DEF StructInv
<1> QED
  BY Zenon, <1>10, <1>11

-----------------------------------------------------------------------------
(* What a call does, when it found the drive idle *)

CallInv == DriveInv /\ ProgressInv /\ OnlyRequested

\* While IDENTIFY runs, the drive has nothing to store.
LEMMA IdentifyCall ==
  ASSUME call.op = "identify", DriveInv, UNCHANGED call,
         dev'.got = JUNK \/ (dev'.got = dev.got /\ (dev'.bsy => dev.bsy))
  PROVE  CallInv'
BY Zenon DEF CallInv, DriveInv, ProgressInv, OnlyRequested, JUNK

\* What was moved and what was kept stays so while nothing is stored.
LEMMA Kept ==
  ASSUME UNCHANGED <<call, medium, g_test_disk>>
  PROVE  /\ OnlyRequested => OnlyRequested'
         /\ UNCHANGED buffer => \A n : Moved(n) => Moved(n)'
<1>1. Stored' = Stored
  BY Zenon DEF Stored
<1>2. UNCHANGED buffer => \A n : Moved(n) => Moved(n)'
  BY <1>1 DEF Moved, SelfTested, Stored
<1>3. OnlyRequested => OnlyRequested'
  BY <1>1 DEF OnlyRequested, Requested, SelfTested, Stored
<1> QED
  BY Zenon, <1>2, <1>3

\* A drive that stores a sector of the request brings the call forward.
LEMMA Stores ==
  ASSUME UNCHANGED <<call, g_test_disk, buffer>>, call.op = "write", call.device = "ata",
         NEW k \in Requested, k \in DOMAIN medium,
         medium' = [medium EXCEPT ![k] = NewData(k)]
  PROVE  /\ OnlyRequested => OnlyRequested'
         /\ \A n : call.lba..(call.lba + n - 1) \subseteq DOMAIN medium /\ Moved(n) => Moved(n)'
<1>1. /\ Stored["ata"] = medium /\ Stored'["ata"] = medium' /\ "ata" \in Devices
      /\ \A d \in Devices : d # "ata" => Stored'[d] = Stored[d]
  BY Zenon DEF Stored, Devices
<1>2. DOMAIN medium' = DOMAIN medium /\ medium'[k] = NewData(k)
  OBVIOUS
<1>3. \A l \in DOMAIN medium : l # k => medium'[l] = medium[l]
  OBVIOUS
<1>4. \A l : ~ SelfTested("ata", l)
  BY Zenon DEF SelfTested
<1>5. ASSUME OnlyRequested PROVE OnlyRequested'
  <2> SUFFICES ASSUME NEW d \in Devices, NEW l \in DOMAIN Stored'[d]
      PROVE  \/ Stored'[d][l] = call.before[d][l]
             \/ d = call.device /\ l \in Requested /\ Stored'[d][l] = NewData(l)
             \/ SelfTested(d, l)'
    BY Zenon DEF OnlyRequested, Requested, Stored, NewData, Contents
  <2>1. CASE d = "ata"
    BY ZenonT(40), <1>1, <1>2, <1>3, <1>4, <1>5, <2>1 DEF OnlyRequested
  <2>2. CASE d # "ata"
    BY <1>1, <1>5, <2>2 DEF OnlyRequested, SelfTested
  <2> QED
    BY Zenon, <2>1, <2>2
<1>6. ASSUME NEW n, call.lba..(call.lba + n - 1) \subseteq DOMAIN medium, Moved(n)
      PROVE  Moved(n)'
  BY <1>1, <1>2, <1>3, <1>4, <1>6 DEF Moved
<1> QED
  BY Zenon, <1>5, <1>6

\* The drive's own steps.
LEMMA DriveCall ==
  ASSUME StructInv, CallInv, Drive, UNCHANGED status
  PROVE  CallInv'
<1>0. /\ TypeInv /\ RangeInv /\ DriveInv /\ ProgressInv /\ OnlyRequested
  BY Zenon DEF StructInv, CallInv
<1>1. /\ dev.bsy /\ dev'.bsy = FALSE /\ dev'.cmd = dev.cmd /\ dev'.lba = dev.lba
      /\ dev'.got = dev.got
      /\ UNCHANGED <<g_test_disk, task, pc, call, sector, buffer, result>>
  BY Zenon, <1>0 DEF Drive, Complete, Fault, TypeInv, block
<1>2. CASE call.op = "identify"
  BY Zenon, <1>0, <1>1, <1>2, IdentifyCall
<1>3. CASE call.op # "identify"
  <2>1. pc \in Loop => /\ call.device = "ata" /\ current \in Requested
                       /\ Requested \subseteq DOMAIN medium
                       /\ call.lba..(call.lba + sector - 1) \subseteq DOMAIN medium
    BY SMTT(20), <1>0, <1>3, DriveAssumption DEF TypeInv, RangeInv, Requested, current, Sectors
  <2>2. \/ UNCHANGED medium
        \/ /\ call.op = "write" /\ call.device = "ata" /\ dev.lba \in Requested
           /\ dev.got = NewData(dev.lba) /\ dev.lba \in DOMAIN medium
           /\ medium' = [medium EXCEPT ![dev.lba] = NewData(dev.lba)]
    <3>1. CASE Complete /\ dev.got # JUNK
      <4>1. /\ call.op = "write" /\ call.device = "ata" /\ dev.lba \in Requested
            /\ dev.got = NewData(dev.lba)
        BY Zenon, <1>0, <1>1, <3>1 DEF DriveInv
      <4>2. dev.lba \in DOMAIN medium
        BY Zenon, <1>0, <1>3, <4>1 DEF RangeInv, TypeInv, Sectors
      <4> QED
        BY Zenon, <3>1, <4>1, <4>2 DEF Complete
    <3>2. CASE Fault \/ (Complete /\ dev.got = JUNK)
      BY Zenon, <3>2 DEF Fault, Complete
    <3> QED
      BY Zenon, <3>1, <3>2 DEF Drive
  <2>3. OnlyRequested' /\ (pc \in Loop => (Moved(sector) => Moved(sector)'))
    <3>1. PICK n : n = sector
      OBVIOUS
    <3>2. OnlyRequested' /\ (pc \in Loop => (Moved(n) => Moved(n)'))
      <4>1. CASE UNCHANGED medium
        BY Zenon, <1>0, <1>1, <4>1, Kept
      <4>2. CASE ~ UNCHANGED medium
        BY Zenon, <1>0, <1>1, <2>1, <2>2, <3>1, <4>2, Stores
      <4> QED
        BY Zenon, <4>1, <4>2
    <3>3. sector' = n
      BY Zenon, <1>1, <3>1
    <3> QED
      BY Zenon, <3>1, <3>2, <3>3 DEF Moved
  <2>4. call.op = "read" \/ call.device # "ata" => UNCHANGED medium
    BY Zenon, <2>2
  <2>5. DriveInv'
    <3>1. pc = "flush" => dev'.err \/ medium'[current] = NewData(current)
      <4>1. CASE Fault
        BY Zenon, <1>0, <4>1 DEF Fault, TypeInv
      <4>2. CASE Complete /\ pc = "flush"
        <5>1. dev.lba = current /\ dev.got = NewData(current)
          BY Zenon, <1>0, <1>3, <4>2 DEF DriveInv
        <5>2. NewData(current) # JUNK
          BY Zenon DEF NewData, Contents, JUNK
        <5>3. current \in DOMAIN medium
          BY Zenon, <2>1, <4>2 DEF Loop
        <5> QED
          BY Zenon, <4>2, <5>1, <5>2, <5>3 DEF Complete
      <4> QED
        BY Zenon, <4>1, <4>2 DEF Drive
    <3>2. current' = current
      BY Zenon, <1>1 DEF current
    <3>3. pc \notin TaskFile \cup {"command"}
      BY Zenon, <1>0, <1>1, <1>3 DEF DriveInv
    <3> QED
      BY Zenon, <1>0, <1>1, <1>3, <3>1, <3>2, <3>3 DEF DriveInv, NewData, Contents
  <2>6. ProgressInv'
    <3>1. ASSUME pc \in Loop PROVE (Moved(sector) /\ (call.op = "read" => medium = call.before["ata"]))'
      BY Zenon, <1>0, <1>1, <1>3, <2>3, <2>4, <3>1 DEF ProgressInv
    <3>2. ASSUME Transferred(call.count) PROVE Transferred(call.count)'
      <4>1. PICK n : n = call.count
        OBVIOUS
      <4>2. Moved(n) /\ UNCHANGED medium
        BY Zenon, <1>1, <1>3, <1>0, <2>4, <3>2, <4>1 DEF Transferred, TypeInv
      <4>3. Moved(n)'
        BY Zenon, <1>1, <4>2, Kept
      <4>4. call'.count = n
        BY Zenon, <1>1, <4>1
      <4> QED
        BY Zenon, <1>1, <4>3, <4>4 DEF Transferred, Moved
    <3> QED
      BY Zenon, <1>0, <1>1, <1>3, <3>1, <3>2 DEF ProgressInv
  <2> QED
    BY Zenon, <2>3, <2>5, <2>6 DEF CallInv
<1> QED
  BY Zenon, <1>2, <1>3

\* A step of the driver's loop that moves no sector.
LEMMA LoopStep ==
  ASSUME CallInv, DriveInv', call.op # "identify", pc \in Loop,
         UNCHANGED <<call, medium, g_test_disk, sector, buffer>>,
         pc' \in Loop \/ (pc' = "return" /\ result' # "ok")
  PROVE  CallInv'
<1>1. PICK n : n = sector
  OBVIOUS
<1>2. Moved(n) /\ (call.op = "read" => medium = call.before["ata"]) /\ OnlyRequested
  BY Zenon, <1>1 DEF CallInv, ProgressInv
<1>3. Moved(n)' /\ OnlyRequested'
  BY Zenon, <1>2, Kept
<1>4. Moved(sector)'
  BY Zenon, <1>1, <1>3 DEF Moved
<1>5. ProgressInv'
  <2>1. pc' # "idle"
    BY Zenon DEF Loop, TaskFile
  <2> QED
    BY Zenon, <1>2, <1>4, <2>1 DEF ProgressInv, Loop, TaskFile
<1> QED
  BY Zenon, <1>3, <1>5 DEF CallInv

\* A step that ends a sector.
LEMMA SectorStep ==
  ASSUME StructInv, CallInv, call.op # "identify", pc \in Loop, SectorDone,
         UNCHANGED <<call, medium, g_test_disk>>, ~ dev'.bsy,
         NEW n \in Nat, n = sector + 1, Moved(n)'
  PROVE  CallInv'
<1>0. TypeInv /\ RangeInv /\ DriveInv /\ ProgressInv /\ OnlyRequested
  BY Zenon DEF StructInv, CallInv
<1>1. sector' = n /\ sector < call.count /\ sector \in Nat /\ call.count \in Nat
  BY Zenon, <1>0 DEF SectorDone, RangeInv, TypeInv
<1>2. pc' = "DRIVE" \/ (pc' = "return" /\ n = call.count)
  BY <1>1 DEF SectorDone, Return
<1>3. OnlyRequested'
  BY Zenon, <1>0, Kept
<1>4. Moved(sector)' /\ (n = call.count => Moved(call.count)')
  BY Zenon, <1>1 DEF Moved
<1>5. DriveInv'
  BY <1>2 DEF DriveInv, Written, TaskFile
<1>6. call.op = "read" => medium = call.before["ata"]
  BY Zenon, <1>0 DEF ProgressInv
<1>7. ProgressInv'
  BY Zenon, <1>2, <1>4, <1>6 DEF ProgressInv, Transferred, Loop, TaskFile
<1> QED
  BY Zenon, <1>3, <1>5, <1>7 DEF CallInv

\* The driver's loop.
LEMMA DriverCall ==
  ASSUME StructInv, CallInv, UNCHANGED <<block, status>>,
         \/ NoDrive \/ Probe \/ WriteRegister \/ Command \/ ata_wait_not_busy
         \/ ata_wait_drq \/ ReadData \/ WriteData \/ Flush
  PROVE  CallInv'
<1>0. /\ TypeInv /\ TableInv /\ RangeInv /\ DriveInv /\ ProgressInv /\ OnlyRequested
      /\ UNCHANGED <<g_test_disk, call, medium>>
  BY Zenon DEF StructInv, CallInv, block, drive, NoDrive, Probe, WriteRegister, Command,
     ata_wait_not_busy, ata_wait_drq, ReadData, WriteData, Flush
<1>1. ASSUME call.op = "identify" PROVE CallInv'
  <2>1. dev'.got = JUNK \/ (dev'.got = dev.got /\ (dev'.bsy => dev.bsy))
    <3>1. CASE NoDrive \/ ata_wait_not_busy \/ ata_wait_drq \/ Flush \/ WriteRegister
      BY Zenon, <3>1 DEF NoDrive, ata_wait_not_busy, ata_wait_drq, Flush, WriteRegister, drive
    <3>2. CASE Probe \/ Command
      <4>1. PICK cmd : Accept(cmd)
        BY Zenon, <3>2 DEF Probe, Command
      <4> QED
        BY Zenon, <4>1 DEF Accept
    <3>3. CASE ReadData \/ WriteData
      BY Zenon, <1>1, <3>3 DEF ReadData, WriteData
    <3> QED
      BY Zenon, <3>1, <3>2, <3>3
  <2> QED
    BY Zenon, <1>0, <1>1, <2>1, IdentifyCall
<1> SUFFICES ASSUME call.op # "identify" PROVE CallInv'
  BY Zenon, <1>1
<1>2. pc # "probe"
  BY Zenon, <1>0 DEF TableInv
<1>3. ASSUME pc \in Loop
      PROVE  /\ call.device = "ata" /\ current \in Requested /\ current \in Nat
             /\ current < SECTORS /\ sector \in Nat /\ call.lba \in Nat
             /\ current = call.lba + sector
  BY SMTT(20), <1>0, <1>3, DriveAssumption DEF TypeInv, RangeInv, current, Requested
<1>4. CASE WriteRegister
  <2>1. pc \in TaskFile /\ pc \in Loop /\ UNCHANGED <<dev, sector, buffer>>
    BY Zenon, <1>4 DEF WriteRegister, Loop
  <2>2. ~ dev.bsy /\ \A r \in Written[pc] : task[r] = Digit(r)
    BY Zenon, <1>0, <2>1 DEF DriveInv
  <2>3. task' = [task EXCEPT ![pc] = Digit(pc)] /\ pc' = After[pc]
    BY Zenon, <1>4, <2>2 DEF WriteRegister
  <2>4. /\ pc' \in {"LBA0", "LBA1", "LBA2", "command"}
        /\ \A r \in Written[pc'] : r \in TaskFile /\ (r = pc \/ r \in Written[pc])
    BY <2>1, <2>3 DEF After, Written, TaskFile
  <2>5. \A r \in Written[pc'] : task'[r] = Digit(r)
    BY Zenon, <1>0, <2>2, <2>3, <2>4 DEF TypeInv
  <2>6. \A r : Digit(r)' = Digit(r)
    BY Zenon, <1>0, <2>1 DEF Digit, current
  <2>7. DriveInv'
    <3>1. (dev.bsy /\ dev.got # JUNK =>
             /\ call.op = "write" /\ call.device = "ata"
             /\ dev.lba \in Requested /\ dev.got = NewData(dev.lba))'
      BY Zenon, <2>1, <2>2
    <3> QED
      BY Zenon, <2>1, <2>2, <2>4, <2>5, <2>6, <3>1 DEF DriveInv, Written
  <2> QED
    BY Zenon, <1>0, <2>1, <2>4, <2>7, LoopStep DEF Loop, TaskFile
<1>5. CASE Command
  <2>1. pc = "command" /\ pc \in Loop /\ pc' = "notbusy" /\ UNCHANGED <<sector, buffer>>
    BY Zenon, <1>5 DEF Command, Loop
  <2>2. ~ dev.bsy /\ \A r \in TaskFile : task[r] = Digit(r)
    BY Zenon, <1>0, <2>1 DEF DriveInv, Written
  <2>3. Latched = current
    BY Zenon, <1>3, <2>1, <2>2, LatchedIs
  <2>4. dev' = [bsy |-> TRUE, drq |-> FALSE, err |-> FALSE, cmd |-> call.op, lba |-> Latched,
                got |-> JUNK]
    BY Zenon, <1>5, <2>2 DEF Command, Accept
  <2>5. dev'.cmd = call.op /\ dev'.lba = current /\ dev'.got = JUNK
    BY Zenon, <2>3, <2>4
  <2>6. current' = current
    BY Zenon, <1>0, <2>1 DEF current
  <2>7. DriveInv'
    BY Zenon, <1>0, <2>1, <2>5, <2>6 DEF DriveInv, TaskFile, JUNK
  <2> QED
    BY Zenon, <1>0, <2>1, <2>7, LoopStep DEF Loop
<1>6. CASE ata_wait_not_busy
  <2>1. /\ pc = "notbusy" /\ pc \in Loop /\ UNCHANGED <<dev, sector, buffer>>
        /\ \/ pc' = "notbusy"
           \/ pc' = "drq" /\ ~ dev.bsy
           \/ pc' = "return" /\ result' # "ok"
    BY Zenon, <1>6 DEF ata_wait_not_busy, PollAgain, Return, Loop, drive
  <2>2. current' = current
    BY Zenon, <1>0, <2>1 DEF current
  <2>3. DriveInv'
    BY Zenon, <1>0, <2>1, <2>2 DEF DriveInv, TaskFile, Requested
  <2> QED
    BY Zenon, <1>0, <2>1, <2>3, LoopStep DEF Loop
<1>7. CASE ata_wait_drq
  <2>1. /\ pc = "drq" /\ pc \in Loop /\ UNCHANGED <<dev, sector, buffer>>
        /\ pc' \in {"drq", "transfer"} \/ (pc' = "return" /\ result' # "ok")
    BY Zenon, <1>7 DEF ata_wait_drq, PollAgain, Return, Loop, drive
  <2>2. current' = current
    BY Zenon, <1>0, <2>1 DEF current
  <2>3. DriveInv'
    BY Zenon, <1>0, <2>1, <2>2 DEF DriveInv, TaskFile, Requested
  <2> QED
    BY Zenon, <1>0, <2>1, <2>3, LoopStep DEF Loop
<1>8. CASE ReadData
  <2>1. /\ pc = "transfer" /\ pc \in Loop /\ call.op = "read" /\ SectorDone
        /\ dev.cmd = "read" /\ dev.lba = current /\ ~ dev.bsy
    BY Zenon, <1>0, <1>8 DEF ReadData, DriveInv, Loop
  <2>2. medium = call.before["ata"] /\ Moved(sector)
    BY Zenon, <1>0, <2>1 DEF ProgressInv
  <2>3. buffer' = Append(buffer, call.before["ata"][current])
    BY Zenon, <1>8, <2>1, <2>2 DEF ReadData
  <2>4. buffer = [i \in 1..sector |-> call.before["ata"][call.lba + i - 1]]
    BY Zenon, <1>3, <2>1, <2>2 DEF Moved
  <2>5. PICK n \in Nat : n = sector + 1
    BY <1>3, <2>1
  <2>6. buffer' = [i \in 1..n |-> call.before["ata"][call.lba + i - 1]]
    <3> DEFINE f == [i \in 1..sector |-> call.before["ata"][call.lba + i - 1]]
    <3>1. sector \in Nat /\ n - 1 = sector /\ call.lba + n - 1 = current
      BY <1>3, <2>1, <2>5
    <3>0. \A i \in 1..sector : f[i] \in Range(f)
      BY Zenon DEF Range
    <3>2. Len(f) = sector /\ f \in Seq(Range(f))
      BY <3>0, <3>1
    <3>3. Append(f, call.before["ata"][current]) =
            [i \in 1..(sector + 1) |-> IF i <= sector THEN f[i] ELSE call.before["ata"][current]]
      BY <3>1, <3>2
    <3>4. \A i \in 1..n : (IF i <= sector THEN f[i] ELSE call.before["ata"][current])
                             = call.before["ata"][call.lba + i - 1]
      BY <3>1
    <3> QED
      BY Zenon, <2>3, <2>4, <2>5, <3>3, <3>4
  <2>7. Moved(n)'
    BY Zenon, <1>0, <1>3, <2>1, <2>6 DEF Moved
  <2>8. ~ dev'.bsy
    BY Zenon, <1>0, <1>8, <2>1 DEF ReadData, TypeInv
  <2> QED
    BY Zenon, <1>0, <2>1, <2>5, <2>7, <2>8, SectorStep
<1>9. CASE WriteData
  <2>1. /\ pc = "transfer" /\ pc \in Loop /\ call.op = "write" /\ pc' = "flush"
        /\ dev.cmd = "write" /\ dev.lba = current /\ UNCHANGED <<sector, buffer>>
    BY Zenon, <1>0, <1>9 DEF WriteData, DriveInv, Loop, FinalWait
  <2>2. dev' = [dev EXCEPT !.drq = FALSE, !.bsy = TRUE, !.got = NewData(current)]
    BY Zenon, <1>9, <2>1 DEF WriteData
  <2>3. dev'.bsy = TRUE /\ dev'.got = NewData(current) /\ dev'.lba = current
    BY Zenon, <1>0, <2>1, <2>2 DEF TypeInv
  <2>4. current' = current /\ Requested' = Requested
    BY Zenon, <1>0, <2>1 DEF current, Requested
  <2>5. DriveInv'
    BY Zenon, <1>0, <1>3, <2>1, <2>3, <2>4 DEF DriveInv, TaskFile, NewData, Contents
  <2> QED
    BY Zenon, <1>0, <2>1, <2>5, LoopStep DEF Loop
<1>10. CASE Flush
  <2>1. pc = "flush" /\ pc \in Loop /\ UNCHANGED <<dev, buffer>> /\ call.op = "write"
    BY Zenon, <1>0, <1>10 DEF Flush, Loop, drive, RangeInv, TypeInv
  <2>2. CASE UNCHANGED sector /\ (pc' = "flush" \/ (pc' = "return" /\ result' # "ok"))
    <3>1. current' = current /\ Requested' = Requested
      BY Zenon, <1>0, <2>2 DEF current, Requested
    <3>2. DriveInv'
      BY Zenon, <1>0, <2>1, <2>2, <3>1 DEF DriveInv, TaskFile, NewData, Contents
    <3> QED
      BY Zenon, <1>0, <2>1, <2>2, <3>2, LoopStep DEF Loop
  <2>3. CASE ~ dev.bsy /\ ~ dev.err /\ SectorDone
    <3>1. medium[current] = NewData(current)
      BY Zenon, <1>0, <2>1, <2>3 DEF DriveInv
    <3>2. PICK n \in Nat : n = sector + 1
      BY <1>3, <2>1
    <3>3. Moved(sector) /\ Stored["ata"] = medium
      BY Zenon, <1>0, <2>1 DEF ProgressInv, Stored, Devices
    <3>4. \A l \in call.lba..(call.lba + n - 1) :
            l \in call.lba..(call.lba + sector - 1) \/ l = current
      BY <1>3, <2>1, <3>2
    <3>5. Moved(n)
      BY Zenon, <1>3, <2>1, <3>1, <3>3, <3>4 DEF Moved
    <3>6. Moved(n)'
      BY Zenon, <1>0, <2>1, <3>5, Kept
    <3> QED
      BY Zenon, <1>0, <2>1, <2>3, <3>2, <3>6, SectorStep
  <2> QED
    BY Zenon, <1>10, <2>2, <2>3 DEF Flush, PollAgain, Return
<1> QED
  BY Zenon, <1>2, <1>4, <1>5, <1>6, <1>7, <1>8, <1>9, <1>10 DEF NoDrive, Probe

\* The steps that end a call, refuse one, mount or test.
LEMMA OtherCall ==
  ASSUME StructInv, CallInv
  PROVE  /\ Identified /\ UNCHANGED <<g_test_disk, status>> => CallInv'
         /\ sb_storage_selftest => CallInv'
         /\ BlockSelftest => CallInv'
         /\ Returned => CallInv'
         /\ sb_vfs_mount => CallInv'
         /\ \A lba, count : Refused(lba, count) => CallInv'
<1>0. /\ TypeInv /\ TableInv /\ RangeInv /\ DriveInv /\ ProgressInv /\ OnlyRequested
  BY Zenon DEF StructInv, CallInv
<1>1. ASSUME Identified PROVE CallInv'
  BY Zenon, <1>0, <1>1, IdentifyCall DEF Identified, TypeInv
<1>2. ASSUME sb_storage_selftest PROVE CallInv'
  BY Zenon, <1>0, <1>2, IdentifyCall DEF sb_storage_selftest, TableInv, drive
<1>3. ASSUME NEW d \in Devices, NEW l \in DOMAIN Stored[d], sb_block_selftest,
             UNCHANGED medium
      PROVE  /\ l \in DOMAIN Stored'[d] /\ DOMAIN Stored'[d] = DOMAIN Stored[d]
             /\ \/ Stored'[d][l] = Stored[d][l]
                \/ SelfTested(d, l)'
  <2>1. /\ \A e \in MemoryDisks : DOMAIN g_test_disk'[e] = 0..(TEST_SECTORS - 1)
        /\ \A e \in MemoryDisks : \A k \in 0..(TEST_SECTORS - 1) :
              \/ g_test_disk'[e][k] = g_test_disk[e][k]
              \/ e = "memory-test" /\ k = 2 /\ g_test_disk'[e][k] = Contents(k, "pattern")
    BY Zenon, <1>0, <1>3, SelftestStep
  <2>2. CASE d = "ata"
    BY Zenon, <1>3, <2>2 DEF Stored, Devices
  <2>3. CASE d # "ata"
    <3>1. /\ d \in MemoryDisks /\ Stored[d] = g_test_disk[d] /\ Stored'[d] = g_test_disk'[d]
      BY Zenon, <2>3 DEF Stored, Devices
    <3>2. l \in 0..(TEST_SECTORS - 1)
      BY Zenon, <1>0, <3>1 DEF TypeInv
    <3>3. DOMAIN g_test_disk[d] = 0..(TEST_SECTORS - 1)
      BY Zenon, <1>0, <3>1 DEF TypeInv
    <3>4. /\ DOMAIN g_test_disk'[d] = 0..(TEST_SECTORS - 1)
          /\ \/ g_test_disk'[d][l] = g_test_disk[d][l]
             \/ d = "memory-test" /\ l = 2 /\ g_test_disk'[d][l] = Contents(l, "pattern")
      BY Zenon, <2>1, <3>1, <3>2
    <3>5. \/ Stored'[d][l] = Stored[d][l]
          \/ SelfTested(d, l)'
      BY Zenon, <3>1, <3>4 DEF SelfTested
    <3> QED
      BY Zenon, <3>1, <3>2, <3>3, <3>4, <3>5
  <2> QED
    BY Zenon, <2>2, <2>3
<1>4. ASSUME BlockSelftest PROVE CallInv'
  <2>1. /\ sb_block_selftest /\ pc \in {"start", "idle"}
        /\ UNCHANGED <<medium, dev, task, pc, call, sector, buffer, result, status>>
    BY Zenon, <1>4 DEF BlockSelftest, drive
  <2>2. CASE call.op = "identify"
    BY Zenon, <1>0, <2>1, <2>2, IdentifyCall
  <2>3. CASE call.op # "identify"
    <3>1. DriveInv'
      BY Zenon, <1>0, <2>1 DEF DriveInv, TaskFile, Requested, NewData, Contents
    <3>2. OnlyRequested'
      <4> SUFFICES ASSUME call.op = "write", NEW d \in Devices, NEW l \in DOMAIN Stored'[d]
          PROVE  \/ Stored'[d][l] = call.before[d][l]
                 \/ d = call.device /\ l \in Requested /\ Stored'[d][l] = NewData(l)
                 \/ SelfTested(d, l)'
        BY Zenon, <2>1 DEF OnlyRequested, Requested, Stored, NewData, Contents
      <4>1. l \in DOMAIN Stored[d]
        <5>1. CASE d = "ata"
          BY Zenon, <2>1, <5>1 DEF Stored, Devices
        <5>2. CASE d # "ata"
          <6>1. d \in MemoryDisks /\ Stored[d] = g_test_disk[d] /\ Stored'[d] = g_test_disk'[d]
            BY Zenon, <5>2 DEF Stored, Devices
          <6> QED
            BY <1>0, <2>1, <6>1, SelftestStep DEF TypeInv
        <5> QED
          BY Zenon, <5>1, <5>2
      <4>2. Stored'[d][l] = Stored[d][l] \/ SelfTested(d, l)'
        BY Zenon, <1>3, <2>1, <4>1
      <4> QED
        BY Zenon, <1>0, <2>1, <4>1, <4>2 DEF OnlyRequested, SelfTested
    <3>3. ASSUME Transferred(call.count) PROVE Transferred(call.count)'
      <4>1. ASSUME call.op = "write", NEW l \in call.lba..(call.lba + call.count - 1)
            PROVE  Stored'[call.device][l] = NewData(l) \/ SelfTested(call.device, l)'
        <5>1. PICK d \in Devices : d = call.device
          BY Zenon, <1>0 DEF TypeInv
        <5>2. l \in DOMAIN Stored[d]
          <6>1. l \in 0..(Sectors(d) - 1)
            BY Zenon, <1>0, <2>3, <4>1, <5>1 DEF RangeInv, Requested
          <6>2. d # "ata" => d \in MemoryDisks
            BY Zenon DEF Devices
          <6> QED
            BY Zenon, <1>0, <6>1, <6>2 DEF TypeInv, Stored, Sectors
        <5>3. Stored'[d][l] = Stored[d][l] \/ SelfTested(d, l)'
          BY Zenon, <1>3, <2>1, <5>2
        <5>4. Stored[d][l] = NewData(l) \/ SelfTested(d, l)
          BY Zenon, <3>3, <4>1, <5>1 DEF Transferred, Moved
        <5>5. Stored'[d][l] = NewData(l) \/ SelfTested(d, l)'
          BY Zenon, <5>3, <5>4 DEF SelfTested
        <5>6. d = call'.device
          BY Zenon, <2>1, <5>1
        <5> QED
          BY Zenon, <5>1, <5>5, <5>6 DEF SelfTested
      <4> QED
        BY Zenon, <2>1, <3>3, <4>1 DEF Transferred, Moved
    <3>4. ProgressInv'
      BY Zenon, <1>0, <2>1, <3>3 DEF ProgressInv, Loop, TaskFile
    <3> QED
      BY Zenon, <3>1, <3>2, <3>4 DEF CallInv
  <2> QED
    BY Zenon, <2>2, <2>3
<1>5. ASSUME UNCHANGED <<medium, g_test_disk, dev, call, sector, buffer>>, pc' = "idle",
             DriveInv, ProgressInv, OnlyRequested,
             call.op # "identify" /\ status' = "ok" => Transferred(call.count)
      PROVE  CallInv'
  <2>1. DriveInv'
    BY Zenon, <1>5 DEF DriveInv, TaskFile, Requested, NewData, Contents
  <2>2. OnlyRequested'
    BY Zenon, <1>5, Kept
  <2>3. Transferred(call.count) => Transferred(call.count)'
    <3>1. PICK n : n = call.count
      OBVIOUS
    <3>2. Moved(n) => Moved(n)'
      BY Zenon, <1>5, Kept
    <3>3. call'.count = n
      BY Zenon, <1>5, <3>1
    <3> QED
      BY Zenon, <1>5, <3>1, <3>2, <3>3 DEF Transferred, Moved
  <2>4. ProgressInv'
    BY Zenon, <1>5, <2>3 DEF ProgressInv, Loop, TaskFile
  <2> QED
    BY Zenon, <2>1, <2>2, <2>4 DEF CallInv
<1>6. ASSUME Returned PROVE CallInv'
  <2>1. /\ UNCHANGED <<medium, g_test_disk, dev, call, sector, buffer>> /\ pc' = "idle"
        /\ pc = "return"
        /\ call.op # "identify" /\ status' = "ok" => result = "ok"
    BY Zenon, <1>6 DEF Returned, block, drive
  <2> QED
    BY Zenon, <1>0, <1>5, <2>1 DEF ProgressInv
<1>7. ASSUME sb_vfs_mount PROVE CallInv'
  <2>1. /\ UNCHANGED <<medium, g_test_disk, dev, call, sector, buffer, status>> /\ pc' = "idle"
        /\ pc = "idle"
    BY Zenon, <1>7 DEF sb_vfs_mount, block, drive
  <2> QED
    BY Zenon, <1>0, <1>5, <2>1 DEF ProgressInv
<1>8. ASSUME NEW lba, NEW count, Refused(lba, count) PROVE CallInv'
  <2>1. /\ UNCHANGED <<medium, g_test_disk, dev, call, sector, buffer>> /\ pc' = "idle"
        /\ status' # "ok"
    BY Zenon, <1>8 DEF Refused, Callable, block, drive
  <2> QED
    BY Zenon, <1>0, <1>5, <2>1
<1> QED
  BY Zenon, <1>1, <1>2, <1>4, <1>6, <1>7, <1>8

\* A call that starts while the drive is idle: nothing is moved yet on the drive,
\* everything at once on a memory disk.
LEMMA CalledCall ==
  ASSUME StructInv, StructInv', NEW op \in {"read", "write"}, NEW lba \in Nat, NEW count \in Nat,
         ToDrive(op, lba, count) \/ ToMemory(op, lba, count), call'.quiet
  PROVE  CallInv'
<1>0. TypeInv /\ RangeInv'
  BY Zenon DEF StructInv
<1>1. Called(op, lba, count)
  BY Zenon DEF ToDrive, ToMemory
<1>2. /\ call'.op = op /\ call'.device = mount.block_device /\ call'.lba = lba
      /\ call'.count = count /\ call'.before = Stored /\ call'.quiet = ~ dev.bsy
      /\ UNCHANGED <<medium, dev, task>>
  BY Zenon, <1>1 DEF Called, drive
<1>3. ~ dev'.bsy /\ ~ dev.bsy
  BY Zenon, <1>2
<1>4. Stored["ata"] = medium /\ Stored'["ata"] = medium'
  BY Zenon DEF Stored, Devices
<1>5. ASSUME ToDrive(op, lba, count) PROVE CallInv'
  <2>1. /\ UNCHANGED g_test_disk /\ sector' = 0 /\ buffer' = <<>>
        /\ pc' = "DRIVE" \/ (pc' = "return" /\ result' # "ok")
    BY Zenon, <1>5 DEF ToDrive, BeginTransfer, Return
  <2>2. DriveInv'
    BY <1>3, <2>1 DEF DriveInv, Written, TaskFile
  <2>3. Stored' = Stored
    BY Zenon, <1>2, <2>1 DEF Stored
  <2>4. OnlyRequested'
    BY Zenon, <1>2, <2>3 DEF OnlyRequested
  <2>5. Moved(sector)'
    <3>1. 1..0 = {} /\ lba..(lba + 0 - 1) = {}
      OBVIOUS
    <3>2. buffer' = [i \in 1..0 |-> call'.before[call'.device][call'.lba + i - 1]]
      BY <2>1, <3>1
    <3> QED
      BY Zenon, <1>2, <2>1, <3>1, <3>2 DEF Moved
  <2>6. ProgressInv'
    BY Zenon, <1>2, <1>4, <2>1, <2>5 DEF ProgressInv, Loop, TaskFile
  <2> QED
    BY Zenon, <2>2, <2>4, <2>6 DEF CallInv
<1>6. ASSUME ToMemory(op, lba, count) PROVE CallInv'
  <2>1. PICK d \in MemoryDisks : d = mount.block_device
    BY Zenon, <1>6 DEF ToMemory
  <2>2. pc' = "idle" /\ d # "ata" /\ d \in Devices /\ call'.device = d
    BY Zenon, <1>1, <1>2, <1>6, <2>1 DEF ToMemory, Called, Callable, MemoryDisks, Devices
  <2>3. DriveInv'
    BY Zenon, <1>3, <2>2 DEF DriveInv, TaskFile
  <2>4. \A e \in MemoryDisks : /\ Stored[e] = g_test_disk[e] /\ Stored'[e] = g_test_disk'[e]
                               /\ e # "ata"
    BY Zenon DEF Stored, Devices, MemoryDisks
  <2>5. lba..(lba + count - 1) \subseteq 0..(TEST_SECTORS - 1)
    BY Zenon, <1>0, <1>2, <2>2 DEF RangeInv, Requested, Sectors
  <2>6. CASE op = "read"
    <3>1. UNCHANGED g_test_disk /\ buffer' = test_disk_read(d, lba, count)
      BY Zenon, <1>6, <2>1, <2>6 DEF ToMemory
    <3>2. OnlyRequested'
      BY Zenon, <1>2, <2>6 DEF OnlyRequested
    <3>3. buffer' = [i \in 1..count |-> g_test_disk[d][lba + i - 1]]
      <4> DEFINE f == [i \in 1..TEST_SECTORS |-> g_test_disk[d][i - 1]]
      <4>0. \A i \in 1..TEST_SECTORS : f[i] \in Range(f)
        BY Zenon DEF Range
      <4>1. TEST_SECTORS \in Nat /\ Len(f) = TEST_SECTORS /\ f \in Seq(Range(f))
        BY SMTT(30), <4>0, TestSectorExists
      <4>2. count # 0 => lba + count <= TEST_SECTORS
        BY <2>5, <4>1
      <4>3. SubSeq(f, lba + 1, lba + count) = [i \in 1..count |-> f[i + (lba + 1) - 1]]
        BY <4>1, <4>2
      <4>4. \A i \in 1..count : f[i + (lba + 1) - 1] = g_test_disk[d][lba + i - 1]
        BY <4>1, <4>2
      <4> QED
        BY Zenon, <3>1, <4>3, <4>4 DEF test_disk_read
    <3>4. Transferred(call.count)'
      BY Zenon, <1>2, <2>2, <2>4, <2>6, <3>3 DEF Transferred, Moved
    <3> QED
      BY Zenon, <2>2, <2>3, <3>2, <3>4 DEF CallInv, ProgressInv, Loop, TaskFile
  <2>7. CASE op = "write"
    <3>1. test_disk_write(d, lba, count, "new")
      BY Zenon, <1>6, <2>1, <2>7 DEF ToMemory
    <3>2. /\ \A e \in MemoryDisks : DOMAIN g_test_disk'[e] = 0..(TEST_SECTORS - 1)
          /\ \A e \in MemoryDisks : e # d => g_test_disk'[e] = g_test_disk[e]
          /\ \A l \in 0..(TEST_SECTORS - 1) :
              g_test_disk'[d][l] = IF l \in lba..(lba + count - 1) THEN NewData(l)
                                   ELSE g_test_disk[d][l]
      BY <1>0, <3>1, DiskWrite DEF NewData
    <3>3. OnlyRequested'
      <4> SUFFICES ASSUME NEW e \in Devices, NEW l \in DOMAIN Stored'[e]
          PROVE  \/ Stored'[e][l] = Stored[e][l]
                 \/ e = d /\ l \in lba..(lba + count - 1) /\ Stored'[e][l] = NewData(l)
        BY Zenon, <1>2, <2>2 DEF OnlyRequested, Requested, NewData, Contents
      <4>1. CASE e = "ata"
        BY Zenon, <1>2, <1>4, <4>1
      <4>2. CASE e # "ata"
        <5>1. e \in MemoryDisks
          BY Zenon, <4>2 DEF Devices
        <5> QED
          BY ZenonT(40), <2>4, <3>2, <5>1
      <4> QED
        BY Zenon, <4>1, <4>2
    <3>4. Transferred(call.count)'
      BY Zenon, <1>2, <2>2, <2>4, <2>5, <2>7, <3>2 DEF Transferred, Moved, NewData, Contents
    <3> QED
      BY Zenon, <2>2, <2>3, <3>3, <3>4 DEF CallInv, ProgressInv, Loop, TaskFile
  <2> QED
    BY Zenon, <2>6, <2>7
<1> QED
  BY Zenon, <1>5, <1>6

-----------------------------------------------------------------------------
(* The theorems *)

\* The kernel starts in the invariant.
LEMMA StorageStarts ==
  ASSUME StorageInit
  PROVE  StorageInv
<1>1. TypeInv
  <2>1. call.op = "identify" /\ call.device = "ata" /\ call.lba = 0 /\ call.count = 0 /\ call.quiet
    BY Zenon DEF StorageInit
  <2>2. DOMAIN dev = {"bsy", "drq", "err", "cmd", "lba", "got"} /\ dev.bsy = FALSE
    BY Zenon DEF StorageInit, ATAInit
  <2> QED
    BY Zenon, <2>1, <2>2 DEF StorageInit, ATAInit, BlockInit, TypeInv, Blank, Devices
<1>2. TableInv
  BY TableAssumption DEF StorageInit, BlockInit, TableInv, TaskFile, Range
<1>3. RangeInv /\ DriveInv /\ ProgressInv /\ OnlyRequested
  BY Zenon DEF StorageInit, ATAInit, RangeInv, DriveInv, ProgressInv, OnlyRequested
<1> QED
  BY Zenon, <1>1, <1>2, <1>3 DEF StorageInv

\* Every step keeps it, and the table with it.
LEMMA StorageSteps ==
  ASSUME StorageInv, [StorageNext]_vars
  PROVE  StorageInv' /\ Grows(g_devices, g_devices')
<1>0. StructInv /\ (call.quiet => CallInv)
  BY Zenon DEF StorageInv, StructInv, CallInv
<1>1. ASSUME UNCHANGED g_devices PROVE Grows(g_devices, g_devices')
  BY <1>0, <1>1 DEF Grows, StructInv, TableInv
<1>2. ASSUME StructInv', call'.quiet => CallInv' PROVE StorageInv'
  BY Zenon, <1>2 DEF StorageInv, StructInv, CallInv
<1>3. CASE sb_storage_selftest
  BY Zenon, <1>0, <1>2, <1>3, StructVFS, OtherCall DEF sb_storage_selftest
<1>4. CASE Returned
  BY Zenon, <1>0, <1>1, <1>2, <1>4, StructVFS, OtherCall DEF Returned, block
<1>5. CASE Identified /\ UNCHANGED <<g_test_disk, mount, status>>
  BY Zenon, <1>0, <1>2, <1>5, StructIdentified, OtherCall DEF Identified
<1>6. CASE /\ \/ NoDrive \/ Probe \/ WriteRegister \/ Command \/ ata_wait_not_busy
              \/ ata_wait_drq \/ ReadData \/ WriteData \/ Flush
           /\ UNCHANGED <<block, mount, status>>
  <2>1. UNCHANGED <<call, g_devices>>
    BY Zenon, <1>6 DEF block, NoDrive, Probe, WriteRegister, Command, ata_wait_not_busy, ata_wait_drq,
       ReadData, WriteData, Flush
  <2>2. StructInv'
    BY Zenon, <1>0, <1>6, StructDriver
  <2>3. call.quiet => CallInv'
    BY Zenon, <1>0, <1>6, DriverCall
  <2> QED
    BY Zenon, <1>1, <1>2, <2>1, <2>2, <2>3
<1>7. CASE Drive /\ UNCHANGED <<mount, status>>
  <2>1. UNCHANGED <<call, g_devices>>
    BY Zenon, <1>7 DEF Drive, Complete, Fault, block
  <2> QED
    BY Zenon, <1>0, <1>1, <1>2, <1>7, <2>1, StructDrive, DriveCall
<1>8. CASE BlockSelftest
  BY Zenon, <1>0, <1>2, <1>8, StructVFS, OtherCall DEF BlockSelftest
<1>9. CASE sb_vfs_mount
  BY Zenon, <1>0, <1>1, <1>2, <1>9, StructVFS, OtherCall DEF sb_vfs_mount, block
<1>10. CASE Calls
  <2>1. PICK op \in {"read", "write"}, r \in Requests :
          Refused(r[1], r[2]) \/ ToDrive(op, r[1], r[2]) \/ ToMemory(op, r[1], r[2])
    BY Zenon, <1>10 DEF Calls
  <2>2. r[1] \in Nat /\ r[2] \in Nat
    BY Zenon, RequestsAssumption
  <2>3. CASE Refused(r[1], r[2])
    BY Zenon, <1>0, <1>1, <1>2, <2>3, StructVFS, OtherCall DEF Refused, block
  <2>4. CASE ToDrive(op, r[1], r[2]) \/ ToMemory(op, r[1], r[2])
    <3>1. UNCHANGED g_devices
      BY Zenon, <2>4 DEF ToDrive, ToMemory, Called
    <3>2. StructInv'
      BY Zenon, <1>0, <2>2, <2>4, StructCalled
    <3>3. call'.quiet => CallInv'
      BY Zenon, <1>0, <2>2, <2>4, <3>2, CalledCall
    <3> QED
      BY Zenon, <1>1, <1>2, <3>1, <3>2, <3>3
  <2> QED
    BY Zenon, <2>1, <2>3, <2>4
<1>11. CASE UNCHANGED vars
  <2>1. UNCHANGED <<g_devices, g_test_disk, present, medium, dev, task, g_ata_ready, pc, call,
                    sector, buffer, result, mount, status>>
    BY Zenon, <1>11 DEF vars, block, drive
  <2>2. StructInv'
    BY <1>0, <2>1 DEF StructInv, TypeInv, TableInv, RangeInv, Requested
  <2>3. DriveInv => DriveInv'
    <3>1. current' = current /\ Requested' = Requested /\ \A r : Digit(r)' = Digit(r)
      BY Zenon, <2>1 DEF current, Requested, Digit
    <3> QED
      BY Zenon, <2>1, <3>1 DEF DriveInv, NewData, Contents
  <2>4. OnlyRequested => OnlyRequested'
    BY Zenon, <2>1, Kept
  <2>5. ProgressInv => ProgressInv'
    <3>1. PICK m, n : m = sector /\ n = call.count
      OBVIOUS
    <3>2. (Moved(m) => Moved(m)') /\ (Moved(n) => Moved(n)') /\ sector' = m /\ call'.count = n
      BY Zenon, <2>1, <3>1, Kept
    <3>3. (Moved(sector) => Moved(sector)') /\ (Moved(call.count) => Moved(call.count)')
      BY Zenon, <3>1, <3>2 DEF Moved
    <3> QED
      BY Zenon, <2>1, <3>3 DEF ProgressInv, Transferred
  <2>6. call.quiet => CallInv'
    BY Zenon, <1>0, <2>3, <2>4, <2>5 DEF CallInv
  <2> QED
    BY Zenon, <1>1, <1>2, <2>1, <2>2, <2>6
<1> QED
  BY Zenon, <1>3, <1>4, <1>5, <1>6, <1>7, <1>8, <1>9, <1>10, <1>11
  DEF StorageNext, Code, Driver

\* The inductive invariant of the sector layer.
THEOREM StorageInvariant == StorageSpec => []StorageInv
<1>1. StorageInit => StorageInv
  BY Zenon, StorageStarts
<1>2. StorageInv /\ [StorageNext]_vars => StorageInv'
  BY Zenon, StorageSteps
<1> QED
  BY <1>1, <1>2, PTL DEF StorageSpec

\* A read that returns OK through the VFS delivers exactly the sectors asked for,
\* for every size of the drive and every split of the sector number into registers
\* that covers it.
THEOREM ReadsStayExact == StorageSpec => []ReadExact
<1>1. StorageInv => ReadExact
  BY Zenon DEF StorageInv, ProgressInv, ReadExact, Finished, Transferred, Moved
<1> QED
  BY <1>1, StorageInvariant, PTL

\* A write that returns OK has stored every sector, and no write changes anything
\* outside its request.
THEOREM WritesStayExact == StorageSpec => []WriteExact
<1>1. StorageInv => WriteExact
  BY Zenon DEF StorageInv, ProgressInv, OnlyRequested, WriteExact, Finished, Transferred, Moved, Requested
<1> QED
  BY <1>1, StorageInvariant, PTL

\* The device table only grows, within its limit, and the drive is in it only
\* when it is ready.
THEOREM TableStaysPut == StorageSpec => TableKeepsDevices
<1>1. StorageInv /\ [StorageNext]_vars =>
        [/\ Grows(g_devices, g_devices')
         /\ Len(g_devices') <= SB_MAX_BLOCK_DEVICES
         /\ "ata" \in Range(g_devices') => g_ata_ready' /\ present]_vars
  <2> SUFFICES ASSUME StorageInv, [StorageNext]_vars
      PROVE  /\ Grows(g_devices, g_devices')
             /\ Len(g_devices') <= SB_MAX_BLOCK_DEVICES
             /\ "ata" \in Range(g_devices') => g_ata_ready' /\ present
    OBVIOUS
  <2>1. StorageInv' /\ Grows(g_devices, g_devices')
    BY Zenon, StorageSteps
  <2>2. present' = present
    BY Zenon DEF StorageNext, Code, Calls, Driver, Drive, vars, drive, sb_storage_selftest, Returned,
       Identified, NoDrive, Probe, WriteRegister, Command, ata_wait_not_busy, ata_wait_drq,
       ReadData, WriteData, Flush, Complete, Fault, BlockSelftest, sb_vfs_mount, Refused,
       ToDrive, ToMemory, Called
  <2> QED
    BY Zenon, <2>1, <2>2 DEF StorageInv, TableInv
<1> QED
  BY <1>1, StorageInvariant, PTL DEF StorageSpec, TableKeepsDevices
=============================================================================
