-------------------------------- MODULE ATA --------------------------------
(* The polling ATA driver (kernel/ata_pio.c) and the drive on the other side  *)
(* of its ports.  The driver writes the registers one by one, polls the       *)
(* status a bounded number of times and moves one sector per command; the     *)
(* drive answers in its own time, or never, or with an error.  Who calls the  *)
(* driver is in Storage.                                                      *)
EXTENDS Block

CONSTANTS
    SECTORS,            \* sectors of the drive, words 60 and 61 of IDENTIFY
    MAX_COUNT,          \* sectors one call may move (255)
    ATA_POLL_LIMIT,
    DIGIT,              \* values of one LBA register (256)
    TOP_DIGIT           \* values of the LBA bits in the drive register (16)

ASSUME DriveAssumption ==
    /\ SECTORS \in Nat /\ MAX_COUNT \in Nat /\ ATA_POLL_LIMIT \in Nat \ {0}
    /\ DIGIT \in Nat \ {0} /\ TOP_DIGIT \in Nat \ {0}
    /\ SECTORS <= TOP_DIGIT * DIGIT * DIGIT * DIGIT

VARIABLES
    present,        \* there is a drive on the channel
    medium,         \* what each sector holds: the sector it was meant for, and a version
    dev,            \* the drive: status bits and the command it works on
    task,           \* its LBA registers
    g_ata_ready,
    pc, call, sector, polls, buffer, result

block == <<g_devices, g_test_disk>>
drive == <<present, medium, dev, task>>

TaskFile == {"DRIVE", "LBA0", "LBA1", "LBA2"}
JUNK == <<-1, "junk">>
NewData(lba) == Contents(lba, "new")

-----------------------------------------------------------------------------
(* The drive                                                                  *)

Latched == ((task["DRIVE"] * DIGIT + task["LBA2"]) * DIGIT + task["LBA1"]) * DIGIT + task["LBA0"]

\* A drive that is busy ignores its registers; otherwise a command starts at
\* once, whatever the drive was about to transfer.
Accept(cmd) ==
    dev' = IF dev.bsy THEN dev
           ELSE [bsy |-> TRUE, drq |-> FALSE, err |-> FALSE, cmd |-> cmd, lba |-> Latched, got |-> JUNK]

\* The drive has the data ready, wants the data, or has stored them.
Complete ==
    /\ dev.bsy
    /\ dev.cmd = "identify" \/ dev.lba \in 0..(SECTORS - 1)
    /\ dev' = [dev EXCEPT !.bsy = FALSE, !.drq = dev.got = JUNK]
    /\ medium' = IF dev.got = JUNK THEN medium ELSE [medium EXCEPT ![dev.lba] = dev.got]
    /\ UNCHANGED <<present, task, g_ata_ready, pc, call, sector, polls, buffer, result>>

Fault ==
    /\ dev.bsy
    /\ dev' = [dev EXCEPT !.bsy = FALSE, !.drq = FALSE, !.err = TRUE]
    /\ UNCHANGED <<present, medium, task, g_ata_ready, pc, call, sector, polls, buffer, result>>

-----------------------------------------------------------------------------
(* The driver                                                                 *)

ArgumentsOK(lba, count) == count <= MAX_COUNT /\ InRange(lba, count, SECTORS)

Return(status) == pc' = "return" /\ result' = status

\* ata_read and ata_write up to their loop.
BeginTransfer(lba, count) ==
    /\ sector' = 0 /\ polls' = 0 /\ buffer' = <<>>
    /\ IF ArgumentsOK(lba, count) THEN pc' = "DRIVE" /\ UNCHANGED result
       ELSE Return("invalid")

current == call.lba + sector

\* Mutant: the shift of the second LBA byte is missing.
MutSameByte(r) ==
    CASE r = "LBA0" -> current % DIGIT
      [] r = "LBA1" -> current % DIGIT
      [] r = "LBA2" -> (current \div (DIGIT * DIGIT)) % DIGIT
      [] r = "DRIVE" -> (current \div (DIGIT * DIGIT * DIGIT)) % TOP_DIGIT

\* What the driver puts into a register: a byte of the LBA, four bits at the top.
Digit(r) ==
    CASE r = "LBA0" -> current % DIGIT
      [] r = "LBA1" -> (current \div DIGIT) % DIGIT
      [] r = "LBA2" -> (current \div (DIGIT * DIGIT)) % DIGIT
      [] r = "DRIVE" -> (current \div (DIGIT * DIGIT * DIGIT)) % TOP_DIGIT

After == [DRIVE |-> "LBA0", LBA0 |-> "LBA1", LBA1 |-> "LBA2", LBA2 |-> "command"]

WriteRegister ==
    /\ pc \in TaskFile
    /\ task' = IF dev.bsy THEN task ELSE [task EXCEPT ![pc] = Digit(pc)]
    /\ pc' = After[pc]
    /\ UNCHANGED <<present, medium, dev, g_ata_ready, call, sector, polls, buffer, result>>

Command ==
    /\ pc = "command"
    /\ Accept(call.op)
    /\ pc' = "notbusy" /\ polls' = 0
    /\ UNCHANGED <<present, medium, task, g_ata_ready, call, sector, buffer, result>>

\* Mutant: the polls are not counted.
MutPollsForever == UNCHANGED <<pc, polls, result>>

\* The body of a polling loop that has not seen what it waits for.
PollAgain ==
    IF polls + 1 < ATA_POLL_LIMIT THEN polls' = polls + 1 /\ UNCHANGED <<pc, result>>
    ELSE Return("not_ready") /\ UNCHANGED polls

SectorDone ==
    /\ sector' = sector + 1
    /\ IF sector + 1 < call.count THEN pc' = "DRIVE" /\ UNCHANGED result ELSE Return("ok")

ata_wait_not_busy ==
    /\ pc = "notbusy"
    /\ \/ dev.bsy /\ PollAgain
       \/ ~ dev.bsy /\ dev.err /\ Return("not_ready") /\ UNCHANGED polls
       \/ ~ dev.bsy /\ ~ dev.err /\ pc' = "drq" /\ polls' = 0 /\ UNCHANGED result
    /\ UNCHANGED <<drive, g_ata_ready, call, sector, buffer>>

ata_wait_drq ==
    /\ pc = "drq"
    /\ \/ dev.err /\ Return("not_ready") /\ UNCHANGED polls
       \/ ~ dev.err /\ dev.drq /\ pc' = "transfer" /\ UNCHANGED <<polls, result>>
       \/ ~ dev.err /\ ~ dev.drq /\ PollAgain
    /\ UNCHANGED <<drive, g_ata_ready, call, sector, buffer>>

\* The words of one sector through the data register.
ReadData ==
    /\ pc = "transfer" /\ call.op = "read"
    /\ buffer' = Append(buffer, IF dev.cmd = "read" THEN medium[dev.lba] ELSE JUNK)
    /\ dev' = [dev EXCEPT !.drq = FALSE]
    /\ SectorDone
    /\ UNCHANGED <<present, medium, task, g_ata_ready, call, polls>>

\* Mutant: a write returns without waiting for the drive to store the sector.
MutNoFinalWait == SectorDone /\ UNCHANGED polls

FinalWait == pc' = "flush" /\ polls' = 0 /\ UNCHANGED <<sector, result>>

WriteData ==
    /\ pc = "transfer" /\ call.op = "write"
    /\ dev' = IF dev.cmd = "write"
              THEN [dev EXCEPT !.drq = FALSE, !.bsy = TRUE, !.got = NewData(current)]
              ELSE [dev EXCEPT !.drq = FALSE]
    /\ FinalWait
    /\ UNCHANGED <<present, medium, task, g_ata_ready, call, buffer>>

Flush ==
    /\ pc = "flush"
    /\ \/ dev.bsy /\ PollAgain /\ UNCHANGED sector
       \/ ~ dev.bsy /\ dev.err /\ Return("not_ready") /\ UNCHANGED <<polls, sector>>
       \/ ~ dev.bsy /\ ~ dev.err /\ SectorDone /\ UNCHANGED polls
    /\ UNCHANGED <<drive, g_ata_ready, call, buffer>>

-----------------------------------------------------------------------------
(* sb_ata_pio_init: IDENTIFY, with the same waits                             *)

\* The status register of an empty channel reads 0.
NoDrive ==
    /\ pc = "probe" /\ ~ present
    /\ Return("not_ready")
    /\ UNCHANGED <<drive, g_ata_ready, call, sector, polls, buffer>>

Probe ==
    /\ pc = "probe" /\ present
    /\ task' = [r \in TaskFile |-> 0]
    /\ Accept("identify")
    /\ pc' = "notbusy"
    /\ UNCHANGED <<present, medium, g_ata_ready, call, sector, polls, buffer, result>>

\* The capacity is read, the device filled in and registered; it is ready even
\* when the table has no room for it.
Identified ==
    /\ pc = "transfer" /\ call.op = "identify"
    /\ dev' = [dev EXCEPT !.drq = FALSE]
    /\ IF SECTORS = 0 THEN Return("not_ready") /\ UNCHANGED <<g_ata_ready, g_devices>>
       ELSE /\ g_ata_ready' = TRUE
            /\ sb_block_register("ata", SECTORS)
            /\ Return(IF Registers(SECTORS) THEN "ok" ELSE "invalid")
    /\ UNCHANGED <<present, medium, task, call, sector, polls, buffer>>

-----------------------------------------------------------------------------
ATAInit ==
    /\ present \in BOOLEAN
    /\ medium = [l \in 0..(SECTORS - 1) |-> Contents(l, "old")]
    /\ dev = [bsy |-> FALSE, drq |-> FALSE, err |-> FALSE, cmd |-> "none", lba |-> 0, got |-> JUNK]
    /\ task = [r \in TaskFile |-> 0]
    /\ g_ata_ready = FALSE
    /\ sector = 0 /\ polls = 0 /\ buffer = <<>> /\ result = "none"

Driver ==
    \/ Identified /\ UNCHANGED g_test_disk
    \/ /\ \/ NoDrive \/ Probe \/ WriteRegister \/ Command \/ ata_wait_not_busy
          \/ ata_wait_drq \/ ReadData \/ WriteData \/ Flush
       /\ UNCHANGED block

Drive == (Complete \/ Fault) /\ UNCHANGED block

=============================================================================
