--------------------------------- MODULE Ata ---------------------------------
(***************************************************************************)
(* The ATA driver on one channel: whole sectors moved straight between disk  *)
(* and the caller's buffer, anything else sector by sector through a buffer  *)
(* of its own, by programmed I/O or by bus-master DMA, with the drive        *)
(* working by itself between a command and its interrupts.  The drive, the   *)
(* bus master and the interrupt handle are external.                         *)
(*                                                                           *)
(* Bytes are cells.  A copy of a cell is <<drive, position>> when it has     *)
(* what was last written there and Old when it has not.                      *)
(***************************************************************************)
EXTENDS Integers, Sequences, FiniteSets, FiniteSetsExt

CONSTANTS
    AtaDrives, AtaSectors,   \* drives of the channel, sectors of a drive
    AtaCells,                \* SECTOR_SIZE
    CountLimit,              \* 256: the sector count register holds CountLimit as 0
    Segment,                 \* 0x10000: a descriptor ends at a multiple, and holds it as size 0
    AtaOffsets, AtaSizes,    \* where requests start, and their sizes, up to CountLimit sectors
    Buffers,                 \* physical addresses of the callers' buffers
    AtaFlaws                 \* "scattered": a buffer's second page is not behind its first,
                             \* "eager": PIO is used on a drive that is still writing,
                             \* "first": a drive is busy before the first sector of a write,
                             \* "count": the caller looks at the number of bytes in the answer

ASSUME AtaAssumption == AtaFlaws \subseteq {"scattered", "eager", "first", "count"}

VARIABLES
    platter,   \* by drive and position: the cell on it is what was last written
    bus,       \* bus_master_port is there
    drive,     \* the selected drive: [phase, op, unit, lba, left]; idle, busy, or ready to move a sector
    master,    \* [prdt, irq]: the descriptor table, and the interrupt bit of the status
    intr,      \* an interrupt is waiting at the handle
    memory,    \* physical memory: the caller's buffer and, at BounceAt, pio_buffer
    task,      \* the request: [pc, op, move, unit, start, pos, end, at, k]
    wrong      \* a reader was given something else than what the disk has

ataVars == <<platter, bus, drive, master, intr, memory, task, wrong>>

Old == <<>>
DiskCells == 0..AtaSectors * AtaCells - 1
BounceAt == 3 * Segment
PageCells == Segment \div 2
NoMemory == [a \in 0..4 * Segment - 1 |-> Old]
NoTask == [pc |-> "idle", op |-> "none", move |-> "none", unit |-> 0,
           start |-> 0, pos |-> 0, end |-> 0, at |-> 0, k |-> 0]

AtaInit ==
    /\ platter = [d \in AtaDrives |-> [p \in DiskCells |-> TRUE]]
    /\ bus \in BOOLEAN
    /\ drive = [phase |-> "idle", op |-> "read", unit |-> 0, lba |-> 0, left |-> 0]
    /\ master = [prdt |-> <<>>, irq |-> FALSE] /\ intr = FALSE
    /\ memory = NoMemory /\ task = NoTask /\ wrong = FALSE

-----------------------------------------------------------------------------
(* What a request moves *)

\* Where the processor finds byte i of the caller's buffer.
Phys(i) ==
    LET a == task.at + i IN
    IF "scattered" \in AtaFlaws /\ a \div PageCells # task.at \div PageCells THEN a + PageCells ELSE a

\* Requests of whole sectors are one transfer; others go through pio_buffer.
Direct == task.start % AtaCells = 0 /\ (task.end - task.start) % AtaCells = 0
FirstSector == task.pos \div AtaCells
SectorOffset == task.pos % AtaCells
MoveLen == IF Direct THEN task.end - task.start ELSE Min({AtaCells - SectorOffset, task.end - task.pos})
Sectors == IF Direct THEN MoveLen \div AtaCells ELSE 1
Base == IF Direct THEN task.at ELSE BounceAt

SetBuffer_Flat(a, size) == <<[at |-> a, size |-> size % Segment]>>

\* PRDT::set_buffer: descriptors that end at the segments' boundaries; a whole segment has
\* size 0.
RECURSIVE SetBuffer(_, _)
SetBuffer(a, size) ==
    LET chunk == Min({size, Segment - (a % Segment)}) IN
    IF size = 0 THEN <<>>
    ELSE <<[at |-> a, size |-> IF chunk = Segment THEN 0 ELSE chunk]>> \o SetBuffer(a + chunk, size - chunk)

\* The memory a table describes, in order: addresses do not leave their segment.
RECURSIVE Described(_)
Described(prdt) ==
    IF prdt = <<>> THEN <<>>
    ELSE LET e == prdt[1] IN
         [j \in 1..(IF e.size = 0 THEN Segment ELSE e.size) |->
             (e.at \div Segment) * Segment + ((e.at + j - 1) % Segment)] \o Described(Tail(prdt))

-----------------------------------------------------------------------------
(* The drive *)

\* A command to a drive that is not idle is lost.  The first sector of a PIO write is asked
\* for without an interrupt.
Commanded(op, count) ==
    IF drive.phase # "idle" THEN drive
    ELSE [phase |-> IF op = "write" /\ "first" \notin AtaFlaws THEN "data" ELSE "busy",
          op |-> op, unit |-> task.unit, lba |-> FirstSector, left |-> count]

OnDisk(p) == IF platter[drive.unit][p] THEN <<drive.unit, p>> ELSE Old

\* PIO: the drive has read or written a sector, or is ready for the first one of a write.
DriveReady(silent) ==
    /\ drive.phase = "busy" /\ drive.op \in {"read", "write"}
    /\ silent => "first" \in AtaFlaws
    /\ drive' = [drive EXCEPT !.phase = IF drive.left = 0 THEN "idle" ELSE "data"]
    /\ intr' = (intr \/ ~silent)
    /\ UNCHANGED <<platter, bus, master, memory, task, wrong>>

\* DMA: the whole transfer, then the interrupt.
DriveTransfers ==
    LET mem == Described(master.prdt)
        first == drive.lba * AtaCells
        moved == 1..Min({Len(mem), drive.left * AtaCells}) IN
    /\ drive.phase = "busy" /\ drive.op \in {"readDma", "writeDma"}
    /\ drive' = [drive EXCEPT !.phase = "idle", !.left = 0]
    /\ intr' = TRUE /\ master' = [master EXCEPT !.irq = TRUE]
    /\ IF drive.op = "readDma"
       THEN /\ memory' = [a \in DOMAIN memory |->
                             IF \E j \in moved : mem[j] = a
                             THEN OnDisk(first + (CHOOSE j \in moved : mem[j] = a) - 1) ELSE memory[a]]
            /\ UNCHANGED platter
       ELSE /\ platter' = [platter EXCEPT ![drive.unit] = [p \in DiskCells |->
                              IF p - first + 1 \in moved THEN memory[mem[p - first + 1]] = <<drive.unit, p>>
                              ELSE @[p]]]
            /\ UNCHANGED memory
    /\ UNCHANGED <<bus, task, wrong>>

-----------------------------------------------------------------------------
(* The driver *)

\* The caller's buffer has what is to be written, the latest from now on.
AtaRequest(op, d, pos, n, at) ==
    LET range == pos..pos + n - 1 IN
    /\ task.pc = "idle" /\ range \subseteq DiskCells
    /\ task' = [NoTask EXCEPT !.pc = "next", !.op = op, !.unit = d, !.start = pos, !.pos = pos, !.end = pos + n, !.at = at]
    /\ IF op = "read" THEN UNCHANGED <<platter, memory>>
       ELSE /\ platter' = [platter EXCEPT ![d] = [p \in DiskCells |-> @[p] /\ p \notin range]]
            /\ memory' = [a \in DOMAIN memory |->
                             IF \E i \in 0..n - 1 : Phys(i)' = a
                             THEN <<d, pos + CHOOSE i \in 0..n - 1 : Phys(i)' = a>> ELSE Old]
    /\ UNCHANGED <<bus, drive, master, intr, wrong>>

\* read_virt, write_virt and read_phys: the command, by DMA if there is a bus master, once
\* the drive is not busy; by PIO at once.
Start(move, mem) ==
    /\ memory' = mem /\ task' = [task EXCEPT !.move = move, !.pc = IF bus THEN "dma" ELSE "pio", !.k = 0]
    /\ drive.phase = "idle" \/ (~bus /\ "eager" \in AtaFlaws)
    /\ IF bus THEN /\ drive' = [phase |-> "busy", op |-> IF move = "read" THEN "readDma" ELSE "writeDma",
                                unit |-> task.unit, lba |-> FirstSector,
                                left |-> IF Sectors % CountLimit = 0 THEN CountLimit ELSE Sectors % CountLimit]
                   /\ master' = [prdt |-> SetBuffer(Base, Sectors * AtaCells), irq |-> FALSE]
       ELSE drive' = Commanded(move, Sectors) /\ UNCHANGED master
    /\ UNCHANGED <<platter, bus, intr, wrong>>

\* pio_buffer with the request's bytes for this sector over it.
CopiedOver ==
    [a \in DOMAIN memory |->
        IF ~Direct /\ a - BounceAt - SectorOffset \in 0..MoveLen - 1
        THEN memory[Phys(task.pos - task.start + a - BounceAt - SectorOffset)] ELSE memory[a]]

PartOfSector == ~Direct /\ (SectorOffset # 0 \/ MoveLen < AtaCells)

NextTransfer ==
    /\ task.pc = "next" /\ task.pos < task.end
    /\ IF task.op = "read" \/ PartOfSector THEN Start("read", memory) ELSE Start("write", CopiedOver)

\* The bytes the answer speaks of: what read_virt and write_virt return, taken for sectors,
\* and dma_transfer returns bytes.
Answered == (task.end - task.start) * (IF Direct /\ bus THEN AtaCells ELSE 1)

AtaAnswer ==
    /\ task.pc = "next" /\ task.pos = task.end
    /\ task' = NoTask /\ memory' = NoMemory
    /\ wrong' = (wrong \/ ("count" \in AtaFlaws /\ Answered # task.end - task.start))
    /\ UNCHANGED <<platter, bus, drive, master, intr>>

\* wait_for_update with the drive busy: it sleeps until there is an interrupt, then looks
\* again.
SleepForUpdate ==
    /\ task.pc = "pio" /\ drive.phase = "busy"
    /\ task' = [task EXCEPT !.pc = "irq"]
    /\ UNCHANGED <<platter, bus, drive, master, intr, memory, wrong>>

WakeForUpdate ==
    /\ task.pc = "irq" /\ intr
    /\ task' = [task EXCEPT !.pc = "pio"] /\ intr' = FALSE
    /\ UNCHANGED <<platter, bus, drive, master, memory, wrong>>

\* Sector k of read_pio or write_pio, once the drive is not busy.
MoveSector ==
    LET ready == drive.phase = "data" /\ drive.op = task.move
        a0 == Base + task.k * AtaCells
        p0 == drive.lba * AtaCells IN
    /\ task.pc = "pio" /\ drive.phase # "busy"
    /\ memory' = IF task.move = "write" THEN memory
                 ELSE [a \in DOMAIN memory |->
                          IF \E i \in 0..AtaCells - 1 : a = (IF Direct THEN Phys(task.k * AtaCells + i) ELSE a0 + i)
                          THEN IF ready THEN OnDisk(p0 + CHOOSE i \in 0..AtaCells - 1 :
                                                    a = (IF Direct THEN Phys(task.k * AtaCells + i) ELSE a0 + i))
                               ELSE Old
                          ELSE memory[a]]
    /\ platter' = IF task.move = "read" \/ ~ready THEN platter
                  ELSE [platter EXCEPT ![drive.unit] = [p \in DiskCells |->
                           IF p - p0 \in 0..AtaCells - 1
                           THEN memory[IF Direct THEN Phys(task.k * AtaCells + p - p0) ELSE a0 + p - p0] = <<drive.unit, p>>
                           ELSE @[p]]]
    /\ drive' = IF ~ready THEN drive
                ELSE [drive EXCEPT !.lba = @ + 1, !.left = @ - 1,
                                   !.phase = IF drive.op = "read" /\ drive.left = 1 THEN "idle" ELSE "busy"]
    /\ task' = [task EXCEPT !.k = @ + 1, !.pc = IF task.k + 1 = Sectors THEN "moved" ELSE "pio"]
    /\ UNCHANGED <<bus, master, intr, wrong>>

\* The loop of dma_transfer: an interrupt, and the transfer is over if the status says so.
DmaWait ==
    /\ task.pc = "dma" /\ intr
    /\ intr' = FALSE
    /\ task' = [task EXCEPT !.pc = IF master.irq THEN "moved" ELSE "dma"]
    /\ UNCHANGED <<platter, bus, drive, master, memory, wrong>>

\* A sector read for a write that covers part of it.
ModifySector ==
    /\ task.pc = "moved" /\ task.op = "write" /\ task.move = "read"
    /\ Start("write", CopiedOver)

Moved ==
    /\ task.pc = "moved" /\ task.op = task.move
    /\ wrong' = (wrong \/ (task.op = "read" /\ \E i \in 0..MoveLen - 1 :
                   memory[IF Direct THEN Phys(i) ELSE BounceAt + SectorOffset + i] # <<task.unit, task.pos + i>>))
    /\ task' = [task EXCEPT !.pc = "next", !.pos = @ + MoveLen]
    /\ UNCHANGED <<platter, bus, drive, master, intr, memory>>

AtaNext ==
    \/ \E op \in {"read", "write"}, d \in AtaDrives, pos \in AtaOffsets, n \in AtaSizes, at \in Buffers :
          AtaRequest(op, d, pos, n, at)
    \/ \E silent \in BOOLEAN : DriveReady(silent)
    \/ DriveTransfers \/ NextTransfer \/ AtaAnswer \/ SleepForUpdate \/ WakeForUpdate
    \/ MoveSector \/ DmaWait \/ ModifySector \/ Moved

-----------------------------------------------------------------------------
(* Properties *)

\* A read returns what was last written to its bytes, and a write, once answered, is with
\* the drive and has changed no other byte, by PIO and by DMA, through the bounce buffer
\* and around it.
AtaKeepsBytes ==
    /\ ~wrong
    /\ task.pc = "idle" => \A d \in AtaDrives, p \in DiskCells : platter[d][p]

\* The driver never sleeps for an interrupt that has been used up or never comes.
DriverIsWoken == task.pc \in {"irq", "dma"} => intr \/ drive.phase = "busy"

\* A request of the ATA driver moves its bytes and ends.
AtaServes == AtaKeepsBytes /\ DriverIsWoken
=============================================================================
