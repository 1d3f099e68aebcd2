------------------------------- MODULE Floppy -------------------------------
(***************************************************************************)
(* The floppy driver: byte reads and writes cut into DMA transfers that fit  *)
(* the one-page buffer and end with the track, partly covered sectors read   *)
(* before they are written, and the conversation with the controller, which  *)
(* works by itself between a command and its interrupt.  The controller, the *)
(* DMA channel and the interrupt handle are external.                        *)
(*                                                                           *)
(* Bytes are cells.  A copy of a cell is <<drive, position>> when it has     *)
(* what was last written there and Stale when it has not.                    *)
(***************************************************************************)
EXTENDS Integers, Sequences, FiniteSets, FiniteSetsExt

CONSTANTS
    Drives,                    \* attached drives, out of {0, 1}
    SectorCells, TrackSectors, \* SECTOR_SIZE, SECTORS_PER_TRACK
    PageSectors,               \* sectors in the DMA buffer
    Cylinders,
    FloppyOffsets, FloppySizes, \* where requests start, and their sizes
    FloppyFlaws                 \* "beyond": requests that end behind the disk, which nobody checks

ASSUME FloppyAssumption == FloppyFlaws \subseteq {"beyond"}

VARIABLES
    disk,      \* by drive and position: the cell on it is what was last written
    dmaBuffer, dmaChannel,
    fdc,       \* the controller: [phase, op, chs, sel, motors]
    irq,       \* an interrupt is waiting at the handle
    selected,  \* selected_drive
    job,       \* the request being handled: [pc, op, drive, start, pos, end]
    misread,   \* a reader was given something else than what the disk has
    failed     \* a request has been answered with an error

floppyVars == <<disk, dmaBuffer, dmaChannel, fdc, irq, selected, job, misread, failed>>

Stale == <<>>
Positions == 0..Cylinders * 2 * TrackSectors * SectorCells - 1
NoJob == [pc |-> "idle", op |-> "none", drive |-> 0, start |-> 0, pos |-> 0, end |-> 0]

-----------------------------------------------------------------------------
(* Geometry *)

FromLba(lba) ==
    LET perCylinder == 2 * TrackSectors IN
    [cylinder |-> lba \div perCylinder,
     head |-> (lba % perCylinder) \div TrackSectors,
     sector |-> ((lba % perCylinder) % TrackSectors) + 1]

\* The transfer a request at pos makes next: where it starts on the disk and in the
\* buffer, its sectors and the bytes of the request it covers.
Chunk_OverTrack(pos, end) ==
    LET first == pos \div SectorCells
        count == Min({(end - 1) \div SectorCells - first + 1, PageSectors}) IN
    [chs |-> FromLba(first), skip |-> pos % SectorCells, count |-> count,
     len |-> Min({end - pos, count * SectorCells - (pos % SectorCells)})]

Chunk(pos, end) ==
    LET first == pos \div SectorCells
        chs == FromLba(first)
        count == Min({(end - 1) \div SectorCells - first + 1, PageSectors, TrackSectors + 1 - chs.sector}) IN
    [chs |-> chs, skip |-> pos % SectorCells, count |-> count,
     len |-> Min({end - pos, count * SectorCells - (pos % SectorCells)})]

Now == Chunk(job.pos, job.end)

\* What the command's parameters say: the cylinder in a byte.
Addressed == [Now.chs EXCEPT !.cylinder = @ % 256]

-----------------------------------------------------------------------------
(* The controller *)

\* DmaChannelRegisters, set up by dma_prepare.
DmaPrepare(mode) == dmaChannel' = [mode |-> mode, count |-> Now.count * SectorCells]

\* FloppyDeviceDriver::reset writes 0x0c to the DOR: no drive's motor runs and drive 0 is
\* selected.
Reset(c) == [c EXCEPT !.phase = "idle", !.sel = 0, !.motors = {}]

\* select_drive trusts what it remembers.
SelectDrive(c) == [c EXCEPT !.sel = IF selected = job.drive THEN @ ELSE job.drive]

\* dma_transfer up to the last parameter; a controller that is not waiting for a command
\* is reset, after the drive was selected.
Command(op) ==
    LET c == SelectDrive(fdc)
        ready == IF c.phase = "idle" THEN c ELSE Reset(c) IN
    /\ fdc' = [ready EXCEPT !.phase = "exec", !.op = op, !.chs = Addressed]
    /\ selected' = job.drive

\* The cell of the disk a cell of the transfer is, -1 once the track has ended and on a
\* cylinder there is not.
DiskCell(i) ==
    LET sector == fdc.chs.sector + i \div SectorCells
        track == fdc.chs.cylinder * 2 + fdc.chs.head IN
    IF sector > TrackSectors \/ fdc.chs.cylinder >= Cylinders THEN -1
    ELSE (track * TrackSectors + sector - 1) * SectorCells + (i % SectorCells)

\* The controller carries the command out on the drive whose motor runs, and interrupts.
\* When it cannot it interrupts all the same and says so in its result.
Execute ==
    LET moved == {i \in 0..dmaChannel.count - 1 : DiskCell(i) # -1}
        d == fdc.sel
        works == d \in fdc.motors /\ fdc.op = dmaChannel.mode IN
    /\ fdc.phase = "exec"
    /\ fdc' = [fdc EXCEPT !.phase = "result"] /\ irq' = TRUE
    /\ IF works /\ fdc.op = "read"
       THEN dmaBuffer' = [i \in DOMAIN dmaBuffer |->
                             IF i \notin moved THEN dmaBuffer[i]
                             ELSE IF disk[d][DiskCell(i)] THEN <<d, DiskCell(i)>> ELSE Stale]
       ELSE UNCHANGED dmaBuffer
    /\ IF works /\ fdc.op = "write"
       THEN disk' = [disk EXCEPT ![d] = [p \in Positions |->
                        IF \E i \in moved : DiskCell(i) = p
                        THEN \E i \in moved : DiskCell(i) = p /\ dmaBuffer[i] = <<d, p>>
                        ELSE @[p]]]
       ELSE UNCHANGED disk
    /\ UNCHANGED <<dmaChannel, selected, job, misread, failed>>

-----------------------------------------------------------------------------
(* The driver *)

FloppyInit ==
    /\ disk = [d \in Drives |-> [p \in Positions |-> TRUE]]
    /\ dmaBuffer = [i \in 0..PageSectors * SectorCells - 1 |-> Stale]
    /\ dmaChannel = [mode |-> "read", count |-> 0]
    /\ selected = Max(Drives)  \* init recalibrates every drive
    /\ fdc = [phase |-> "idle", op |-> "read", chs |-> FromLba(0), sel |-> Max(Drives), motors |-> Drives]
    /\ irq = FALSE /\ job = NoJob /\ misread = FALSE /\ failed = FALSE

\* What a writer writes is the latest from the moment it asks.  Requests after one that
\* failed are not explored.
Request(op, d, pos, n) ==
    /\ job.pc = "idle" /\ ~failed
    /\ pos + n - 1 \in Positions \/ "beyond" \in FloppyFlaws
    /\ job' = [pc |-> "next", op |-> op, drive |-> d, start |-> pos, pos |-> pos, end |-> pos + n]
    /\ disk' = IF op = "write" THEN [disk EXCEPT ![d] = [p \in Positions |-> @[p] /\ p \notin pos..pos + n - 1]]
               ELSE disk
    /\ UNCHANGED <<dmaBuffer, dmaChannel, fdc, irq, selected, misread, failed>>

Answer == job' = NoJob

\* The buffer with the request's bytes copied over it.
CopiedIn == [i \in DOMAIN dmaBuffer |->
                IF i - Now.skip \in 0..Now.len - 1 THEN <<job.drive, job.pos + i - Now.skip>> ELSE dmaBuffer[i]]

ReadsFirst == Now.skip # 0 \/ Now.len % SectorCells # 0

\* The next transfer of read_blocks or write_blocks, or the answer.
StartTransfer ==
    /\ job.pc = "next"
    /\ IF job.pos = job.end THEN Answer /\ UNCHANGED <<dmaBuffer, dmaChannel, fdc, selected>>
       ELSE IF job.op = "read" \/ ReadsFirst
       THEN DmaPrepare("read") /\ Command("read") /\ job' = [job EXCEPT !.pc = "read"] /\ UNCHANGED dmaBuffer
       ELSE DmaPrepare("write") /\ Command("write") /\ job' = [job EXCEPT !.pc = "write"] /\ dmaBuffer' = CopiedIn
    /\ UNCHANGED <<disk, irq, misread, failed>>

\* send_command ends with a wait for the controller to be ready, which comes with its
\* result; then wait_irq and get_response.  The result is read and not looked at.
Done == job.pc \in {"read", "write"} /\ fdc.phase = "result" /\ irq
Taken == fdc' = [fdc EXCEPT !.phase = "idle"] /\ irq' = FALSE

ReadDone ==
    LET next == job.pos + Now.len IN
    /\ Done /\ job.pc = "read" /\ job.op = "read" /\ Taken
    /\ misread' = (misread \/ \E i \in 0..Now.len - 1 : dmaBuffer[Now.skip + i] # <<job.drive, job.pos + i>>)
    /\ job' = [job EXCEPT !.pc = "next", !.pos = next]
    /\ UNCHANGED <<disk, dmaBuffer, dmaChannel, selected, failed>>

\* The sectors are in the buffer; the request's bytes go over them and they are written.
Modify ==
    /\ Done /\ job.pc = "read" /\ job.op = "write"
    /\ irq' = FALSE /\ fdc' = [SelectDrive(fdc) EXCEPT !.phase = "exec", !.op = "write", !.chs = Addressed]
    /\ dmaBuffer' = CopiedIn /\ DmaPrepare("write")
    /\ job' = [job EXCEPT !.pc = "write"]
    /\ UNCHANGED <<disk, selected, misread, failed>>

WriteDone ==
    /\ Done /\ job.pc = "write" /\ Taken
    /\ job' = [job EXCEPT !.pc = "next", !.pos = @ + Now.len]
    /\ UNCHANGED <<disk, dmaBuffer, dmaChannel, selected, misread, failed>>

\* wait_for_rqm gives up after ten polls: the request fails, the controller works on.
GiveUp ==
    /\ job.pc \in {"read", "write"} /\ fdc.phase = "exec"
    /\ Answer /\ failed' = TRUE
    /\ UNCHANGED <<disk, dmaBuffer, dmaChannel, fdc, irq, selected, misread>>

HandleFloppy ==
    \/ \E op \in {"read", "write"}, d \in Drives, pos \in FloppyOffsets, n \in FloppySizes : Request(op, d, pos, n)
    \/ StartTransfer \/ Execute \/ ReadDone \/ Modify \/ WriteDone \/ GiveUp

-----------------------------------------------------------------------------
(* Properties *)

\* A read returns what was last written to its bytes, and a write, once answered, is on the
\* disk and has changed no other byte of either drive, however it was cut into transfers.
\* Once a request has failed this is over: the reset that follows leaves the motors off,
\* and the results that say so are not looked at.
FloppyKeepsBytes == failed \/
    /\ ~misread
    /\ job.pc = "idle" => \A d \in Drives, p \in Positions : disk[d][p]

=============================================================================
