--------------------------------- MODULE Pipe ---------------------------------
(***************************************************************************)
(* The pipe driver of kernel/src/pipes/driver.rs: one pipe with a reading  *)
(* and a writing task.  A read that finds too little in the ring buffer    *)
(* leaves its callback, and writes then go straight into its buffer.  Both *)
(* calls read the shared counters before they take the buffer's lock.      *)
(* Bytes are numbered in the order they are written.                       *)
(***************************************************************************)
EXTENDS Kernel

CONSTANTS
    BufferSize,  \* BUFFER_SIZE
    Lengths,     \* lengths of the buffers given to read and write
    MaxBytes     \* bound on the bytes written

ASSUME PipeAssumption ==
    /\ BufferSize \in Nat \ {0} /\ MaxBytes \in Nat
    /\ Lengths \subseteq Nat

VARIABLES
    pipePc,         \* where reader and writer are in the driver
    pipeArg,        \* what each of them loaded before the lock
    write_head,
    write_tail,
    pipe_buffer,
    read_len,
    read_progress,
    read_callback,  \* a read is blocked
    read_buffer,    \* the bytes in the buffer of the blocked read
    received,       \* the bytes of completed reads, in order
    writerOpen,     \* open_writers, one writer
    readerOpen,     \* open_readers, one reader
    lastRead        \* the result and the number of bytes of the read that ended last

pipeVars == <<pipePc, pipeArg, write_head, write_tail, pipe_buffer, read_len, read_progress,
              read_callback, read_buffer, received, writerOpen, readerOpen, lastRead>>

NoArg == [len |-> 0]

PipeInit ==
    /\ Boot
    /\ pipePc = [t \in {"reader", "writer"} |-> "out"]
    /\ pipeArg = [t \in {"reader", "writer"} |-> NoArg]
    /\ write_head = 0 /\ write_tail = 0
    /\ pipe_buffer = [i \in 0..BufferSize - 1 |-> 0]
    /\ read_len = 0 /\ read_progress = 0
    /\ read_callback = FALSE
    /\ read_buffer = <<>>
    /\ received = <<>>
    /\ writerOpen = TRUE /\ readerOpen = TRUE
    /\ lastRead = [reported |-> 0, given |-> 0]

PipeInside == {t \in {"reader", "writer"} : pipePc[t] # "out"}

PipeEnter(t, arg) ==
    /\ pipePc[t] = "out" /\ CpuFree(PipeInside)
    /\ pipePc' = [pipePc EXCEPT ![t] = "locked"]
    /\ pipeArg' = [pipeArg EXCEPT ![t] = arg]
    /\ UNCHANGED <<ncpus, write_head, write_tail, pipe_buffer, read_len, read_progress,
                   read_callback, read_buffer, received, writerOpen, readerOpen, lastRead>>

PipeLeave(t) ==
    /\ pipePc[t] = "locked"
    /\ pipePc' = [pipePc EXCEPT ![t] = "out"]
    /\ pipeArg' = [pipeArg EXCEPT ![t] = NoArg]
    /\ UNCHANGED <<ncpus, writerOpen, readerOpen>>

Least(a, b) == IF a < b THEN a ELSE b
\* n bytes of the ring from position i on.
Ring(i, n) == [k \in 1..n |-> pipe_buffer[(i + k - 1) % BufferSize]]

-----------------------------------------------------------------------------
(* begin_read and Pipe::read.  The reader waits for its reads. *)

BeginRead ==
    /\ readerOpen /\ ~read_callback
    /\ \E n \in Lengths :
          PipeEnter("reader", [len |-> n, head |-> write_head, tail |-> write_tail, blocking |-> writerOpen])

\* Copy what is there; with less than was asked for, block if the write end was
\* open.
PipeRead ==
    LET arg == pipeArg["reader"]
        n == Least(arg.len, arg.head - arg.tail)
        bytes == Ring(arg.tail, n) IN
    /\ PipeLeave("reader")
    /\ write_tail' = arg.tail + n
    /\ IF n < arg.len /\ arg.blocking
       THEN /\ read_len' = arg.len /\ read_progress' = n
            /\ read_callback' = TRUE
            /\ read_buffer' = bytes
            /\ UNCHANGED <<received, lastRead>>
       ELSE /\ received' = received \o bytes
            /\ lastRead' = [reported |-> n, given |-> n]
            /\ UNCHANGED <<read_len, read_progress, read_callback, read_buffer>>
    /\ UNCHANGED <<write_head, pipe_buffer>>

-----------------------------------------------------------------------------
(* PipeDriver::write and Pipe::write *)

\* The bytes already accepted; the next one is the following number.
Accepted == Len(received) + Len(read_buffer) + write_head - write_tail

BeginWrite ==
    /\ writerOpen /\ readerOpen
    /\ \E n \in {k \in Lengths : Accepted + k <= MaxBytes} :
          PipeEnter("writer", [len |-> n, head |-> write_head, tail |-> write_tail,
                               progress |-> read_progress, rlen |-> read_len])

\* The slip of filling the ring to its last byte, where it looks empty.
Room_Full(head, tail) == BufferSize - ((head - tail) % BufferSize)

\* Room in the ring for a writer that loaded head and tail: full at one less
\* than its size.
Room(head, tail) == BufferSize - 1 - ((head - tail) % BufferSize)

\* A blocked read of length rlen is done.
Filled(rlen, progress) == rlen > 0 /\ progress >= rlen

\* First into the buffer of the blocked read, which completes when full; then
\* into the ring while there is room.
PipeWrite ==
    LET arg == pipeArg["writer"]
        bytes == [k \in 1..arg.len |-> Accepted + k]
        direct == IF arg.rlen > arg.progress THEN Least(arg.rlen - arg.progress, arg.len) ELSE 0
        progress == arg.progress + direct
        stored == Least(arg.len - direct, Room(arg.head, arg.tail))
        filled == read_buffer \o SubSeq(bytes, 1, direct) IN
    /\ PipeLeave("writer")
    /\ read_progress' = IF arg.rlen > 0 THEN progress ELSE read_progress
    /\ IF Filled(arg.rlen, progress) /\ read_callback
       THEN /\ read_callback' = FALSE
            /\ received' = received \o filled
            /\ read_buffer' = <<>>
            /\ lastRead' = [reported |-> arg.rlen, given |-> Len(filled)]
       ELSE /\ read_buffer' = filled
            /\ UNCHANGED <<read_callback, received, lastRead>>
    /\ pipe_buffer' = [i \in 0..BufferSize - 1 |->
          LET hits == {k \in 1..stored : (arg.head + k - 1) % BufferSize = i}
          IN  IF hits = {} THEN pipe_buffer[i] ELSE bytes[direct + CHOOSE k \in hits : TRUE]]
    /\ write_head' = arg.head + stored
    /\ UNCHANGED <<write_tail, read_len>>

-----------------------------------------------------------------------------
(* close_reader and close_writer exclude the calls above with the PIPES lock. *)

CloseWriter ==
    /\ writerOpen /\ PipeInside = {}
    /\ writerOpen' = FALSE
    /\ UNCHANGED <<ncpus, pipePc, pipeArg, write_head, write_tail, pipe_buffer, read_len,
                   read_progress, read_callback, read_buffer, received, readerOpen, lastRead>>

\* Bound: a reader closes its end when no read of its own is blocked.
CloseReader ==
    /\ readerOpen /\ PipeInside = {} /\ ~read_callback
    /\ readerOpen' = FALSE
    /\ UNCHANGED <<ncpus, pipePc, pipeArg, write_head, write_tail, pipe_buffer, read_len,
                   read_progress, read_callback, read_buffer, received, writerOpen, lastRead>>

PipeNext == BeginRead \/ PipeRead \/ BeginWrite \/ PipeWrite \/ CloseWriter \/ CloseReader

PipeSpec == PipeInit /\ [][PipeNext]_<<ncpus, pipeVars>>

-----------------------------------------------------------------------------

\* On one CPU, the reader gets the bytes in the order they were written, without
\* a gap or a repetition, however reads block and the ring wraps and fills, and
\* a read reports as many bytes as it was given.
BytesInOrder ==
    Uniprocessor => LET all == received \o read_buffer \o Ring(write_tail, write_head - write_tail)
                    IN  /\ \A i \in 1..Len(all) : all[i] = i
                        /\ lastRead.reported = lastRead.given

=============================================================================
