------------------------------- MODULE Io_proofs ------------------------------
(***************************************************************************)
(* Three sources of completions that race with the reads they complete:    *)
(* the other end of a pipe, interrupts and the end of a child.             *)
(*                                                                         *)
(* A pipe delivers the bytes in the order they were written, on one CPU,   *)
(* for every size of the ring, every length of a read or a write and every *)
(* number of them.                                                         *)
(*                                                                         *)
(* A byte accepted is in one of three places, and they come one after the  *)
(* other: received, in the buffer of the blocked read, in the ring         *)
(* (Numbered).  A read blocks only once the ring is empty (Blocked), so    *)
(* what a write puts into its buffer does not overtake the ring; and the   *)
(* ring is never filled to its last byte, so that two positions of it in   *)
(* use never meet.                                                         *)
(*                                                                         *)
(* No driver waits for an interrupt that is active, for any number of      *)
(* CPUs, lines and drivers.                                                *)
(*                                                                         *)
(* NobodyWaitsOnActive speaks of the moments at which nobody is inside the *)
(* kernel and is not inductive.  In between, a read of an active line may  *)
(* be pending as long as somebody is on the way to it: its own driver,     *)
(* which has added it and has yet to look at the flag, or the handler,     *)
(* which has raised the flag and has yet to come to it.  The handler comes *)
(* to every reader because readers are listeners, and when it found the    *)
(* flag raised it need not come, because then all of them are on the way.  *)
(*                                                                         *)
(* The parent of a child that has ended hears of it, for any number of     *)
(* CPUs and reads, and on one CPU each read is completed once.             *)
(*                                                                         *)
(* ExitIsReported speaks of the moments at which nobody is inside the      *)
(* kernel.  In between, a read may be pending after the exit code was      *)
(* stored as long as somebody is on the way to it: the parent, which has   *)
(* added it and has yet to look at the code, or one who ends the child and *)
(* has yet to list the reads or to come to this one (Reached).  That a     *)
(* code is stored at all needs the handle to be there when the child ends, *)
(* which holds unless a kernel task ends early on another CPU (Announced). *)
(***************************************************************************)
EXTENDS Pipe, Providers, FiniteSetTheorems, TLAPS

-----------------------------------------------------------------------------
(* Pipes *)

Ends == {"reader", "writer"}

PipeTypes ==
    /\ pipePc \in [Ends -> {"out", "locked"}]
    /\ DOMAIN pipeArg = Ends
    /\ write_head \in Nat /\ write_tail \in Nat
    /\ write_tail <= write_head /\ write_head - write_tail < BufferSize
    /\ pipe_buffer \in [0..BufferSize - 1 -> Nat]
    /\ read_len \in Nat /\ read_progress \in Nat
    /\ read_callback \in BOOLEAN /\ writerOpen \in BOOLEAN
    /\ read_buffer \in Seq(Nat) /\ received \in Seq(Nat)

\* One end at a time is in the driver, and what it loaded before the lock is still so.
Fresh ==
    /\ pipePc["reader"] = "out" \/ pipePc["writer"] = "out"
    /\ pipePc["reader"] = "locked" =>
          /\ ~read_callback
          /\ pipeArg["reader"].len \in Nat /\ pipeArg["reader"].blocking \in BOOLEAN
          /\ pipeArg["reader"].head = write_head /\ pipeArg["reader"].tail = write_tail
    /\ pipePc["writer"] = "locked" =>
          /\ pipeArg["writer"].len \in Nat
          /\ pipeArg["writer"].head = write_head /\ pipeArg["writer"].tail = write_tail
          /\ pipeArg["writer"].progress = read_progress /\ pipeArg["writer"].rlen = read_len

\* A read is blocked on an empty ring and short of bytes, and otherwise none is under way.
Blocked ==
    IF read_callback
    THEN read_progress = Len(read_buffer) /\ read_progress < read_len /\ write_head = write_tail
    ELSE read_buffer = <<>> /\ read_progress >= read_len

\* Where the bytes are.
Numbered ==
    /\ \A i \in 1..Len(received) : received[i] = i
    /\ \A i \in 1..Len(read_buffer) : read_buffer[i] = Len(received) + i
    /\ \A k \in 1..(write_head - write_tail) :
          pipe_buffer[(write_tail + k - 1) % BufferSize] = Len(received) + Len(read_buffer) + k

PipeInv ==
    Uniprocessor => /\ PipeTypes /\ Fresh /\ Blocked /\ Numbered
                    /\ lastRead.reported = lastRead.given

-----------------------------------------------------------------------------
(* Positions in a ring *)

\* A remainder is below the size.
LEMMA ModRange ==
    ASSUME NEW B \in Nat \ {0}, NEW a \in Nat
    PROVE  a % B \in 0..B - 1
  OBVIOUS

\* What is below the size is its own remainder.
LEMMA ModSmall ==
    ASSUME NEW B \in Nat \ {0}, NEW a \in Nat, a < B
    PROVE  a % B = a
  OBVIOUS

\* Two positions less than the size apart do not meet.
LEMMA ModApart ==
    ASSUME NEW B \in Nat \ {0}, NEW a \in Nat, NEW b \in Nat, a < b, b - a < B
    PROVE  a % B # b % B
  <1> DEFINE p == a \div B
             q == b \div B
  <1>1. /\ p \in Int /\ q \in Int /\ a % B \in Int /\ b % B \in Int
        /\ a = B * p + (a % B) /\ b = B * q + (b % B)
    <2>1. p \in Int /\ q \in Int
      OBVIOUS
    <2>2. a % B \in Int /\ b % B \in Int
      OBVIOUS
    <2>3. a = B * p + (a % B)
      OBVIOUS
    <2>4. b = B * q + (b % B)
      OBVIOUS
    <2> QED  BY <2>1, <2>2, <2>3, <2>4, Zenon
  <1> HIDE DEF p, q
  <1>2. ASSUME a % B = b % B PROVE FALSE
    <2>1. b - a = B * (q - p)
      BY <1>1, <1>2
    <2>2. CASE q - p <= 0
      BY <1>1, <2>1, <2>2
    <2>3. CASE q - p >= 1
      BY <1>1, <2>1, <2>3
    <2> QED  BY <1>1, <2>2, <2>3
  <1> QED  BY <1>2, Zenon

\* Numbers that follow one another, in two sequences one after the other.
Run(seq, base) == \A i \in 1..Len(seq) : seq[i] = base + i

\* A run followed by the run that begins where it ends is a run.
LEMMA RunsJoin ==
    ASSUME NEW s \in Seq(Nat), NEW t \in Seq(Nat), NEW base \in Nat,
           Run(s, base), Run(t, base + Len(s))
    PROVE  s \o t \in Seq(Nat) /\ Len(s \o t) = Len(s) + Len(t) /\ Run(s \o t, base)
  <1>1. s \o t \in Seq(Nat) /\ Len(s \o t) = Len(s) + Len(t) /\ Len(s) \in Nat /\ Len(t) \in Nat
    OBVIOUS
  <1>2. ASSUME NEW i \in 1..Len(s \o t)
        PROVE  (s \o t)[i] = base + i
    <2>1. CASE i <= Len(s)
      BY <1>1, <2>1 DEF Run
    <2>2. CASE i > Len(s)
      <3>1. i - Len(s) \in 1..Len(t) /\ (s \o t)[i] = t[i - Len(s)]
        BY <1>1, <2>2
      <3>2. t[i - Len(s)] = base + Len(s) + (i - Len(s))
        BY <3>1, Zenon DEF Run
      <3> QED  BY <1>1, <3>1, <3>2
    <2> QED  BY <1>1, <2>1, <2>2, SMTT(30)
  <1> QED  BY <1>1, <1>2, Zenon DEF Run

-----------------------------------------------------------------------------

\* With one CPU, an end enters only when the other is out.
LEMMA NobodyInPipe ==
    ASSUME Uniprocessor, PipeTypes, CpuFree(PipeInside)
    PROVE  pipePc["reader"] = "out" /\ pipePc["writer"] = "out"
  <1>1. IsFiniteSet(Ends)
    <2>1. IsFiniteSet({"reader"}) /\ IsFiniteSet({"writer"})
      BY FS_Singleton, Zenon
    <2>2. IsFiniteSet({"reader"} \cup {"writer"})
      BY <2>1, FS_Union, Zenon
    <2>3. Ends = {"reader"} \cup {"writer"}
      BY Zenon DEF Ends
    <2> QED  BY <2>2, <2>3, Zenon
  <1>2. IsFiniteSet(PipeInside)
    BY <1>1, FS_Subset, Zenon DEF PipeInside, Ends
  <1>3. Cardinality(PipeInside) = 0
    BY <1>2, FS_CardinalityType DEF Uniprocessor, CpuFree
  <1>4. PipeInside = {}
    BY <1>2, <1>3, FS_EmptySet, Zenon
  <1> QED  BY <1>4, Zenon DEF PipeInside

\* An empty pipe is in order.
LEMMA PipeStarts ==
    ASSUME PipeInit
    PROVE  PipeInv
  <1> USE PipeAssumption DEF PipeInit
  <1>1. PipeTypes
    BY DEF PipeTypes, Ends
  <1>2. Fresh /\ Blocked /\ Numbered
    BY DEF Fresh, Blocked, Numbered
  <1> QED  BY <1>1, <1>2, Zenon DEF PipeInv

\* An end that enters loads what the pipe holds.
LEMMA EnterKeeps ==
    ASSUME PipeInv, Uniprocessor, BeginRead \/ BeginWrite
    PROVE  PipeInv'
  <1> USE PipeAssumption
  <1>0. PipeTypes /\ Blocked /\ Numbered /\ lastRead.reported = lastRead.given
    BY Zenon DEF PipeInv
  <1>1. CpuFree(PipeInside)
    BY Zenon DEF BeginRead, BeginWrite, PipeEnter
  <1>2. pipePc["reader"] = "out" /\ pipePc["writer"] = "out"
    BY <1>0, <1>1, NobodyInPipe, Zenon
  <1>3. UNCHANGED <<write_head, write_tail, pipe_buffer, read_len, read_progress,
                    read_callback, read_buffer, received, lastRead>>
    BY Zenon DEF BeginRead, BeginWrite, PipeEnter
  <1>4. PipeTypes' /\ Fresh'
    <2>1. CASE BeginRead
      <3>1. PICK n \in Nat : PipeEnter("reader", [len |-> n, head |-> write_head,
                                                  tail |-> write_tail, blocking |-> writerOpen])
        BY <2>1, Zenon DEF BeginRead
      <3>2. PipeTypes'
        BY <1>0, <1>3, <3>1, Zenon DEF PipeEnter, PipeTypes, Ends
      <3> DEFINE arg == [len |-> n, head |-> write_head, tail |-> write_tail,
                         blocking |-> writerOpen]
      <3>3. /\ pipeArg' = [pipeArg EXCEPT !["reader"] = arg]
            /\ pipePc' = [pipePc EXCEPT !["reader"] = "locked"]
        BY <3>1, Zenon DEF PipeEnter
      <3>4. /\ arg.len = n /\ arg.head = write_head /\ arg.tail = write_tail
            /\ arg.blocking = writerOpen
        BY Zenon
      <3> HIDE DEF arg
      <3>5. pipeArg'["reader"] = arg /\ pipePc'["writer"] = "out"
        BY <1>0, <1>2, <3>3, Zenon DEF PipeTypes, Ends
      <3>6. Fresh'
        BY <1>0, <1>3, <2>1, <3>4, <3>5, ZenonT(60) DEF Fresh, BeginRead, PipeTypes
      <3> QED  BY <3>2, <3>6, Zenon
    <2>2. CASE BeginWrite
      <3>1. PICK n \in Nat : PipeEnter("writer", [len |-> n, head |-> write_head,
                                                  tail |-> write_tail,
                                                  progress |-> read_progress, rlen |-> read_len])
        BY <2>2, Zenon DEF BeginWrite
      <3>2. PipeTypes'
        BY <1>0, <1>3, <3>1, Zenon DEF PipeEnter, PipeTypes, Ends
      <3> DEFINE arg == [len |-> n, head |-> write_head, tail |-> write_tail,
                         progress |-> read_progress, rlen |-> read_len]
      <3>3. /\ pipeArg' = [pipeArg EXCEPT !["writer"] = arg]
            /\ pipePc' = [pipePc EXCEPT !["writer"] = "locked"]
        BY <3>1, Zenon DEF PipeEnter
      <3>4. /\ arg.len = n /\ arg.head = write_head /\ arg.tail = write_tail
            /\ arg.progress = read_progress /\ arg.rlen = read_len
        BY Zenon
      <3> HIDE DEF arg
      <3>5. pipeArg'["writer"] = arg /\ pipePc'["reader"] = "out"
        BY <1>0, <1>2, <3>3, Zenon DEF PipeTypes, Ends
      <3>6. Fresh'
        BY <1>0, <1>3, <3>4, <3>5, Zenon DEF Fresh, PipeTypes
      <3> QED  BY <3>2, <3>6, Zenon
    <2> QED  BY <2>1, <2>2, Zenon
  <1>5. Blocked' /\ Numbered'
    BY <1>0, <1>3, Zenon DEF Blocked, Numbered
  <1> QED  BY <1>0, <1>3, <1>4, <1>5, Zenon DEF PipeInv

\* A read takes the first bytes of the ring, and blocks only when it took them all.
LEMMA PipeReadKeeps ==
    ASSUME PipeInv, Uniprocessor, PipeRead
    PROVE  PipeInv'
  <1> USE PipeAssumption
  <1>0. PipeTypes /\ Fresh /\ Blocked /\ Numbered /\ lastRead.reported = lastRead.given
    BY Zenon DEF PipeInv
  <1>1. pipePc["reader"] = "locked" /\ pipePc["writer"] = "out" /\ ~read_callback
    BY <1>0, Zenon DEF PipeRead, PipeLeave, Fresh
  <1> DEFINE arg == pipeArg["reader"]
             len == arg.len
             b == arg.blocking
             n == Least(len, write_head - write_tail)
             bytes == Ring(write_tail, n)
  <1>2. len \in Nat /\ b \in BOOLEAN /\ arg.head = write_head /\ arg.tail = write_tail
    BY <1>0, <1>1, Zenon DEF Fresh
  <1>3. /\ PipeLeave("reader") /\ write_tail' = write_tail + n
        /\ IF n < len /\ b
           THEN /\ read_len' = len /\ read_progress' = n
                /\ read_callback' = TRUE
                /\ read_buffer' = bytes
                /\ UNCHANGED <<received, lastRead>>
           ELSE /\ received' = received \o bytes
                /\ lastRead' = [reported |-> n, given |-> n]
                /\ UNCHANGED <<read_len, read_progress, read_callback, read_buffer>>
        /\ UNCHANGED <<write_head, pipe_buffer>>
    BY <1>2, Zenon DEF PipeRead
  <1> HIDE DEF arg, len, b
  <1>4. n \in Nat /\ n <= write_head - write_tail /\ (n < len => n = write_head - write_tail)
    BY <1>0, <1>2, SMTT(30) DEF PipeTypes, Least
  <1>5. read_buffer = <<>> /\ read_progress >= read_len
    BY <1>0, <1>1, Zenon DEF Blocked
  <1>6. bytes \in Seq(Nat) /\ Len(bytes) = n /\ \A k \in 1..n : bytes[k] = Len(received) + k
    <2>1. ASSUME NEW k \in 1..n
          PROVE  /\ pipe_buffer[(write_tail + k - 1) % BufferSize] \in Nat
                 /\ pipe_buffer[(write_tail + k - 1) % BufferSize] = Len(received) + k
      <3>1. write_tail + k - 1 \in Nat /\ k \in 1..(write_head - write_tail)
        BY <1>0, <1>4 DEF PipeTypes
      <3>2. (write_tail + k - 1) % BufferSize \in 0..BufferSize - 1
        BY <3>1, ModRange, Zenon
      <3>3. pipe_buffer[(write_tail + k - 1) % BufferSize] = Len(received) + Len(read_buffer) + k
        BY <1>0, <3>1, Zenon DEF Numbered
      <3>4. pipe_buffer[(write_tail + k - 1) % BufferSize] \in Nat
        BY <1>0, <3>2, Zenon DEF PipeTypes
      <3> QED  BY <1>0, <1>5, <3>3, <3>4, SMTT(30) DEF PipeTypes
    <2> HIDE DEF n
    <2>2. bytes \in Seq(Nat) /\ Len(bytes) = n
      BY <1>4, <2>1 DEF Ring
    <2>3. \A k \in 1..n : bytes[k] = pipe_buffer[(write_tail + k - 1) % BufferSize]
      BY Zenon DEF Ring
    <2> HIDE DEF bytes
    <2> QED  BY <2>1, <2>2, <2>3, Zenon
  <1> HIDE DEF n, bytes
  <1>7. PipeTypes'
    <2>1. /\ read_len' \in Nat /\ read_progress' \in Nat /\ read_callback' \in BOOLEAN
          /\ read_buffer' \in Seq(Nat) /\ received' \in Seq(Nat)
      <3>1. CASE n < len /\ b
        <4>1. /\ read_len' = len /\ read_progress' = n /\ read_callback' = TRUE
              /\ read_buffer' = bytes /\ received' = received
          BY <1>3, <3>1, Zenon
        <4> QED  BY <1>0, <1>2, <1>4, <1>6, <4>1, Zenon DEF PipeTypes
      <3>2. CASE ~(n < len /\ b)
        <4>1. received \o bytes \in Seq(Nat)
          BY <1>0, <1>6 DEF PipeTypes
        <4> QED  BY <1>0, <1>3, <3>2, <4>1, Zenon DEF PipeTypes
      <3> QED  BY <3>1, <3>2, Zenon
    <2>2. /\ write_head' \in Nat /\ write_tail' \in Nat
          /\ write_tail' <= write_head' /\ write_head' - write_tail' < BufferSize
      BY <1>0, <1>3, <1>4 DEF PipeTypes
    <2>3. pipePc' \in [Ends -> {"out", "locked"}] /\ DOMAIN pipeArg' = Ends
      BY <1>0, <1>3, Zenon DEF PipeTypes, PipeLeave, Ends
    <2> QED  BY <1>0, <1>3, <2>1, <2>2, <2>3, Zenon DEF PipeTypes, PipeLeave
  <1>8. Fresh'
    BY <1>0, <1>1, <1>3, Zenon DEF PipeTypes, PipeLeave, Fresh, Ends
  <1>9. Blocked' /\ lastRead'.reported = lastRead'.given
    <2>1. CASE n < len /\ b
      BY <1>0, <1>3, <1>4, <1>6, <2>1, SMTT(30) DEF PipeTypes, Blocked
    <2>2. CASE ~(n < len /\ b)
      BY <1>0, <1>1, <1>3, <1>5, <2>2 DEF PipeTypes, Blocked
    <2> QED  BY <2>1, <2>2, Zenon
  <1>10. Numbered'
    <2>1. CASE n < len /\ b
      <3>1. write_head' - write_tail' = 0
        BY <1>0, <1>3, <1>4, <2>1, SMTT(30) DEF PipeTypes
      <3> QED  BY <1>0, <1>3, <1>6, <2>1, <3>1 DEF Numbered
    <2>2. CASE ~(n < len /\ b)
      <3>1. received' = received \o bytes /\ read_buffer' = <<>>
        BY <1>3, <1>5, <2>2, Zenon
      <3>2. Len(received') = Len(received) + n /\ \A i \in 1..Len(received') : received'[i] = i
        <4>1. /\ received \in Seq(Nat) /\ bytes \in Seq(Nat) /\ 0 \in Nat /\ Run(received, 0)
              /\ Run(bytes, 0 + Len(received))
          BY <1>0, <1>6 DEF PipeTypes, Numbered, Run
        <4>2. Len(received \o bytes) = Len(received) + Len(bytes) /\ Run(received \o bytes, 0)
          BY <4>1, RunsJoin, Zenon
        <4> QED  BY <1>6, <3>1, <4>2 DEF Run
      <3>3. ASSUME NEW k \in 1..(write_head' - write_tail')
            PROVE  pipe_buffer'[(write_tail' + k - 1) % BufferSize] = Len(received) + n + k
        <4>1. /\ n + k \in 1..(write_head - write_tail)
              /\ write_tail' + k - 1 = write_tail + (n + k) - 1
          BY <1>0, <1>3, <1>4 DEF PipeTypes
        <4>2. pipe_buffer[(write_tail + (n + k) - 1) % BufferSize]
                = Len(received) + Len(read_buffer) + (n + k)
          BY <1>0, <4>1, Zenon DEF Numbered
        <4> QED  BY <1>0, <1>3, <1>4, <1>5, <4>1, <4>2, SMTT(30) DEF PipeTypes
      <3>4. Len(read_buffer') = 0 /\ Len(received') + 0 = Len(received) + n
        BY <1>0, <1>4, <3>1, <3>2 DEF PipeTypes
      <3> QED  BY <3>2, <3>3, <3>4 DEF Numbered
    <2> QED  BY <2>1, <2>2, Zenon
  <1> QED  BY <1>7, <1>8, <1>9, <1>10, Zenon DEF PipeInv

\* A write fills the blocked read first, when the ring is empty, and stores the rest in the
\* ring behind what is there.
LEMMA WriteKeeps ==
    ASSUME PipeInv, Uniprocessor, PipeWrite
    PROVE  PipeInv'
  <1> USE PipeAssumption
  <1>0. PipeTypes /\ Fresh /\ Blocked /\ Numbered /\ lastRead.reported = lastRead.given
    BY Zenon DEF PipeInv
  <1>1. pipePc["writer"] = "locked" /\ pipePc["reader"] = "out"
    BY <1>0, Zenon DEF PipeWrite, PipeLeave, Fresh
  <1> DEFINE arg == pipeArg["writer"]
             len == arg.len
             bytes == [k \in 1..len |-> Accepted + k]
             direct == IF arg.rlen > arg.progress THEN Least(arg.rlen - arg.progress, len) ELSE 0
             progress == arg.progress + direct
             stored == Least(len - direct, Room(arg.head, arg.tail))
             filled == read_buffer \o SubSeq(bytes, 1, direct)
             hits(i) == {k \in 1..stored : (arg.head + k - 1) % BufferSize = i}
             done == Filled(arg.rlen, progress) /\ read_callback
             old == write_head - write_tail
  <1>2. /\ len \in Nat /\ arg.head = write_head /\ arg.tail = write_tail
        /\ arg.progress = read_progress /\ arg.rlen = read_len
    BY <1>0, <1>1, Zenon DEF Fresh
  <1>3. /\ PipeLeave("writer")
        /\ read_progress' = IF arg.rlen > 0 THEN progress ELSE read_progress
        /\ IF done
           THEN /\ read_callback' = FALSE
                /\ received' = received \o filled
                /\ read_buffer' = <<>>
                /\ lastRead' = [reported |-> arg.rlen, given |-> Len(filled)]
           ELSE /\ read_buffer' = filled
                /\ UNCHANGED <<read_callback, received, lastRead>>
        /\ pipe_buffer' = [i \in 0..BufferSize - 1 |->
              IF hits(i) = {} THEN pipe_buffer[i] ELSE bytes[direct + CHOOSE k \in hits(i) : TRUE]]
        /\ write_head' = arg.head + stored
        /\ UNCHANGED <<write_tail, read_len>>
    BY Zenon DEF PipeWrite
  <1> HIDE DEF arg, len
  <1>4. /\ direct \in Nat /\ direct <= len
        /\ ~read_callback => direct = 0
        /\ read_callback => /\ progress <= read_len /\ progress = Len(read_buffer) + direct
                            /\ old = 0 /\ read_len > 0
                            /\ progress < read_len => direct = len
    <2>1. read_len \in Nat /\ read_progress \in Nat
      BY <1>0, Zenon DEF PipeTypes
    <2>2. CASE read_callback
      <3>1. read_progress = Len(read_buffer) /\ read_progress < read_len /\ write_head = write_tail
        BY <1>0, <2>2, Zenon DEF Blocked
      <3>2. direct = Least(read_len - read_progress, len)
        BY <1>2, <3>1, Zenon
      <3> QED  BY <1>0, <1>2, <2>1, <2>2, <3>1, <3>2, SMTT(30) DEF Least, PipeTypes
    <2>3. CASE ~read_callback
      <3>1. read_progress >= read_len
        BY <1>0, <2>3, Zenon DEF Blocked
      <3>2. direct = 0
        BY <1>2, <2>1, <3>1, SMTT(30)
      <3> QED  BY <1>2, <2>3, <3>2
    <2> QED  BY <2>2, <2>3, Zenon
  <1> HIDE DEF direct
  <1>5. /\ old \in Nat /\ stored \in Nat /\ stored <= len - direct /\ old + stored < BufferSize
        /\ direct = len => stored = 0
    <2>1. old \in Nat /\ old < BufferSize
      BY <1>0, SMTT(30) DEF PipeTypes
    <2>2. old % BufferSize = old
      BY <2>1, ModSmall, Zenon
    <2>3. Room(arg.head, arg.tail) = BufferSize - 1 - old
      BY <1>2, <2>2, Zenon DEF Room
    <2> HIDE DEF old
    <2> QED  BY <1>2, <1>4, <2>1, <2>3, SMTT(30) DEF Least
  <1> HIDE DEF stored
  <1>6. /\ bytes \in Seq(Nat) /\ Len(bytes) = len
        /\ \A k \in 1..len : bytes[k] = Len(received) + Len(read_buffer) + old + k
    BY <1>0, <1>2 DEF PipeTypes, Accepted
  <1> HIDE DEF bytes, old
  <1>7. filled \in Seq(Nat) /\ Len(filled) = Len(read_buffer) + direct /\ Run(filled, Len(received))
    <2> DEFINE first == SubSeq(bytes, 1, direct)
    <2>1. first \in Seq(Nat) /\ Len(first) = direct /\ \A k \in 1..direct : first[k] = bytes[k]
      BY <1>2, <1>4, <1>6, SMTT(30)
    <2> HIDE DEF first
    <2>2. Run(first, Len(received) + Len(read_buffer))
      BY <1>0, <1>2, <1>4, <1>6, <2>1, SMTT(30) DEF Run, PipeTypes
    <2>3. Run(read_buffer, Len(received)) /\ Len(received) \in Nat
      BY <1>0 DEF Run, Numbered, PipeTypes
    <2>4. /\ read_buffer \o first \in Seq(Nat)
          /\ Len(read_buffer \o first) = Len(read_buffer) + Len(first)
          /\ Run(read_buffer \o first, Len(received))
      BY <1>0, <2>1, <2>2, <2>3, RunsJoin, Zenon DEF PipeTypes
    <2> QED  BY <2>1, <2>4, Zenon DEF first
  <1> HIDE DEF filled
  <1>8. /\ received' \in Seq(Nat) /\ read_buffer' \in Seq(Nat)
        /\ Len(received') + Len(read_buffer') = Len(received) + Len(read_buffer) + direct
        /\ Run(received', 0) /\ Run(read_buffer', Len(received'))
        /\ lastRead'.reported = lastRead'.given
    <2>1. Run(received, 0) /\ Len(received) \in Nat /\ Len(read_buffer) \in Nat
      BY <1>0 DEF Run, Numbered, PipeTypes
    <2>2. CASE done
      <3>1. received' = received \o filled /\ read_buffer' = <<>>
            /\ lastRead' = [reported |-> arg.rlen, given |-> Len(filled)]
        BY <1>3, <2>2, Zenon
      <3>2. received \o filled \in Seq(Nat) /\ Len(received \o filled) = Len(received) + Len(filled)
            /\ Run(received \o filled, 0)
        <4>1. Run(filled, 0 + Len(received))
          BY <1>7, <2>1
        <4> QED  BY <1>0, <1>7, <2>1, <4>1, RunsJoin, Zenon DEF PipeTypes
      <3>3. Len(filled) = read_len
        BY <1>0, <1>2, <1>4, <1>7, <2>2, SMTT(30) DEF PipeTypes, Filled
      <3>4. Len(read_buffer') = 0 /\ read_buffer' \in Seq(Nat) /\ Run(read_buffer', Len(received'))
        BY <3>1 DEF Run
      <3>5. Len(received') + Len(read_buffer') = Len(received) + Len(read_buffer) + direct
        BY <1>4, <1>7, <2>1, <3>1, <3>2, <3>4, SMTT(30)
      <3>6. lastRead'.reported = lastRead'.given
        BY <1>2, <3>1, <3>3, Zenon
      <3> QED  BY <3>1, <3>2, <3>4, <3>5, <3>6, Zenon
    <2>3. CASE ~done
      <3>1. received' = received /\ read_buffer' = filled /\ lastRead' = lastRead
        BY <1>3, <2>3, Zenon
      <3>2. Len(received') + Len(read_buffer') = Len(received) + Len(read_buffer) + direct
        BY <1>4, <1>7, <2>1, <3>1, SMTT(30)
      <3> QED  BY <1>0, <1>7, <2>1, <3>1, <3>2, Zenon DEF PipeTypes
    <2> QED  BY <2>2, <2>3, Zenon
  <1>9. ASSUME NEW k \in 1..(write_head' - write_tail')
        PROVE  pipe_buffer'[(write_tail' + k - 1) % BufferSize]
                 = Len(received) + Len(read_buffer) + direct + k
    <2> DEFINE i == (write_tail + k - 1) % BufferSize
    <2>1. /\ k \in 1..(old + stored) /\ write_tail + k - 1 \in Nat /\ write_tail' = write_tail
          /\ write_head = write_tail + old
      BY <1>0, <1>2, <1>3, <1>5, SMTT(30) DEF PipeTypes, old
    <2>2. i \in 0..BufferSize - 1
      BY <2>1, ModRange, Zenon
    <2>3. pipe_buffer'[i] = IF hits(i) = {} THEN pipe_buffer[i]
                            ELSE bytes[direct + CHOOSE j \in hits(i) : TRUE]
      BY <1>3, <2>2, Zenon
    <2>4. CASE k <= old
      <3>1. ASSUME NEW j \in 1..stored PROVE (write_head + j - 1) % BufferSize # i
        <4>1. /\ write_head + j - 1 \in Nat /\ write_tail + k - 1 < write_head + j - 1
              /\ (write_head + j - 1) - (write_tail + k - 1) < BufferSize
          BY <1>0, <1>5, <2>1, <2>4 DEF PipeTypes
        <4> QED  BY <2>1, <4>1, ModApart, Zenon
      <3>2. hits(i) = {}
        BY <1>2, <3>1, Zenon
      <3>3. pipe_buffer[i] = Len(received) + Len(read_buffer) + k
        BY <1>0, <2>1, <2>4 DEF Numbered, old
      <3>4. direct = 0
        BY <1>4, <2>1, <2>4, SMTT(30)
      <3> HIDE DEF i
      <3> QED  BY <1>0, <2>1, <2>3, <3>2, <3>3, <3>4, SMTT(30) DEF PipeTypes, i
    <2>5. CASE k > old
      <3> DEFINE m == k - old
      <3>1. /\ m \in 1..stored /\ write_head + m - 1 = write_tail + k - 1
            /\ direct + m \in 1..len
        <4>1. write_tail \in Nat /\ write_head = write_tail + old
          BY <1>0, <2>1, Zenon DEF PipeTypes
        <4> QED  BY <1>2, <1>4, <1>5, <2>1, <2>5, <4>1
      <3>2. ASSUME NEW j \in 1..stored, j # m PROVE (write_head + j - 1) % BufferSize # i
        <4>1. /\ write_head + j - 1 \in Nat /\ write_head + m - 1 \in Nat
              /\ j - m < BufferSize /\ m - j < BufferSize
          BY <1>0, <1>5, <3>1, SMTT(30) DEF PipeTypes
        <4> DEFINE x == write_head + j - 1
                   y == write_head + m - 1
        <4>2. (j < m => x < y /\ y - x < BufferSize) /\ (j > m => y < x /\ x - y < BufferSize)
          <5>1. write_head \in Nat
            BY <1>0, Zenon DEF PipeTypes
          <5> HIDE DEF m
          <5> QED  BY <3>1, <4>1, <5>1
        <4>3. j < m \/ j > m
          BY <3>1, <3>2
        <4>4. i = y % BufferSize
          BY <3>1, Zenon
        <4> HIDE DEF x, y, i
        <4>5. x \in Nat /\ y \in Nat
          BY <4>1, Zenon DEF x, y
        <4>6. x % BufferSize # y % BufferSize
          BY <4>2, <4>3, <4>5, ModApart, Zenon
        <4> QED  BY <4>4, <4>6, Zenon DEF x
      <3> HIDE DEF m
      <3>3. hits(i) = {m}
        BY <1>2, <3>1, <3>2, Zenon
      <3>4. (CHOOSE j \in hits(i) : TRUE) = m
        BY <3>3, Zenon
      <3>5. pipe_buffer'[i] = bytes[direct + m]
        BY <2>3, <3>3, <3>4, Zenon
      <3> HIDE DEF i
      <3>6. pipe_buffer'[i] = Len(received) + Len(read_buffer) + old + (direct + m)
        BY <1>6, <3>1, <3>5, Zenon
      <3> QED  BY <1>0, <1>4, <1>5, <2>1, <3>6, SMTT(30) DEF PipeTypes, m, i
    <2> QED  BY <1>5, <2>1, <2>4, <2>5
  <1>10. pipe_buffer' \in [0..BufferSize - 1 -> Nat]
    <2>1. ASSUME NEW i \in 0..BufferSize - 1
          PROVE  (IF hits(i) = {} THEN pipe_buffer[i]
                  ELSE bytes[direct + CHOOSE j \in hits(i) : TRUE]) \in Nat
      <3>1. CASE hits(i) = {}
        BY <1>0, <3>1, Zenon DEF PipeTypes
      <3>2. CASE hits(i) # {}
        <4> DEFINE m == CHOOSE j \in hits(i) : TRUE
        <4>1. m \in hits(i)
          BY <3>2, Zenon
        <4> HIDE DEF m
        <4>2. direct + m \in 1..Len(bytes)
          BY <1>4, <1>5, <1>6, <4>1
        <4>3. bytes[direct + m] \in Nat
          BY <1>6, <4>2, SMTT(30)
        <4> QED  BY <3>2, <4>3, Zenon DEF m
      <3> QED  BY <3>1, <3>2, Zenon
    <2> QED  BY <1>3, <2>1, Zenon
  <1> HIDE DEF hits
  <1>11. /\ write_head' \in Nat /\ write_tail' \in Nat /\ read_progress' \in Nat
         /\ read_len' \in Nat
         /\ write_tail' <= write_head' /\ write_head' - write_tail' < BufferSize
    BY <1>0, <1>2, <1>3, <1>4, <1>5, SMTT(30) DEF PipeTypes, old
  <1>12. Blocked' /\ read_callback' \in BOOLEAN
    <2>1. CASE done
      BY <1>0, <1>2, <1>3, <1>4, <2>1, Zenon DEF PipeTypes, Blocked, Filled
    <2>2. CASE ~done /\ read_callback
      <3>1. read_progress' = progress /\ progress < read_len /\ read_buffer' = filled
            /\ read_callback' = read_callback /\ read_len' = read_len
        <4>1. read_progress \in Nat /\ read_len \in Nat /\ read_len > 0 /\ progress \in Nat
          BY <1>0, <1>2, <1>4, <2>2, SMTT(30) DEF PipeTypes
        <4>2. ~(progress >= read_len)
          BY <1>2, <2>2, <4>1, Zenon DEF Filled
        <4> HIDE DEF progress, done
        <4> QED  BY <1>2, <1>3, <2>2, <4>1, <4>2, SMTT(30)
      <3>2. write_head' = write_tail'
        BY <1>0, <1>2, <1>3, <1>4, <1>5, <2>2, <3>1 DEF PipeTypes, old
      <3> QED  BY <1>4, <1>7, <2>2, <3>1, <3>2, ZenonT(60) DEF Blocked
    <2>3. CASE ~read_callback
      <3>1. read_buffer' = filled /\ read_callback' = read_callback /\ read_len' = read_len
            /\ read_progress' = read_progress
        BY <1>0, <1>2, <1>3, <1>4, <2>3, SMTT(30) DEF PipeTypes
      <3>2. read_progress >= read_len /\ Len(read_buffer) = 0
        BY <1>0, <2>3 DEF Blocked
      <3>3. filled = <<>>
        <4>1. Len(filled) = 0 /\ filled \in Seq(Nat)
          BY <1>4, <1>7, <2>3, <3>2, SMTT(30)
        <4> QED  BY <4>1
      <3>4. read_callback' = FALSE
        BY <1>0, <2>3, <3>1, Zenon DEF PipeTypes
      <3> QED  BY <3>1, <3>2, <3>3, <3>4, Zenon DEF Blocked
    <2> QED  BY <2>1, <2>2, <2>3, Zenon
  <1>13. pipePc' \in [Ends -> {"out", "locked"}] /\ DOMAIN pipeArg' = Ends /\ Fresh'
    <2>1. /\ pipePc' = [pipePc EXCEPT !["writer"] = "out"]
          /\ pipeArg' = [pipeArg EXCEPT !["writer"] = NoArg]
      BY <1>3, Zenon DEF PipeLeave
    <2> QED  BY <1>0, <1>1, <2>1, Zenon DEF PipeTypes, Fresh, Ends
  <1>14. PipeTypes'
    BY <1>0, <1>3, <1>8, <1>10, <1>11, <1>12, <1>13, Zenon DEF PipeTypes, PipeLeave
  <1>15. Numbered'
    <2>1. Len(received) + Len(read_buffer) + direct = Len(received') + Len(read_buffer')
      BY <1>8, Zenon
    <2>2. \A i \in 1..Len(received') : received'[i] = i
      BY <1>8 DEF Run
    <2>3. \A i \in 1..Len(read_buffer') : read_buffer'[i] = Len(received') + i
      BY <1>8, Zenon DEF Run
    <2> QED  BY <1>9, <2>1, <2>2, <2>3, Zenon DEF Numbered
  <1> QED  BY <1>8, <1>12, <1>13, <1>14, <1>15, Zenon DEF PipeInv

\* Every step of the pipe keeps the invariant.
LEMMA PipeStep ==
    ASSUME PipeInv, [PipeNext]_<<ncpus, pipeVars>>
    PROVE  PipeInv'
  <1>1. ncpus' = ncpus
    BY Zenon DEF PipeNext, BeginRead, BeginWrite, PipeEnter, PipeRead, PipeWrite, PipeLeave,
           CloseWriter, CloseReader
  <1>2. CASE ~Uniprocessor
    BY <1>1, <1>2, Zenon DEF PipeInv, Uniprocessor
  <1>3. CASE Uniprocessor
    <2>1. CASE BeginRead \/ BeginWrite
      BY <1>3, <2>1, EnterKeeps, Zenon
    <2>2. CASE PipeRead
      BY <1>3, <2>2, PipeReadKeeps, Zenon
    <2>3. CASE PipeWrite
      BY <1>3, <2>3, WriteKeeps, Zenon
    <2>4. CASE CloseWriter \/ CloseReader \/ UNCHANGED <<ncpus, pipeVars>>
      <3>1. UNCHANGED <<pipePc, pipeArg, write_head, write_tail, pipe_buffer, read_len,
                        read_progress, read_callback, read_buffer, received, lastRead>>
        BY <2>4, Zenon DEF CloseWriter, CloseReader, pipeVars
      <3>2. PipeInv => writerOpen' \in BOOLEAN
        BY <1>3, <2>4, Zenon DEF CloseWriter, CloseReader, pipeVars, PipeInv, PipeTypes
      <3> QED  BY <1>1, <1>3, <3>1, <3>2, Zenon
               DEF PipeInv, Uniprocessor, PipeTypes, Fresh, Blocked, Numbered
    <2> QED  BY <2>1, <2>2, <2>3, <2>4, Zenon DEF PipeNext
  <1> QED  BY <1>2, <1>3, Zenon

\* With one processor, PipeDriver delivers the bytes in the order they were written, without
\* a gap or a repetition, and a read reports as many bytes as it was given, for every size
\* of the ring and all lengths of reads and writes.
THEOREM BytesArriveInOrder ==
    PipeSpec => []BytesInOrder
  <1>1. PipeInit => PipeInv
    BY PipeStarts, Zenon
  <1>2. PipeInv /\ [PipeNext]_<<ncpus, pipeVars>> => PipeInv'
    BY PipeStep, Zenon
  <1>3. PipeInv => BytesInOrder
    <2> SUFFICES ASSUME PipeInv, Uniprocessor PROVE BytesInOrder
      BY Zenon DEF BytesInOrder
    <2>0. PipeTypes /\ Numbered /\ lastRead.reported = lastRead.given
      BY Zenon DEF PipeInv
    <2> DEFINE ring == Ring(write_tail, write_head - write_tail)
               base == Len(received) + Len(read_buffer)
    <2>1. ring \in Seq(Nat) /\ Run(ring, base)
      <3> DEFINE n == write_head - write_tail
      <3>1. n \in Nat
        BY <2>0 DEF PipeTypes
      <3>2. ASSUME NEW k \in 1..n
            PROVE  /\ pipe_buffer[(write_tail + k - 1) % BufferSize] \in Nat
                   /\ pipe_buffer[(write_tail + k - 1) % BufferSize] = base + k
        <4>1. pipe_buffer[(write_tail + k - 1) % BufferSize] = base + k
          BY <2>0, Zenon DEF Numbered
        <4> QED  BY <2>0, <3>1, <4>1, SMTT(30) DEF PipeTypes
      <3> HIDE DEF n, base
      <3>3. ring \in Seq(Nat) /\ Len(ring) = n
            /\ \A k \in 1..n : ring[k] = pipe_buffer[(write_tail + k - 1) % BufferSize]
        BY <3>1, <3>2 DEF Ring, n
      <3> HIDE DEF ring
      <3> QED  BY <3>2, <3>3, Zenon DEF Run
    <2> HIDE DEF ring
    <2> DEFINE got == received \o read_buffer
    <2>2. got \in Seq(Nat) /\ Len(got) = base /\ Run(got, 0)
      <3>1. Run(received, 0) /\ Run(read_buffer, 0 + Len(received))
        BY <2>0 DEF Numbered, PipeTypes, Run
      <3> QED  BY <2>0, <3>1, RunsJoin, Zenon DEF PipeTypes
    <2> HIDE DEF got
    <2>3. Run(got \o ring, 0)
      <3>1. Run(ring, 0 + Len(got)) /\ 0 \in Nat
        BY <2>0, <2>1, <2>2 DEF PipeTypes
      <3> QED  BY <2>1, <2>2, <3>1, RunsJoin, Zenon
    <2>4. ASSUME NEW i \in 1..Len(got \o ring) PROVE (got \o ring)[i] = i
      BY <2>3 DEF Run
    <2> QED  BY <2>0, <2>4, Zenon DEF BytesInOrder, got, ring
  <1> QED  BY <1>1, <1>2, <1>3, PTL DEF PipeSpec

-----------------------------------------------------------------------------
(* Interrupts *)

IrqTypes ==
    /\ DOMAIN irqPc = IrqActors
    /\ listeners \subseteq Drivers
    /\ reading \subseteq listeners

\* Somebody will complete the read of d.
OnTheWay(d) ==
    \/ irqPc[d] = "run"
    \/ irqPc["handler"] = "notify" /\ d \in toNotify

IrqInv ==
    /\ IrqTypes
    /\ \A d \in reading : LineOf[d] \in active => OnTheWay(d)

-----------------------------------------------------------------------------

\* A step of an actor changes where that actor is, and nobody else.
LEMMA OthersStay ==
    ASSUME IrqTypes, NEW a \in IrqActors, NEW point, IrqGoto(a, point)
    PROVE  /\ DOMAIN irqPc' = IrqActors
           /\ irqPc'[a] = point
           /\ \A b \in IrqActors \ {a} : irqPc'[b] = irqPc[b]
  BY Zenon DEF IrqTypes, IrqGoto

\* Drivers and the handler are different actors.
LEMMA Actors ==
    /\ Drivers \subseteq IrqActors /\ "handler" \in IrqActors
    /\ \A d \in Drivers : d # "handler"
  BY IrqAssumption, Zenon DEF IrqActors

-----------------------------------------------------------------------------
(* The handler *)

\* _handle_pic_interrupt starts: whether it serves the line or lets it pass, no read is
\* touched.
LEMMA InterruptKeeps ==
    ASSUME IrqInv, NEW l \in Lines, Interrupt(l)
    PROVE  IrqInv'
  <1>1. CASE Listening(l) = {} \/ Locked(l)
    BY <1>1, Zenon DEF Interrupt, IrqInv, IrqTypes, OnTheWay
  <1>2. CASE ~(Listening(l) = {} \/ Locked(l))
    <2>1. IrqGoto("handler", "mask") /\ irqPc["handler"] = "out"
      BY <1>2, Zenon DEF Interrupt
    <2>2. UNCHANGED <<listeners, reading, active, toNotify>>
      BY Zenon DEF Interrupt
    <2> QED  BY <2>1, <2>2, OthersStay, Actors, Zenon DEF IrqInv, IrqTypes, OnTheWay
  <1> QED  BY <1>1, <1>2, Zenon

\* Masking the line touches no read.
LEMMA MaskKeeps ==
    ASSUME IrqInv, Mask
    PROVE  IrqInv'
  BY OthersStay, Actors, Zenon DEF Mask, IrqInv, IrqTypes, OnTheWay

\* Either the flag was raised before, and every reader of the line is on its
\* way, or every reader of the line is a listener that will be notified.
LEMMA RaiseActiveKeeps ==
    ASSUME IrqInv, RaiseActive
    PROVE  IrqInv'
  <1>1. IrqGoto("handler", "notify") /\ irqPc["handler"] = "raise"
    BY Zenon DEF RaiseActive
  <1>2. /\ active' = active \cup {serving}
        /\ toNotify' = IF serving \in active THEN {} ELSE Listening(serving)
        /\ UNCHANGED <<listeners, reading>>
    BY Zenon DEF RaiseActive
  <1>3. IrqTypes'
    BY <1>1, <1>2, OthersStay, Actors, Zenon DEF IrqInv, IrqTypes
  <1>4. ASSUME NEW d \in reading', LineOf[d] \in active'
        PROVE  OnTheWay(d)'
    <2>1. d \in reading /\ d \in listeners /\ d \in Drivers
      BY <1>2, Zenon DEF IrqInv, IrqTypes
    <2>2. irqPc'[d] = irqPc[d] /\ irqPc'["handler"] = "notify"
      BY <1>1, <2>1, OthersStay, Actors, Zenon DEF IrqInv
    <2>3. CASE LineOf[d] \in active
      BY <1>1, <2>1, <2>2, <2>3, Zenon DEF IrqInv, OnTheWay
    <2>4. CASE LineOf[d] \notin active
      <3>1. LineOf[d] = serving /\ d \in Listening(serving)
        BY <1>2, <1>4, <2>1, <2>4, Zenon DEF Listening
      <3> QED  BY <1>2, <2>2, <2>4, <3>1, Zenon DEF OnTheWay
    <2> QED  BY <2>3, <2>4, Zenon
  <1> QED  BY <1>3, <1>4, Zenon DEF IrqInv

\* interrupt_fired completes the read of the listener it takes off its list, and the
\* handler leaves when the list is empty.
LEMMA NotifyKeeps ==
    ASSUME IrqInv, Notify
    PROVE  IrqInv'
  <1>1. CASE toNotify = {}
    <2>1. IrqGoto("handler", "out") /\ UNCHANGED <<toNotify, reading, listeners, active>>
      BY <1>1, Zenon DEF Notify
    <2> QED  BY <1>1, <2>1, OthersStay, Actors DEF IrqInv, IrqTypes, OnTheWay
  <1>2. CASE toNotify # {}
    <2>1. PICK e \in toNotify : /\ toNotify' = toNotify \ {e}
                                /\ reading' = reading \ {e}
                                /\ IrqGoto("handler", "notify")
      BY <1>2, Zenon DEF Notify
    <2>2. UNCHANGED <<listeners, active>>
      BY Zenon DEF Notify
    <2> QED  BY <2>1, <2>2, OthersStay, Actors DEF IrqInv, IrqTypes, OnTheWay
  <1> QED  BY <1>1, <1>2, Zenon

-----------------------------------------------------------------------------
(* A driver *)

\* A driver that opens its line has no read yet.
LEMMA OpenKeeps ==
    ASSUME IrqInv, NEW d \in Drivers, OpenIrq(d) \/ InsertListener(d)
    PROVE  IrqInv'
  <1>1. CASE OpenIrq(d)
    BY <1>1, OthersStay, Actors, SMTT(30) DEF OpenIrq, IrqInv, IrqTypes, OnTheWay
  <1>2. CASE InsertListener(d)
    BY <1>2, OthersStay, Actors, SMTT(30) DEF InsertListener, IrqInv, IrqTypes, OnTheWay
  <1> QED  BY <1>1, <1>2, Zenon

\* A read that is added is on its way to the flag.
LEMMA ReadKeeps ==
    ASSUME IrqInv, NEW d \in Drivers, ReadIrq(d)
    PROVE  IrqInv'
  BY OthersStay, Actors DEF ReadIrq, IrqInv, IrqTypes, OnTheWay

\* The driver leaves the read pending only when the flag is down.
LEMMA IrqRunKeeps ==
    ASSUME IrqInv, NEW d \in Drivers, RunIrqRead(d)
    PROVE  IrqInv'
  <1>1. CASE LineOf[d] \in active
    BY <1>1, OthersStay, Actors, SMTT(30) DEF RunIrqRead, IrqInv, IrqTypes, OnTheWay
  <1>2. CASE LineOf[d] \notin active
    BY <1>2, OthersStay, Actors DEF RunIrqRead, IrqInv, IrqTypes, OnTheWay
  <1> QED  BY <1>1, <1>2, Zenon

\* Acknowledging takes the flag down, and then touches the mask only.
LEMMA AcknowledgeKeeps ==
    ASSUME IrqInv, NEW d \in Drivers, Acknowledge(d) \/ ReadMask(d) \/ Unmask(d)
    PROVE  IrqInv'
  <1>1. CASE Acknowledge(d)
    BY <1>1, OthersStay, Actors, SMTT(30) DEF Acknowledge, IrqInv, IrqTypes, OnTheWay
  <1>2. CASE ReadMask(d)
    BY <1>2, OthersStay, Actors, SMTT(30) DEF ReadMask, IrqInv, IrqTypes, OnTheWay
  <1>3. CASE Unmask(d)
    BY <1>3, OthersStay, Actors DEF Unmask, IrqInv, IrqTypes, OnTheWay
  <1> QED  BY <1>1, <1>2, <1>3, Zenon

-----------------------------------------------------------------------------

\* On any number of CPUs, with any lines and drivers: once nobody is inside the
\* kernel, no read is pending on a line whose interrupt is active.
THEOREM NoInterruptMissed == IrqSpec => []NobodyWaitsOnActive
  <1>1. IrqInit => IrqInv
    BY Zenon DEF IrqInit, IrqInv, IrqTypes
  <1>2. IrqInv /\ [IrqNext]_<<ncpus, irqVars>> => IrqInv'
    <2> SUFFICES ASSUME IrqInv, [IrqNext]_<<ncpus, irqVars>>
                 PROVE  IrqInv'
      BY Zenon
    <2>1. CASE \E l \in Lines : RaiseLine(l)
      BY <2>1, Zenon DEF RaiseLine, IrqInv, IrqTypes, OnTheWay
    <2>2. CASE \E l \in Lines : Interrupt(l)
      BY <2>2, InterruptKeeps, Zenon
    <2>3. CASE Mask \/ RaiseActive \/ Notify
      BY <2>3, MaskKeeps, RaiseActiveKeeps, NotifyKeeps, Zenon
    <2>4. CASE \E d \in Drivers : OpenIrq(d) \/ InsertListener(d) \/ ReadIrq(d) \/ RunIrqRead(d)
      BY <2>4, OpenKeeps, ReadKeeps, IrqRunKeeps, Zenon
    <2>5. CASE \E d \in Drivers : Acknowledge(d) \/ ReadMask(d) \/ Unmask(d)
      BY <2>5, AcknowledgeKeeps, Zenon
    <2>6. CASE UNCHANGED <<ncpus, irqVars>>
      BY <2>6, Zenon DEF irqVars, IrqInv, IrqTypes, OnTheWay
    <2> QED  BY <2>1, <2>2, <2>3, <2>4, <2>5, <2>6, Zenon DEF IrqNext
  <1>3. IrqInv => NobodyWaitsOnActive
    <2> SUFFICES ASSUME IrqInv, IrqInside = {}, NEW d \in reading, LineOf[d] \in active
                 PROVE  FALSE
      BY Zenon DEF NobodyWaitsOnActive
    <2>1. d \in IrqActors /\ "handler" \in IrqActors
      BY Actors, Zenon DEF IrqInv, IrqTypes
    <2>2. irqPc[d] = "out" /\ irqPc["handler"] = "out"
      BY <2>1, Zenon DEF IrqInside
    <2> QED  BY <2>2, Zenon DEF IrqInv, OnTheWay
  <1> QED  BY <1>1, <1>2, <1>3, PTL DEF IrqSpec

-----------------------------------------------------------------------------
(* Child tasks *)

Codes == Killers \cup {None}

ChildTypes ==
    /\ childPc \in [ChildActors -> {"create", "out", "run", "finish", "code", "ids", "complete"}]
    /\ childStatus \in {"created", "running", "terminated", "gone"}
    /\ childIo \in BOOLEAN
    /\ exit_code \in Codes
    /\ childReads \in 0..MaxChildReads
    /\ childOps \subseteq 1..childReads
    /\ snapshot \in [Killers -> SUBSET (1..childReads)]
    /\ DOMAIN answers = 1..MaxChildReads

Ended == childStatus \in {"terminated", "gone"}
Ordered == Uniprocessor \/ ~early

\* The handle is there before the child ends, and who ends it stores a code.
Announced ==
    /\ childPc["parent"] = "create" \/ childIo
    /\ ~early /\ childStatus # "created" => childIo
    /\ Ordered /\ Ended => exit_code # None \/ \E k \in Killers : childPc[k] = "code"

\* Somebody will come to the read i.
Awaited(i) ==
    \/ childPc["parent"] \in {"run", "finish"} /\ i = childReads
    \/ \E k \in Killers : \/ childPc[k] \in {"code", "ids"}
                          \/ childPc[k] = "complete" /\ i \in snapshot[k]

Reached == exit_code # None => \A i \in childOps : Awaited(i)

\* One CPU holds one actor, and what is pending has no answer yet.
OnceOnly ==
    Uniprocessor =>
      /\ \A a, b \in ChildActors : childPc[a] # "out" /\ childPc[b] # "out" => a = b
      /\ childPc["parent"] = "finish" => childReads \in childOps
      /\ \A i \in 1..MaxChildReads :
            /\ i \in childOps \/ i > childReads => answers[i] = <<>>
            /\ Len(answers[i]) <= 1

ChildInv == ChildTypes /\ Announced /\ Reached /\ OnceOnly

-----------------------------------------------------------------------------

\* On one CPU, who enters the kernel finds nobody in it.
LEMMA OneInside ==
    ASSUME Uniprocessor, CpuFree(ChildInside)
    PROVE  \A a \in ChildActors : childPc[a] = "out"
  <1>1. IsFiniteSet(ChildActors)
    <2>1. ChildActors = {"self", "console", "parent"}
      BY Zenon DEF ChildActors, Killers
    <2>2. IsFiniteSet({} \cup {"self"})
      BY FS_EmptySet, FS_AddElement, Zenon
    <2>3. IsFiniteSet(({} \cup {"self"}) \cup {"console"})
      BY <2>2, FS_AddElement, Zenon
    <2>4. IsFiniteSet((({} \cup {"self"}) \cup {"console"}) \cup {"parent"})
      BY <2>3, FS_AddElement, Zenon
    <2>5. ChildActors = (({} \cup {"self"}) \cup {"console"}) \cup {"parent"}
      BY <2>1, Zenon
    <2> QED  BY <2>4, <2>5, Zenon
  <1>2. IsFiniteSet(ChildInside)
    BY <1>1, FS_Subset, Zenon DEF ChildInside
  <1>3. Cardinality(ChildInside) \in Nat /\ Cardinality(ChildInside) < 1
    BY <1>2, FS_CardinalityType, Zenon DEF CpuFree, Uniprocessor
  <1>4. ChildInside = {}
    BY <1>2, <1>3, FS_EmptySet
  <1> QED  BY <1>4, Zenon DEF ChildInside

\* The actors are three.
LEMMA ChildParties ==
    /\ "parent" \in ChildActors /\ "parent" \notin Killers
    /\ Killers \subseteq ChildActors
    /\ None \notin Killers
  BY ChildAssumption, Zenon DEF ChildActors, Killers

-----------------------------------------------------------------------------
(* Creating the child and removing it *)

\* The handle comes, and nobody has looked for it on this CPU.
LEMMA InsertKeeps ==
    ASSUME ChildInv, InsertChild
    PROVE  ChildInv'
  <1> USE ChildParties DEF InsertChild, ChildGoto
  <1>1. ChildTypes'
    BY Zenon DEF ChildInv, ChildTypes
  <1>2. Announced'
    BY Zenon DEF ChildInv, ChildTypes, Announced, Ended, Ordered, Uniprocessor
  <1>3. Reached'
    BY Zenon DEF ChildInv, ChildTypes, Reached, Awaited
  <1>4. OnceOnly'
    BY Zenon DEF ChildInv, ChildTypes, OnceOnly, Uniprocessor
  <1> QED  BY <1>1, <1>2, <1>3, <1>4, Zenon DEF ChildInv

\* Starting and removing the child touch its state only.
LEMMA StatusKeeps ==
    ASSUME ChildInv, StartChild \/ RemoveChild
    PROVE  ChildInv'
  <1> USE DEF StartChild, RemoveChild
  <1>1. ChildTypes'
    BY Zenon DEF ChildInv, ChildTypes
  <1>2. Announced'
    BY Zenon DEF ChildInv, ChildTypes, Announced, Ended, Ordered, Uniprocessor
  <1>3. Reached' /\ OnceOnly'
    BY Zenon DEF ChildInv, Reached, Awaited, OnceOnly, Uniprocessor
  <1> QED  BY <1>1, <1>2, <1>3, Zenon DEF ChildInv

-----------------------------------------------------------------------------
(* A read of the parent *)

\* The read that is added is on its way to the exit code, and has no answer.
LEMMA AddKeeps ==
    ASSUME ChildInv, AddChildRead
    PROVE  ChildInv'
  <1> USE ChildParties, ChildAssumption DEF AddChildRead, ChildGoto
  <1>1. ChildTypes'
    BY DEF ChildInv, ChildTypes
  <1>2. Announced'
    BY Zenon DEF ChildInv, ChildTypes, Announced, Ended, Ordered, Uniprocessor
  <1>3. Reached'
    BY Zenon DEF ChildInv, ChildTypes, Reached, Awaited
  <1>4. OnceOnly'
    BY OneInside DEF ChildInv, ChildTypes, OnceOnly, Uniprocessor
  <1> QED  BY <1>1, <1>2, <1>3, <1>4, Zenon DEF ChildInv

\* The parent leaves its read pending only while there is no code.
LEMMA RunKeeps ==
    ASSUME ChildInv, RunChildRead
    PROVE  ChildInv'
  <1> USE ChildParties DEF RunChildRead, ChildGoto
  <1>1. ChildTypes'
    BY Zenon DEF ChildInv, ChildTypes
  <1>2. Announced'
    BY Zenon DEF ChildInv, ChildTypes, Announced, Ended, Ordered, Uniprocessor
  <1>3. Reached'
    BY Zenon DEF ChildInv, ChildTypes, Reached, Awaited
  <1>4. OnceOnly'
    BY DEF ChildInv, ChildTypes, OnceOnly, Uniprocessor
  <1> QED  BY <1>1, <1>2, <1>3, <1>4, Zenon DEF ChildInv

\* The answer is the first, unless somebody else completed the read meanwhile.
LEMMA FinishKeeps ==
    ASSUME ChildInv, FinishChildRead
    PROVE  ChildInv'
  <1> USE ChildParties DEF FinishChildRead, ChildGoto
  <1>1. ChildTypes'
    BY Zenon DEF ChildInv, ChildTypes
  <1>2. Announced'
    BY Zenon DEF ChildInv, ChildTypes, Announced, Ended, Ordered, Uniprocessor
  <1>3. Reached'
    BY Zenon DEF ChildInv, ChildTypes, Reached, Awaited
  <1>4. OnceOnly'
    BY DEF ChildInv, ChildTypes, OnceOnly, Uniprocessor
  <1> QED  BY <1>1, <1>2, <1>3, <1>4, Zenon DEF ChildInv

-----------------------------------------------------------------------------
(* The end of the child *)

\* Unless a kernel task ends early on another CPU, the handle is there.
LEMMA KillKeeps ==
    ASSUME ChildInv, NEW k \in Killers, Kill(k)
    PROVE  ChildInv'
  <1> USE ChildParties DEF Kill, ChildGoto
  <1>1. ChildTypes'
    BY Zenon DEF ChildInv, ChildTypes
  <1>2. Ordered => childIo
    BY OneInside, Zenon DEF ChildInv, Announced, Ordered
  <1>3. Announced'
    BY <1>2, Zenon DEF ChildInv, ChildTypes, Announced, Ended, Ordered, Uniprocessor
  <1>4. Reached'
    BY Zenon DEF ChildInv, ChildTypes, Reached, Awaited
  <1>5. OnceOnly'
    BY OneInside, Zenon DEF ChildInv, ChildTypes, OnceOnly, Uniprocessor
  <1> QED  BY <1>1, <1>3, <1>4, <1>5, Zenon DEF ChildInv

\* Who has stored the code has yet to list the reads.
LEMMA StoreKeeps ==
    ASSUME ChildInv, NEW k \in Killers, StoreCode(k)
    PROVE  ChildInv'
  <1> USE ChildParties DEF StoreCode, ChildGoto
  <1>1. ChildTypes'
    BY Zenon DEF ChildInv, ChildTypes, Codes
  <1>2. Announced'
    BY Zenon DEF ChildInv, ChildTypes, Announced, Ended, Ordered, Uniprocessor
  <1>3. Reached'
    BY Zenon DEF ChildInv, ChildTypes, Reached, Awaited
  <1>4. OnceOnly'
    BY DEF ChildInv, ChildTypes, OnceOnly, Uniprocessor
  <1> QED  BY <1>1, <1>2, <1>3, <1>4, Zenon DEF ChildInv

\* Who has listed the reads has yet to come to each.
LEMMA TakeKeeps ==
    ASSUME ChildInv, NEW k \in Killers, TakeIds(k)
    PROVE  ChildInv'
  <1> USE ChildParties DEF TakeIds, ChildGoto
  <1>1. ChildTypes'
    BY Zenon DEF ChildInv, ChildTypes
  <1>2. Announced'
    BY Zenon DEF ChildInv, ChildTypes, Announced, Ended, Ordered, Uniprocessor
  <1>3. Reached'
    BY Zenon DEF ChildInv, ChildTypes, Reached, Awaited
  <1>4. OnceOnly'
    BY DEF ChildInv, ChildTypes, OnceOnly, Uniprocessor
  <1> QED  BY <1>1, <1>2, <1>3, <1>4, Zenon DEF ChildInv

\* async_complete answers a read that is still pending, once, and forgets it.
LEMMA CompleteKeeps ==
    ASSUME ChildInv, NEW k \in Killers, CompleteChild(k)
    PROVE  ChildInv'
  <1> USE ChildParties DEF ChildGoto
  <1>1. CASE snapshot[k] = {}
    <2> USE <1>1 DEF CompleteChild
    <2>1. ChildTypes'
      BY Zenon DEF ChildInv, ChildTypes
    <2>2. Announced'
      BY Zenon DEF ChildInv, ChildTypes, Announced, Ended, Ordered, Uniprocessor
    <2>3. Reached'
      BY Zenon DEF ChildInv, ChildTypes, Reached, Awaited
    <2>4. OnceOnly'
      BY Zenon DEF ChildInv, ChildTypes, OnceOnly, Uniprocessor
    <2> QED  BY <2>1, <2>2, <2>3, <2>4, Zenon DEF ChildInv
  <1>2. CASE snapshot[k] # {}
    <2> DEFINE i == CHOOSE n \in snapshot[k] : \A j \in snapshot[k] : n <= j
    <2>1. /\ snapshot' = [snapshot EXCEPT ![k] = @ \ {i}]
          /\ childOps' = childOps \ {i}
          /\ answers' = [answers EXCEPT ![i] = IF i \in childOps THEN Append(@, k) ELSE @]
          /\ ChildGoto(k, "complete") /\ childPc[k] = "complete"
          /\ UNCHANGED <<childStatus, childIo, exit_code, childReads>>
      BY <1>2, Zenon DEF CompleteChild
    <2> HIDE DEF i
    <2>2. ChildTypes'
      BY <2>1, Zenon DEF ChildInv, ChildTypes
    <2>3. Announced'
      BY <2>1, Zenon DEF ChildInv, ChildTypes, Announced, Ended, Ordered, Uniprocessor
    <2>4. Reached'
      BY <2>1, Zenon DEF ChildInv, ChildTypes, Reached, Awaited
    <2>5. OnceOnly'
      BY <2>1 DEF ChildInv, ChildTypes, OnceOnly, Uniprocessor
    <2> QED  BY <2>2, <2>3, <2>4, <2>5, Zenon DEF ChildInv
  <1> QED  BY <1>1, <1>2, Zenon

-----------------------------------------------------------------------------

\* For any number of CPUs and reads: once nobody is inside the kernel, no read of a child
\* that has ended is left waiting, unless a kernel task ended before its handle was there;
\* and on one CPU no read is answered twice.
THEOREM ParentHears == ChildSpec => []ExitIsReported
  <1>1. ChildInit => ChildInv
    <2> SUFFICES ASSUME ChildInit PROVE ChildInv
      BY Zenon
    <2> USE ChildParties, ChildAssumption DEF ChildInit
    <2>1. ChildTypes
      <3>1. childStatus \in {"created", "running", "terminated", "gone"}
        <4>1. CASE early
          BY <4>1, Zenon
        <4>2. CASE ~early
          BY <4>2, Zenon
        <4> QED  BY <4>1, <4>2, Zenon
      <3>2. childPc \in [ChildActors -> {"create", "out", "run", "finish", "code", "ids", "complete"}]
        BY Zenon
      <3>3. snapshot \in [Killers -> SUBSET (1..childReads)] /\ DOMAIN answers = 1..MaxChildReads
        BY Zenon
      <3>4. childIo \in BOOLEAN
        BY Zenon
      <3>5. exit_code \in Codes /\ childReads \in 0..MaxChildReads /\ childOps \subseteq 1..childReads
        BY DEF Codes
      <3> HIDE DEF ChildInit
      <3> QED  BY <3>1, <3>2, <3>3, <3>4, <3>5, Zenon DEF ChildTypes
    <2>2. Announced
      BY Zenon DEF Announced, Ended, Ordered
    <2>3. Reached
      BY Zenon DEF Reached
    <2>4. OnceOnly
      BY DEF OnceOnly, ChildActors
    <2> QED  BY <2>1, <2>2, <2>3, <2>4, Zenon DEF ChildInv
  <1>2. ChildInv /\ [ChildNext]_<<ncpus, childVars>> => ChildInv'
    <2> SUFFICES ASSUME ChildInv, [ChildNext]_<<ncpus, childVars>>
                 PROVE  ChildInv'
      BY Zenon
    <2>1. CASE InsertChild \/ StartChild \/ RemoveChild
      BY <2>1, InsertKeeps, StatusKeeps, Zenon
    <2>2. CASE AddChildRead \/ RunChildRead \/ FinishChildRead
      BY <2>2, AddKeeps, RunKeeps, FinishKeeps, Zenon
    <2>3. CASE \E k \in Killers : Kill(k) \/ StoreCode(k) \/ TakeIds(k) \/ CompleteChild(k)
      BY <2>3, KillKeeps, StoreKeeps, TakeKeeps, CompleteKeeps, Zenon
    <2>4. CASE UNCHANGED <<ncpus, childVars>>
      BY <2>4, Zenon DEF childVars, ChildInv, ChildTypes, Announced, Ended, Ordered, Reached, Awaited,
                  OnceOnly, Uniprocessor
    <2> QED  BY <2>1, <2>2, <2>3, <2>4, Zenon DEF ChildNext
  <1>3. ChildInv => ExitIsReported
    <2> SUFFICES ASSUME ChildInv PROVE ExitIsReported
      BY Zenon
    <2>1. ASSUME ChildInside = {}, Ended, Ordered
          PROVE  childOps = {}
      <3>1. \A a \in ChildActors : childPc[a] = "out"
        BY <2>1, Zenon DEF ChildInside
      <3>2. exit_code # None
        BY <2>1, <3>1, ChildParties, Zenon DEF ChildInv, Announced
      <3> QED  BY <3>1, <3>2, ChildParties, Zenon DEF ChildInv, Reached, Awaited
    <2>2. Uniprocessor => \A i \in 1..MaxChildReads : Len(answers[i]) <= 1
      BY Zenon DEF ChildInv, OnceOnly
    <2> QED  BY <2>1, <2>2, Zenon DEF ExitIsReported, Ended, Ordered
  <1> QED  BY <1>1, <1>2, <1>3, PTL DEF ChildSpec

=============================================================================
