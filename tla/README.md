# IDOS-NX: TLA+ specifications

IDOS-NX is a 32-bit multi-core operating system written in Rust. Its kernel is asynchronous: a
task submits operations on handles, blocks on a futex or a wake set, and is woken when a
provider, a driver or an interrupt completes the operation. Drivers are tasks, in the kernel or
outside it, that receive requests as messages and answer them later. This directory models that
core, the memory management under it, the console, network and storage stacks above it, and the
programs' side of the system: the start of a program, the C library, the shell and the DOS layer.

Paths below are relative to `src/`; `K/` stands for `kernel/src/`, `D/` for
`components/drivers/`, `P/` for `components/programs/`. `PROJECT.json` maps every definition to the lines it models.

## The system and its models

| Part of the system | Code | Modules |
|---|---|---|
| Work queue, context switch, run states, timeouts, cleanup | `K/task/scheduling`, `K/task/switching.rs`, `K/task/state.rs`, `K/cleanup.rs` | `Scheduler`, `Scheduler_proofs` |
| Futexes, blocking calls, wake sets | `K/sync`, `K/task/actions/io.rs`, `K/io/provider/mod.rs` | `Kernel`, `AsyncWait`, `AsyncWait_proofs` |
| Message queues | `K/task/messaging.rs`, `K/io/provider/message.rs` | `Messages`, `Messages_proofs` |
| Handles, open files, driver requests, console instances | `K/io`, `K/task/actions/{handle,io}.rs`, `K/console/driver` | `Files` |
| Pipes, child tasks, interrupts | `K/pipes`, `K/io/provider/{task,irq}.rs`, `K/interrupts/pic.rs` | `Pipe`, `Providers`, `Io_proofs` |
| Keyboard driver, line discipline, reads of a console | `K/hardware/ps2`, `K/conman.rs`, `K/console` | `ConsoleInput` |
| Windows and terminals | `K/console/mod.rs`, `K/console/manager`, `K/console/console` | `Windows`, `Terminal` |
| Memory maps | `K/task/memory.rs` | `MappedMemory` |
| Frames, paging on demand, shared pages, lent buffers | `K/memory/physical`, `K/task/paging.rs`, `K/memory/shared.rs` | `Paging` |
| The three heaps: kernel, C library, Rust programs | `K/memory/heap`, `libc/src/allocator.rs`, `sdk/src/allocator` | `KernelHeap`, `LibcHeap`, `SlabAllocator` |
| Start of a program: loaders, stack, arguments | `K/exec.rs`, `P/elfload`, `K/task/args.rs` | `ProgramLoader` (over `MappedMemory`) |
| C library: streams | `libc/src/stdio.rs` | `Stdio`, `ByteStreams` for what it promises, `Stdio_proofs`, `ByteStreams_proofs` |
| C library: text, numbers, strings, sorting, directories | `libc/src/{stdio,stdlib,string,dirent}.rs` | `LibcText` |
| DOS layer: virtual 8086, INT 21h on files, console | `P/doslayer`, `K/interrupts/exceptions.rs`, `K/task/actions/vm.rs` | `DosMachine`, `DosCalls` |
| TCP | `K/net/protocol/tcp` | `TcpConnection`, `TcpStream`, `TcpStream_proofs` |
| Sockets and listeners | `K/net/socket`, `K/io/provider/socket.rs` | `Sockets` |
| Network resident, executor, DHCP, ARP, DNS | `K/net/{resident,netdevice}.rs`, `K/net/protocol`, `K/executor` | `NetStack` |
| Ethernet driver | `D/e1000`, `K/hardware/ethernet` | `E1000`, `E1000_proofs` |
| FAT driver: sector cache, volume; DISKCHK | `D/fatdriver`, `P/diskchk` | `DiskCache`, `FatVolume` |
| Floppy and ATA drivers | `D/floppy`, `K/hardware/ata` | `Floppy`, `Ata` |
| Sound driver | `D/sb16` | `Audio` |
| Time and dates | `K/time`, `K/hardware/rtc.rs` | `Clock` |
| Paths | `K/files/path.rs`, `K/io/mod.rs` | `Paths` |
| COMMAND | `P/command` | `Command` |

Everything else the repository contains is listed in `PROJECT.json` under `components` as not
modelled, with the reason, and in "Not modelled" below.

### How the parts interact, and how that is composed

A blocking call goes through all layers: `io_sync` (AsyncWait) submits to a provider (Messages,
Files, Pipe, Providers, Sockets), which completes at once or leaves the operation in a
table, and whoever completes it later stores a result, stores a signal and wakes a futex, which
puts the task back in the work queue (Scheduler).

`Kernel` holds what several modules share: the number of CPUs, and with it which steps of two
tasks can interleave. Interrupts are off inside the kernel, so a task keeps its CPU from its
entry to the point where it blocks or yields: on one CPU a call is atomic up to there, on
several CPUs every step interleaves with those of other tasks that hold no common lock. `Paging`,
`Sockets` and `NetStack` have the same split, at the points where the code holds no lock between a
look and the change that rests on it, with a number of CPUs of their own (`PagingCpus`,
`SocketCpus`, `StackCpus`). The passing runs set it to 1: on 2 their properties fail.

A component is specified by itself. Four suites, `MCIo`, `MCMemory`, `MCNet` and `MCStorage`,
extend several components: `Init` picks one part, which then moves by its own next-state
relation. Where components really share state they are one model:
`Files` has the handle tables, the providers and the driver on the other side of the messages;
`TcpStream` runs `TcpConnection` against a peer over a network that loses, repeats and reorders;
`NetStack` runs resident, executor, device and protocols; `FatVolume` has DISKCHK look at the
volume the driver leaves; `ConsoleInput` runs the interrupt handler, the driver task, the manager and two
programs; `ProgramLoader` places regions with the algorithms of `MappedMemory`; `DosMachine` runs
program, kernel and layer.

`ByteStreams` is an abstract specification: a stream is a place in a file, without a buffer, and a
byte may only be lost with the error indicator set. `Stdio` implements it, by the mapping in
`MCMemory`: the bytes of a file with every write buffer applied to them, and the position plus what
is buffered. The property `StreamsAreFiles` is the abstract specification under that mapping.

## Modules, state and actions

- **Scheduler.** `workQueue` is the global queue; per CPU, `current`, `stack` (whose kernel stack
  it is really on), `pending` (`pending_reenqueue`) and the locals of `switch()`; per task, the
  run state and whether a timeout is set. `switch()` is eight actions, one for each stretch
  between two shared accesses (`DrainStale`, `Decide`, `Pop`, `Check`, `Swap`, `SwitchInit`,
  `SwitchInner`, `DrainAfter`); the PIT handler is four; every call of a task is one or two. Starting a program is a check, waits
  for files in between, and an end or a failure, since the check's lock is dropped (`SchedFlaws`).
  Panics are a program point. `MaxQueue` bounds how many tasks may be woken into the queue.
- **AsyncWait.** The watch list of the futexes comes first; `futex_wait_inner` has its comparison, its list lock and its block as
  separate steps. Callers share one word between consecutive calls, as they do in the code,
  where the AsyncOp is on the stack. The owner of the wake set waits singly and in batches.
- **Messages.** The queue with expiry times and the pending reads of message handles.
- **Files.** Two tasks, their handle tables with reference counts, open instances of a driver,
  the requests under way. Exit closes handles through the cleanup resident.
- **Pipe.** A ring of `BufferSize` bytes, blocked readers, both ends closing.
- **Providers.** Read of a child against its exit; read, acknowledge and mask against the interrupt.
- **ConsoleInput.** The interrupt handler's ring, DATA_READY and the driver task, the input buffer
  shared with the manager, the manager's loop, line editing and the reads of a shell and its child.
- **Windows.** The compositor's lists by their indices, focus, the grid, drags, the hit map of the
  last render. **Terminal.** The ring of rows, cursor and escape sequences, against a page of text.
- **MappedMemory.** Regions with their backing; addresses wrap at `Width` as `u32` does.
- **Paging.** Frames with counts, page table entries, the table of shared file pages, requests
  for pages to the file driver under way, buffers lent to a driver. `inside` holds who is between
  the look into the table and the reference, or between a frame's release and its removal from the
  table. Running out of frames, and a page-in that fails for a lent buffer, are panics (`down`).
- **KernelHeap, LibcHeap, SlabAllocator.** The free lists, byte for byte in small pages.
- **ProgramLoader.** What is mapped in the new task, what was stored in it, its first registers,
  the loader cache. `exec_program` is a step per thing that can fail; then ELFLOAD is, header by
  header. File bytes are numbered, so that a page mapped from the wrong offset shows.
- **Stdio.** Position, pushed-back byte, write buffer and error indicator of each stream over files
  that answer short or fail. **LibcText, Paths, the first half of Command, Clock's dates.**
  Pure functions: a state is a call, the invariant its meaning written without the algorithm.
- **DosMachine.** Flags, stack and interrupt mask of a program that may do anything its own stack
  allows, the timer's mark on the task, the layer's emulation, and what no longer faults at IOPL 3. **DosCalls.** DOS handles over IDOS
  handles and cursors; line discipline, video mode, palette, keyboard.
- **TcpConnection, TcpStream.** Sequence numbers wrap at `SeqSpace`.
- **Sockets.** Tables of ports, listeners and connections, and the operations that wait in them.
  A bind takes a port under one lock and enters the socket under another; a packet looks up the port
  under the first and is handled under the second.
- **NetStack.** The executor's ready set and wakers, the resident's loop, queries and leases. A
  datagram looks for an address under one lock and is queued under another.
- **E1000.** Both descriptor rings, the driver's loop and its interrupt.
- **DiskCache.** Slots, the open-addressed hash table, ages, dirty marks.
- **FatVolume.** Table, directories, open files; every request is one action. The
  check that DISKCHK performs is an operator over that state.
- **Floppy, Ata.** The splitting of a request into transfers, and the controller's answers.
- **Audio.** The streams' rings, pending writes, the two halves of the DMA buffer and the device
  that plays on, whether or not the driver has handled its interrupt. **Clock.** Tick count and
  counter against their readers, on other CPUs than the one that counts; the counter goes round
  twice in a tick, as in the timer's mode 3.
- **Command.** The lines of nested batch files, redirection, and every command that changes files,
  over requests that fail.

Some inputs lead outside what a component handles. Each is named in a constant: `Careless`,
`Discipline`, `Profiles`, `FatCareless`, and those called `...Flaws`, where the declaration says
what each value lets in. A passing run excludes it, and the note of the hazard it belongs to says
which property fails when it is let in.

## Runs

| Run | Shows | Instance |
|---|---|---|
| `sched_smp` | Two CPUs: no task that may resume is forgotten between two steps of any CPU | 2 CPUs, 3 tasks |
| `sched_uni` | One CPU, every operation: no panic, nothing queued twice or while running, termination final, queued tasks run | 1 CPU, 4 tasks |
| `wait` | Each call returns its own result; on one CPU nobody sleeps past a completion; each ready handle is taken | 1 or 2 CPUs, 2 waiters, 2 completers |
| `io` | Messages, files, pipe, child, interrupts lose, repeat and reorder nothing; nobody waits for what has happened; what is typed is read, windows act on what the user sees, a terminal shows what was written | 1 or 3 CPUs, a key ring of 4 bytes, 2 by 2 characters |
| `memory` | Regions are placed and cut correctly and a program finds its segments and arguments; frame counts equal the entries that use them; a page shows its file; heaps tile; the C library does what C says, its streams are files | 2 tasks, 3 frames, pages of 2 to 32 cells |
| `net` | TCP keeps its bytes; the socket tables are consistent; the resident sends all it was asked before it sleeps; rings lose no frame | 2 hosts, 2 packets, rings of 3 |
| `storage` | The cache shows the disk; files keep their bytes through every order of requests and DISKCHK accepts the volume; transfers lose nothing; sound is heard in order; dates and time go on; paths and the shell's commands do what they say; a DOS program meets interrupts, files, screen and keys as on an 8086 | 3 slots, 4 clusters, 3 root entries, paths of 5 characters, lines of 4 |
| `sched_two_cpus` | *violated:* two CPUs never run on one task's stack | 2 CPUs |
| `wait_lost` | *violated:* on two CPUs a blocking call returns | 1 or 2 CPUs |
| `files_exit` | *violated:* an open instance stays open while someone holds it | 2 tasks, 2 instances |
| `stale_file_page` | *violated:* a mapped frame is an allocated one | 2 tasks, 3 frames |
| `rename_lost` | *violated:* a moved file is found where it was moved to | 3 root entries |

Every property of a passing run has a mutant of the model, a plausible mistake in the code,
under which it fails. The suites' properties are conjunctions of what each component promises:

| Property | What it says |
|---|---|
| `MailArrives` | one sender's messages are read in order, none twice, and none waits beside a read |
| `HandlesMatch` | handle tables, reference counts and the driver's instances agree |
| `TypedIsRead` | keys reach the readers of the focused console once and in order, and nobody sleeps beside one |
| `WindowsAreRight` | the lists agree, a click or key acts on the window the user saw, the topmost is shown, the grid's tiles fit |
| `ShowsThePage` | the ring of rows shows the page of text that the same characters leave |
| `MapIsRight` | regions stay as promised, and a started program is mapped as its file says |
| `FramesAreRight` | counts equal the entries that use a frame, and a page shows what it stands for |
| `LibcIsRight`, `StreamsAreFiles` | functions against the C language; streams against `ByteStreams` |
| `MachineIsRight` | after an interrupt the program goes on where it was; its critical sections hold but for one late interrupt; its interrupt flag is the one it set; its timer hook runs at the divided rate |
| `DosServes` | handles, cursors and answers of INT 21h agree with the files; the console is given back |
| `StreamIsKept` | what is read is what was written, in order, its end at its end, and no more is acknowledged than was kept |
| `SocketsServe` | tables agree with each other and no operation is forgotten |
| `FramesArrive` | frames pass both rings once, in order, and no read waits beside a frame |
| `AtaServes`, `FloppyKeepsBytes` | requests move the bytes asked for, by the interrupts that belong to them |
| `HeardInOrder` | samples leave a stream's ring once and in order, none lost between writes; they are heard so until the driver is once late for a sample; a write without an answer will be taken on by an interrupt |
| `ClockIsRight` | dates follow one another; the hardware clock is read as it stands; a time is less than two ticks behind the call and one ahead of it, and never in an earlier tick than the one before |
| `PathsAreRight`, `ShellIsRight` | paths and commands against their meaning |

### Bounds

The bounds are the smallest that let the cases in question happen. Two CPUs and three tasks let
one CPU's `switch()` meet another's wake-up of the task it is leaving. Two completers let one
operation's late wake-up meet the next call. Two tasks and two slots let an
instance be closed, its slot given to the other task and closed again; `files_exit` has a second instance. A ring of three entries
wraps with four. Sequence numbers start at 6 of 8, so that every stream wraps. Heaps have three
pages, so that a block is split, merged on both sides and the heap grown. Root directories have
three entries, so that one can be deleted before another. A UDP socket keeps one datagram
(`MaxDatagrams`) that came before its read. The timer's divider is 4, the least with a step in each half
of its square wave. A key is two bytes, so a ring of four fills. Paths
have five characters and command lines four, over alphabets with one of each kind the code tells
apart; a page of 32 bytes holds header, path and arguments or just does not. A DOS tick is 11 units
of time in steps of 2, which does not divide it, as on the machine. Bounds on counters (`MaxCalls`,
`MaxReads`, `MaxBytes`, ...) stand in guards and are only reached after those cases.

Symmetric sets (senders, hosts, users of memory, names) are only permuted in runs without liveness.

Deadlock is checked in `sched_uni` and `sched_two_cpus`; elsewhere the bounds on work make every
behaviour end.

### Fairness

`sched_uni`: kernel paths run on, the PIT keeps firing (the hardware), a halted CPU is woken by it,
and kernel tasks, which are loops around a blocking call, call the kernel again. Nothing is
assumed of programs: preemption has to do without them. `wait`: strong fairness of each caller's,
each completer's and the owner's steps, since a ready task runs again and again (`QueuedRuns`)
though others may hold the CPU in between; submissions and timeouts are not fair.

## Proofs

All theorems hold for every value of the constants that satisfies the named assumptions of the
module; all but `PendingFree` and `NobodyIsMissed` state a property that a run checks, or a conjunct of one. Each rests on
an inductive invariant, written at the head of its module, that TLC checked on the run's instance
before it was proved. Some properties speak of one CPU or of a program that avoids what a component
does not handle; the theorem then says so, in the property (`Uniprocessor => ...`) or in an `ASSUME`.

| Module | Theorem | Property | For all |
|---|---|---|---|
| `Scheduler_proofs` | `TypeCorrect` | `TypeOK` | CPUs, tasks, bounds on the queue |
| | `NoTaskLost` | `NoRunnableLost` | the same |
| | `PendingFree` | `switch()` never overwrites `pending_reenqueue` | the same |
| | `QueueIsSound` | `QueuedIsSaved` | tasks, on one CPU, with `OneStart` |
| | `NeverPanics` | `NoPanic` | the same |
| | `TerminatedStays` | `TerminatedIsFinal` (an action property) | the same |
| `AsyncWait_proofs` | `EachCallItsOwn` | `OwnResult` | callers, completers, CPUs |
| | `NoWakeUpLost` | `WakeIsComing` | callers, completers, timeouts, on one CPU |
| `Messages_proofs` | `NobodyIsMissed` | reads wait only on an empty queue | CPUs, senders, messages, reads, expiries |
| | `MailReachesReads` | `MailArrives` | the same; order and loss on one CPU |
| `Io_proofs` | `BytesArriveInOrder` | `BytesInOrder` | ring sizes, lengths of reads and writes, on one CPU |
| | `NoInterruptMissed` | `NobodyWaitsOnActive` | CPUs, lines, drivers |
| | `ParentHears` | `ExitIsReported` | CPUs, reads |
| `E1000_proofs` | `FramesPass` | `FramesArrive` | ring sizes, frames |
| `TcpStream_proofs` | `StreamArrives` | `StreamIsKept` | sequence numbers, segment sizes, packets in any order |
| `ByteStreams_proofs` | `BuffersAreInvisible` | `StreamsAreFiles` (a refinement) | buffer sizes, tables of streams, files, bytes, lengths, with `NoFlaws` |
| | `RenameLosesNothing` | `MoveKeepsBytes` of `StdioIsRight` | the same |

**Scheduler_proofs.** The first three rest on `SchedulerAssumption` only: the boot CPU is one of the
CPUs, the two first tasks are tasks, and the idle and null values are none of them. `NoRunnableLost`
is not inductive. `Swap` stores the outgoing task into `pending`, which would forget a task already
there, so the invariant needs `PendingIsDrained`: between the drain at the start of `switch()` and the
swap `pending` is empty. `Enqueue` pushes the CPU's local `hand`, so it needs `HandOK`: at the points
that use it, the local is a task, and a CPU that decided to put its task back has one. With the
types that makes `IInv`. Each action is shown to keep the locals (`...Locals`) and to leave every
resumable task covered (`...NotLost`).

The other three assume `OneCpu`, since they fail on two (`sched_two_cpus`), and `OneStart`: no task is
started by two others at once, which `exec_program` does not prevent and `create_task`'s callers, who
start what they have just created, do not do. `UInv` says where a task
may be: in the queue once, or in exactly one of the CPU's `current`, `hand` and `pending` (`Apart`); what
the program point says of the current task (`CpuOK`); and that a blocked task, one never started
and one being loaded is on its way nowhere (`Absent`).

**AsyncWait_proofs.** `EachCallItsOwn`: all calls of a task use one word. `WaitInv` says that an
operation whose signal is not raised belongs to the call under way (`Current`), is in one place only
(`OneOperation`), stores its value before its signal (`ValueFirst`), and that all calls but that one
have returned (`Counted`). What a completer does after the signal, the wake-up, may come late, but
touches neither. `NoWakeUpLost`: one task at a time is inside the kernel (`Alone`), so that a task
about to block has compared a word that is still down (`StillDown`); a blocked task is in the list of
its own word, and the list of the wake set holds nobody but the owner, though perhaps more than
once after timeouts (`Listed`). It needs the sets of tasks to be finite, for counting who is inside.

**Messages_proofs.** A sender adds its message before it looks for reads, a
receiver its read before it looks at the queue. A read that its own call has left and a message are
side by side only while some sender is between the two (`OnItsWay`), on any number of CPUs. On one
CPU the reads that wait are the last ones made (`Waiting`), each program point says what is in the
queue and among the reads (`Call`), the packets of one sender are numbered upwards from the first
read over what is popped to the end of the queue (`Order`), and what was sent is in a read's
buffer, popped, queued or expired (`Kept`). Assumed: finitely many senders, and that the null value
is no packet (`NoPacket`).

**Io_proofs.** A pipe's byte is in one of three places that follow each other: received, in the
buffer of the blocked read, in the ring (`Numbered`). A read blocks only once the ring is empty
(`Blocked`), so what a write puts into its buffer does not overtake the ring; and what an end loaded
before it took the lock is still so under it (`Fresh`), which is where one CPU is needed. The ring is
never filled to its last byte, so two positions in use are different modulo its size.
`NoInterruptMissed` and `ParentHears` speak of moments at which nobody is inside the kernel. In
between, the invariants (`IrqInv`, `ChildInv`) say who is on the way to a pending read: its own
reader, which has added it and has yet to look, or the other side, which has raised the flag and has
yet to list the reads or to come to this one. `ParentHears` also needs that the handle is there
before the child ends, which holds unless a kernel task ends early on another CPU.

**E1000_proofs.** Assumes `"full" \notin EthFlaws`: no more frames are sent at a time than there are
descriptors, which the driver itself does not look at. `EthInv` describes each ring as the stretch
between its two ends, measured by a distance `Dist` around the ring, and what every descriptor of the
stretch holds; that at most one request of a kind waits; and that the interrupt's cause is still set
while the driver has yet to look at the ring.

**TcpStream_proofs.** Assumes `StreamFlaws = {}`: one read waits at a time,
neither a FIN overtakes data nor a later segment the one that ends the handshake, no FIN comes again
with data, and no SYN has the number 0 (what the code does then is
under "What the runs found"). `StreamAssumption` says how far numbers go: a stream is shorter than
the space of sequence numbers, and what is unacknowledged than half of it, which is what makes
`process_ack`'s wrapping comparison right. `StreamInv` follows the numbers through the stream. What
the kernel sent is numbered without wrapping and the other end has no more of it (`Outgoing`). What
was read and what is kept are together the first bytes of the other end's stream (`Incoming`). The
next number expected is that of the byte after them, and what was ever acknowledged is at most
that (`Acknowledged`), so a segment that comes again or too early does not match, one that
matches is the next, and an acknowledgement never claims a byte that was dropped. Before the
handshake ends nothing has moved (`Opening`, `PeerSilent`); after the FIN everything is here
(`AtTheEnd`). The lemmas below them are about remainders and `Plus` (two numbers of one stream are
equal only for the same byte), runs of bytes, and what `process_ack`, `Deliver` and the end of a
connection complete.

**Stdio_proofs, ByteStreams_proofs.** That `Stdio` implements `ByteStreams` under the mapping `Streams`
of `Stdio`: the bytes of a file are those on the disk with the buffer of its stream written over them
(`Seen`), the place of a stream is its position and what it holds back (`Cursor`). Both theorems assume
`NoFlaws`, that is `StreamFlaws = {}`. That is more than the rules of C. It leaves out calls that C
allows and the library gets wrong: `fread`, or `fseek` from where the stream is, with a byte pushed
back; `ftell` with bytes in the buffer or one pushed back; `exit` and `freopen` with bytes in the
buffer, and a `freopen` that creates its file; a second stream on one file; a `rename` onto a file that
is there. And failures of the kernel: reads that fail, writes cut short, and the last write of `fclose`
and `rewind`. `RenameLosesNothing` is therefore about writes that fail: with a read that fails, or a
destination that exists, `rename_cross_device` deletes an original that its copy does not equal
(`"badread"`, `"onto"`), and the theorem does not cover it. Every call of `stdio.rs` is one step of
`ByteStreams`, and so is every call that `rename_cross_device` makes, for any buffer size, any number
of streams and files of any length. `Proper` is what the table and the files have in common: an open
stream has its place within a file that is there, the console's at its end, and no two streams have
one file, without which a buffer could hide what another stream wrote. It gives that a call changes
what is seen of its own file only (`OneStep`), that emptying a buffer changes nothing seen (`Flush`),
and that bytes put behind a buffer that is emptied later are where they would have been at once
(`OverOver`). `Inv` adds the rename: which two streams it has open at each of its points, neither with
anything in its buffer, and that the copy is as much of the original as was read and written
(`AtRead`, `AtWrite`), which is all of it when the original is deleted (`AtUnlink`). The least free entry
of the table and the first end of a line are the only places that need an induction; they take it from
the library's theorem that the natural numbers are well ordered. `StdioAssumption` says that the
null value is no byte, no file's contents and no place in a file. The bounds that `StdioTypeOK` and
`BuffersAreRight` put on positions and buffers are only model-checked.

Only model-checked, and why:

- liveness (`QueuedRuns`, `CallReturns`, `ReadyIsTaken`): fairness and `ENABLED` are not handled by
  the prover;
- the tiling of the three heaps, the chains of the FAT volume, memory maps, and what the library's,
  the shell's and the paths' functions compute: they rest on recursion over data or on minima over sets
  of regions, and what a recursive definition computes for every input needs an induction that the
  installed provers cannot instantiate;
- ATA, time, console input, the terminal and COMMAND share modules with recursive operators, where
  the prover loses its arithmetic;
- `HandlesMatch`, `FramesAreRight`, `WindowsAreRight`, `SocketsServe`, `NothingLeftUndone`, `CacheIsTheDisk`,
  `FloppyKeepsBytes`, `HeardInOrder`, `MachineIsRight` and `DosServes` have no such obstacle; they
  have not been proved.

## What the runs found

- `wait_lost`: `futex_wait` compares before it takes the lock of the watch list, so that on two
  CPUs a completion in between wakes nobody and the caller sleeps for good, where its
  documentation says the check is atomic.
- `sched_two_cpus`: a task that blocks can be woken and run by another CPU before it has left its
  stack.
- `files_exit`: a task that ends with duplicated handles closes the instance once for each.
- `stale_file_page`: unmapping a shared file mapping of two pages forgets only the first page, and
  the table then leads to a freed frame.
- `rename_lost`: a lookup in the root directory stops at the first deleted entry.

More show in the models without a run of their own, each behind the value of a constant that the
passing runs exclude:

- TCP takes a FIN whatever its sequence number, and the first packet that completes the handshake
  sets the receive position, so that bytes that never came are acknowledged (`"fin"`, `"first"` in
  `StreamFlaws` of `TcpStream`).
- A completion inside the submission, after a wait that timed out and left its entry in the watch
  list, wakes the submitting task itself and waits for a lock the submission holds (the point `hung`
  of `AsyncWait`; `Profiles`).
- A page of a file mapped shared can be written by either task, and the other sees it (`Paging`).
- A loader's zero data is mapped from its file like the rest of the segment and shows what follows
  in the file (`"bss"` in `LoadFlaws`); a region asked for at a taken place is put elsewhere, and
  neither `exec.rs` nor ELFLOAD looks (`"overlap"`, `"retry"`).
- The C library's `fgetc` does not see what `fputc` left in the buffer (`"mix"` in `StreamFlaws`), and
  writes that are short are taken for whole ones; so does COMMAND's COPY (`"short"` in
  `ShellFlaws`).
- DOSLAYER's POPF, and handlers that use CLI and STI, leave its interrupt flag wrong (`"popf"`,
  `"handler"` in `MachineFlaws`); POPF and IRET take the IOPL bits from the stack, which a comment says
  are preserved, and with IOPL 3 CLI and STI no longer reach the layer (`"iopl"`); INT 16h with AH=0
  that has to wait gives the key twice (`"blocking"` in `ConsoleFlaws`); a killed DOS program leaves
  its console raw (`"killed"`); the screen's frames need not follow one another, and the layer maps
  them as if they did (`"apart"`); a seek from the end drops the result of STAT (`"stat"` in
  `FileFlaws`).
- Two tasks that start one task put it into the queue twice (`"exec"` in `SchedFlaws`).
- On two CPUs a task maps a shared file page that another has just freed (`PagingCpus`), two outbound
  connections get one port (`SocketCpus`), and a datagram is queued behind the flush that was to send
  it (`StackCpus`). A datagram written after DHCP is completed twice (`"twice"` in `SocketFlaws`).
- A request to the network stack before a device is registered ends its task (`"early"` in `NetFlaws`);
  a name whose answer goes through a CNAME is waited for for ever (`"norecord"`).
- Reading an empty file of the FAT volume follows the chain from entry 0 of the table (`"empty"` in
  `FatCareless`).
- The sound driver refills the half the device has begun to play, where its comments say the other
  one, so the sound is right only if it is done within a sample (`Audio`).
- `get_monotonic_ms` takes the counter of mode 3 for one that goes round once a tick: the time goes
  back in the middle of a tick, and at its end until the tick is counted (`Clock`).
- A whole ATA transfer by DMA is answered with 512 times its bytes (`"count"` in `AtaFlaws`); a floppy
  request behind the last cylinder is answered as if it had been carried out (`"beyond"` in
  `FloppyFlaws`); the FAT cache drops the results of its device (`"fail"` in `CacheFlaws`).
- A GOTO whose label has a blank behind it is not found (`"trail"` in `ShellFlaws`).

## Not modelled

- **DOS memory blocks and DPMI.** `compat_start` clears the arena after the loader has entered the
  program's block in it, so that every allocation that fits is answered with segment 0; and
  `arch/ldt.rs` does not mark an entry it allocates, so that the selectors of a DPMI client are one
  and it ends at its first instruction. A model would have one step.
- **Drive table, device file systems, kernel log, PCI, random numbers.** Registration at start-up and
  text made from kernel state.
- **Serial driver.** A ring between an interrupt and readers, of the kind `ConsoleInput` and `Pipe` have.
- **System calls and exceptions.** Decoding of registers into the operations modelled elsewhere.
- **Boot loader, start-up, installer.** They run once, alone, from top to bottom.
- **Drawing, floating point, wrappers of system calls, log viewer, demonstration programs.** Pixels,
  numbers TLC has not, and code without state of its own.

What a modelled component leaves out is in its note in `PROJECT.json`.
