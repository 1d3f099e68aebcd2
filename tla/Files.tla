-------------------------------- MODULE Files --------------------------------
(***************************************************************************)
(* File handles.  A task's open_handles point into its async_io_table,     *)
(* whose reference-counted entries hold file providers; a provider is      *)
(* bound to an instance of a driver.  Handles are duplicated, closed and   *)
(* shared with other tasks; the driver answers later, through a pending    *)
(* request, and the answer finishes what the call began.  A task may exit  *)
(* with handles open.  The driver is the console's (kernel/src/console/    *)
(* driver/mod.rs), the one that counts the users of an instance.           *)
(***************************************************************************)
EXTENDS Kernel, Functions

CONSTANTS
    FileTasks,   \* tasks that use files
    Mortal,      \* tasks that may exit
    Discipline,  \* what programs refrain from: "idle", "share", "exit" (see Idle, Quiet, Clean)
    Cleaner,     \* the cleanup resident
    Slots,       \* bound: handles of a task
    IoIndexes,   \* bound: entries of an async_io_table
    Instances,   \* bound: open instances of the driver
    OpIds        \* bound: outstanding operations

ASSUME FilesAssumption ==
    /\ Mortal \subseteq FileTasks /\ Discipline \subseteq {"idle", "share", "exit"}
    /\ Cleaner \notin FileTasks /\ None \notin FileTasks
    /\ \A S \in {Slots, IoIndexes, Instances, OpIds} : S \subseteq Nat \ {0}

VARIABLES
    status,        \* "alive", "terminated", or "gone" from the task map
    open_handles,  \* io index of each handle of a task
    io_table,      \* entry of each io index of a task: its references, and of its
                   \* FileIOProvider the bound_instance and the pending_ops
    requests,      \* PENDING_REQUESTS, with the message to the driver
    waiting,       \* operations whose signal is not raised yet
    open_io,       \* ConsoleManager::open_io: the count of each instance, 0 if free
    reader_tasks   \* Console::reader_tasks, a stack

tableVars == <<open_handles, io_table>>
driverVars == <<open_io, reader_tasks>>
fileVars == <<status, tableVars, requests, waiting, driverVars>>

NoEntry == [refs |-> 0, inst |-> None, ops |-> {}]

FilesInit ==
    /\ Boot
    /\ status = [t \in FileTasks |-> "alive"]
    /\ open_handles = [t \in FileTasks |-> [h \in Slots |-> None]]
    /\ io_table = [t \in FileTasks |-> [i \in IoIndexes |-> NoEntry]]
    /\ requests = {}
    /\ waiting = {}
    /\ open_io = [n \in Instances |-> 0]
    /\ reader_tasks = <<>>

First(S) == CHOOSE n \in S : \A m \in S : n <= m
FreeSlots(t) == {h \in Slots : open_handles[t][h] = None}
\* Io indexes and op ids are never reused; here, not while anything names them.
FreeIndexes(t) == {i \in IoIndexes : io_table[t][i] = NoEntry
                                     /\ \A r \in requests : r.task = t => r.io # i}
FreeOps == {n \in OpIds : (\A r \in requests : r.op # n) /\ (\A w \in waiting : w.op # n)
                          /\ \A t \in FileTasks, i \in IoIndexes : \A o \in io_table[t][i].ops : o.op # n}

InUse(t, h) == status[t] = "alive" /\ open_handles[t][h] # None
\* With "idle", a program does not use a handle on which a call of its own is outstanding.
Idle(t, h) ==
    InUse(t, h) /\ ("idle" \in Discipline => \A w \in waiting : ~(w.task = t /\ w.h = h))
\* With "share", nor does it change the number of handles to an entry while a
\* share or a close through another of them is outstanding.
Quiet(t, h) ==
    "share" \in Discipline =>
        \A r \in requests : r.task = t /\ r.io = open_handles[t][h] => r.kind \notin {"share", "close"}

-----------------------------------------------------------------------------
(* The tables: kernel/src/io/async_io.rs, io/handle.rs *)

\* add_io of a provider bound to inst, and the handle to it, in tables tab and hs.
InsertHandle(hs, t, h, i) == [hs EXCEPT ![t][h] = i]
InsertEntry(tab, t, i, inst) == [tab EXCEPT ![t][i] = [refs |-> 1, inst |-> inst, ops |-> {}]]

\* The slip of dropping the entry with references left.
RemoveReference_Any(tab, t, i) == [tab EXCEPT ![t][i] = NoEntry]

\* remove_reference: the entry goes with its last reference.
RemoveReference(tab, t, i) ==
    [tab EXCEPT ![t][i] = IF @.refs > 1 THEN [@ EXCEPT !.refs = @ - 1] ELSE NoEntry]

\* create_file_handle
CreateFile(t) ==
    /\ status[t] = "alive"
    /\ FreeSlots(t) # {} /\ FreeIndexes(t) # {}
    /\ LET i == First(FreeIndexes(t)) IN
       /\ open_handles' = InsertHandle(open_handles, t, First(FreeSlots(t)), i)
       /\ io_table' = InsertEntry(io_table, t, i, None)
    /\ UNCHANGED <<ncpus, status, requests, waiting, driverVars>>

\* dup_handle
Dup(t, h) ==
    /\ Idle(t, h) /\ Quiet(t, h)
    /\ FreeSlots(t) # {}
    /\ io_table' = [io_table EXCEPT ![t][open_handles[t][h]].refs = @ + 1]
    /\ open_handles' = InsertHandle(open_handles, t, First(FreeSlots(t)), open_handles[t][h])
    /\ UNCHANGED <<ncpus, status, requests, waiting, driverVars>>

Instance(t, h) == io_table[t][open_handles[t][h]].inst
References(t, h) == io_table[t][open_handles[t][h]].refs

-----------------------------------------------------------------------------
(* send_io_op, add_op and the driver_* functions *)

RegisterOp(t, i, o) == [io_table EXCEPT ![t][i].ops = @ \cup {o}]

\* add_op and send_async_request: the op is registered with its provider, and
\* the request names the task, the io index and the op to complete.
Request(t, h, kind, dest, move) ==
    LET i == open_handles[t][h]
        n == First(FreeOps) IN
    /\ FreeOps # {}
    /\ io_table' = RegisterOp(t, i, [op |-> n, kind |-> kind, h |-> h, dest |-> dest])
    /\ requests' = requests \cup {[op |-> n, task |-> t, io |-> i, from |-> t, h |-> h, kind |-> kind,
                                   inst |-> Instance(t, h), dest |-> dest, move |-> move]}
    /\ waiting' = waiting \cup {[task |-> t, h |-> h, op |-> n]}
    /\ UNCHANGED <<ncpus, status, open_handles, driverVars>>

Open(t, h) ==
    /\ Idle(t, h)
    /\ Instance(t, h) = None
    \* with "idle", one open at a time, through whichever handle
    /\ "idle" \in Discipline => io_table[t][open_handles[t][h]].ops = {}
    /\ Request(t, h, "open", None, FALSE)

\* read and write
ReadFile(t, h) ==
    /\ Idle(t, h)
    /\ Instance(t, h) # None
    /\ Request(t, h, "read", None, FALSE)

\* stat and ioctl; the operations on paths do not look at the handle.
Extended(t, h) ==
    /\ Idle(t, h)
    /\ Instance(t, h) # None
    /\ Request(t, h, "read", None, FALSE)

\* Close of the last handle: the driver is asked, and the handle stays until it
\* has agreed.
CloseLast(t, h) ==
    /\ Idle(t, h)
    /\ References(t, h) = 1
    /\ Instance(t, h) # None
    /\ Request(t, h, "close", None, FALSE)

\* Close of a duplicate: only the reference goes.
CloseDuplicate(t, h) ==
    /\ Idle(t, h) /\ Quiet(t, h)
    /\ References(t, h) > 1
    /\ io_table' = RemoveReference(io_table, t, open_handles[t][h])
    /\ open_handles' = [open_handles EXCEPT ![t][h] = None]
    /\ UNCHANGED <<ncpus, status, requests, waiting, driverVars>>

\* Share with another task: a move when this is the only reference by now.
Share(t, h, dest) ==
    /\ Idle(t, h) /\ Quiet(t, h)
    /\ Instance(t, h) # None
    /\ dest # t /\ status[dest] # "gone"
    /\ Request(t, h, "share", dest, References(t, h) = 1)

-----------------------------------------------------------------------------
(* The driver: ConsoleManager::handle_request *)

\* Whether a request succeeds: an open does if there is the console it names.
Outcomes(r) == IF r.kind = "open" THEN BOOLEAN ELSE {open_io[r.inst] > 0}

\* open_io after a request that succeeds; an open takes instance n.
Counts(r, n) ==
    CASE r.kind = "open"               -> [open_io EXCEPT ![n] = 1]
      [] r.kind = "close"              -> [open_io EXCEPT ![n] = @ - 1]
      [] r.kind = "share" /\ ~r.move   -> [open_io EXCEPT ![n] = @ + 1]
      [] OTHER                         -> open_io

Add(s, t) == IF t \in Range(s) THEN s ELSE Append(s, t)

\* The stack of readers after a request that succeeds.
Readers(r) ==
    CASE r.kind = "open"  -> Add(reader_tasks, r.from)
      [] r.kind = "close" -> SelectSeq(reader_tasks, LAMBDA u : u # r.from)
      [] r.kind = "share" -> Add(IF r.move THEN SelectSeq(reader_tasks, LAMBDA u : u # r.from)
                                 ELSE reader_tasks, r.dest)
      [] OTHER            -> reader_tasks

-----------------------------------------------------------------------------
(* request_complete: async_complete, transform_result and maybe_close_handle *)

WithoutOp(t, i, o) == [io_table EXCEPT ![t][i].ops = @ \ {o}]

\* Sharing moves the provider, with the ops it still has, to the destination
\* with the last reference, and duplicates it otherwise.  A destination that is
\* gone gets nothing.
HandOver(t, i, o) ==
    LET entry == WithoutOp(t, i, o)[t][i]
        given == IF entry.refs = 1 THEN entry ELSE [entry EXCEPT !.refs = 1, !.ops = {}]
        left == RemoveReference(WithoutOp(t, i, o), t, i)
        closed == [open_handles EXCEPT ![t][o.h] = None]
        index == First(FreeIndexes(o.dest)) IN
    IF status[o.dest] = "gone"
    THEN io_table' = left /\ open_handles' = closed
    ELSE /\ FreeSlots(o.dest) # {} /\ FreeIndexes(o.dest) # {}
         /\ io_table' = [left EXCEPT ![o.dest][index] = given]
         /\ open_handles' = InsertHandle(closed, o.dest, First(FreeSlots(o.dest)), index)

\* maybe_close_handle of a close
CloseHandle(t, i, o) ==
    /\ io_table' = RemoveReference(WithoutOp(t, i, o), t, i)
    /\ open_handles' = [open_handles EXCEPT ![t][o.h] = None]

\* The driver's answer reaches the op that asked, if its task, its io entry and
\* the op itself are still there.
Complete(r, ok, n) ==
    LET found == {o \in io_table[r.task][r.io].ops : o.op = r.op} IN
    IF status[r.task] = "gone" \/ found = {}
    THEN UNCHANGED <<tableVars, waiting>>
    ELSE LET o == CHOOSE o \in found : TRUE IN
         /\ waiting' = {w \in waiting : w.op # r.op}
         /\ CASE o.kind = "close" /\ ok -> CloseHandle(r.task, r.io, o)
              [] o.kind = "share" /\ ok -> HandOver(r.task, r.io, o)
              [] o.kind = "open" /\ ok ->
                   /\ io_table' = [WithoutOp(r.task, r.io, o) EXCEPT ![r.task][r.io].inst = n]
                   /\ UNCHANGED open_handles
              [] OTHER -> io_table' = WithoutOp(r.task, r.io, o) /\ UNCHANGED open_handles

FreeInstances == {n \in Instances : open_io[n] = 0}

\* The driver answers a request, in whatever order suits it.
Answer(r) ==
    /\ r.kind = "open" => FreeInstances # {}
    /\ \E ok \in Outcomes(r) :
          LET n == IF r.kind = "open" THEN First(FreeInstances) ELSE r.inst IN
          /\ IF ok THEN open_io' = Counts(r, n) /\ reader_tasks' = Readers(r)
                   ELSE UNCHANGED driverVars
          /\ Complete(r, ok, n)
    /\ requests' = requests \ {r}
    /\ UNCHANGED <<ncpus, status>>

-----------------------------------------------------------------------------
(* The end of a task *)

\* With "exit", a task exits without duplicates, outstanding calls or a share to it.
Clean(t) ==
    /\ \A i \in IoIndexes : io_table[t][i].refs <= 1
    /\ \A w \in waiting : w.task # t
    /\ \A r \in requests : r.task # t /\ r.dest # t

\* terminate
Exit(t) ==
    /\ t \in Mortal /\ status[t] = "alive"
    /\ "exit" \in Discipline => Clean(t)
    /\ status' = [status EXCEPT ![t] = "terminated"]
    /\ UNCHANGED <<ncpus, tableVars, requests, waiting, driverVars>>

\* send_input of Ctrl-C: the top of a stack of several readers is terminated.
CtrlC ==
    /\ Len(reader_tasks) > 1
    /\ LET t == reader_tasks[Len(reader_tasks)] IN
       /\ t \in Mortal
       /\ "exit" \in Discipline => Clean(t)
       /\ status' = [status EXCEPT ![t] = IF @ = "alive" THEN "terminated" ELSE @]
    /\ reader_tasks' = SubSeq(reader_tasks, 1, Len(reader_tasks) - 1)
    /\ UNCHANGED <<ncpus, tableVars, requests, waiting, open_io>>

\* close_task_handles: a close request for every handle, sent by the resident.
CloseRequests(t) ==
    {[op |-> 0, task |-> t, io |-> open_handles[t][h], from |-> Cleaner, h |-> h, kind |-> "close",
      inst |-> Instance(t, h), dest |-> None, move |-> FALSE] :
        h \in {k \in Slots : open_handles[t][k] # None /\ Instance(t, k) # None}}

\* cleanup_resident, one task of its round: close the handles, drop the task.
CleanUp(t) ==
    /\ status[t] = "terminated"
    /\ status' = [status EXCEPT ![t] = "gone"]
    /\ requests' = requests \cup CloseRequests(t)
    /\ open_handles' = [open_handles EXCEPT ![t] = [h \in Slots |-> None]]
    /\ io_table' = [io_table EXCEPT ![t] = [i \in IoIndexes |-> NoEntry]]
    /\ waiting' = {w \in waiting : w.task # t}
    /\ UNCHANGED <<ncpus, driverVars>>

FilesNext ==
    \/ \E t \in FileTasks : CreateFile(t) \/ Exit(t) \/ CleanUp(t)
    \/ \E t \in FileTasks, h \in Slots :
          \/ Dup(t, h) \/ Open(t, h) \/ ReadFile(t, h) \/ Extended(t, h)
          \/ CloseLast(t, h) \/ CloseDuplicate(t, h)
          \/ \E dest \in FileTasks : Share(t, h, dest)
    \/ \E r \in requests : Answer(r)
    \/ CtrlC

FilesSpec == FilesInit /\ [][FilesNext]_<<ncpus, fileVars>>

-----------------------------------------------------------------------------

Handles(t, i) == {h \in Slots : open_handles[t][h] = i}

Closing(t, i) == \E r \in requests : r.task = t /\ r.io = i /\ r.kind = "close"

\* What a task holds is open: the driver does not free an instance, to give its
\* number to someone else, while a handle is bound to it that nobody closes.
HeldIsOpen ==
    \A t \in FileTasks, i \in IoIndexes :
        status[t] = "alive" /\ io_table[t][i].inst # None /\ ~Closing(t, i) =>
            open_io[io_table[t][i].inst] > 0

\* In every task, an io entry is there exactly while handles point to it, and
\* its count is their number, across duplicates, closes and shares that
\* complete while other handles of the entry come and go; and the driver counts
\* along: what is held is open.
RefCountsMatch ==
    /\ HeldIsOpen
    /\ \A t \in FileTasks, i \in IoIndexes :
          /\ io_table[t][i].refs = Cardinality(Handles(t, i))
          /\ (io_table[t][i] = NoEntry) <=> (io_table[t][i].refs = 0)

\* Every operation a running task waits for can still be completed: its request
\* is on its way, and names the place where the operation is kept.
WaitingIsRequested ==
    \A w \in waiting : status[w.task] = "alive" =>
        \E r \in requests : /\ r.op = w.op
                            /\ \E o \in io_table[r.task][r.io].ops : o.op = w.op

\* The two ends of a file handle agree: the counts of the table and of the
\* driver, and the operations that wait with the requests under way.
HandlesMatch == RefCountsMatch /\ WaitingIsRequested
=============================================================================
