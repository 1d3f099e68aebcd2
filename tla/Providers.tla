------------------------------ MODULE Providers ------------------------------
(***************************************************************************)
(* Two sources of I/O completions that race with the reads they complete.  *)
(*                                                                         *)
(* Waiting for a child to exit: TaskIOProvider of                          *)
(* kernel/src/io/provider/task.rs against terminate_id of                  *)
(* task/actions/lifecycle.rs.  The parent reads the handle of its child;   *)
(* whoever ends the child (itself, or the console on Ctrl-C) stores the    *)
(* exit code and completes the reads that are pending.                     *)
(*                                                                         *)
(* Hardware interrupts as I/O: the handler of kernel/src/interrupts/pic.rs *)
(* against the reads and writes of io/provider/irq.rs.  The handler masks  *)
(* the line, raises its active flag and completes the pending reads; a     *)
(* read of an active line is answered at once; a write acknowledges: it    *)
(* clears the flag and unmasks the line.  The mask register of the PIC is  *)
(* read and written without a lock.                                        *)
(***************************************************************************)
EXTENDS Kernel

CONSTANTS
    Early,         \* the child runs before its handle is there: a kernel task
    MaxChildReads  \* bound on the parent's reads

ASSUME ChildAssumption ==
    Early \subseteq BOOLEAN /\ MaxChildReads \in Nat /\ None \notin {"self", "console"}

VARIABLES
    childPc,      \* where the parent and the killers are in the kernel
    early,        \* whether the child of this behaviour starts before its handle exists
    childStatus,  \* "created", "running", "terminated", or "gone" from the task map
    childIo,      \* the parent's io entry of the child is there
    exit_code,    \* TaskIOProvider::exit_code: whose code it is
    childOps,     \* TaskIOProvider::pending_ops
    childReads,   \* ids given out by id_gen
    snapshot,     \* pending ids a killer still has to complete
    answers       \* the codes each read was completed with, in order

childVars == <<childPc, early, childStatus, childIo, exit_code, childOps, childReads, snapshot, answers>>

\* The child itself and the console end the child; each has an exit code of its own.
Killers == {"self", "console"}
ChildActors == Killers \cup {"parent"}

ChildInit ==
    /\ Boot
    /\ childPc = [a \in ChildActors |-> IF a = "parent" THEN "create" ELSE "out"]
    /\ early \in Early
    /\ childStatus = IF early THEN "running" ELSE "created"
    /\ childIo = FALSE
    /\ exit_code = None
    /\ childOps = {}
    /\ childReads = 0
    /\ snapshot = [k \in Killers |-> {}]
    /\ answers = [i \in 1..MaxChildReads |-> <<>>]

\* The parent is inside until its handle is there.
ChildInside == {a \in ChildActors : childPc[a] # "out"}
ChildGoto(a, point) == childPc' = [childPc EXCEPT ![a] = point] /\ UNCHANGED <<ncpus, early>>

\* create_task, create_kernel_task: the io entry follows the task itself.
InsertChild ==
    /\ childPc["parent"] = "create"
    /\ childIo' = TRUE
    /\ ChildGoto("parent", "out")
    /\ UNCHANGED <<childStatus, exit_code, childOps, childReads, snapshot, answers>>

\* load_executable, or the first pick of a kernel task.
StartChild ==
    /\ childStatus = "created" /\ childIo
    /\ childStatus' = "running"
    /\ UNCHANGED <<ncpus, childPc, early, childIo, exit_code, childOps, childReads, snapshot, answers>>

-----------------------------------------------------------------------------
(* TaskIOProvider::add_op of a read *)

AddChildRead ==
    /\ childPc["parent"] = "out" /\ childIo /\ CpuFree(ChildInside)
    /\ childReads < MaxChildReads
    /\ childReads' = childReads + 1
    /\ childOps' = childOps \cup {childReads + 1}
    /\ ChildGoto("parent", "run")
    /\ UNCHANGED <<childStatus, childIo, exit_code, snapshot, answers>>

\* The slip of waiting for an exit that was.
RunChildRead_Waits ==
    /\ childPc["parent"] = "run"
    /\ ChildGoto("parent", "out")
    /\ UNCHANGED <<childStatus, childIo, exit_code, childOps, childReads, snapshot, answers>>

\* run_op: the op may be gone by now; else read looks at the exit code.
RunChildRead ==
    /\ childPc["parent"] = "run"
    /\ ChildGoto("parent", IF childReads \in childOps /\ exit_code # None THEN "finish" ELSE "out")
    /\ UNCHANGED <<childStatus, childIo, exit_code, childOps, childReads, snapshot, answers>>

\* The result is stored whether or not the op was still there.
FinishChildRead ==
    /\ childPc["parent"] = "finish"
    /\ childOps' = childOps \ {childReads}
    /\ answers' = [answers EXCEPT ![childReads] = Append(@, exit_code)]
    /\ ChildGoto("parent", "out")
    /\ UNCHANGED <<childStatus, childIo, exit_code, childReads, snapshot>>

-----------------------------------------------------------------------------
(* terminate_id and task_exited, by k *)

\* The child ends itself while it runs, the console while it is in the map.
\* Bound: not twice in a row.
Kill(k) ==
    /\ childPc[k] = "out" /\ CpuFree(ChildInside)
    /\ childStatus = "running" \/ (k = "console" /\ childStatus = "terminated")
    /\ exit_code # k
    /\ childStatus' = "terminated"
    /\ ChildGoto(k, IF childIo THEN "code" ELSE "out")
    /\ UNCHANGED <<childIo, exit_code, childOps, childReads, snapshot, answers>>

StoreCode(k) ==
    /\ childPc[k] = "code"
    /\ exit_code' = k
    /\ ChildGoto(k, "ids")
    /\ UNCHANGED <<childStatus, childIo, childOps, childReads, snapshot, answers>>

TakeIds(k) ==
    /\ childPc[k] = "ids"
    /\ snapshot' = [snapshot EXCEPT ![k] = childOps]
    /\ ChildGoto(k, "complete")
    /\ UNCHANGED <<childStatus, childIo, exit_code, childOps, childReads, answers>>

\* async_complete of each id: of those another party has not removed.
CompleteChild(k) ==
    /\ childPc[k] = "complete"
    /\ IF snapshot[k] = {}
       THEN ChildGoto(k, "out") /\ UNCHANGED <<snapshot, answers, childOps>>
       ELSE LET i == CHOOSE i \in snapshot[k] : \A j \in snapshot[k] : i <= j IN
            /\ snapshot' = [snapshot EXCEPT ![k] = @ \ {i}]
            /\ childOps' = childOps \ {i}
            /\ answers' = [answers EXCEPT ![i] = IF i \in childOps THEN Append(@, k) ELSE @]
            /\ ChildGoto(k, "complete")
    /\ UNCHANGED <<childStatus, childIo, exit_code, childReads>>

\* The cleanup resident removes the child from the map.
RemoveChild ==
    /\ childStatus = "terminated" /\ CpuFree(ChildInside)
    /\ childStatus' = "gone"
    /\ UNCHANGED <<ncpus, childPc, early, childIo, exit_code, childOps, childReads, snapshot, answers>>

ChildNext ==
    \/ InsertChild \/ StartChild \/ RemoveChild
    \/ AddChildRead \/ RunChildRead \/ FinishChildRead
    \/ \E k \in Killers : Kill(k) \/ StoreCode(k) \/ TakeIds(k) \/ CompleteChild(k)

ChildSpec == ChildInit /\ [][ChildNext]_<<ncpus, childVars>>

-----------------------------------------------------------------------------

\* The parent hears of the exit: when nobody is inside the kernel and the child
\* has ended, no read of its handle is left waiting; on one CPU whether or not
\* the child was started before its handle existed, and each read is completed
\* only once.
ExitIsReported ==
    /\ ChildInside = {} /\ childStatus \in {"terminated", "gone"} /\ (Uniprocessor \/ ~early)
          => childOps = {}
    /\ Uniprocessor => \A i \in 1..MaxChildReads : Len(answers[i]) <= 1

-----------------------------------------------------------------------------
(* Interrupts *)

CONSTANTS
    Lines,      \* interrupt lines of one PIC
    Drivers,    \* driver tasks
    LineOf,     \* the line each driver listens to
    MaxSignals  \* bound on the signals of one device

ASSUME IrqAssumption ==
    LineOf \in [Drivers -> Lines] /\ MaxSignals \in Nat /\ "handler" \notin Drivers

VARIABLES
    irqPc,      \* where the drivers and the handler are
    imr,        \* lines masked in the PIC
    imrRead,    \* what a party read of the mask register
    asserted,   \* lines whose device wants service: level of the request
    signals,    \* how often each device has asserted its line
    listeners,  \* INTERRUPT_LISTENERS: drivers that have opened their line
    active,     \* ACTIVE_INTERRUPTS
    reading,    \* drivers with a pending read
    serving,    \* the line the handler is at work on
    toNotify,   \* drivers the handler still has to notify
    told        \* drivers whose last read was completed and who have not acknowledged yet

irqVars == <<irqPc, imr, imrRead, asserted, signals, listeners, active, reading, serving, toNotify, told>>

IrqActors == Drivers \cup {"handler"}

IrqInit ==
    /\ Boot
    /\ irqPc = [a \in IrqActors |-> "out"]
    /\ imr = {}
    /\ imrRead = [a \in IrqActors |-> {}]
    /\ asserted = {}
    /\ signals = [l \in Lines |-> 0]
    /\ listeners = {}
    /\ active = {}
    /\ reading = {}
    /\ serving = None
    /\ toNotify = {}
    /\ told = {}

IrqInside == {a \in IrqActors : irqPc[a] # "out"}
IrqGoto(a, point) == irqPc' = [irqPc EXCEPT ![a] = point] /\ UNCHANGED ncpus

\* The device asserts its line.
RaiseLine(l) ==
    /\ l \notin asserted /\ signals[l] < MaxSignals
    /\ asserted' = asserted \cup {l}
    /\ signals' = [signals EXCEPT ![l] = @ + 1]
    /\ UNCHANGED <<ncpus, irqPc, imr, imrRead, listeners, active, reading, serving, toNotify, told>>

-----------------------------------------------------------------------------
(* _handle_pic_interrupt *)

Listening(l) == {d \in listeners : LineOf[d] = l}
Locked(l) == \E d \in Drivers : LineOf[d] = l /\ irqPc[d] = "insert"

\* The PIC delivers an edge once; a masked line waits.  has_listeners does not
\* wait for the lock of the list: a line whose list is being changed counts as
\* one without listeners, and its interrupt passes unheard.  mask_interrupt
\* reads the register first.
Interrupt(l) ==
    /\ irqPc["handler"] = "out" /\ CpuFree(IrqInside)
    /\ l \in asserted \ imr
    /\ asserted' = asserted \ {l}
    /\ IF Listening(l) = {} \/ Locked(l)
       THEN UNCHANGED <<ncpus, irqPc, serving, imrRead>>
       ELSE /\ serving' = l
            /\ imrRead' = [imrRead EXCEPT !["handler"] = imr]
            /\ IrqGoto("handler", "mask")
    /\ UNCHANGED <<imr, signals, listeners, active, reading, toNotify, told>>

Mask ==
    /\ irqPc["handler"] = "mask"
    /\ imr' = imrRead["handler"] \cup {serving}
    /\ imrRead' = [imrRead EXCEPT !["handler"] = {}]
    /\ IrqGoto("handler", "raise")
    /\ UNCHANGED <<asserted, signals, listeners, active, reading, serving, toNotify, told>>

\* notify_interrupt_listeners: only the one who raises the flag notifies.
RaiseActive ==
    /\ irqPc["handler"] = "raise"
    /\ active' = active \cup {serving}
    /\ toNotify' = IF serving \in active THEN {} ELSE Listening(serving)
    /\ IrqGoto("handler", "notify")
    /\ UNCHANGED <<imr, imrRead, asserted, signals, listeners, reading, serving, told>>

\* interrupt_fired of one listener, then the next; end_of_interrupt.
Notify ==
    /\ irqPc["handler"] = "notify"
    /\ IF toNotify = {}
       THEN /\ serving' = None
            /\ IrqGoto("handler", "out")
            /\ UNCHANGED <<toNotify, reading, told>>
       ELSE \E d \in toNotify :
            /\ toNotify' = toNotify \ {d}
            /\ told' = IF d \in reading THEN told \cup {d} ELSE told
            /\ reading' = reading \ {d}
            /\ IrqGoto("handler", "notify")
            /\ UNCHANGED serving
    /\ UNCHANGED <<imr, imrRead, asserted, signals, listeners, active>>

-----------------------------------------------------------------------------
(* InterruptIOProvider, used by a driver that reads, serves and acknowledges *)

\* open_interrupt_handle: add_interrupt_listener takes the lock, ...
OpenIrq(d) ==
    /\ irqPc[d] = "out" /\ d \notin listeners /\ CpuFree(IrqInside)
    /\ IrqGoto(d, "insert")
    /\ UNCHANGED <<imr, imrRead, asserted, signals, listeners, active, reading, serving, toNotify, told>>

\* ... and inserts the driver.
InsertListener(d) ==
    /\ irqPc[d] = "insert"
    /\ listeners' = listeners \cup {d}
    /\ IrqGoto(d, "out")
    /\ UNCHANGED <<imr, imrRead, asserted, signals, active, reading, serving, toNotify, told>>

ReadIrq(d) ==
    /\ irqPc[d] = "out" /\ d \in listeners \ (reading \cup told) /\ CpuFree(IrqInside)
    /\ reading' = reading \cup {d}
    /\ IrqGoto(d, "run")
    /\ UNCHANGED <<imr, imrRead, asserted, signals, listeners, active, serving, toNotify, told>>

\* The slip of leaving an active line to the next interrupt.
RunIrqRead_Waits(d) ==
    /\ irqPc[d] = "run"
    /\ IrqGoto(d, "out")
    /\ UNCHANGED <<imr, imrRead, asserted, signals, listeners, active, reading, serving, toNotify, told>>

\* run_op: a read of an active line completes at once.
RunIrqRead(d) ==
    /\ irqPc[d] = "run"
    /\ IF LineOf[d] \in active THEN reading' = reading \ {d} /\ told' = told \cup {d}
                               ELSE UNCHANGED <<reading, told>>
    /\ IrqGoto(d, "out")
    /\ UNCHANGED <<imr, imrRead, asserted, signals, listeners, active, serving, toNotify>>

\* acknowledge_interrupt: clear the flag, then unmask.
Acknowledge(d) ==
    /\ irqPc[d] = "out" /\ d \in told /\ CpuFree(IrqInside)
    /\ told' = told \ {d}
    /\ active' = active \ {LineOf[d]}
    /\ IrqGoto(d, "unmask")
    /\ UNCHANGED <<imr, imrRead, asserted, signals, listeners, reading, serving, toNotify>>

ReadMask(d) ==
    /\ irqPc[d] = "unmask"
    /\ imrRead' = [imrRead EXCEPT ![d] = imr]
    /\ IrqGoto(d, "write")
    /\ UNCHANGED <<imr, asserted, signals, listeners, active, reading, serving, toNotify, told>>

Unmask(d) ==
    /\ irqPc[d] = "write"
    /\ imr' = imrRead[d] \ {LineOf[d]}
    /\ imrRead' = [imrRead EXCEPT ![d] = {}]
    /\ IrqGoto(d, "out")
    /\ UNCHANGED <<asserted, signals, listeners, active, reading, serving, toNotify, told>>

IrqNext ==
    \/ \E l \in Lines : RaiseLine(l) \/ Interrupt(l)
    \/ Mask \/ RaiseActive \/ Notify
    \/ \E d \in Drivers : OpenIrq(d) \/ InsertListener(d) \/ ReadIrq(d)
                           \/ RunIrqRead(d) \/ Acknowledge(d) \/ ReadMask(d) \/ Unmask(d)

IrqSpec == IrqInit /\ [][IrqNext]_<<ncpus, irqVars>>

-----------------------------------------------------------------------------

\* A driver never waits for an interrupt that is active: whichever of the
\* handler and the driver comes second sees what the first one left, on any
\* number of CPUs.
NobodyWaitsOnActive ==
    IrqInside = {} => \A d \in reading : LineOf[d] \notin active

=============================================================================
