------------------------------ MODULE Scheduler ------------------------------
(***************************************************************************)
(* The multi-core task scheduler: kernel/src/task/scheduling/mod.rs        *)
(* (GLOBAL_WORK_QUEUE, CPUScheduler, switch), task/switching.rs            *)
(* (switch_to, update_timeouts), the run-state machine of task/state.rs,   *)
(* the lifecycle calls that move a task through it, and the removal of     *)
(* terminated tasks by kernel/src/cleanup.rs.                              *)
(*                                                                         *)
(* Every CPU is a process.  Kernel code runs with interrupts off (all IDT  *)
(* entries are interrupt gates), so one CPU's kernel path is sequential,   *)
(* but two CPUs interleave wherever a lock is released: pc[c] names those  *)
(* points.  A CPU in "user" executes its current task between two kernel   *)
(* entries, or is halted in its idle task.  Kernel tasks run in ring 0 and *)
(* inherit the cleared interrupt flag: only a user program and the idle    *)
(* loop are ever interrupted.                                              *)
(***************************************************************************)
EXTENDS Naturals, Sequences, FiniteSets

CONSTANTS
    Cpus,       \* the processors
    Bsp,        \* the processor wired to the PIT, the only one that preempts
    Tasks,      \* task ids that may be created (idle tasks excluded)
    Idle,       \* a CPU's own idle task (TaskID of CPUScheduler::idle_task)
    None,       \* 0xFFFFFFFF in pending_reenqueue, and "no task"
    Resident,   \* the cleanup resident, the first task main() creates
    FirstTask,  \* INIT, the second one
    UserTasks,  \* tasks that are programs in ring 3; the others are kernel tasks
    Mortal,     \* tasks that may exit or be ended by another task
    MaxQueue,   \* bound: tasks block only while the work queue is shorter
    SchedFlaws  \* what the code does not guard against: "exec", two tasks that
                \* start one task at the same time

ASSUME SchedulerAssumption ==
    /\ Bsp \in Cpus
    /\ {Resident, FirstTask} \subseteq Tasks
    /\ Resident # FirstTask
    /\ Idle \notin Tasks
    /\ None \notin Tasks
    /\ Idle # None
    /\ UserTasks \subseteq Tasks \ {Resident, FirstTask}
    /\ Mortal \subseteq Tasks \ {Resident}
    /\ MaxQueue \in Nat

VARIABLES
    exists,     \* the ids in GLOBAL_TASK_MAP
    runState,   \* Task::state of every task
    timed,      \* whether the Blocked state carries a timeout
    loading,    \* the task that a task is starting, inside exec_program
    fresh,      \* tasks that never ran: entered by iretd or a first ret
    workQueue,  \* GLOBAL_WORK_QUEUE
    pc,         \* where each CPU is, see above
    current,    \* CPUScheduler::current_task
    stack,      \* the task whose kernel stack the CPU is executing on
    pending,    \* CPUScheduler::pending_reenqueue
    hand,       \* the id a CPU popped, or is about to push
    should,     \* the local should_reenqueue of switch()
    slice,      \* CPUScheduler::current_ticks of the Bsp
    collected   \* the cleanup resident's local list of terminated tasks

vars == <<exists, runState, timed, loading, fresh, workQueue, pc, current, stack,
          pending, hand, should, slice, collected>>
taskVars == <<exists, runState, timed, loading, fresh>>
cpuVars == <<current, stack, pending, should>>

Blocked == {"Sleep", "Futex", "FileMapping"}
RunState == {"Uninitialized", "Initialized", "Running", "Terminated"} \cup Blocked

\* Program points of a CPU.  "wake" and "enqueue": between a state change to
\* Running and reenqueue_task, with and without FUTEX_WATCH_LIST held.  "pit":
\* inside handle_pit_interrupt.  The rest are the points of switch().
Points == {"user", "wake", "enqueue", "pit", "drain", "decide", "pop", "check",
           "swap", "init", "load", "after", "panic"}

can_resume(t) == t \in exists /\ runState[t] \in {"Initialized", "Running"}

Goto(c, point) == pc' = [pc EXCEPT ![c] = point]

\* The CPU runs task code (not its idle loop) and enters the kernel.
InTask(c) == pc[c] = "user" /\ current[c] # Idle

\* futex_wake_inner holds FUTEX_WATCH_LIST from the state change to the push.
WatchListFree == \A d \in Cpus : pc[d] # "wake"

Init ==
    /\ exists = {Resident, FirstTask}
    /\ runState = [t \in Tasks |-> IF t \in exists THEN "Running" ELSE "Uninitialized"]
    /\ timed = [t \in Tasks |-> FALSE]
    /\ loading = [t \in Tasks |-> None]
    /\ fresh = Tasks
    /\ workQueue = <<Resident, FirstTask>>
    /\ pc = [c \in Cpus |-> "user"]
    /\ current = [c \in Cpus |-> Idle]
    /\ stack = [c \in Cpus |-> Idle]
    /\ pending = [c \in Cpus |-> None]
    /\ hand = [c \in Cpus |-> None]
    /\ should = [c \in Cpus |-> FALSE]
    /\ slice = 0
    /\ collected = {}

-----------------------------------------------------------------------------
(* What the running task asks of the kernel. *)

\* create_kernel_task: insert into the map, state Running, then enqueue.
CreateKernelTask(c, t) ==
    /\ InTask(c)
    /\ t \notin UserTasks \cup exists /\ runState[t] = "Uninitialized"
    /\ exists' = exists \cup {t}
    /\ runState' = [runState EXCEPT ![t] = "Running"]
    /\ hand' = [hand EXCEPT ![c] = t]
    /\ Goto(c, "enqueue")
    /\ UNCHANGED <<timed, loading, fresh, workQueue, cpuVars, slice, collected>>

\* create_task: the task exists, but no queue knows it.
CreateTask(c, t) ==
    /\ InTask(c)
    /\ t \in UserTasks \ exists /\ runState[t] = "Uninitialized"
    /\ exists' = exists \cup {t}
    /\ UNCHANGED <<runState, timed, loading, fresh, workQueue, pc, cpuVars, hand, slice, collected>>

\* exec_program: the state check at its start, made under a lock it drops.
\* Loading the program then blocks the caller many times over, and the task
\* stays Uninitialized all the while.
ExecCheck(c, t) ==
    /\ InTask(c)
    /\ t \in exists /\ runState[t] = "Uninitialized"
    /\ "exec" \in SchedFlaws \/ \A u \in Tasks : loading[u] # t
    /\ loading' = [loading EXCEPT ![current[c]] = t]
    /\ UNCHANGED <<exists, runState, timed, fresh, workQueue, pc, cpuVars, hand, slice, collected>>

\* exec_program gives up: no file, no loader, no memory.
ExecFail(c) ==
    /\ InTask(c)
    /\ loading[current[c]] # None
    /\ loading' = [loading EXCEPT ![current[c]] = None]
    /\ UNCHANGED <<exists, runState, timed, fresh, workQueue, pc, cpuVars, hand, slice, collected>>

\* The end of exec_program: make_runnable, which spares a task that was ended
\* or started meanwhile, and reenqueue_task, both under the task lock.
ExecFinish(c, t) ==
    /\ InTask(c)
    /\ loading[current[c]] = t
    /\ loading' = [loading EXCEPT ![current[c]] = None]
    /\ runState' = [runState EXCEPT ![t] = IF t \in exists /\ @ = "Uninitialized" THEN "Initialized" ELSE @]
    /\ workQueue' = IF t \in exists THEN Append(workQueue, t) ELSE workQueue
    /\ UNCHANGED <<exists, timed, fresh, pc, cpuVars, hand, slice, collected>>

\* The yield syscall, and yield_coop() as the last step of a blocking call.
Yield(c) ==
    /\ InTask(c)
    /\ Goto(c, "drain")
    /\ UNCHANGED <<taskVars, workQueue, cpuVars, hand, slice, collected>>

\* actions::sleep.  get_current_task() and Task::sleep both panic on a task
\* that is gone or not Running.
Sleep(c) ==
    /\ InTask(c)
    /\ Len(workQueue) < MaxQueue
    /\ LET t == current[c] IN
       IF t \in exists /\ runState[t] = "Running"
       THEN /\ runState' = [runState EXCEPT ![t] = "Sleep"]
            /\ timed' = [timed EXCEPT ![t] = TRUE]
            /\ Goto(c, "drain")
       ELSE /\ Goto(c, "panic")
            /\ UNCHANGED <<runState, timed>>
    /\ UNCHANGED <<exists, loading, fresh, workQueue, cpuVars, hand, slice, collected>>

\* futex_wait on a value that matches: Task::futex_wait overwrites whatever
\* state the task has, then the task yields.
FutexWait(c, has_timeout) ==
    /\ InTask(c) /\ WatchListFree
    /\ Len(workQueue) < MaxQueue
    /\ LET t == current[c] IN
       IF t \in exists
       THEN /\ runState' = [runState EXCEPT ![t] = "Futex"]
            /\ timed' = [timed EXCEPT ![t] = has_timeout]
            /\ Goto(c, "drain")
       ELSE /\ Goto(c, "panic")
            /\ UNCHANGED <<runState, timed>>
    /\ UNCHANGED <<exists, loading, fresh, workQueue, cpuVars, hand, slice, collected>>

\* A request to map or page in a file has been sent to its driver:
\* begin_file_mapping_request, then the task yields.  When the answer is there
\* already, the call is a Yield.
FileMappingWait(c) ==
    /\ InTask(c)
    /\ Len(workQueue) < MaxQueue
    /\ LET t == current[c] IN
       IF t \in exists
       THEN /\ IF runState[t] = "Running"
               THEN /\ runState' = [runState EXCEPT ![t] = "FileMapping"]
                    /\ timed' = [timed EXCEPT ![t] = FALSE]
               ELSE UNCHANGED <<runState, timed>>
            /\ Goto(c, "drain")
       ELSE /\ Goto(c, "panic")
            /\ UNCHANGED <<runState, timed>>
    /\ UNCHANGED <<exists, loading, fresh, workQueue, cpuVars, hand, slice, collected>>

\* The driver answers: resolve_file_mapping_request under the task lock, then
\* reenqueue_task.
FileMappingDone(c, t) ==
    /\ InTask(c)
    /\ t \in exists /\ runState[t] = "FileMapping"
    /\ runState' = [runState EXCEPT ![t] = "Running"]
    /\ hand' = [hand EXCEPT ![c] = t]
    /\ Goto(c, "enqueue")
    /\ UNCHANGED <<exists, timed, loading, fresh, workQueue, cpuVars, slice, collected>>

\* The slip of waking whatever task the watch list names.
FutexWake_AnyState(c, t) ==
    /\ InTask(c) /\ WatchListFree
    /\ t \in exists /\ t # current[c]
    /\ runState' = [runState EXCEPT ![t] = "Running"]
    /\ timed' = [timed EXCEPT ![t] = FALSE]
    /\ hand' = [hand EXCEPT ![c] = t]
    /\ Goto(c, "wake")
    /\ UNCHANGED <<exists, loading, fresh, workQueue, cpuVars, slice, collected>>

\* futex_wake_inner on a listed task: Task::futex_wake under the task lock,
\* reenqueue_task after that lock is dropped.
FutexWake(c, t) ==
    /\ InTask(c) /\ WatchListFree
    /\ t \in exists /\ runState[t] = "Futex"
    /\ runState' = [runState EXCEPT ![t] = "Running"]
    /\ timed' = [timed EXCEPT ![t] = FALSE]
    /\ hand' = [hand EXCEPT ![c] = t]
    /\ Goto(c, "wake")
    /\ UNCHANGED <<exists, loading, fresh, workQueue, cpuVars, slice, collected>>

\* reenqueue_task, for a state change made just before.
Enqueue(c) ==
    /\ pc[c] \in {"wake", "enqueue"}
    /\ workQueue' = Append(workQueue, hand[c])
    /\ hand' = [hand EXCEPT ![c] = None]
    /\ Goto(c, "user")
    /\ UNCHANGED <<taskVars, cpuVars, slice, collected>>

\* terminate: the current task ends itself and yields.
Terminate(c) ==
    /\ InTask(c) /\ current[c] \in Mortal
    /\ IF current[c] \in exists
       THEN /\ runState' = [runState EXCEPT ![current[c]] = "Terminated"]
            /\ timed' = [timed EXCEPT ![current[c]] = FALSE]
       ELSE UNCHANGED <<runState, timed>>
    /\ Goto(c, "drain")
    /\ UNCHANGED <<exists, loading, fresh, workQueue, cpuVars, hand, slice, collected>>

\* terminate_task: another task is ended, wherever it is (Ctrl-C, closing a window).
TerminateTask(c, t) ==
    /\ InTask(c) /\ t \in Mortal \ {current[c]}
    /\ t \in exists
    /\ runState' = [runState EXCEPT ![t] = "Terminated"]
    /\ timed' = [timed EXCEPT ![t] = FALSE]
    /\ UNCHANGED <<exists, loading, fresh, workQueue, pc, cpuVars, hand, slice, collected>>

\* cleanup_resident, first half of its loop: collect every terminated task.
CleanupCollect(c) ==
    /\ InTask(c) /\ current[c] = Resident
    /\ collected = {}
    /\ collected' = {t \in exists : runState[t] = "Terminated"}
    /\ collected' # {}
    /\ UNCHANGED <<taskVars, workQueue, pc, cpuVars, hand, slice>>

\* cleanup_resident, second half: clean_up_task and take_task for one of them.
CleanupTake(c) ==
    /\ InTask(c) /\ current[c] = Resident
    /\ \E t \in collected : /\ exists' = exists \ {t}
                            /\ collected' = collected \ {t}
    /\ UNCHANGED <<runState, timed, loading, fresh, workQueue, pc, cpuVars, hand, slice>>

-----------------------------------------------------------------------------
(* The timer. *)

\* IRQ 0 arrives on the Bsp while it runs a program or is halted.
PitEnter ==
    /\ pc[Bsp] = "user" /\ current[Bsp] \in UserTasks \cup {Idle}
    /\ Goto(Bsp, "pit")
    /\ UNCHANGED <<taskVars, workQueue, cpuVars, hand, slice, collected>>

\* The slip of reporting a timeout without leaving the blocked state.
PitExpire_StaysBlocked(t) ==
    /\ pc[Bsp] = "pit"
    /\ t \in exists /\ runState[t] \in Blocked /\ timed[t]
    /\ workQueue' = Append(workQueue, t)
    /\ UNCHANGED <<taskVars, pc, cpuVars, hand, slice, collected>>

\* update_timeouts reaches a task whose timeout has run out: Running, and
\* enqueued before its lock is dropped.
PitExpire(t) ==
    /\ pc[Bsp] = "pit"
    /\ t \in exists /\ runState[t] \in Blocked /\ timed[t]
    /\ runState' = [runState EXCEPT ![t] = "Running"]
    /\ timed' = [timed EXCEPT ![t] = FALSE]
    /\ workQueue' = Append(workQueue, t)
    /\ UNCHANGED <<exists, loading, fresh, pc, cpuVars, hand, slice, collected>>

\* The end of the handler: every second tick a user program is preempted; the
\* idle loop goes on to switch() after each interrupt.
PitExit ==
    /\ pc[Bsp] = "pit"
    /\ slice' = 1 - slice
    /\ Goto(Bsp, IF current[Bsp] = Idle \/ slice = 1 THEN "drain" ELSE "user")
    /\ UNCHANGED <<taskVars, workQueue, cpuVars, hand, collected>>

\* pit_cascade on an application processor: tick()'s answer is dropped, so
\* only a halted CPU goes on to switch().
PitCascade(c) ==
    /\ c # Bsp /\ pc[c] = "user" /\ current[c] = Idle
    /\ Goto(c, "drain")
    /\ UNCHANGED <<taskVars, workQueue, cpuVars, hand, slice, collected>>

-----------------------------------------------------------------------------
(* switch(). *)

\* The slip of pushing pending_reenqueue without comparing it to 0xFFFFFFFF.
Drain_NoSentinel(c, point, next) ==
    /\ pc[c] = point
    /\ workQueue' = Append(workQueue, pending[c])
    /\ pending' = [pending EXCEPT ![c] = None]
    /\ Goto(c, next)
    /\ UNCHANGED <<taskVars, current, stack, should, hand, slice, collected>>

\* Push what an earlier switch to a fresh task left in pending_reenqueue.
Drain(c, point, next) ==
    /\ pc[c] = point
    /\ workQueue' = IF pending[c] = None THEN workQueue
                                         ELSE Append(workQueue, pending[c])
    /\ pending' = [pending EXCEPT ![c] = None]
    /\ Goto(c, next)
    /\ UNCHANGED <<taskVars, current, stack, should, hand, slice, collected>>

DrainStale(c) == Drain(c, "drain", "decide")

\* should_reenqueue, read under the task lock.
Decide(c) ==
    /\ pc[c] = "decide"
    /\ should' = [should EXCEPT ![c] = current[c] # Idle /\ can_resume(current[c])]
    /\ Goto(c, "pop")
    /\ UNCHANGED <<taskVars, workQueue, current, stack, pending, hand, slice, collected>>

\* The slip of popping the end new tasks are pushed to.
Pop_Newest(c) ==
    /\ pc[c] = "pop"
    /\ IF workQueue = <<>>
       THEN /\ hand' = [hand EXCEPT ![c] = Idle]
            /\ Goto(c, "swap")
            /\ UNCHANGED workQueue
       ELSE /\ hand' = [hand EXCEPT ![c] = workQueue[Len(workQueue)]]
            /\ workQueue' = SubSeq(workQueue, 1, Len(workQueue) - 1)
            /\ Goto(c, "check")
    /\ UNCHANGED <<taskVars, cpuVars, slice, collected>>

\* Pop one item; an empty queue selects the idle task.
Pop(c) ==
    /\ pc[c] = "pop"
    /\ IF workQueue = <<>>
       THEN /\ hand' = [hand EXCEPT ![c] = Idle]
            /\ Goto(c, "swap")
            /\ UNCHANGED workQueue
       ELSE /\ hand' = [hand EXCEPT ![c] = Head(workQueue)]
            /\ workQueue' = Tail(workQueue)
            /\ Goto(c, "check")
    /\ UNCHANGED <<taskVars, cpuVars, slice, collected>>

\* The slip of trusting the queue: no lookup, no can_resume.
Check_Trusting(c) ==
    /\ pc[c] = "check"
    /\ Goto(c, "swap")
    /\ UNCHANGED <<taskVars, workQueue, cpuVars, hand, slice, collected>>

\* The popped task is looked up after the queue lock was released; one that
\* cannot resume is dropped.
Check(c) ==
    /\ pc[c] = "check"
    /\ IF can_resume(hand[c])
       THEN Goto(c, "swap") /\ UNCHANGED hand
       ELSE Goto(c, "pop") /\ hand' = [hand EXCEPT ![c] = None]
    /\ UNCHANGED <<taskVars, workQueue, cpuVars, slice, collected>>

\* The slip of forgetting the outgoing task.
Swap_Forgets(c) ==
    /\ pc[c] = "swap"
    /\ current' = [current EXCEPT ![c] = hand[c]]
    /\ Goto(c, IF hand[c] = current[c] THEN "user"
               ELSE IF hand[c] # Idle /\ runState[hand[c]] = "Initialized"
                    THEN "init" ELSE "load")
    /\ should' = [should EXCEPT ![c] = FALSE]
    /\ hand' = [hand EXCEPT ![c] = None]
    /\ UNCHANGED <<taskVars, workQueue, pending, stack, slice, collected>>

\* The rest of switch() and switch_to() up to set_current_task.  Both lookups
\* of switch_to panic when the task left the map.
Swap(c) ==
    /\ pc[c] = "swap"
    /\ IF hand[c] = current[c]
       THEN /\ Goto(c, "user")
            /\ UNCHANGED <<current, pending>>
       ELSE IF {current[c], hand[c]} \subseteq exists \cup {Idle}
       THEN /\ pending' = [pending EXCEPT ![c] = IF should[c] THEN current[c] ELSE @]
            /\ current' = [current EXCEPT ![c] = hand[c]]
            /\ Goto(c, IF hand[c] # Idle /\ runState[hand[c]] = "Initialized"
                       THEN "init" ELSE "load")
       ELSE /\ Goto(c, "panic")
            /\ UNCHANGED <<current, pending>>
    /\ should' = [should EXCEPT ![c] = FALSE]
    /\ hand' = [hand EXCEPT ![c] = IF pc'[c] = "panic" THEN @ ELSE None]
    /\ UNCHANGED <<taskVars, workQueue, stack, slice, collected>>

\* The context switch into a task found Initialized: state Running by a plain
\* store, then iretd, which never returns into switch().
SwitchInit(c) ==
    /\ pc[c] = "init"
    /\ stack' = [stack EXCEPT ![c] = current[c]]
    /\ fresh' = fresh \ {current[c]}
    /\ runState' = [runState EXCEPT ![current[c]] = "Running"]
    /\ Goto(c, "user")
    /\ UNCHANGED <<exists, timed, loading, workQueue, current, pending, should, hand, slice, collected>>

\* The context switch into any other task.  A kernel task that never ran
\* returns to its entry point, all others into switch().
SwitchInner(c) ==
    /\ pc[c] = "load"
    /\ stack' = [stack EXCEPT ![c] = current[c]]
    /\ fresh' = fresh \ {current[c]}
    /\ Goto(c, IF current[c] \in fresh THEN "user" ELSE "after")
    /\ UNCHANGED <<exists, runState, timed, loading, workQueue, current, pending, should, hand, slice, collected>>

\* On the resumed stack: the outgoing task may now be picked up by any CPU.
DrainAfter(c) == Drain(c, "after", "user")

SwitchStep(c) == DrainStale(c) \/ Decide(c) \/ Pop(c) \/ Check(c) \/ Swap(c)
                 \/ SwitchInit(c) \/ SwitchInner(c) \/ DrainAfter(c)

-----------------------------------------------------------------------------

\* Inside exec_program a task reads files: it asks drivers, waits for them and
\* does nothing else.
Starting(c) == InTask(c) /\ loading[current[c]] # None

TaskCall(c) ==
    \/ Yield(c) \/ FileMappingWait(c) \/ ExecFail(c)
    \/ \E b \in BOOLEAN : FutexWait(c, b)
    \/ \E t \in Tasks : FutexWake(c, t) \/ FileMappingDone(c, t) \/ ExecFinish(c, t)
    \/ /\ ~Starting(c)
       /\ \/ Sleep(c) \/ Terminate(c) \/ CleanupCollect(c) \/ CleanupTake(c)
          \/ \E t \in Tasks : \/ CreateKernelTask(c, t) \/ CreateTask(c, t)
                              \/ ExecCheck(c, t) \/ TerminateTask(c, t)

Timer == PitEnter \/ PitExit \/ (\E t \in Tasks : PitExpire(t)) \/ (\E c \in Cpus : PitCascade(c))

Next == Timer \/ \E c \in Cpus : TaskCall(c) \/ Enqueue(c) \/ SwitchStep(c)

Spec == Init /\ [][Next]_vars

\* Kernel paths run to completion, the PIT keeps firing, and a halted CPU is
\* woken by it.  A kernel task is a loop around a blocking call; nothing makes
\* a program call the kernel.
Fairness ==
    /\ WF_vars(PitEnter) /\ WF_vars(PitExit)
    /\ \A c \in Cpus : WF_vars(current[c] \notin UserTasks /\ Yield(c))
    /\ \A c \in Cpus : WF_vars(PitCascade(c)) /\ WF_vars(Enqueue(c)) /\ WF_vars(SwitchStep(c))

FairSpec == Spec /\ Fairness

-----------------------------------------------------------------------------

TypeOK ==
    /\ exists \subseteq Tasks
    /\ runState \in [Tasks -> RunState]
    /\ timed \in [Tasks -> BOOLEAN]
    /\ loading \in [Tasks -> Tasks \cup {None}]
    /\ fresh \subseteq Tasks
    /\ workQueue \in Seq(Tasks)
    /\ pc \in [Cpus -> Points]
    /\ current \in [Cpus -> Tasks \cup {Idle}]
    /\ stack \in [Cpus -> Tasks \cup {Idle}]
    /\ pending \in [Cpus -> Tasks \cup {None}]
    /\ hand \in [Cpus -> Tasks \cup {Idle, None}]
    /\ should \in [Cpus -> BOOLEAN]
    /\ slice \in {0, 1}
    /\ collected \subseteq Tasks

InQueue(q, t) == \E i \in 1..Len(q) : q[i] = t
Queued(t) == InQueue(workQueue, t)

\* CPU c still has t to run, to push, or to put back.
Holds(c, t) ==
    \/ pending[c] = t
    \/ hand[c] = t /\ pc[c] \in {"wake", "enqueue", "check", "swap", "panic"}
    \/ current[c] = t /\ (pc[c] \in {"pop", "check", "swap"} => should[c])

\* No task that may resume is ever forgotten: it is in the work queue, or some
\* CPU runs it, carries it between two steps of switch(), or is about to push
\* it.  Every wake-up, timeout and context switch on every CPU must keep this.
NoRunnableLost == \A t \in Tasks : can_resume(t) => Queued(t) \/ \E c \in Cpus : Holds(c, t)

\* pending_reenqueue is free whenever switch() may store into it: the drain at
\* its start makes room, else the task parked there would be overwritten.
PendingIsDrained ==
    \A c \in Cpus : pc[c] \in {"decide", "pop", "check", "swap"} => pending[c] = None

\* Two CPUs never execute on the kernel stack of one task, what the comment on
\* switch() promises of re-enqueueing only after the context switch.
OneCpuPerTask == \A c, d \in Cpus : c # d /\ stack[c] = stack[d] => stack[c] = Idle

\* A task is in the work queue at most once, and never while a CPU is still on
\* its stack: what pending_reenqueue is there for.
QueuedIsSaved ==
    /\ \A i, j \in 1..Len(workQueue) : workQueue[i] = workQueue[j] => i = j
    /\ \A c \in Cpus : ~Queued(stack[c])

\* No CPU's path into switch_to or sleep() hits their panics: the current task
\* is in the map, and it is Running when it goes to sleep.
NoPanic == \A c \in Cpus : pc[c] # "panic"

\* Terminated is final, as RunState documents it: no kernel path moves a task
\* out of it again.
TerminatedIsFinal ==
    [][\A t \in Tasks : runState[t] = "Terminated" => runState'[t] = "Terminated"]_vars

\* A task waiting in the work queue that can resume is picked up.
QueuedRuns ==
    \A t \in Tasks : Queued(t) /\ can_resume(t) ~> (\E c \in Cpus : stack[c] = t) \/ ~can_resume(t)

=============================================================================
