--------------------------- MODULE Scheduler_proofs ---------------------------
(***************************************************************************)
(* No runnable task is ever lost, for any number of CPUs and tasks.        *)
(*                                                                         *)
(* NoRunnableLost is not inductive by itself: Swap stores into             *)
(* pending_reenqueue, which forgets what was there unless PendingIsDrained,*)
(* and Enqueue pushes a local, which must be a task at that point.         *)
(*                                                                         *)
(* On one CPU there is more to say.  With two, a task that goes to sleep   *)
(* may be woken and run while its CPU is still on its stack (the run       *)
(* sched_two_cpus), so the queue, the panics of switch() and the end of a  *)
(* task are sound only where a kernel path runs alone.  The invariant UInv *)
(* says where a task may be: in the queue once, or on the CPU, and there   *)
(* in one of its locals; a blocked task or one that was never started      *)
(* nowhere else than, for the blocked one, on its stack.                   *)
(***************************************************************************)
EXTENDS Scheduler, TLAPS

\* What the local of a CPU holds at the points that use it.
HandOK ==
    \A c \in Cpus : /\ pc[c] \in {"wake", "enqueue", "check"} => hand[c] \in Tasks
                    /\ pc[c] = "swap" => hand[c] \in Tasks \cup {Idle}
                    /\ should[c] => current[c] \in Tasks

LInv == TypeOK /\ HandOK /\ PendingIsDrained
IInv == LInv /\ NoRunnableLost

-----------------------------------------------------------------------------
(* The work queue. *)

\* push_back keeps every queued task and adds the new one.
LEMMA QueueAppend ==
    ASSUME NEW S, NEW q \in Seq(S), NEW x \in S, NEW t
    PROVE  /\ Append(q, x) \in Seq(S)
           /\ InQueue(q, t) => InQueue(Append(q, x), t)
           /\ InQueue(Append(q, x), x)
  <1>1. Append(q, x) \in Seq(S) /\ Len(Append(q, x)) = Len(q) + 1
    OBVIOUS
  <1>2. \A i \in 1..Len(q) : Append(q, x)[i] = q[i]
    OBVIOUS
  <1>3. Append(q, x)[Len(q) + 1] = x
    OBVIOUS
  <1>4. Len(q) \in Nat
    OBVIOUS
  <1> QED  BY <1>1, <1>2, <1>3, <1>4 DEF InQueue

\* pop_front loses the head only.
LEMMA QueuePop ==
    ASSUME NEW S, NEW q \in Seq(S), q # <<>>, NEW t, InQueue(q, t)
    PROVE  /\ Head(q) \in S
           /\ Tail(q) \in Seq(S)
           /\ t = Head(q) \/ InQueue(Tail(q), t)
  <1>1. Len(q) \in Nat /\ Len(q) > 0 /\ Head(q) = q[1] /\ Head(q) \in S
    OBVIOUS
  <1>2. Tail(q) \in Seq(S) /\ Len(Tail(q)) = Len(q) - 1
    BY <1>1
  <1>3. \A i \in 1..(Len(q) - 1) : Tail(q)[i] = q[i + 1]
    BY <1>1
  <1>4. PICK i \in 1..Len(q) : q[i] = t
    BY Zenon DEF InQueue
  <1>5. CASE i = 1
    BY <1>1, <1>2, <1>4, <1>5, Zenon
  <1>6. CASE i # 1
    <2>1. i - 1 \in 1..(Len(q) - 1) /\ Tail(q)[i - 1] = t
      BY <1>1, <1>3, <1>4, <1>6
    <2> QED  BY <1>1, <1>2, <2>1, Zenon DEF InQueue
  <1> QED  BY <1>5, <1>6, Zenon

-----------------------------------------------------------------------------
(* Types, locals and pending_reenqueue. *)

\* No CPU starts with a task in its hands.
LEMMA InitLocals == Init => LInv
  BY SchedulerAssumption
     DEF Init, LInv, TypeOK, HandOK, PendingIsDrained, RunState, Blocked, Points

\* A task's call into the kernel keeps the locals of every CPU.
LEMMA TaskCallLocals ==
    ASSUME LInv, NEW c \in Cpus, TaskCall(c)
    PROVE  LInv'
  <1> USE SchedulerAssumption
     DEF LInv, TypeOK, HandOK, PendingIsDrained, RunState, Blocked, Points, InTask, Goto,
         taskVars, cpuVars
  <1>1. CASE Yield(c)
    BY <1>1, ZenonT(60) DEF Yield
  <1>2. CASE Sleep(c)
    <2>1. CASE current[c] \in exists /\ runState[current[c]] = "Running"
      <3>1. current[c] \in Tasks
        BY <2>1, Zenon
      <3>2. runState' \in [Tasks -> RunState] /\ timed' \in [Tasks -> BOOLEAN]
        BY <1>2, <2>1, <3>1, ZenonT(60) DEF Sleep
      <3>3. pc' = [pc EXCEPT ![c] = "drain"]
        BY <1>2, <2>1, Zenon DEF Sleep
      <3> QED  BY <1>2, <3>2, <3>3 DEF Sleep
    <2>2. CASE ~(current[c] \in exists /\ runState[current[c]] = "Running")
      BY <1>2, <2>2 DEF Sleep
    <2> QED  BY <2>1, <2>2, Zenon
  <1>3. CASE Terminate(c)
    BY <1>3, ZenonT(60) DEF Terminate
  <1>4. ASSUME NEW b \in BOOLEAN, FutexWait(c, b) PROVE LInv'
    BY <1>4, SMTT(30) DEF FutexWait
  <1>5. ASSUME NEW t \in Tasks, CreateKernelTask(c, t) PROVE LInv'
    BY <1>5, ZenonT(60) DEF CreateKernelTask
  <1>6. ASSUME NEW t \in Tasks, CreateTask(c, t) PROVE LInv'
    BY <1>6, Zenon DEF CreateTask
  <1>7. ASSUME NEW t \in Tasks, ExecCheck(c, t) PROVE LInv'
    BY <1>7, ZenonT(60) DEF ExecCheck
  <1>8. ASSUME NEW t \in Tasks, ExecFinish(c, t) PROVE LInv'
    <2>1. workQueue' = IF t \in exists THEN Append(workQueue, t) ELSE workQueue
      BY <1>8, Zenon DEF ExecFinish
    <2>2. workQueue' \in Seq(Tasks)
      BY <2>1, QueueAppend, Zenon
    <2>3. loading' \in [Tasks -> Tasks \cup {None}] /\ runState' \in [Tasks -> RunState]
      BY <1>8, ZenonT(60) DEF ExecFinish
    <2>4. UNCHANGED <<exists, timed, fresh, pc, cpuVars, hand, slice, collected>>
      BY <1>8, Zenon DEF ExecFinish
    <2> QED  BY <2>2, <2>3, <2>4, ZenonT(60)
  <1>9. ASSUME NEW t \in Tasks, FutexWake(c, t) PROVE LInv'
    BY <1>9, ZenonT(60) DEF FutexWake
  <1>10. ASSUME NEW t \in Tasks, TerminateTask(c, t) PROVE LInv'
    BY <1>10, Zenon DEF TerminateTask
  <1>11. CASE CleanupCollect(c)
    BY <1>11, Zenon DEF CleanupCollect
  <1>12. CASE CleanupTake(c)
    BY <1>12, Zenon DEF CleanupTake
  <1>13. CASE FileMappingWait(c)
    <2>1. runState' \in [Tasks -> RunState] /\ timed' \in [Tasks -> BOOLEAN]
      BY <1>13, ZenonT(60) DEF FileMappingWait
    <2>2. pc' = [pc EXCEPT ![c] = "drain"] \/ pc' = [pc EXCEPT ![c] = "panic"]
      BY <1>13, ZenonT(60) DEF FileMappingWait
    <2>3. UNCHANGED <<exists, loading, fresh, workQueue, cpuVars, hand, slice, collected>>
      BY <1>13, Zenon DEF FileMappingWait
    <2>4. pc' \in [Cpus -> Points] /\ \A d \in Cpus : pc'[d] = pc[d] \/ pc'[d] \in {"drain", "panic"}
      BY <2>2, ZenonT(60)
    <2>5. HandOK' /\ PendingIsDrained'
      BY <2>3, <2>4, ZenonT(60)
    <2> QED  BY <2>1, <2>3, <2>4, <2>5, Zenon
  <1>14. ASSUME NEW t \in Tasks, FileMappingDone(c, t) PROVE LInv'
    BY <1>14, ZenonT(60) DEF FileMappingDone
  <1>15. CASE ExecFail(c)
    BY <1>15, ZenonT(60) DEF ExecFail
  <1> QED  BY <1>1, <1>2, <1>3, <1>4, <1>5, <1>6, <1>7, <1>8, <1>9, <1>10, <1>11, <1>12, <1>13, <1>14,
              <1>15, Zenon DEF TaskCall

\* So do the timer's steps.
LEMMA TimerLocals ==
    ASSUME LInv, Timer
    PROVE  LInv'
  <1> USE SchedulerAssumption
     DEF LInv, TypeOK, HandOK, PendingIsDrained, RunState, Blocked, Points, Goto,
         taskVars, cpuVars
  <1>1. CASE PitEnter
    BY <1>1, Zenon DEF PitEnter
  <1>2. CASE PitExit
    BY <1>2 DEF PitExit
  <1>3. ASSUME NEW t \in Tasks, PitExpire(t) PROVE LInv'
    BY <1>3, QueueAppend, Zenon DEF PitExpire
  <1>4. ASSUME NEW c \in Cpus, PitCascade(c) PROVE LInv'
    BY <1>4, ZenonT(60) DEF PitCascade
  <1> QED  BY <1>1, <1>2, <1>3, <1>4, Zenon DEF Timer

\* So do reenqueue_task and the steps of switch().
LEMMA SwitchLocals ==
    ASSUME LInv, NEW c \in Cpus, Enqueue(c) \/ SwitchStep(c)
    PROVE  LInv'
  <1> USE SchedulerAssumption
     DEF LInv, TypeOK, HandOK, PendingIsDrained, RunState, Blocked, Points, Goto,
         taskVars, cpuVars
  <1>1. CASE Enqueue(c)
    BY <1>1, QueueAppend, ZenonT(60) DEF Enqueue
  <1>2. CASE DrainStale(c)
    BY <1>2, QueueAppend, ZenonT(60) DEF DrainStale, Drain
  <1>3. CASE Decide(c)
    BY <1>3 DEF Decide
  <1>4. CASE Pop(c)
    <2>1. CASE workQueue = <<>>
      BY <1>4, <2>1 DEF Pop
    <2>2. CASE workQueue # <<>>
      <3>1. Head(workQueue) \in Tasks /\ Tail(workQueue) \in Seq(Tasks)
        BY <2>2
      <3>2. /\ hand' = [hand EXCEPT ![c] = Head(workQueue)]
            /\ workQueue' = Tail(workQueue)
            /\ pc' = [pc EXCEPT ![c] = "check"]
            /\ UNCHANGED <<taskVars, cpuVars, slice, collected>>
        BY <1>4, <2>2, Zenon DEF Pop
      <3>3. pc[c] = "pop"
        BY <1>4, Zenon DEF Pop
      <3> QED  BY <3>1, <3>2, <3>3, ZenonT(60)
    <2> QED  BY <2>1, <2>2, Zenon
  <1>5. CASE Check(c)
    BY <1>5, SMTT(30) DEF Check
  <1>6. CASE Swap(c)
    <2>1. CASE hand[c] = current[c]
      BY <1>6, <2>1, SMTT(20) DEF Swap
    <2>2. CASE hand[c] # current[c] /\ {current[c], hand[c]} \subseteq exists \cup {Idle}
      <3>1. hand[c] \in Tasks \cup {Idle} /\ pending[c] = None /\ current[c] \in Tasks \cup {Idle}
        BY <1>6, Zenon DEF Swap
      <3>2. should[c] => current[c] \in Tasks
        BY <1>6, <2>2, Zenon
      <3>3. pc' \in [Cpus -> Points] /\ pc'[c] \in {"init", "load"} /\ \A d \in Cpus : d # c => pc'[d] = pc[d]
        BY <1>6, <2>2, SMTT(30) DEF Swap
      <3>4. pending' \in [Cpus -> Tasks \cup {None}] /\ \A d \in Cpus : d # c => pending'[d] = pending[d]
        <4>1. /\ pending' = [pending EXCEPT ![c] = IF should[c] THEN current[c] ELSE @]
              /\ pending \in [Cpus -> Tasks \cup {None}]
          BY <1>6, <2>2, Zenon DEF Swap
        <4> HIDE DEF LInv
        <4> QED  BY <3>1, <3>2, <4>1, SMTT(30)
      <3>5. /\ current' = [current EXCEPT ![c] = hand[c]]
            /\ should' = [should EXCEPT ![c] = FALSE]
            /\ hand' = [hand EXCEPT ![c] = None]
            /\ UNCHANGED <<taskVars, workQueue, stack, slice, collected>>
        BY <1>6, <2>2, <3>3, Zenon DEF Swap
      <3> QED  BY <3>1, <3>3, <3>4, <3>5
    <2>3. CASE hand[c] # current[c] /\ ~({current[c], hand[c]} \subseteq exists \cup {Idle})
      BY <1>6, <2>3, SMTT(30) DEF Swap
    <2> QED  BY <2>1, <2>2, <2>3, Zenon
  <1>7. CASE SwitchInit(c)
    BY <1>7, ZenonT(60) DEF SwitchInit
  <1>8. CASE SwitchInner(c)
    BY <1>8, ZenonT(60) DEF SwitchInner
  <1>9. CASE DrainAfter(c)
    BY <1>9, QueueAppend DEF DrainAfter, Drain
  <1> QED
    BY <1>1, <1>2, <1>3, <1>4, <1>5, <1>6, <1>7, <1>8, <1>9, Zenon DEF SwitchStep

-----------------------------------------------------------------------------
(* No runnable task is lost. *)

\* No task is lost at the start.
LEMMA InitNotLost == Init => NoRunnableLost
  <1> SUFFICES ASSUME Init, NEW t \in Tasks, can_resume(t) PROVE Queued(t)
    BY Zenon DEF NoRunnableLost
  <1>1. t = Resident \/ t = FirstTask
    BY Zenon DEF Init, can_resume
  <1>2. workQueue = <<Resident, FirstTask>>
    BY Zenon DEF Init
  <1> QED  BY <1>1, <1>2 DEF Queued, InQueue

\* A task's call into the kernel loses no runnable task.
LEMMA TaskCallNotLost ==
    ASSUME IInv, NEW c \in Cpus, TaskCall(c)
    PROVE  NoRunnableLost'
  <1> USE SchedulerAssumption
     DEF IInv, LInv, TypeOK, InTask, Goto, taskVars, cpuVars, Blocked, NoRunnableLost, Queued, Holds, can_resume
  <1>1. CASE Yield(c)
    BY <1>1, ZenonT(60) DEF Yield
  <1>2. CASE Sleep(c)
    BY <1>2, SMTT(30) DEF Sleep
  <1>3. CASE Terminate(c)
    BY <1>3 DEF Terminate
  <1>4. ASSUME NEW b \in BOOLEAN, FutexWait(c, b) PROVE NoRunnableLost'
    BY <1>4, SMTT(30) DEF FutexWait
  <1>5. ASSUME NEW t \in Tasks, CreateKernelTask(c, t) PROVE NoRunnableLost'
    <2>1. Holds(c, t)' /\ \A x \in Tasks, d \in Cpus : Holds(d, x) => Holds(d, x)'
      BY <1>5 DEF CreateKernelTask
    <2>2. \A x \in Tasks : Queued(x)' = Queued(x) /\ (can_resume(x)' => can_resume(x) \/ x = t)
      BY <1>5 DEF CreateKernelTask
    <2> HIDE DEF Holds, Queued, can_resume
    <2> QED  BY <2>1, <2>2
  <1>6. ASSUME NEW t \in Tasks, CreateTask(c, t) PROVE NoRunnableLost'
    BY <1>6 DEF CreateTask
  <1>7. ASSUME NEW t \in Tasks, ExecCheck(c, t) PROVE NoRunnableLost'
    BY <1>7 DEF ExecCheck
  <1>8. ASSUME NEW t \in Tasks, ExecFinish(c, t) PROVE NoRunnableLost'
    <2>0. workQueue' = (IF t \in exists THEN Append(workQueue, t) ELSE workQueue)
      BY <1>8, Zenon DEF ExecFinish
    <2>1. \A x \in Tasks : Queued(x) => Queued(x)'
      BY <2>0, QueueAppend, Zenon
    <2>2. t \in exists => Queued(t)'
      BY <2>0, QueueAppend, Zenon
    <2> HIDE DEF Queued
    <2> QED  BY <1>8, <2>1, <2>2 DEF ExecFinish
  <1>9. ASSUME NEW t \in Tasks, FutexWake(c, t) PROVE NoRunnableLost'
    BY <1>9, SMTT(30) DEF FutexWake
  <1>10. ASSUME NEW t \in Tasks, TerminateTask(c, t) PROVE NoRunnableLost'
    BY <1>10 DEF TerminateTask
  <1>11. CASE CleanupCollect(c)
    BY <1>11 DEF CleanupCollect
  <1>12. CASE CleanupTake(c)
    BY <1>12, SMTT(30) DEF CleanupTake
  <1>13. CASE FileMappingWait(c)
    BY <1>13, SMTT(30) DEF FileMappingWait
  <1>14. ASSUME NEW t \in Tasks, FileMappingDone(c, t) PROVE NoRunnableLost'
    BY <1>14, SMTT(30) DEF FileMappingDone
  <1>15. CASE ExecFail(c)
    BY <1>15 DEF ExecFail
  <1> HIDE DEF IInv, NoRunnableLost
  <1> QED  BY <1>1, <1>2, <1>3, <1>4, <1>5, <1>6, <1>7, <1>8, <1>9, <1>10, <1>11, <1>12, <1>13, <1>14,
              <1>15, Zenon DEF TaskCall

\* Nor does the timer.
LEMMA TimerNotLost ==
    ASSUME IInv, Timer
    PROVE  NoRunnableLost'
  <1> USE SchedulerAssumption
     DEF IInv, LInv, TypeOK, Goto, taskVars, cpuVars, Blocked, NoRunnableLost, Queued, Holds, can_resume
  <1>1. CASE PitEnter
    BY <1>1, Zenon DEF PitEnter
  <1>2. CASE PitExit
    BY <1>2, ZenonT(60) DEF PitExit
  <1>3. ASSUME NEW t \in Tasks, PitExpire(t) PROVE NoRunnableLost'
    BY <1>3, QueueAppend DEF PitExpire
  <1>4. ASSUME NEW c \in Cpus, PitCascade(c) PROVE NoRunnableLost'
    BY <1>4, Zenon DEF PitCascade
  <1> QED  BY <1>1, <1>2, <1>3, <1>4, Zenon DEF Timer

\* Nor do reenqueue_task and the steps of switch().
LEMMA SwitchNotLost ==
    ASSUME IInv, NEW c \in Cpus, Enqueue(c) \/ SwitchStep(c)
    PROVE  NoRunnableLost'
  <1> USE SchedulerAssumption
     DEF IInv, LInv, TypeOK, HandOK, PendingIsDrained, Goto, taskVars, cpuVars, NoRunnableLost, Queued, Holds, can_resume
  <1>1. CASE Enqueue(c)
    BY <1>1, QueueAppend DEF Enqueue
  <1>2. CASE DrainStale(c)
    <2>1. \A x \in Tasks : Queued(x) \/ pending[c] = x => Queued(x)'
      BY <1>2, QueueAppend DEF DrainStale, Drain
    <2> HIDE DEF Queued
    <2> QED  BY <1>2, <2>1 DEF DrainStale, Drain
  <1>3. CASE Decide(c)
    <2>0. should \in [Cpus -> BOOLEAN] /\ Idle \notin Tasks
      BY Zenon
    <2> HIDE DEF IInv, Queued, can_resume
    <2>1. \A x \in Tasks : can_resume(x) /\ current[c] = x => should'[c]
      BY <1>3, <2>0, Zenon DEF Decide
    <2>2. \A x \in Tasks : can_resume(x)' = can_resume(x) /\ Queued(x)' = Queued(x)
      BY <1>3, Zenon DEF Decide, Queued, can_resume
    <2> QED  BY <1>3, <2>1, <2>2 DEF Decide, IInv
  <1>4. CASE Pop(c)
    <2>1. CASE workQueue = <<>>
      BY <1>4, <2>1, SMTT(30) DEF Pop, InQueue
    <2>2. CASE workQueue # <<>>
      <3>1. \A t : InQueue(workQueue, t) => t = Head(workQueue) \/ InQueue(Tail(workQueue), t)
        BY <2>2, QueuePop, Zenon
      <3>2. /\ hand' = [hand EXCEPT ![c] = Head(workQueue)]
            /\ workQueue' = Tail(workQueue)
            /\ pc' = [pc EXCEPT ![c] = "check"]
            /\ pc[c] = "pop"
            /\ UNCHANGED <<taskVars, cpuVars>>
        BY <1>4, <2>2, Zenon DEF Pop
      <3> QED  BY <3>1, <3>2
    <2> QED  BY <2>1, <2>2, Zenon
  <1>5. CASE Check(c)
    BY <1>5, SMTT(30) DEF Check
  <1>6. CASE Swap(c)
    BY <1>6 DEF Swap
  <1>7. CASE SwitchInit(c)
    BY <1>7 DEF SwitchInit
  <1>8. CASE SwitchInner(c)
    BY <1>8, ZenonT(60) DEF SwitchInner
  <1>9. CASE DrainAfter(c)
    <2>1. \A x \in Tasks : Queued(x) \/ pending[c] = x => Queued(x)'
      BY <1>9, QueueAppend DEF DrainAfter, Drain
    <2> HIDE DEF Queued
    <2> QED  BY <1>9, <2>1 DEF DrainAfter, Drain
  <1> QED  BY <1>1, <1>2, <1>3, <1>4, <1>5, <1>6, <1>7, <1>8, <1>9, Zenon DEF SwitchStep

-----------------------------------------------------------------------------

\* Stuttering changes nothing.
LEMMA Stutter == ASSUME IInv, UNCHANGED vars PROVE IInv'
  BY DEF IInv, LInv, TypeOK, HandOK, PendingIsDrained, NoRunnableLost, Queued, InQueue, Holds,
         can_resume, vars

\* The inductive invariant holds in every reachable state.
THEOREM Inductive == Spec => []IInv
  <1>1. Init => IInv
    BY InitLocals, InitNotLost, Zenon DEF IInv
  <1>2. IInv /\ [Next]_vars => IInv'
    <2> SUFFICES ASSUME IInv, [Next]_vars PROVE IInv'
      BY Zenon
    <2>0. LInv
      BY Zenon DEF IInv
    <2>1. CASE Timer
      BY <2>0, <2>1, TimerLocals, TimerNotLost, Zenon DEF IInv
    <2>2. ASSUME NEW c \in Cpus, TaskCall(c) PROVE IInv'
      BY <2>0, <2>2, TaskCallLocals, TaskCallNotLost, Zenon DEF IInv
    <2>3. ASSUME NEW c \in Cpus, Enqueue(c) \/ SwitchStep(c) PROVE IInv'
      BY <2>0, <2>3, SwitchLocals, SwitchNotLost, Zenon DEF IInv
    <2>4. CASE UNCHANGED vars
      BY <2>4, Stutter, Zenon
    <2> QED  BY <2>1, <2>2, <2>3, <2>4, Zenon DEF Next
  <1> QED  BY <1>1, <1>2, PTL DEF Spec

\* Every variable keeps its type.
THEOREM TypeCorrect == Spec => []TypeOK
  BY Inductive, PTL DEF IInv, LInv

\* On any number of CPUs, no wake-up, timeout, termination or context switch
\* forgets a task that may resume.
THEOREM NoTaskLost == Spec => []NoRunnableLost
  BY Inductive, PTL DEF IInv

\* switch() never overwrites a task parked in pending_reenqueue.
THEOREM PendingFree == Spec => []PendingIsDrained
  BY Inductive, PTL DEF IInv, LInv

-----------------------------------------------------------------------------
(* One CPU *)

OneCpu == Cpus = {Bsp}

\* No task is started by two others at the same time.
OneStart == "exec" \notin SchedFlaws

NoDuplicates(q) == \A i, j \in 1..Len(q) : q[i] = q[j] => i = j

\* What the CPU's variables say of the tasks at each point of its path.
CpuOK ==
    LET at == pc[Bsp]
        cur == current[Bsp]
    IN  /\ at # "panic"
        /\ hand[Bsp] # None => at \in {"wake", "enqueue", "check", "swap"}
        /\ at \notin {"init", "load"} => stack[Bsp] = cur
        /\ at \in {"init", "load"} => stack[Bsp] # cur /\ pending[Bsp] \in {None, stack[Bsp]}
        /\ cur # Idle => cur \in exists
        /\ cur # Idle /\ at \in {"user", "wake", "enqueue", "pit", "load", "after"} =>
              runState[cur] = "Running"
        /\ at = "init" => cur # Idle /\ runState[cur] = "Initialized"
        /\ should[Bsp] => /\ at \in {"pop", "check", "swap"}
                          /\ runState[cur] \in {"Initialized", "Running"}
        /\ at = "swap" => hand[Bsp] = Idle \/ can_resume(hand[Bsp])

\* A task is in one place: the queue, the CPU's locals or its stack.
Apart ==
    /\ ~Queued(current[Bsp]) /\ ~Queued(stack[Bsp]) /\ ~Queued(hand[Bsp]) /\ ~Queued(pending[Bsp])
    /\ hand[Bsp] \in Tasks => hand[Bsp] \notin {current[Bsp], pending[Bsp]}
    /\ pending[Bsp] # current[Bsp]

\* Nothing is about to run the task.
Absent(t) == ~Queued(t) /\ hand[Bsp] # t /\ pending[Bsp] # t

\* Some call of exec_program is under way for the task.
Loaded(t) == \E u \in Tasks : loading[u] = t

Unborn(t) == runState[t] = "Uninitialized" \/ Loaded(t)

\* A blocked task is nowhere but on its stack, one never started nowhere at all.
Places ==
    /\ \A t \in Tasks : runState[t] \in Blocked => Absent(t)
    /\ \A t \in Tasks : Unborn(t) => Absent(t) /\ t \notin {current[Bsp], stack[Bsp]}

\* A task is started by one call of exec_program at a time, and while it is,
\* nothing else sets it going.
Starts ==
    /\ \A t \in Tasks : Loaded(t) => \/ runState[t] = "Terminated"
                                     \/ runState[t] = "Uninitialized" /\ t \in exists
    /\ \A u, v \in Tasks : loading[u] = loading[v] => u = v \/ loading[u] = None

Collects == \A t \in collected : runState[t] = "Terminated"

UInv == CpuOK /\ Apart /\ NoDuplicates(workQueue) /\ Places /\ Starts /\ Collects

\* push_back of a task that is not queued keeps the queue free of duplicates.
LEMMA QueueAppendOnce ==
    ASSUME NEW S, NEW q \in Seq(S), NEW x \in S
    PROVE  /\ Append(q, x) \in Seq(S)
           /\ \A t : InQueue(Append(q, x), t) <=> InQueue(q, t) \/ t = x
           /\ NoDuplicates(q) /\ ~InQueue(q, x) => NoDuplicates(Append(q, x))
  <1>1. Append(q, x) \in Seq(S) /\ Len(Append(q, x)) = Len(q) + 1 /\ Len(q) \in Nat
    OBVIOUS
  <1>2. \A i \in 1..Len(q) : Append(q, x)[i] = q[i]
    OBVIOUS
  <1>3. Append(q, x)[Len(q) + 1] = x
    OBVIOUS
  <1>4. \A i \in 1..Len(q) + 1 : i \in 1..Len(q) \/ i = Len(q) + 1
    BY <1>1
  <1>5. \A t : InQueue(Append(q, x), t) <=> InQueue(q, t) \/ t = x
    BY <1>1, <1>2, <1>3, <1>4 DEF InQueue
  <1>6. NoDuplicates(q) /\ ~InQueue(q, x) => NoDuplicates(Append(q, x))
    BY <1>1, <1>2, <1>3, <1>4, Zenon DEF InQueue, NoDuplicates
  <1> QED  BY <1>1, <1>5, <1>6, Zenon

\* pop_front of a queue without duplicates takes its task out of it.
LEMMA QueuePopOnce ==
    ASSUME NEW S, NEW q \in Seq(S), q # <<>>, NoDuplicates(q)
    PROVE  /\ Head(q) \in S /\ Tail(q) \in Seq(S) /\ InQueue(q, Head(q))
           /\ \A t : InQueue(Tail(q), t) => InQueue(q, t) /\ t # Head(q)
           /\ NoDuplicates(Tail(q))
  <1>1. Len(q) \in Nat /\ Len(q) > 0 /\ Head(q) = q[1] /\ Head(q) \in S
    OBVIOUS
  <1>2. Tail(q) \in Seq(S) /\ Len(Tail(q)) = Len(q) - 1
    BY <1>1
  <1>3. \A i \in 1..(Len(q) - 1) : Tail(q)[i] = q[i + 1] /\ i + 1 \in 1..Len(q) /\ i + 1 # 1
    BY <1>1
  <1>4. \A t : InQueue(Tail(q), t) => InQueue(q, t) /\ t # Head(q)
    BY <1>1, <1>2, <1>3 DEF InQueue, NoDuplicates
  <1>5. NoDuplicates(Tail(q))
    BY <1>1, <1>2, <1>3 DEF NoDuplicates
  <1> QED  BY <1>1, <1>2, <1>4, <1>5 DEF InQueue

\* What LInv says of the only CPU.
OnBsp ==
    /\ exists \subseteq Tasks /\ loading \in [Tasks -> Tasks \cup {None}] /\ collected \subseteq Tasks
    /\ DOMAIN runState = Tasks /\ workQueue \in Seq(Tasks)
    /\ \A f \in {pc, current, stack, pending, hand, should} : Bsp \in DOMAIN f
    /\ current[Bsp] \in Tasks \cup {Idle} /\ stack[Bsp] \in Tasks \cup {Idle}
    /\ pending[Bsp] \in Tasks \cup {None} /\ hand[Bsp] \in Tasks \cup {Idle, None}
    /\ pc[Bsp] \in {"wake", "enqueue", "check"} => hand[Bsp] \in Tasks
    /\ pc[Bsp] = "swap" => hand[Bsp] \in Tasks \cup {Idle}
    /\ should[Bsp] => current[Bsp] \in Tasks
    /\ pc[Bsp] \in {"decide", "pop", "check", "swap"} => pending[Bsp] = None
    /\ ~Queued(Idle) /\ ~Queued(None)

\* It follows from LInv.
LEMMA TypesOnBsp == ASSUME LInv PROVE OnBsp
  <1>1. /\ exists \subseteq Tasks /\ loading \in [Tasks -> Tasks \cup {None}] /\ collected \subseteq Tasks
        /\ DOMAIN runState = Tasks /\ workQueue \in Seq(Tasks)
    BY Zenon DEF LInv, TypeOK
  <1>2. /\ \A f \in {pc, current, stack, pending, hand, should} : Bsp \in DOMAIN f
        /\ current[Bsp] \in Tasks \cup {Idle} /\ stack[Bsp] \in Tasks \cup {Idle}
        /\ pending[Bsp] \in Tasks \cup {None} /\ hand[Bsp] \in Tasks \cup {Idle, None}
    BY SchedulerAssumption, ZenonT(60) DEF LInv, TypeOK
  <1>3. /\ pc[Bsp] \in {"wake", "enqueue", "check"} => hand[Bsp] \in Tasks
        /\ pc[Bsp] = "swap" => hand[Bsp] \in Tasks \cup {Idle}
        /\ should[Bsp] => current[Bsp] \in Tasks
        /\ pc[Bsp] \in {"decide", "pop", "check", "swap"} => pending[Bsp] = None
    BY SchedulerAssumption, Zenon DEF LInv, HandOK, PendingIsDrained
  <1>4. ~Queued(Idle) /\ ~Queued(None)
    BY <1>1, SchedulerAssumption DEF Queued, InQueue
  <1> QED  BY <1>1, <1>2, <1>3, <1>4, Zenon DEF OnBsp

\* push_back of a task that is not queued, as a step.
LEMMA QueueGrows ==
    ASSUME workQueue \in Seq(Tasks), NoDuplicates(workQueue), NEW t \in Tasks, ~Queued(t),
           workQueue' = Append(workQueue, t)
    PROVE  NoDuplicates(workQueue') /\ \A u : Queued(u)' <=> Queued(u) \/ u = t
  BY QueueAppendOnce, Zenon DEF Queued

\* Calls under way stay so while nobody begins or ends one.
LEMMA SameStarts ==
    ASSUME loading' = loading
    PROVE  \A u : Loaded(u)' <=> Loaded(u)
  BY Zenon DEF Loaded

\* Who is on the way nowhere depends on the queue and two locals.
LEMMA SameAbsent ==
    ASSUME UNCHANGED <<workQueue, hand, pending>>
    PROVE  \A u : (Queued(u)' <=> Queued(u)) /\ (Absent(u)' <=> Absent(u))
  BY Zenon DEF Queued, Absent

\* A step that leaves the tasks, the queue and the locals alone keeps what UInv says of them.
LEMMA OnlyThePoint ==
    ASSUME UInv, UNCHANGED <<exists, runState, loading, workQueue, current, stack, pending, hand, collected>>
    PROVE  Apart' /\ NoDuplicates(workQueue') /\ Places' /\ Starts' /\ Collects'
  <1>1. (\A u : (Queued(u)' <=> Queued(u)) /\ (Absent(u)' <=> Absent(u))) /\ \A u : Loaded(u)' <=> Loaded(u)
    BY SameAbsent, SameStarts, Zenon
  <1>2. Apart'
    BY <1>1, Zenon DEF UInv, Apart
  <1>3. Places'
    BY <1>1, Zenon DEF UInv, Places, Unborn
  <1>4. Starts'
    BY <1>1, Zenon DEF UInv, Starts
  <1>5. NoDuplicates(workQueue') /\ Collects'
    BY Zenon DEF UInv, Collects
  <1> QED  BY <1>2, <1>3, <1>4, <1>5, Zenon

\* The state of the task that runs, and of the CPU that runs it.
LEMMA InUser ==
    ASSUME OnBsp, UInv, InTask(Bsp)
    PROVE  LET x == current[Bsp] IN
           /\ pc[Bsp] = "user" /\ x \in Tasks /\ x \in exists /\ runState[x] = "Running"
           /\ stack[Bsp] = x /\ hand[Bsp] = None /\ ~should[Bsp] /\ Absent(x) /\ ~Loaded(x)
  <1>1. pc[Bsp] = "user" /\ current[Bsp] # Idle /\ current[Bsp] \in Tasks
    BY Zenon DEF InTask, OnBsp
  <1>2. /\ current[Bsp] \in exists /\ runState[current[Bsp]] = "Running"
        /\ stack[Bsp] = current[Bsp] /\ hand[Bsp] = None /\ ~should[Bsp]
    BY <1>1, Zenon DEF UInv, CpuOK
  <1>3. Absent(current[Bsp])
    BY <1>1, <1>2, SchedulerAssumption, Zenon DEF UInv, Apart, Absent
  <1>4. ~Loaded(current[Bsp])
    BY <1>1, Zenon DEF UInv, Places, Unborn
  <1> QED  BY <1>1, <1>2, <1>3, <1>4, Zenon

\* The running task goes to sleep, waits or ends, and enters switch().
LEMMA LeavesTheCpu ==
    ASSUME OnBsp, UInv, InTask(Bsp), NEW s \in Blocked \cup {"Terminated"},
           runState' = [runState EXCEPT ![current[Bsp]] = s],
           pc' = [pc EXCEPT ![Bsp] = "drain"],
           UNCHANGED <<exists, loading, workQueue, cpuVars, hand, collected>>
    PROVE  UInv'
  <1> DEFINE x == current[Bsp]
  <1>1. /\ pc[Bsp] = "user" /\ x \in Tasks /\ x \in exists /\ runState[x] = "Running"
        /\ stack[Bsp] = x /\ hand[Bsp] = None /\ ~should[Bsp] /\ Absent(x) /\ ~Loaded(x)
    BY InUser, Zenon
  <1>2. /\ pc'[Bsp] = "drain" /\ runState'[x] = s
        /\ \A u \in Tasks : u # x => runState'[u] = runState[u]
    BY <1>1, Zenon DEF OnBsp
  <1>3. UNCHANGED <<exists, loading, workQueue, current, stack, pending, should, hand, collected>>
    BY Zenon DEF cpuVars
  <1>4. /\ \A u : (Queued(u)' <=> Queued(u)) /\ (Absent(u)' <=> Absent(u))
        /\ \A u : Loaded(u)' <=> Loaded(u)
    BY <1>3, SameAbsent, SameStarts, Zenon
  <1> HIDE DEF x
  <1>5. s \notin {"Uninitialized", "Running"}
    BY Zenon DEF Blocked
  <1>6. CpuOK'
    BY <1>1, <1>2, <1>3, Zenon DEF CpuOK, x
  <1>7. Apart' /\ NoDuplicates(workQueue')
    BY <1>3, <1>4, Zenon DEF UInv, Apart
  <1>8. Places'
    BY <1>1, <1>2, <1>3, <1>4, <1>5, Zenon DEF UInv, Places, Unborn
  <1>9. Starts'
    <2>1. \A u \in Tasks : Loaded(u)' => Loaded(u) /\ runState'[u] = runState[u]
      BY <1>1, <1>2, <1>4, Zenon
    <2> QED  BY <1>3, <2>1, ZenonT(60) DEF UInv, Starts
  <1>10. Collects'
    <2>1. \A u \in collected : u # x /\ u \in Tasks
      BY <1>1, Zenon DEF UInv, Collects, OnBsp
    <2> QED  BY <1>2, <1>3, <2>1, Zenon DEF UInv, Collects
  <1> QED  BY <1>6, <1>7, <1>8, <1>9, <1>10, Zenon DEF UInv

\* A task that waited, or one just created, is set to Running and is about to be pushed.
LEMMA IsWoken ==
    ASSUME OnBsp, UInv, InTask(Bsp), NEW t \in Tasks, NEW point \in {"wake", "enqueue"},
           runState[t] \in Blocked \/ (runState[t] = "Uninitialized" /\ t \notin exists),
           exists' = exists \cup {t},
           runState' = [runState EXCEPT ![t] = "Running"],
           hand' = [hand EXCEPT ![Bsp] = t],
           pc' = [pc EXCEPT ![Bsp] = point],
           UNCHANGED <<loading, workQueue, cpuVars, collected>>
    PROVE  UInv'
  <1> DEFINE x == current[Bsp]
  <1>1. /\ pc[Bsp] = "user" /\ x \in Tasks /\ x \in exists /\ runState[x] = "Running"
        /\ stack[Bsp] = x /\ hand[Bsp] = None /\ ~should[Bsp]
    BY InUser, Zenon
  <1>2. /\ pc'[Bsp] = point /\ runState'[t] = "Running" /\ hand'[Bsp] = t
        /\ \A u \in Tasks : u # t => runState'[u] = runState[u]
    BY Zenon DEF OnBsp
  <1>3. UNCHANGED <<loading, workQueue, current, stack, pending, should, collected>>
    BY Zenon DEF cpuVars
  <1>4. t # x /\ Absent(t) /\ ~Loaded(t)
    BY <1>1, Zenon DEF UInv, Places, Unborn, Starts, Blocked
  <1>5. /\ \A u : Queued(u)' <=> Queued(u)
        /\ \A u : u # t /\ Absent(u) => Absent(u)'
        /\ \A u : Loaded(u)' <=> Loaded(u)
    <2>1. \A u : Queued(u)' <=> Queued(u)
      BY <1>3, Zenon DEF Queued
    <2> QED  BY <1>2, <1>3, <2>1, SameStarts, Zenon DEF Absent
  <1> HIDE DEF x
  <1>6. CpuOK'
    BY <1>1, <1>2, <1>3, <1>4, Zenon DEF CpuOK, x
  <1>7. Apart'
    BY <1>2, <1>3, <1>4, <1>5, Zenon DEF UInv, Apart, Absent, x
  <1>8. Places'
    BY <1>2, <1>3, <1>4, <1>5, Zenon DEF UInv, Places, Unborn, Blocked
  <1>9. Starts'
    <2>1. \A u \in Tasks : Loaded(u)' => Loaded(u) /\ runState'[u] = runState[u]
      BY <1>2, <1>4, <1>5, Zenon
    <2> QED  BY <1>3, <2>1, ZenonT(60) DEF UInv, Starts
  <1>10. Collects'
    <2>1. \A u \in collected : u # t /\ u \in Tasks
      BY Zenon DEF UInv, Collects, OnBsp, Blocked
    <2> QED  BY <1>2, <1>3, <2>1, Zenon DEF UInv, Collects
  <1>11. NoDuplicates(workQueue')
    BY <1>3, Zenon DEF UInv
  <1> QED  BY <1>6, <1>7, <1>8, <1>9, <1>10, <1>11, Zenon DEF UInv

\* What the running task asks of the kernel keeps UInv.
LEMMA TaskCallOneCpu ==
    ASSUME OneCpu, OneStart, LInv, UInv, NEW c \in Cpus, TaskCall(c)
    PROVE  UInv'
  <1>0. OnBsp /\ c = Bsp
    BY TypesOnBsp, Zenon DEF OneCpu
  <1> DEFINE x == current[Bsp]
  <1>u. ASSUME InTask(Bsp)
        PROVE  /\ pc[Bsp] = "user" /\ x \in Tasks /\ x \in exists /\ runState[x] = "Running"
               /\ stack[Bsp] = x /\ hand[Bsp] = None /\ ~should[Bsp] /\ Absent(x) /\ ~Loaded(x)
    BY <1>0, <1>u, InUser, Zenon
  <1>1. CASE Yield(c)
    <2>1. CpuOK'
      BY <1>0, <1>1, <1>u, Zenon DEF Yield, Goto, taskVars, cpuVars, CpuOK, UInv, OnBsp
    <2> QED  BY <1>1, <2>1, OnlyThePoint, Zenon DEF Yield, taskVars, cpuVars, UInv
  <1>2. CASE Sleep(c)
    BY <1>0, <1>2, <1>u, LeavesTheCpu, Zenon DEF Sleep, Goto, Blocked
  <1>3. CASE Terminate(c)
    BY <1>0, <1>3, <1>u, LeavesTheCpu, Zenon DEF Terminate, Goto
  <1>4. ASSUME NEW b \in BOOLEAN, FutexWait(c, b) PROVE UInv'
    BY <1>0, <1>4, <1>u, LeavesTheCpu, Zenon DEF FutexWait, Goto, Blocked
  <1>5. ASSUME NEW t \in Tasks, CreateKernelTask(c, t) PROVE UInv'
    BY <1>0, <1>5, IsWoken, Zenon DEF CreateKernelTask, Goto
  <1>6. ASSUME NEW t \in Tasks, CreateTask(c, t) PROVE UInv'
    <2>1. /\ InTask(Bsp) /\ runState[t] = "Uninitialized" /\ exists' = exists \cup {t}
          /\ UNCHANGED <<runState, loading, workQueue, pc, current, stack, pending, should, hand, collected>>
      BY <1>0, <1>6, Zenon DEF CreateTask, cpuVars
    <2>2. /\ \A u : (Queued(u)' <=> Queued(u)) /\ (Absent(u)' <=> Absent(u))
          /\ \A u : Loaded(u)' <=> Loaded(u)
      BY <2>1, SameAbsent, SameStarts, Zenon
    <2>3. CpuOK'
      BY <1>u, <2>1, Zenon DEF CpuOK, UInv
    <2>4. Apart' /\ Places' /\ Starts' /\ Collects' /\ NoDuplicates(workQueue')
      BY <2>1, <2>2, Zenon DEF UInv, Apart, Places, Unborn, Starts, Collects
    <2> QED  BY <2>3, <2>4, Zenon DEF UInv
  <1>7. ASSUME NEW t \in Tasks, ExecCheck(c, t) PROVE UInv'
    <2>1. /\ runState[t] = "Uninitialized" /\ t \in exists /\ \A u \in Tasks : loading[u] # t
          /\ loading' = [loading EXCEPT ![x] = t]
          /\ UNCHANGED <<exists, runState, workQueue, pc, current, stack, pending, should, hand, collected>>
      BY <1>0, <1>7, Zenon DEF ExecCheck, OneStart, cpuVars
    <2>2. \A u \in Tasks : Loaded(u)' => Loaded(u) \/ u = t
      BY <1>0, <2>1, Zenon DEF Loaded, OnBsp
    <2>3. \A u, v \in Tasks : loading'[u] = loading'[v] => u = v \/ loading'[u] = None
      BY <1>0, <2>1, Zenon DEF UInv, Starts, OnBsp
    <2>4. \A u : (Queued(u)' <=> Queued(u)) /\ (Absent(u)' <=> Absent(u))
      BY <2>1, SameAbsent, Zenon
    <2>5. CpuOK' /\ Apart' /\ NoDuplicates(workQueue') /\ Collects'
      BY <2>1, <2>4, Zenon DEF UInv, CpuOK, can_resume, Apart, Collects
    <2>6. Places'
      BY <2>1, <2>2, <2>4, Zenon DEF UInv, Places, Unborn
    <2>7. Starts'
      BY <2>1, <2>2, <2>3, Zenon DEF UInv, Starts
    <2> QED  BY <2>5, <2>6, <2>7, Zenon DEF UInv
  <1>8. ASSUME NEW t \in Tasks, ExecFinish(c, t) PROVE UInv'
    <2>1. /\ loading[x] = t /\ t # None
          /\ loading' = [loading EXCEPT ![x] = None]
          /\ runState' = [runState EXCEPT ![t] =
                             IF t \in exists /\ @ = "Uninitialized" THEN "Initialized" ELSE @]
          /\ workQueue' = (IF t \in exists THEN Append(workQueue, t) ELSE workQueue)
          /\ UNCHANGED <<exists, pc, current, stack, pending, should, hand, collected>>
      BY <1>0, <1>8, SchedulerAssumption, Zenon DEF ExecFinish, cpuVars
    <2>2. InTask(Bsp) /\ x \in Tasks /\ Loaded(t)
      BY <1>0, <1>8, <1>u, <2>1, Zenon DEF ExecFinish, Loaded
    <2>3. /\ Absent(t) /\ t \notin {current[Bsp], stack[Bsp]}
          /\ runState[t] = "Terminated" \/ (runState[t] = "Uninitialized" /\ t \in exists)
      BY <2>2, Zenon DEF UInv, Places, Unborn, Starts
    <2>4. \A u \in Tasks : Loaded(u)' => Loaded(u) /\ u # t
      <3>1. \A v \in Tasks : loading'[v] = IF v = x THEN None ELSE loading[v]
        BY <1>0, <2>1, Zenon DEF OnBsp
      <3>2. \A v \in Tasks : loading[v] = t => v = x
        BY <2>1, <2>2, Zenon DEF UInv, Starts
      <3> QED  BY <3>1, <3>2, SchedulerAssumption, Zenon DEF Loaded
    <2>5. \A u, v \in Tasks : loading'[u] = loading'[v] => u = v \/ loading'[u] = None
      BY <1>0, <2>1, Zenon DEF UInv, Starts, OnBsp
    <2>6. (\A u : Queued(u)' => Queued(u) \/ u = t) /\ NoDuplicates(workQueue')
      <3>1. workQueue \in Seq(Tasks) /\ NoDuplicates(workQueue) /\ ~Queued(t)
        BY <1>0, <2>3, Zenon DEF OnBsp, UInv, Absent
      <3>2. CASE t \in exists
        BY <2>1, <3>1, <3>2, QueueGrows, Zenon
      <3>3. CASE t \notin exists
        BY <2>1, <3>1, <3>3, Zenon DEF Queued
      <3> QED  BY <3>2, <3>3, Zenon
    <2>7. /\ \A u \in Tasks : u # t => runState'[u] = runState[u]
          /\ runState'[t] \in {"Terminated", "Initialized"}
          /\ runState[t] = "Terminated" => runState'[t] = "Terminated"
      BY <1>0, <2>1, <2>3, Zenon DEF OnBsp
    <2>8. CpuOK'
      BY <1>u, <2>1, <2>2, <2>3, <2>7, Zenon DEF CpuOK, UInv
    <2>9. Apart'
      BY <1>u, <2>1, <2>2, <2>3, <2>6, SchedulerAssumption, Zenon DEF Apart, UInv, Absent
    <2>10. \A u \in Tasks : u # t /\ Absent(u) => Absent(u)'
      BY <2>1, <2>6, Zenon DEF Absent
    <2>11. Places'
      BY <2>1, <2>3, <2>4, <2>7, <2>10, Zenon DEF UInv, Places, Unborn, Blocked
    <2>12. Starts' /\ Collects'
      BY <1>0, <2>1, <2>3, <2>4, <2>5, <2>7, ZenonT(60) DEF UInv, Starts, Collects, OnBsp
    <2> QED  BY <2>6, <2>8, <2>9, <2>11, <2>12, Zenon DEF UInv
  <1>9. ASSUME NEW t \in Tasks, FutexWake(c, t) PROVE UInv'
    <2>1. exists' = exists \cup {t}
      BY <1>9, Zenon DEF FutexWake
    <2> QED  BY <1>0, <1>9, <2>1, IsWoken, Zenon DEF FutexWake, Goto, Blocked
  <1>10. ASSUME NEW t \in Tasks, TerminateTask(c, t) PROVE UInv'
    <2>1. /\ t # x /\ InTask(Bsp) /\ t \in exists
          /\ runState' = [runState EXCEPT ![t] = "Terminated"]
          /\ UNCHANGED <<exists, loading, workQueue, pc, current, stack, pending, should, hand, collected>>
      BY <1>0, <1>10, Zenon DEF TerminateTask, cpuVars
    <2>2. /\ \A u : (Queued(u)' <=> Queued(u)) /\ (Absent(u)' <=> Absent(u))
          /\ \A u : Loaded(u)' <=> Loaded(u)
      BY <2>1, SameAbsent, SameStarts, Zenon
    <2>3. runState'[t] = "Terminated" /\ \A u \in Tasks : u # t => runState'[u] = runState[u]
      BY <1>0, <2>1, Zenon DEF OnBsp
    <2>4. CpuOK'
      BY <1>u, <2>1, <2>3, Zenon DEF CpuOK, UInv
    <2>5. Apart' /\ NoDuplicates(workQueue')
      BY <2>1, <2>2, Zenon DEF UInv, Apart
    <2>6. Places' /\ Starts' /\ Collects'
      BY <1>0, <2>1, <2>2, <2>3, Zenon DEF UInv, Places, Unborn, Starts, Collects, OnBsp, Blocked
    <2> QED  BY <2>4, <2>5, <2>6, Zenon DEF UInv
  <1>11. CASE CleanupCollect(c)
    <2>1. /\ InTask(Bsp) /\ collected' = {t \in exists : runState[t] = "Terminated"}
          /\ UNCHANGED <<exists, runState, loading, workQueue, pc, current, stack, pending, should, hand>>
      BY <1>0, <1>11, Zenon DEF CleanupCollect, taskVars, cpuVars
    <2>2. /\ \A u : (Queued(u)' <=> Queued(u)) /\ (Absent(u)' <=> Absent(u))
          /\ \A u : Loaded(u)' <=> Loaded(u)
      BY <2>1, SameAbsent, SameStarts, Zenon
    <2>3. CpuOK'
      BY <1>u, <2>1, Zenon DEF CpuOK, UInv
    <2>4. Apart' /\ Places' /\ Starts' /\ NoDuplicates(workQueue')
      BY <2>1, <2>2, Zenon DEF UInv, Apart, Places, Unborn, Starts
    <2>5. Collects'
      BY <2>1, Zenon DEF Collects
    <2> QED  BY <2>3, <2>4, <2>5, Zenon DEF UInv
  <1>12. CASE CleanupTake(c)
    <2>1. PICK t \in collected : exists' = exists \ {t} /\ collected' = collected \ {t}
      BY <1>12, Zenon DEF CleanupTake
    <2>2. /\ InTask(Bsp) /\ runState[t] = "Terminated"
          /\ UNCHANGED <<runState, loading, workQueue, pc, current, stack, pending, should, hand>>
      BY <1>0, <1>12, Zenon DEF CleanupTake, UInv, Collects, cpuVars
    <2>3. t # x
      BY <1>u, <2>2, Zenon
    <2>4. /\ \A u : (Queued(u)' <=> Queued(u)) /\ (Absent(u)' <=> Absent(u))
          /\ \A u : Loaded(u)' <=> Loaded(u)
      BY <2>2, SameAbsent, SameStarts, Zenon
    <2>5. CpuOK'
      BY <1>u, <2>1, <2>2, <2>3, Zenon DEF CpuOK, UInv
    <2>6. Apart' /\ Places' /\ NoDuplicates(workQueue')
      BY <2>2, <2>4, Zenon DEF UInv, Apart, Places, Unborn
    <2>7. Starts' /\ Collects'
      BY <2>1, <2>2, <2>4, Zenon DEF UInv, Starts, Collects
    <2> QED  BY <2>5, <2>6, <2>7, Zenon DEF UInv
  <1>13. CASE FileMappingWait(c)
    BY <1>0, <1>13, <1>u, LeavesTheCpu, Zenon DEF FileMappingWait, Goto, Blocked
  <1>14. ASSUME NEW t \in Tasks, FileMappingDone(c, t) PROVE UInv'
    <2>1. exists' = exists \cup {t}
      BY <1>14, Zenon DEF FileMappingDone
    <2> QED  BY <1>0, <1>14, <2>1, IsWoken, Zenon DEF FileMappingDone, Goto, Blocked
  <1>15. CASE ExecFail(c)
    <2>1. /\ InTask(Bsp) /\ loading' = [loading EXCEPT ![x] = None]
          /\ UNCHANGED <<exists, runState, workQueue, pc, current, stack, pending, should, hand, collected>>
      BY <1>0, <1>15, Zenon DEF ExecFail, cpuVars
    <2>2. \A u \in Tasks : Loaded(u)' => Loaded(u)
      BY <1>0, <2>1, SchedulerAssumption, Zenon DEF Loaded, OnBsp
    <2>3. \A u, v \in Tasks : loading'[u] = loading'[v] => u = v \/ loading'[u] = None
      BY <1>0, <2>1, Zenon DEF UInv, Starts, OnBsp
    <2>4. \A u : (Queued(u)' <=> Queued(u)) /\ (Absent(u)' <=> Absent(u))
      BY <2>1, SameAbsent, Zenon
    <2>5. CpuOK' /\ Apart' /\ NoDuplicates(workQueue') /\ Collects'
      BY <2>1, <2>4, Zenon DEF UInv, CpuOK, can_resume, Apart, Collects
    <2>6. Places' /\ Starts'
      BY <2>1, <2>2, <2>3, <2>4, Zenon DEF UInv, Places, Unborn, Starts
    <2> QED  BY <2>5, <2>6, Zenon DEF UInv
  <1> QED  BY <1>1, <1>2, <1>3, <1>4, <1>5, <1>6, <1>7, <1>8, <1>9, <1>10, <1>11, <1>12, <1>13, <1>14,
              <1>15, Zenon DEF TaskCall

\* A step that only moves tasks between the queue and the locals keeps UInv when it keeps
\* off the tasks that are blocked or not started.
LEMMA Rearranged ==
    ASSUME UInv, UNCHANGED <<exists, runState, loading, collected>>,
           CpuOK', Apart', NoDuplicates(workQueue'),
           \A u \in Tasks : (runState[u] \in Blocked \/ Unborn(u)) /\ Absent(u) => Absent(u)',
           \A u \in Tasks : Unborn(u) => u \notin {current'[Bsp], stack'[Bsp]}
    PROVE  UInv'
  <1>1. \A u : Loaded(u)' <=> Loaded(u)
    BY SameStarts, Zenon
  <1>2. Places'
    BY <1>1, Zenon DEF UInv, Places, Unborn
  <1>3. Starts'
    BY <1>1, Zenon DEF UInv, Starts
  <1>4. Collects'
    BY Zenon DEF UInv, Collects
  <1> QED  BY <1>2, <1>3, <1>4, Zenon DEF UInv

\* Pushing pending_reenqueue, where there is one.
LEMMA DrainOneCpu ==
    ASSUME OnBsp, UInv, NEW point, NEW next, Drain(Bsp, point, next),
           \/ point = "drain" /\ next = "decide"
           \/ point = "after" /\ next = "user"
    PROVE  UInv'
  <1>1. /\ pc[Bsp] \in {"drain", "after"}
        /\ pc[Bsp] = "after" <=> next = "user"
        /\ next \in {"decide", "user"}
        /\ workQueue' = (IF pending[Bsp] = None THEN workQueue ELSE Append(workQueue, pending[Bsp]))
        /\ pending'[Bsp] = None /\ pc'[Bsp] = next
        /\ UNCHANGED <<exists, runState, loading, current, stack, should, hand, collected>>
    BY Zenon DEF Drain, Goto, taskVars, OnBsp
  <1>2. hand[Bsp] = None /\ stack[Bsp] = current[Bsp] /\ ~should[Bsp]
    BY <1>1, Zenon DEF UInv, CpuOK
  <1>3. CpuOK'
    BY <1>1, <1>2, Zenon DEF UInv, CpuOK
  <1>4. /\ NoDuplicates(workQueue')
        /\ \A u : Queued(u)' => Queued(u) \/ (u = pending[Bsp] /\ pending[Bsp] # None)
    <2>1. CASE pending[Bsp] = None
      BY <1>1, <2>1, Zenon DEF UInv, Queued
    <2>2. CASE pending[Bsp] # None
      <3>1. pending[Bsp] \in Tasks /\ ~Queued(pending[Bsp]) /\ workQueue \in Seq(Tasks)
        BY <2>2, Zenon DEF OnBsp, UInv, Apart
      <3>2. workQueue' = Append(workQueue, pending[Bsp])
        BY <1>1, <2>2, Zenon
      <3> QED  BY <2>2, <3>1, <3>2, QueueGrows, Zenon DEF UInv
    <2> QED  BY <2>1, <2>2, Zenon
  <1>5. Apart'
    <2>1. current[Bsp] \in Tasks \cup {Idle} /\ ~Queued(None)
      BY Zenon DEF OnBsp
    <2>2. ~Queued(current[Bsp]) /\ pending[Bsp] # current[Bsp]
      BY Zenon DEF UInv, Apart
    <2> QED  BY <1>1, <1>2, <1>4, <2>1, <2>2, SchedulerAssumption, Zenon DEF Apart
  <1>6. \A u \in Tasks : Absent(u) => Absent(u)'
    BY <1>1, <1>4, SchedulerAssumption, Zenon DEF Absent
  <1>7. \A u \in Tasks : Unborn(u) => u \notin {current'[Bsp], stack'[Bsp]}
    BY <1>1, Zenon DEF UInv, Places
  <1> QED  BY <1>1, <1>3, <1>4, <1>5, <1>6, <1>7, Rearranged, Zenon

\* switch_to gives the CPU to the task popped; the outgoing one is remembered.
LEMMA SwapOneCpu ==
    ASSUME OnBsp, UInv, Swap(Bsp)
    PROVE  UInv'
  <1> DEFINE x == current[Bsp]
             y == hand[Bsp]
  <1>1. /\ pc[Bsp] = "swap" /\ pending[Bsp] = None /\ stack[Bsp] = x /\ x \in Tasks \cup {Idle}
        /\ y \in Tasks \cup {Idle}
        /\ y = Idle \/ (y \in exists /\ runState[y] \in {"Initialized", "Running"})
        /\ x # Idle => x \in exists
    BY Zenon DEF Swap, OnBsp, UInv, CpuOK, can_resume
  <1>2. /\ UNCHANGED <<exists, runState, loading, workQueue, stack, collected>>
        /\ should'[Bsp] = FALSE
        /\ hand' = [hand EXCEPT ![Bsp] = IF pc'[Bsp] = "panic" THEN @ ELSE None]
    BY Zenon DEF Swap, taskVars, OnBsp
  <1>3. (\A u : Queued(u)' <=> Queued(u)) /\ NoDuplicates(workQueue')
    BY <1>2, Zenon DEF Queued, UInv
  <1>4. CASE y = x
    <2>1. x = Idle
      BY <1>1, <1>4, Zenon DEF UInv, Apart
    <2>2. pc' = [pc EXCEPT ![Bsp] = "user"] /\ UNCHANGED <<current, pending>>
      BY <1>4, Zenon DEF Swap, Goto
    <2>3. pc'[Bsp] = "user" /\ hand'[Bsp] = None
      BY <1>2, <2>2, Zenon DEF OnBsp
    <2>4. CpuOK'
      BY <1>1, <1>2, <2>1, <2>2, <2>3, Zenon DEF CpuOK
    <2>5. Apart'
      BY <1>1, <1>2, <1>3, <2>1, <2>2, <2>3, SchedulerAssumption, Zenon DEF Apart, OnBsp
    <2>6. \A u \in Tasks : Absent(u) => Absent(u)'
      BY <1>3, <2>2, <2>3, SchedulerAssumption, Zenon DEF Absent
    <2>7. \A u \in Tasks : Unborn(u) => u \notin {current'[Bsp], stack'[Bsp]}
      BY <1>2, <2>2, Zenon DEF UInv, Places
    <2> QED  BY <1>2, <1>3, <2>4, <2>5, <2>6, <2>7, Rearranged, Zenon
  <1>5. CASE y # x
    <2>1. {x, y} \subseteq exists \cup {Idle}
      <3> HIDE DEF x, y
      <3> QED  BY <1>1
    <2>2. /\ pending' = [pending EXCEPT ![Bsp] = IF should[Bsp] THEN x ELSE @]
          /\ current' = [current EXCEPT ![Bsp] = y]
          /\ pc' = [pc EXCEPT ![Bsp] = IF y # Idle /\ runState[y] = "Initialized"
                                       THEN "init" ELSE "load"]
      BY <1>5, <2>1, Zenon DEF Swap, Goto
    <2>3. /\ current'[Bsp] = y /\ pending'[Bsp] = (IF should[Bsp] THEN x ELSE None)
          /\ pc'[Bsp] = (IF y # Idle /\ runState[y] = "Initialized" THEN "init" ELSE "load")
          /\ stack'[Bsp] = x
      BY <1>1, <1>2, <2>2, Zenon DEF OnBsp
    <2>4. hand'[Bsp] = None
      BY <1>2, <2>3, Zenon DEF OnBsp
    <2>5. ~Queued(x) /\ ~Queued(y) /\ ~Queued(None)
      BY Zenon DEF UInv, Apart, OnBsp
    <2> HIDE DEF x, y
    <2>6. CpuOK'
      BY <1>1, <1>2, <1>5, <2>3, <2>4, SchedulerAssumption, Zenon DEF CpuOK
    <2>7. Apart'
      <3>1. should[Bsp] => x \in Tasks
        BY Zenon DEF OnBsp, x
      <3> QED  BY <1>1, <1>3, <1>5, <2>3, <2>4, <2>5, <3>1, SchedulerAssumption, Zenon DEF Apart
    <2>8. \A u \in Tasks : (runState[u] \in Blocked \/ Unborn(u)) /\ Absent(u) => Absent(u)'
      <3>1. should[Bsp] => runState[x] \in {"Initialized", "Running"}
        BY Zenon DEF UInv, CpuOK, x
      <3>2. ASSUME NEW u \in Tasks, runState[u] \in Blocked \/ Unborn(u), should[Bsp]
            PROVE  u # x
        BY <3>1, <3>2, Zenon DEF UInv, Places, Blocked, x
      <3> QED  BY <1>3, <2>3, <2>4, <3>2, SchedulerAssumption, Zenon DEF Absent
    <2>9. \A u \in Tasks : Unborn(u) => u \notin {current'[Bsp], stack'[Bsp]}
      BY <2>3, Zenon DEF UInv, Places, Absent, x, y
    <2> QED  BY <1>2, <1>3, <2>6, <2>7, <2>8, <2>9, Rearranged, Zenon
  <1> QED  BY <1>4, <1>5, Zenon

\* So do reenqueue_task and the steps of switch().
LEMMA SwitchOneCpu ==
    ASSUME OneCpu, LInv, UInv, NEW c \in Cpus, Enqueue(c) \/ SwitchStep(c)
    PROVE  UInv'
  <1>0. OnBsp /\ c = Bsp
    BY TypesOnBsp, Zenon DEF OneCpu
  <1>1. CASE Enqueue(c)
    <2>1. /\ pc[Bsp] \in {"wake", "enqueue"} /\ hand[Bsp] \in Tasks
          /\ workQueue' = Append(workQueue, hand[Bsp])
          /\ hand'[Bsp] = None /\ pc'[Bsp] = "user"
          /\ UNCHANGED <<exists, runState, loading, current, stack, pending, should, collected>>
      BY <1>0, <1>1, Zenon DEF Enqueue, Goto, taskVars, cpuVars, OnBsp
    <2>2. /\ ~Queued(hand[Bsp]) /\ hand[Bsp] \notin {current[Bsp], pending[Bsp]}
          /\ stack[Bsp] = current[Bsp]
      BY <2>1, Zenon DEF UInv, Apart, CpuOK
    <2>3. NoDuplicates(workQueue') /\ \A u : Queued(u)' <=> Queued(u) \/ u = hand[Bsp]
      BY <1>0, <2>1, <2>2, QueueGrows, Zenon DEF UInv, OnBsp
    <2>4. CpuOK'
      BY <2>1, Zenon DEF UInv, CpuOK
    <2>5. Apart'
      BY <1>0, <2>1, <2>2, <2>3, SchedulerAssumption, Zenon DEF UInv, Apart, OnBsp
    <2>6. \A u \in Tasks : Absent(u) => Absent(u)'
      BY <2>1, <2>3, SchedulerAssumption, Zenon DEF Absent
    <2>7. \A u \in Tasks : Unborn(u) => u \notin {current'[Bsp], stack'[Bsp]}
      BY <2>1, Zenon DEF UInv, Places
    <2> QED  BY <2>1, <2>3, <2>4, <2>5, <2>6, <2>7, Rearranged, Zenon
  <1>2. CASE DrainStale(c) \/ DrainAfter(c)
    <2>1. CASE Drain(Bsp, "drain", "decide")
      BY <1>0, <2>1, DrainOneCpu, Zenon
    <2>2. CASE Drain(Bsp, "after", "user")
      BY <1>0, <2>2, DrainOneCpu, Zenon
    <2> QED  BY <1>0, <1>2, <2>1, <2>2, Zenon DEF DrainStale, DrainAfter
  <1>3. CASE Decide(c)
    <2>1. /\ pc[Bsp] = "decide" /\ pc'[Bsp] = "pop"
          /\ should'[Bsp] = (current[Bsp] # Idle /\ can_resume(current[Bsp]))
          /\ UNCHANGED <<exists, runState, loading, workQueue, current, stack, pending, hand, collected>>
      BY <1>0, <1>3, Zenon DEF Decide, Goto, taskVars, OnBsp
    <2>2. CpuOK'
      BY <2>1, Zenon DEF UInv, CpuOK, can_resume
    <2> QED  BY <2>1, <2>2, OnlyThePoint, Zenon DEF UInv
  <1>4. CASE Pop(c)
    <2>1. pc[Bsp] = "pop" /\ UNCHANGED <<exists, runState, loading, current, stack, pending, should, collected>>
      BY <1>0, <1>4, Zenon DEF Pop, taskVars, cpuVars
    <2>2. pending[Bsp] = None /\ hand[Bsp] = None /\ stack[Bsp] = current[Bsp]
      BY <1>0, <2>1, Zenon DEF OnBsp, UInv, CpuOK
    <2>3. /\ NoDuplicates(workQueue') /\ \A u : Queued(u)' => Queued(u) /\ u # hand'[Bsp]
          /\ \/ hand'[Bsp] = Idle /\ pc'[Bsp] = "swap"
             \/ hand'[Bsp] \in Tasks /\ Queued(hand'[Bsp]) /\ pc'[Bsp] = "check"
      <3>1. CASE workQueue = <<>>
        <4>1. workQueue' = workQueue /\ hand'[Bsp] = Idle /\ pc'[Bsp] = "swap"
          BY <1>0, <1>4, <3>1, Zenon DEF Pop, Goto, OnBsp
        <4>2. \A u : Queued(u)' <=> Queued(u)
          BY <4>1, Zenon DEF Queued
        <4> QED  BY <1>0, <4>1, <4>2, Zenon DEF UInv, OnBsp
      <3>2. CASE workQueue # <<>>
        <4>1. workQueue' = Tail(workQueue) /\ hand'[Bsp] = Head(workQueue) /\ pc'[Bsp] = "check"
          BY <1>0, <1>4, <3>2, Zenon DEF Pop, Goto, OnBsp
        <4>2. /\ Head(workQueue) \in Tasks /\ InQueue(workQueue, Head(workQueue))
              /\ \A t : InQueue(Tail(workQueue), t) => InQueue(workQueue, t) /\ t # Head(workQueue)
              /\ NoDuplicates(Tail(workQueue))
          BY <1>0, <3>2, QueuePopOnce, Zenon DEF UInv, OnBsp
        <4> QED  BY <4>1, <4>2, Zenon DEF Queued
      <3> QED  BY <3>1, <3>2, Zenon
    <2>4. CpuOK'
      BY <2>1, <2>3, Zenon DEF UInv, CpuOK
    <2>5. Apart'
      BY <1>0, <2>1, <2>2, <2>3, SchedulerAssumption, Zenon DEF UInv, Apart, OnBsp
    <2>6. \A u \in Tasks : Absent(u) => Absent(u)'
      BY <2>1, <2>3, SchedulerAssumption, Zenon DEF Absent
    <2>7. \A u \in Tasks : Unborn(u) => u \notin {current'[Bsp], stack'[Bsp]}
      BY <2>1, Zenon DEF UInv, Places
    <2> QED  BY <2>1, <2>3, <2>4, <2>5, <2>6, <2>7, Rearranged, Zenon
  <1>5. CASE Check(c)
    <2>1. pc[Bsp] = "check" /\ UNCHANGED <<exists, runState, loading, workQueue, current, stack, pending, should, collected>>
      BY <1>0, <1>5, Zenon DEF Check, taskVars, cpuVars
    <2>2. \/ can_resume(hand[Bsp]) /\ hand'[Bsp] = hand[Bsp] /\ pc'[Bsp] = "swap"
          \/ hand'[Bsp] = None /\ pc'[Bsp] = "pop"
      BY <1>0, <1>5, Zenon DEF Check, Goto, OnBsp
    <2>3. (\A u : Queued(u)' <=> Queued(u)) /\ NoDuplicates(workQueue')
      BY <2>1, Zenon DEF Queued, UInv
    <2>4. CpuOK'
      BY <2>1, <2>2, Zenon DEF UInv, CpuOK, can_resume
    <2>5. Apart'
      BY <1>0, <2>1, <2>2, <2>3, SchedulerAssumption, Zenon DEF UInv, Apart, OnBsp
    <2>6. \A u \in Tasks : Absent(u) => Absent(u)'
      BY <2>1, <2>2, <2>3, SchedulerAssumption, Zenon DEF Absent
    <2>7. \A u \in Tasks : Unborn(u) => u \notin {current'[Bsp], stack'[Bsp]}
      BY <2>1, Zenon DEF UInv, Places
    <2> QED  BY <2>1, <2>3, <2>4, <2>5, <2>6, <2>7, Rearranged, Zenon
  <1>6. CASE Swap(c)
    BY <1>0, <1>6, SwapOneCpu, Zenon
  <1>7. CASE SwitchInit(c)
    <2> DEFINE x == current[Bsp]
    <2>1. /\ pc[Bsp] = "init" /\ x \in Tasks /\ runState[x] = "Initialized"
          /\ runState' = [runState EXCEPT ![x] = "Running"]
          /\ stack'[Bsp] = x /\ pc'[Bsp] = "user"
          /\ UNCHANGED <<exists, loading, workQueue, current, pending, should, hand, collected>>
      BY <1>0, <1>7, Zenon DEF SwitchInit, Goto, OnBsp, UInv, CpuOK
    <2>2. runState'[x] = "Running" /\ \A u \in Tasks : u # x => runState'[u] = runState[u]
      BY <1>0, <2>1, Zenon DEF OnBsp
    <2>3. /\ \A u : (Queued(u)' <=> Queued(u)) /\ (Absent(u)' <=> Absent(u))
          /\ \A u : Loaded(u)' <=> Loaded(u)
      BY <2>1, SameAbsent, SameStarts, Zenon
    <2>4. hand[Bsp] = None /\ ~should[Bsp] /\ x \in exists /\ ~Loaded(x)
      BY <1>0, <2>1, SchedulerAssumption, Zenon DEF UInv, CpuOK, Places, Unborn
    <2> HIDE DEF x
    <2>5. CpuOK'
      BY <2>1, <2>2, <2>4, Zenon DEF CpuOK, x
    <2>6. Apart' /\ NoDuplicates(workQueue')
      BY <2>1, <2>3, Zenon DEF UInv, Apart, x
    <2>7. Places'
      BY <2>1, <2>2, <2>3, <2>4, Zenon DEF UInv, Places, Unborn, Blocked, x
    <2>8. Starts'
      <3>1. \A u \in Tasks : Loaded(u)' => Loaded(u) /\ runState'[u] = runState[u]
        BY <2>2, <2>3, <2>4, Zenon
      <3> QED  BY <2>1, <3>1, Zenon DEF UInv, Starts
    <2>9. Collects'
      <3>1. \A u \in collected : u # x /\ u \in Tasks
        BY <1>0, <2>1, Zenon DEF UInv, Collects, OnBsp
      <3> QED  BY <2>1, <2>2, <3>1, Zenon DEF UInv, Collects
    <2> QED  BY <2>5, <2>6, <2>7, <2>8, <2>9, Zenon DEF UInv
  <1>8. CASE SwitchInner(c)
    <2>1. /\ pc[Bsp] = "load" /\ stack'[Bsp] = current[Bsp] /\ pc'[Bsp] \in {"user", "after"}
          /\ UNCHANGED <<exists, runState, loading, workQueue, current, pending, should, hand, collected>>
      BY <1>0, <1>8, Zenon DEF SwitchInner, Goto, OnBsp
    <2>2. \A u : (Queued(u)' <=> Queued(u)) /\ (Absent(u)' <=> Absent(u))
      BY <2>1, SameAbsent, Zenon
    <2>3. CpuOK'
      BY <2>1, Zenon DEF UInv, CpuOK
    <2>4. Apart' /\ NoDuplicates(workQueue')
      BY <2>1, <2>2, Zenon DEF UInv, Apart
    <2>5. \A u \in Tasks : Unborn(u) => u \notin {current'[Bsp], stack'[Bsp]}
      BY <2>1, Zenon DEF UInv, Places
    <2> QED  BY <2>1, <2>2, <2>3, <2>4, <2>5, Rearranged, Zenon
  <1> QED  BY <1>1, <1>2, <1>3, <1>4, <1>5, <1>6, <1>7, <1>8, Zenon DEF SwitchStep

\* So does the timer; no other CPU is there for pit_cascade.
LEMMA TimerOneCpu ==
    ASSUME OneCpu, LInv, UInv, Timer
    PROVE  UInv'
  <1>0. OnBsp
    BY TypesOnBsp, Zenon
  <1>1. CASE PitEnter \/ PitExit
    <2>1. /\ pc[Bsp] \in {"user", "pit"} /\ pc'[Bsp] \in {"pit", "user", "drain"}
          /\ UNCHANGED <<exists, runState, loading, workQueue, current, stack, pending, should, hand, collected>>
      BY <1>0, <1>1, Zenon DEF PitEnter, PitExit, Goto, taskVars, cpuVars, OnBsp
    <2>2. CpuOK'
      BY <2>1, Zenon DEF UInv, CpuOK
    <2> QED  BY <2>1, <2>2, OnlyThePoint, Zenon DEF UInv
  <1>2. ASSUME NEW t \in Tasks, PitExpire(t) PROVE UInv'
    <2>1. /\ pc[Bsp] = "pit" /\ runState[t] \in Blocked /\ t \in exists
          /\ runState' = [runState EXCEPT ![t] = "Running"]
          /\ workQueue' = Append(workQueue, t)
          /\ UNCHANGED <<exists, loading, pc, current, stack, pending, should, hand, collected>>
      BY <1>2, Zenon DEF PitExpire, cpuVars
    <2>2. runState'[t] = "Running" /\ \A u \in Tasks : u # t => runState'[u] = runState[u]
      BY <1>0, <2>1, Zenon DEF OnBsp
    <2>3. Absent(t) /\ ~Loaded(t)
      BY <2>1, Zenon DEF UInv, Places, Starts, Blocked
    <2>4. hand[Bsp] = None /\ ~should[Bsp] /\ stack[Bsp] = current[Bsp] /\ t # current[Bsp]
      BY <2>1, SchedulerAssumption, Zenon DEF UInv, CpuOK, Blocked
    <2>5. NoDuplicates(workQueue') /\ \A u : Queued(u)' <=> Queued(u) \/ u = t
      BY <1>0, <2>1, <2>3, QueueGrows, Zenon DEF UInv, OnBsp, Absent
    <2>6. \A u : Loaded(u)' <=> Loaded(u)
      BY <2>1, SameStarts, Zenon
    <2>7. CpuOK'
      <3>1. current[Bsp] # Idle => runState'[current[Bsp]] = runState[current[Bsp]]
        BY <1>0, <2>2, <2>4, Zenon DEF OnBsp
      <3> QED  BY <2>1, <2>4, <3>1, Zenon DEF UInv, CpuOK
    <2>8. Apart'
      BY <1>0, <2>1, <2>3, <2>4, <2>5, SchedulerAssumption, Zenon DEF UInv, Apart, OnBsp, Absent
    <2>9. \A u \in Tasks : u # t /\ Absent(u) => Absent(u)'
      BY <2>1, <2>5, Zenon DEF Absent
    <2>10. Places'
      BY <2>1, <2>2, <2>3, <2>6, <2>9, Zenon DEF UInv, Places, Unborn, Blocked
    <2>11. Starts'
      <3>1. \A u \in Tasks : Loaded(u)' => Loaded(u) /\ runState'[u] = runState[u]
        BY <2>2, <2>3, <2>6, Zenon
      <3> QED  BY <2>1, <3>1, Zenon DEF UInv, Starts
    <2>12. Collects'
      <3>1. \A u \in collected : u # t /\ u \in Tasks
        BY <1>0, <2>1, Zenon DEF UInv, Collects, OnBsp, Blocked
      <3> QED  BY <2>1, <2>2, <3>1, Zenon DEF UInv, Collects
    <2> QED  BY <2>5, <2>7, <2>8, <2>10, <2>11, <2>12, Zenon DEF UInv
  <1>3. ASSUME NEW c \in Cpus, PitCascade(c) PROVE UInv'
    BY <1>3, Zenon DEF PitCascade, OneCpu
  <1> QED  BY <1>1, <1>2, <1>3, Zenon DEF Timer

\* UInv is inductive on one CPU.
LEMMA OneCpuInductive == ASSUME OneCpu, OneStart PROVE Spec => [](LInv /\ UInv)
  <1>1. Init => UInv
    <2> SUFFICES ASSUME Init PROVE UInv
      BY Zenon
    <2>1. workQueue = <<Resident, FirstTask>>
      BY Zenon DEF Init
    <2>2. NoDuplicates(workQueue) /\ \A t : Queued(t) => t \in {Resident, FirstTask}
      BY <2>1, SchedulerAssumption DEF NoDuplicates, Queued, InQueue
    <2>3. /\ pc[Bsp] = "user" /\ current[Bsp] = Idle /\ stack[Bsp] = Idle
          /\ pending[Bsp] = None /\ hand[Bsp] = None /\ ~should[Bsp] /\ collected = {}
      BY SchedulerAssumption, Zenon DEF Init
    <2>4. /\ exists = {Resident, FirstTask}
          /\ \A t \in Tasks : runState[t] = IF t \in exists THEN "Running" ELSE "Uninitialized"
          /\ \A t \in Tasks : loading[t] = None
      BY Zenon DEF Init
    <2>5. CpuOK /\ Collects
      BY <2>3, Zenon DEF CpuOK, Collects
    <2>6. Apart
      <3>1. ~Queued(Idle) /\ ~Queued(None)
        BY <2>2, SchedulerAssumption
      <3> QED  BY <2>3, <3>1, SchedulerAssumption, Zenon DEF Apart
    <2>7. \A t \in Tasks : ~Loaded(t) /\ (Unborn(t) => t \notin exists)
      BY <2>4, SchedulerAssumption, Zenon DEF Loaded, Unborn
    <2>8. Places /\ Starts
      BY <2>2, <2>3, <2>4, <2>7, SchedulerAssumption, Zenon DEF Places, Starts, Absent, Blocked
    <2> QED  BY <2>2, <2>5, <2>6, <2>8, Zenon DEF UInv
  <1>2. LInv /\ UInv /\ [Next]_vars => UInv'
    <2> SUFFICES ASSUME LInv, UInv, [Next]_vars PROVE UInv'
      BY Zenon
    <2>1. CASE UNCHANGED vars
      <3>1. UNCHANGED <<exists, runState, loading, workQueue, pc, current, stack, pending, should, hand, collected>>
        BY <2>1, Zenon DEF vars, taskVars, cpuVars
      <3>2. CpuOK'
        BY <3>1, Zenon DEF UInv, CpuOK, can_resume
      <3> QED  BY <3>1, <3>2, OnlyThePoint, Zenon DEF UInv
    <2> QED  BY <2>1, TaskCallOneCpu, SwitchOneCpu, TimerOneCpu, Zenon DEF Next
  <1>3. Spec => []LInv
    BY Inductive, PTL DEF IInv
  <1> QED  BY <1>1, <1>2, <1>3, PTL DEF Spec

\* On one CPU a task is in the work queue at most once, and never while the CPU is on its
\* stack: no interleaving of yields, blocking, wake-ups, timeouts, loading, termination
\* and cleanup enqueues it twice or too early.
THEOREM QueueIsSound == ASSUME OneCpu, OneStart PROVE Spec => []QueuedIsSaved
  <1>1. UInv => QueuedIsSaved
    BY Zenon DEF OneCpu, UInv, NoDuplicates, Apart, QueuedIsSaved
  <1> QED  BY <1>1, OneCpuInductive, PTL

\* On one CPU neither the lookups of switch_to nor Task::sleep ever panic.
THEOREM NeverPanics == ASSUME OneCpu, OneStart PROVE Spec => []NoPanic
  <1>1. UInv => NoPanic
    BY Zenon DEF OneCpu, UInv, CpuOK, NoPanic
  <1> QED  BY <1>1, OneCpuInductive, PTL

\* On one CPU no kernel path moves a task out of Terminated: whatever is woken was
\* blocked, what goes to sleep was running, what is started was not.
THEOREM TerminatedStays == ASSUME OneCpu, OneStart PROVE Spec => TerminatedIsFinal
  <1>1. ASSUME LInv, UInv, Next, NEW t \in Tasks, runState[t] = "Terminated"
        PROVE  runState'[t] = "Terminated"
    <2>1. /\ t \in DOMAIN runState
          /\ current[Bsp] # Idle /\ pc[Bsp] \in {"user", "init"} =>
                runState[current[Bsp]] \in {"Running", "Initialized"}
          /\ pc[Bsp] = "init" => current[Bsp] # Idle
          /\ \A x \in Tasks : Loaded(x) => runState[x] \in {"Terminated", "Uninitialized"}
      BY <1>1, Zenon DEF LInv, TypeOK, UInv, CpuOK, Starts
    <2>2. CASE Timer
      BY <1>1, <2>1, <2>2, Zenon DEF Timer, PitEnter, PitExit, PitExpire, PitCascade, taskVars, Blocked
    <2>3. ASSUME TaskCall(Bsp)
          PROVE  runState'[t] = "Terminated"
      <3>1. CASE \/ Sleep(Bsp) \/ Terminate(Bsp) \/ FileMappingWait(Bsp)
                \/ \E b \in BOOLEAN : FutexWait(Bsp, b)
        BY <1>1, <2>1, <3>1, Zenon DEF Sleep, Terminate, FutexWait, FileMappingWait, InTask
      <3>2. ASSUME NEW x \in Tasks, \/ CreateKernelTask(Bsp, x) \/ ExecFinish(Bsp, x)
                                    \/ FutexWake(Bsp, x) \/ TerminateTask(Bsp, x)
                                    \/ FileMappingDone(Bsp, x)
            PROVE  runState'[t] = "Terminated"
        BY <1>1, <2>1, <3>2, Zenon
           DEF CreateKernelTask, ExecFinish, FutexWake, TerminateTask, FileMappingDone
      <3> QED
        BY <1>1, <2>3, <3>1, <3>2, Zenon
           DEF TaskCall, Yield, CreateTask, ExecCheck, ExecFail, CleanupCollect, CleanupTake, taskVars
    <2>4. CASE Enqueue(Bsp) \/ SwitchStep(Bsp)
      <3>1. CASE SwitchInit(Bsp)
        BY <1>1, <2>1, <3>1, Zenon DEF SwitchInit
      <3> QED
        BY <1>1, <2>4, <3>1, Zenon
           DEF Enqueue, SwitchStep, DrainStale, DrainAfter, Drain, Decide, Pop, Check, Swap,
               SwitchInner, taskVars
    <2> QED  BY <1>1, <2>2, <2>3, <2>4, Zenon DEF Next, OneCpu
  <1>2. LInv /\ UInv /\ [Next]_vars =>
           [\A t \in Tasks : runState[t] = "Terminated" => runState'[t] = "Terminated"]_vars
    BY <1>1, Zenon
  <1> QED  BY <1>2, OneCpuInductive, PTL DEF Spec, TerminatedIsFinal

=============================================================================
