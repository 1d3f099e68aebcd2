------------------------------ MODULE AsyncWait ------------------------------
(***************************************************************************)
(* The two ways to wait for an I/O operation, against its completion.      *)
(*                                                                         *)
(* A caller of io_sync (kernel/src/task/actions/io.rs) blocks on the       *)
(* signal of its AsyncOp, which is at the same stack address for every     *)
(* call: a wake-up of the previous call may still be on its way when the   *)
(* next one waits.  The owner of a wake set (sync/wake_set.rs) submits     *)
(* operations and blocks on the set.  A completer is whatever finishes an  *)
(* operation: UnmappedAsyncOp::complete of io/provider/mod.rs.  A provider *)
(* may also answer the owner's operation at once, inside the submission:   *)
(* signal_wake_set_sync.  All block on futexes (sync/futex.rs), whose      *)
(* watch list comes first.                                                 *)
(***************************************************************************)
EXTENDS Kernel

CONSTANTS
    Waiters,  \* tasks that wait
    Words     \* physical addresses of futex words

VARIABLES
    watchList,  \* FUTEX_WATCH_LIST; an absent address is the empty sequence
    blocked     \* "no", or Blocked(_, Futex) "without" or "with" a timeout

futexVars == <<watchList, blocked>>

FutexInit ==
    /\ watchList = [a \in Words |-> <<>>]
    /\ blocked = [t \in Waiters |-> "no"]

\* futex_wait_inner under the watch list lock: listed and Blocked in one step.
\* The value at the address was compared before the lock was taken.
Enlist(t, a, timeout) ==
    /\ watchList' = [watchList EXCEPT ![a] = Append(@, t)]
    /\ blocked' = [blocked EXCEPT ![t] = timeout]

\* The tasks that futex_wake_inner(a, count) pops.
Popped(a, count) ==
    {watchList[a][i] : i \in 1..(IF count < Len(watchList[a]) THEN count ELSE Len(watchList[a]))}

\* futex_wake_inner: the first count entries leave the list, whether or not the
\* task they name is still blocked; a blocked one becomes Running.
Wake(a, count) ==
    /\ watchList' = [watchList EXCEPT ![a] =
                        IF count < Len(@) THEN SubSeq(@, count + 1, Len(@)) ELSE <<>>]
    /\ blocked' = [t \in Waiters |-> IF t \in Popped(a, count) THEN "no" ELSE blocked[t]]

\* update_timeouts on a task whose futex timeout ran out.
Expire(t) ==
    /\ blocked[t] = "with"
    /\ blocked' = [blocked EXCEPT ![t] = "no"]
    /\ UNCHANGED watchList

-----------------------------------------------------------------------------
(* Waiting for an operation *)

CONSTANTS
    Callers,     \* tasks that call io_sync, each on a word of its own
    Owner,       \* the task that waits on a wake set
    Completers,  \* what finishes operations
    TheSet,      \* the address of wake_signal
    MaxCalls,    \* bound on the operations of one task
    BatchSize,   \* the length of the buffer given to wait_batch
    Profiles     \* which of "timeouts" and "inline" completions happen

ASSUME AsyncWaitAssumption ==
    /\ Waiters = Callers \cup {Owner} /\ Owner \notin Callers
    /\ Completers \cap Waiters = {}
    /\ IsFiniteSet(Waiters) /\ IsFiniteSet(Completers)
    /\ Words = Callers \cup {TheSet} /\ TheSet \notin Callers
    /\ MaxCalls \in Nat /\ BatchSize \in Nat
    /\ Profiles \subseteq SUBSET {"timeouts", "inline"}

VARIABLES
    profile,      \* what happens in this behaviour
    waitPc,       \* where each task is
    signal,       \* AsyncOp::signal of each caller
    result,       \* AsyncOp::return_value of each caller: the call it answers
    calls,        \* operations each task has submitted
    requests,     \* operations submitted and not yet taken by a completer
    job,          \* the operation a completer, or the owner inline, finishes
    returned,     \* what each finished call of io_sync returned
    wake_signal,  \* WakeSet::wake_signal
    ready_queue,  \* WakeSet::ready_queue: the owner's operations by number
    wanted,       \* how many handles the owner's call may take
    got           \* handles the owner was given, in order

opVars == <<signal, result, calls, requests, job, returned>>
setVars == <<wake_signal, ready_queue, wanted, got>>
waitVars == <<futexVars, profile, waitPc, opVars, setVars>>

NoJob == [who |-> None, call |-> 0]
Jobs == [who : Waiters, call : 1..MaxCalls]
WaitTasks == Waiters \cup Completers

WaitInit ==
    /\ Boot
    /\ FutexInit
    /\ profile \in Profiles
    /\ waitPc = [t \in WaitTasks |-> "out"]
    /\ signal = [w \in Callers |-> 0]
    /\ result = [w \in Callers |-> 0]
    /\ calls = [w \in Waiters |-> 0]
    /\ requests = {}
    /\ job = [d \in Completers \cup {Owner} |-> NoJob]
    /\ returned = [w \in Callers |-> <<>>]
    /\ wake_signal = 0
    /\ ready_queue = <<>>
    /\ wanted = 0
    /\ got = <<>>

\* "yield": in the work queue or blocked, to go on once it runs again.
Inside == {t \in WaitTasks : waitPc[t] \notin {"out", "yield"}}
Ready(t) == waitPc[t] = "yield" /\ blocked[t] = "no" /\ CpuFree(Inside)
At(t, point) == waitPc[t] = point
WaitGoto(t, point) == waitPc' = [waitPc EXCEPT ![t] = point] /\ UNCHANGED <<ncpus, profile>>

-----------------------------------------------------------------------------
(* io_sync *)

\* AsyncOp::new and send_io_op.
Submit(w) ==
    /\ At(w, "out") /\ CpuFree(Inside)
    /\ calls[w] < MaxCalls
    /\ signal' = [signal EXCEPT ![w] = 0]
    /\ result' = [result EXCEPT ![w] = 0]
    /\ calls' = [calls EXCEPT ![w] = @ + 1]
    /\ requests' = requests \cup {[who |-> w, call |-> calls[w] + 1]}
    /\ WaitGoto(w, "loop")
    /\ UNCHANGED <<futexVars, job, returned, setVars>>

\* The loop condition; the result is read once the signal is seen.
Loop(w) ==
    /\ At(w, "loop") \/ Ready(w)
    /\ IF signal[w] = 0
       THEN WaitGoto(w, "wait") /\ UNCHANGED returned
       ELSE /\ WaitGoto(w, "out")
            /\ returned' = [returned EXCEPT ![w] = Append(@, result[w])]
    /\ UNCHANGED <<futexVars, signal, result, calls, requests, job, setVars>>

\* futex_wait: the value is compared, without the watch list lock.
Compare(t, value) ==
    /\ At(t, "wait")
    /\ WaitGoto(t, IF value = 0 THEN "block" ELSE "yield")
    /\ UNCHANGED <<futexVars, opVars, setVars>>

\* futex_wait under the lock, then yield_coop.
Block(t, a, timeout) ==
    /\ At(t, "block")
    /\ Enlist(t, a, timeout)
    /\ WaitGoto(t, "yield")
    /\ UNCHANGED <<opVars, setVars>>

CallerStep(w) == Loop(w) \/ Compare(w, signal[w]) \/ Block(w, w, "without")

-----------------------------------------------------------------------------
(* UnmappedAsyncOp::complete, by completer d *)

Take(d) ==
    /\ At(d, "out") /\ CpuFree(Inside)
    /\ \E r \in requests : /\ job' = [job EXCEPT ![d] = r]
                           /\ requests' = requests \ {r}
                           /\ WaitGoto(d, IF r.who = Owner THEN "push" ELSE "value")
    /\ UNCHANGED <<futexVars, signal, result, calls, returned, setVars>>

\* Store the return value, ...
StoreValue(d) ==
    /\ At(d, "value")
    /\ result' = [result EXCEPT ![job[d].who] = job[d].call]
    /\ WaitGoto(d, "signal")
    /\ UNCHANGED <<futexVars, signal, calls, requests, job, returned, setVars>>

\* ... raise the signal, ...
StoreSignal(d) ==
    /\ At(d, "signal")
    /\ signal' = [signal EXCEPT ![job[d].who] = 1]
    /\ WaitGoto(d, "wake")
    /\ UNCHANGED <<futexVars, result, calls, requests, job, returned, setVars>>

\* The slip of leaving without the wake-up.
WakeAll_Missing(d) ==
    /\ At(d, "wake")
    /\ job' = [job EXCEPT ![d] = NoJob]
    /\ WaitGoto(d, "out")
    /\ UNCHANGED <<futexVars, signal, result, calls, requests, returned, setVars>>

\* ... and wake everyone who waits on its physical address.
WakeAll(d) ==
    /\ At(d, "wake")
    /\ Wake(job[d].who, Cardinality(Waiters))
    /\ job' = [job EXCEPT ![d] = NoJob]
    /\ WaitGoto(d, "out")
    /\ UNCHANGED <<signal, result, calls, requests, returned, setVars>>

\* The slip of raising the signal before the value is there.
Complete_SignalFirst(d) ==
    \/ WakeAll(d)
    \/ /\ At(d, "value")
       /\ signal' = [signal EXCEPT ![job[d].who] = 1]
       /\ WaitGoto(d, "signal")
       /\ UNCHANGED <<futexVars, result, calls, requests, job, returned, setVars>>
    \/ /\ At(d, "signal")
       /\ result' = [result EXCEPT ![job[d].who] = job[d].call]
       /\ WaitGoto(d, "wake")
       /\ UNCHANGED <<futexVars, signal, calls, requests, job, returned, setVars>>

Complete(d) == StoreValue(d) \/ StoreSignal(d) \/ WakeAll(d)

-----------------------------------------------------------------------------
(* WakeSet::wake, by completer d or by the owner inside its submission *)

\* Push the handle, ...
Push(d) ==
    /\ At(d, "push")
    /\ ready_queue' = Append(ready_queue, job[d].call)
    /\ WaitGoto(d, "count")
    /\ UNCHANGED <<futexVars, opVars, wake_signal, wanted, got>>

\* ... count it, ...
Count(d) ==
    /\ At(d, "count")
    /\ wake_signal' = wake_signal + 1
    /\ WaitGoto(d, "wakeOne")
    /\ UNCHANGED <<futexVars, opVars, ready_queue, wanted, got>>

\* The slip of asking futex_wake for no task at all.
WakeOne_Zero(d) ==
    /\ At(d, "wakeOne")
    /\ job' = [job EXCEPT ![d] = NoJob]
    /\ WaitGoto(d, "out")
    /\ UNCHANGED <<futexVars, signal, result, calls, requests, returned, setVars>>

\* ... and wake one waiter.  signal_wake_set_sync holds the owner's task lock
\* for reading: the lock futex_wake_inner takes of each task it pops.
WakeOne(d) ==
    /\ At(d, "wakeOne")
    /\ IF d = Owner /\ Owner \in Popped(TheSet, 1)
       THEN /\ WaitGoto(d, "hung")
            /\ UNCHANGED <<futexVars, job>>
       ELSE /\ Wake(TheSet, 1)
            /\ job' = [job EXCEPT ![d] = NoJob]
            /\ WaitGoto(d, "out")
    /\ UNCHANGED <<signal, result, calls, requests, returned, setVars>>

WakeStep(d) == Push(d) \/ Count(d) \/ WakeOne(d)
CompleterStep(d) == Take(d) \/ Complete(d) \/ WakeStep(d)

-----------------------------------------------------------------------------
(* The owner of the set *)

\* send_io_op with a wake set; the provider answers later, or at once.
SubmitToSet ==
    /\ At(Owner, "out") /\ CpuFree(Inside)
    /\ calls[Owner] < MaxCalls
    /\ calls' = [calls EXCEPT ![Owner] = @ + 1]
    /\ LET op == [who |-> Owner, call |-> calls[Owner] + 1] IN
       \/ /\ requests' = requests \cup {op}
          /\ UNCHANGED <<waitPc, job, ncpus, profile>>
       \/ /\ "inline" \in profile
          /\ job' = [job EXCEPT ![Owner] = op]
          /\ WaitGoto(Owner, "push")
          /\ UNCHANGED requests
    /\ UNCHANGED <<futexVars, signal, result, returned, setVars>>

\* block_on_wake_set takes one handle, drain_wake_set as many as fit.
WaitOnSet ==
    /\ At(Owner, "out") /\ CpuFree(Inside)
    /\ wanted' \in {1, BatchSize}
    /\ WaitGoto(Owner, "wait")
    /\ UNCHANGED <<futexVars, opVars, wake_signal, ready_queue, got>>

Taken == IF wanted < Len(ready_queue) THEN wanted ELSE Len(ready_queue)

\* The slip of always resetting the signal to zero.
TakeReady_ResetsToZero ==
    /\ Ready(Owner)
    /\ got' = got \o SubSeq(ready_queue, 1, Taken)
    /\ ready_queue' = SubSeq(ready_queue, Taken + 1, Len(ready_queue))
    /\ wake_signal' = 0
    /\ WaitGoto(Owner, "out")
    /\ UNCHANGED <<futexVars, opVars, wanted>>

\* WakeSet::wait and wait_batch after futex_wait, under the queue lock: pop,
\* and set the signal to what is left.
TakeReady ==
    /\ Ready(Owner)
    /\ got' = got \o SubSeq(ready_queue, 1, Taken)
    /\ ready_queue' = SubSeq(ready_queue, Taken + 1, Len(ready_queue))
    /\ wake_signal' = Len(ready_queue')
    /\ WaitGoto(Owner, "out")
    /\ UNCHANGED <<futexVars, opVars, wanted>>

OwnerStep ==
    \/ WaitOnSet \/ Compare(Owner, wake_signal) \/ TakeReady \/ WakeStep(Owner)
    \/ \E timeout \in {"without"} \cup (IF "timeouts" \in profile THEN {"with"} ELSE {}) :
          Block(Owner, TheSet, timeout)

\* The timer ends a wait that has a timeout.  Bound: until the stale entries in
\* the watch list are two.
Timeout ==
    /\ Len(watchList[TheSet]) <= 2
    /\ Expire(Owner)
    /\ UNCHANGED <<ncpus, profile, waitPc, opVars, setVars>>

WaitNext ==
    \/ \E w \in Callers : Submit(w) \/ CallerStep(w)
    \/ \E d \in Completers : CompleterStep(d)
    \/ SubmitToSet \/ OwnerStep \/ Timeout

\* The scheduler runs every ready task again and again (QueuedRuns), completers
\* serve what was submitted, and the owner keeps waiting on its set.
WaitFairness ==
    /\ \A w \in Callers : SF_waitVars(CallerStep(w))
    /\ \A d \in Completers : SF_waitVars(CompleterStep(d))
    /\ SF_waitVars(OwnerStep)

WaitSpec == WaitInit /\ [][WaitNext]_<<ncpus, waitVars>> /\ WaitFairness

-----------------------------------------------------------------------------

\* Every call of io_sync returns the value its own completion stored: not the
\* previous call's, and not one that is not there yet.
OwnResult == \A w \in Callers : \A i \in 1..Len(returned[w]) : returned[w][i] = i

\* On one CPU, a task blocked on a word that was already raised still has its
\* wake-up to come.
WakeIsComing ==
    Uniprocessor =>
        /\ \A w \in Callers : blocked[w] # "no" /\ signal[w] = 1
              => \E d \in Completers : At(d, "wake") /\ job[d].who = w
        /\ blocked[Owner] # "no" /\ wake_signal > 0
              => \E d \in Completers : At(d, "wakeOne")

\* On one CPU, every blocking I/O call whose operation is served returns.
CallReturns == \A w \in Callers : Uniprocessor /\ At(w, "loop") ~> At(w, "out")

\* On one CPU, every handle that becomes ready in a wake set is given to its
\* owner: no count is consumed for a handle that is still queued.
ReadyIsTaken == Uniprocessor /\ ready_queue # <<>> ~> ready_queue = <<>>

\* Every blocking I/O call whose operation is served returns.
CallAlwaysReturns == \A w \in Callers : At(w, "loop") ~> At(w, "out")

=============================================================================
