--------------------------- MODULE AsyncWait_proofs ---------------------------
(***************************************************************************)
(* No wake-up is lost on one CPU, for any number of callers, completers    *)
(* and operations, timeouts and completions inside the submission          *)
(* included.                                                               *)
(*                                                                         *)
(* futex_wait compares the word before it takes the lock of the watch      *)
(* list.  With one CPU nothing comes between the two (Alone), so a task    *)
(* about to block still has its word down (StillDown).  A blocked task is  *)
(* in the list of its word (Listed); the owner's list may hold entries     *)
(* that a timeout left, but only the owner's own, so waking the first of   *)
(* them wakes the owner.                                                   *)
(*                                                                         *)
(* Every call of io_sync returns the value of its own completion, for any  *)
(* number of callers, completers and CPUs.                                 *)
(*                                                                         *)
(* The AsyncOp of every call of a task is at the same address, so a        *)
(* completion that comes late would answer a later call.  It never does:   *)
(* a call under way has at most one operation that has yet to raise the    *)
(* signal (OneOperation), it is that call's, and there is none once the    *)
(* signal is up (Current).  What a completer does after the signal, the    *)
(* wake-up, may come late but touches neither the value nor the signal.    *)
(***************************************************************************)
EXTENDS AsyncWait, FiniteSetTheorems, TLAPS

WakeTypes ==
    /\ DOMAIN waitPc = WaitTasks
    /\ blocked \in [Waiters -> {"no", "without", "with"}]
    /\ watchList \in [Words -> Seq(Waiters)]
    /\ signal \in [Callers -> {0, 1}]
    /\ DOMAIN job = Completers \cup {Owner}
    /\ \A r \in requests : r.who \in Waiters
    /\ \A d \in Completers : waitPc[d] \in {"value", "signal", "wake"} => job[d].who \in Callers

\* One task at a time is inside the kernel.
Alone == \A s, t \in WaitTasks :
             waitPc[s] \notin {"out", "yield"} /\ waitPc[t] \notin {"out", "yield"} => s = t

\* A task about to block has compared a word that is still down.
StillDown ==
    /\ \A w \in Callers : waitPc[w] = "block" => signal[w] = 0
    /\ waitPc[Owner] = "block" => wake_signal = 0

\* A blocked task is off the CPU, and in the list of its own word.
Listed ==
    /\ \A t \in Waiters : blocked[t] # "no" => waitPc[t] = "yield"
    /\ \A w \in Callers : watchList[w] = IF blocked[w] = "no" THEN <<>> ELSE <<w>>
    /\ \A i \in 1..Len(watchList[TheSet]) : watchList[TheSet][i] = Owner
    /\ blocked[Owner] # "no" => watchList[TheSet] # <<>>

WakeInv == WakeTypes /\ (Uniprocessor => Alone /\ StillDown /\ Listed /\ WakeIsComing)

-----------------------------------------------------------------------------

\* Callers, completers and the owner are different tasks.
LEMMA WakeParties ==
    /\ Waiters = Callers \cup {Owner} /\ Owner \notin Callers
    /\ WaitTasks = Waiters \cup Completers
    /\ Owner \notin Completers /\ Callers \cap Completers = {}
    /\ Words = Callers \cup {TheSet} /\ TheSet \notin Callers
  BY AsyncWaitAssumption, Zenon DEF WaitTasks

\* Tasks are finitely many, and there is one.
LEMMA FiniteTasks == IsFiniteSet(WaitTasks) /\ Cardinality(Waiters) \in Nat \ {0}
  <1>1. Cardinality(Waiters) \in Nat /\ Waiters # {}
    BY AsyncWaitAssumption, FS_CardinalityType, Zenon
  <1>2. Cardinality(Waiters) # 0
    BY <1>1, AsyncWaitAssumption, FS_EmptySet, Zenon
  <1>3. IsFiniteSet(WaitTasks)
    BY AsyncWaitAssumption, FS_Union, Zenon DEF WaitTasks
  <1> QED  BY <1>1, <1>2, <1>3, Zenon

\* With one CPU, a task enters only when nobody is inside.
LEMMA NobodyInside ==
    ASSUME Uniprocessor, CpuFree(Inside), NEW t \in WaitTasks
    PROVE  waitPc[t] \in {"out", "yield"}
  <1>1. IsFiniteSet(Inside)
    BY FiniteTasks, FS_Subset, Zenon DEF Inside
  <1>2. Cardinality(Inside) = 0
    BY <1>1, FS_CardinalityType DEF Uniprocessor, CpuFree
  <1>3. Inside = {}
    BY <1>1, <1>2, FS_EmptySet, Zenon
  <1> QED  BY <1>3, Zenon DEF Inside

\* A step moves one task.
Moves(t) ==
    /\ ncpus' = ncpus /\ DOMAIN waitPc' = WaitTasks
    /\ \A s \in WaitTasks : s # t => waitPc'[s] = waitPc[s]

\* WaitGoto is such a step.
LEMMA GotoMoves ==
    ASSUME WakeTypes, NEW t \in WaitTasks, NEW p, WaitGoto(t, p)
    PROVE  Moves(t) /\ waitPc'[t] = p
  BY Zenon DEF WakeTypes, WaitGoto, Moves

\* futex_wake of one entry or of all: the tasks popped are no longer blocked, the others
\* are as they were, and what is left of the list was in it.
LEMMA WakeEffect ==
    ASSUME WakeTypes, NEW a \in Words, NEW count \in Nat \ {0}, Wake(a, count)
    PROVE  /\ watchList' \in [Words -> Seq(Waiters)]
           /\ blocked' \in [Waiters -> {"no", "without", "with"}]
           /\ \A b \in Words : b # a => watchList'[b] = watchList[b]
           /\ \A i \in 1..Len(watchList'[a]) :
                 \E j \in 1..Len(watchList[a]) : watchList'[a][i] = watchList[a][j]
           /\ Len(watchList[a]) <= 1 => watchList'[a] = <<>>
           /\ watchList[a] # <<>> => blocked'[watchList[a][1]] = "no"
           /\ \A t \in Waiters : blocked'[t] # "no" => blocked'[t] = blocked[t]
           /\ \A t \in Waiters :
                 (\A i \in 1..Len(watchList[a]) : watchList[a][i] # t) => blocked'[t] = blocked[t]
  <1> DEFINE l == watchList[a]
             rest == IF count < Len(l) THEN SubSeq(l, count + 1, Len(l)) ELSE <<>>
  <1>0. l \in Seq(Waiters) /\ Len(l) \in Nat
    BY DEF WakeTypes
  <1>1. /\ rest \in Seq(Waiters)
        /\ \A i \in 1..Len(rest) : \E j \in 1..Len(l) : rest[i] = l[j]
        /\ Len(l) <= 1 => rest = <<>>
    <2>1. CASE count < Len(l)
      <3>1. /\ rest \in Seq(Waiters) /\ Len(rest) = Len(l) - count
            /\ \A i \in 1..Len(rest) : rest[i] = l[i + count]
        BY <1>0, <2>1
      <3>2. ASSUME NEW i \in 1..Len(rest)
            PROVE  \E j \in 1..Len(l) : rest[i] = l[j]
        <4>1. i + count \in 1..Len(l)
          BY <1>0, <2>1, <3>1
        <4> QED  BY <3>1, <4>1, Zenon
      <3> QED  BY <1>0, <2>1, <3>1, <3>2, SMTT(30)
    <2>2. CASE ~(count < Len(l))
      BY <2>2
    <2> QED  BY <2>1, <2>2, Zenon
  <1>2. watchList' = [watchList EXCEPT ![a] = rest]
    BY Zenon DEF Wake
  <1>3. /\ watchList' \in [Words -> Seq(Waiters)]
        /\ watchList'[a] = rest
        /\ \A b \in Words : b # a => watchList'[b] = watchList[b]
    <2> HIDE DEF rest
    <2> QED  BY <1>1, <1>2, Zenon DEF WakeTypes
  <1>4. /\ l # <<>> => l[1] \in Popped(a, count)
        /\ \A t \in Popped(a, count) : \E i \in 1..Len(l) : l[i] = t
        /\ l # <<>> => l[1] \in Waiters
    BY <1>0 DEF Popped
  <1>5. /\ blocked' \in [Waiters -> {"no", "without", "with"}]
        /\ \A t \in Waiters : blocked'[t] = IF t \in Popped(a, count) THEN "no" ELSE blocked[t]
    BY Zenon DEF Wake, WakeTypes
  <1> HIDE DEF rest
  <1>6. l # <<>> => blocked'[l[1]] = "no"
    BY <1>4, <1>5, Zenon
  <1>7. \A t \in Waiters : (\A i \in 1..Len(l) : l[i] # t) => blocked'[t] = blocked[t]
    BY <1>4, <1>5, Zenon
  <1> QED  BY <1>1, <1>3, <1>5, <1>6, <1>7, ZenonT(60)

\* At boot nobody waits.
LEMMA WakeStarts ==
    ASSUME WaitInit
    PROVE  WakeInv
  <1> USE WakeParties DEF WaitInit, FutexInit
  <1>1. WakeTypes
    BY DEF WakeTypes
  <1>2. Alone /\ StillDown /\ WakeIsComing
    BY Zenon DEF Alone, StillDown, WakeIsComing
  <1>3. Listed
    BY DEF Listed
  <1> QED  BY <1>1, <1>2, <1>3, Zenon DEF WakeInv

-----------------------------------------------------------------------------
(* Steps that leave the blocked tasks and the lists alone *)

\* A step that raises no word and finishes no wake-up, of a task that is not blocked:
\* it enters when nobody is inside, and goes on to block only with its word down.
LEMMA QuietStep ==
    ASSUME WakeInv, WakeTypes', Uniprocessor, NEW t \in WaitTasks, Moves(t),
           UNCHANGED <<watchList, blocked>>,
           t \in Waiters => blocked[t] = "no",
           waitPc[t] \in {"out", "yield"} => CpuFree(Inside) \/ waitPc'[t] = waitPc[t],
           \A w \in Callers : signal'[w] = signal[w] \/ (w = t /\ signal'[w] = 0),
           wake_signal' = wake_signal \/ (t = Owner /\ waitPc'[t] # "block"),
           waitPc'[t] = "block" /\ t \in Callers => signal[t] = 0,
           waitPc'[t] = "block" /\ t = Owner => wake_signal = 0,
           waitPc[t] \notin {"wake", "wakeOne"},
           \A d \in Completers : waitPc[d] = "wake" => job'[d] = job[d]
    PROVE  Alone' /\ StillDown' /\ Listed' /\ WakeIsComing'
  <1> USE WakeParties DEF WakeInv, Moves
  <1>1. Alone'
    <2>1. CASE CpuFree(Inside)
      <3>1. \A s \in WaitTasks : waitPc[s] \in {"out", "yield"}
        BY <2>1, NobodyInside, Zenon
      <3> QED  BY <3>1, ZenonT(60) DEF Alone
    <2>2. CASE ~CpuFree(Inside)
      BY <2>2, Zenon DEF Alone
    <2> QED  BY <2>1, <2>2, Zenon
  <1>2. StillDown'
    BY DEF StillDown, WakeTypes
  <1>3. Listed'
    BY ZenonT(60) DEF Listed
  <1>4. ASSUME NEW w \in Callers, blocked'[w] # "no", signal'[w] = 1
        PROVE  \E d \in Completers : waitPc'[d] = "wake" /\ job'[d].who = w
    <2>1. blocked[w] # "no" /\ signal[w] = 1
      BY <1>4, Zenon
    <2>2. PICK d \in Completers : waitPc[d] = "wake" /\ job[d].who = w
      BY <2>1, Zenon DEF WakeIsComing, At
    <2> QED  BY <2>2, Zenon
  <1>5. blocked'[Owner] # "no" /\ wake_signal' > 0 => \E d \in Completers : waitPc'[d] = "wakeOne"
    BY Zenon DEF WakeIsComing, At
  <1>6. WakeIsComing'
    BY <1>4, <1>5, Zenon DEF WakeIsComing, At
  <1> QED  BY <1>1, <1>2, <1>3, <1>6, Zenon

\* A new call is made by a task that is not blocked, with its signal down again.
LEMMA SubmitWakes ==
    ASSUME WakeInv, NEW w \in Callers, Submit(w)
    PROVE  WakeInv'
  <1> USE WakeParties DEF WakeInv
  <1>0. /\ Moves(w) /\ waitPc'[w] = "loop" /\ waitPc[w] = "out" /\ CpuFree(Inside)
        /\ signal' = [signal EXCEPT ![w] = 0] /\ \A v \in Callers : v # w => signal'[v] = signal[v]
        /\ signal'[w] = 0
        /\ \A r \in requests' : r \in requests \/ r.who = w
        /\ UNCHANGED <<watchList, blocked, job, wake_signal>>
    BY GotoMoves DEF Submit, WakeTypes, At, futexVars, setVars
  <1>1. WakeTypes'
    BY <1>0 DEF WakeTypes, Moves
  <1>2. Uniprocessor => blocked[w] = "no"
    BY <1>0, Zenon DEF Listed
  <1>3. Uniprocessor => Alone' /\ StillDown' /\ Listed' /\ WakeIsComing'
    BY <1>0, <1>1, <1>2, QuietStep, Zenon
  <1> QED  BY <1>0, <1>1, <1>3, Zenon DEF Uniprocessor, Moves

\* A task goes on after a wait when nobody is inside, and touches no word.
LEMMA LoopWakes ==
    ASSUME WakeInv, NEW w \in Callers, Loop(w)
    PROVE  WakeInv'
  <1> USE WakeParties DEF WakeInv
  <1>0. /\ Moves(w) /\ waitPc'[w] \in {"wait", "out"}
        /\ waitPc[w] = "loop" \/ (waitPc[w] = "yield" /\ blocked[w] = "no" /\ CpuFree(Inside))
        /\ UNCHANGED <<watchList, blocked, signal, requests, job, wake_signal>>
    BY GotoMoves, Zenon DEF Loop, At, Ready, futexVars, setVars
  <1>1. WakeTypes'
    BY <1>0, Zenon DEF WakeTypes, Moves
  <1>2. Uniprocessor /\ w \in Waiters => blocked[w] = "no"
    BY <1>0, Zenon DEF Listed
  <1>3. Uniprocessor => Alone' /\ StillDown' /\ Listed' /\ WakeIsComing'
    BY <1>0, <1>1, <1>2, QuietStep, Zenon
  <1> QED  BY <1>0, <1>1, <1>3, Zenon DEF Uniprocessor, Moves

\* A task that finds its word up does not block.
LEMMA CompareWakes ==
    ASSUME WakeInv, NEW t \in Waiters, NEW value, Compare(t, value),
           value = IF t = Owner THEN wake_signal ELSE signal[t]
    PROVE  WakeInv'
  <1> USE WakeParties DEF WakeInv
  <1>0. /\ Moves(t) /\ waitPc[t] = "wait"
        /\ waitPc'[t] = IF value = 0 THEN "block" ELSE "yield"
        /\ waitPc'[t] = "block" /\ t \in Callers => signal[t] = 0
        /\ waitPc'[t] = "block" /\ t = Owner => wake_signal = 0
        /\ UNCHANGED <<watchList, blocked, signal, requests, job, wake_signal>>
    BY GotoMoves DEF Compare, At, futexVars, opVars, setVars
  <1>1. WakeTypes'
    BY <1>0, Zenon DEF WakeTypes, Moves
  <1>2. Uniprocessor /\ t \in Waiters => blocked[t] = "no"
    BY <1>0, Zenon DEF Listed
  <1>3. Uniprocessor => Alone' /\ StillDown' /\ Listed' /\ WakeIsComing'
    BY <1>0, <1>1, <1>2, QuietStep, Zenon
  <1> QED  BY <1>0, <1>1, <1>3, Zenon DEF Uniprocessor, Moves

\* A completer takes an operation when nobody is inside.
LEMMA TakeWakes ==
    ASSUME WakeInv, NEW d \in Completers, Take(d)
    PROVE  WakeInv'
  <1> USE WakeParties DEF WakeInv
  <1>0. /\ Moves(d) /\ waitPc[d] = "out" /\ CpuFree(Inside)
        /\ \E r \in requests : /\ job' = [job EXCEPT ![d] = r]
                               /\ waitPc'[d] = IF r.who = Owner THEN "push" ELSE "value"
        /\ requests' \subseteq requests
        /\ \A e \in Completers : e # d => job'[e] = job[e]
        /\ UNCHANGED <<watchList, blocked, signal, wake_signal>>
    BY GotoMoves, ZenonT(60) DEF Take, WakeTypes, At, futexVars, setVars
  <1>1. WakeTypes'
    BY <1>0, Zenon DEF WakeTypes, Moves
  <1>2. Uniprocessor /\ d \in Waiters => blocked[d] = "no"
    BY <1>0, Zenon DEF Listed
  <1>3. Uniprocessor => Alone' /\ StillDown' /\ Listed' /\ WakeIsComing'
    BY <1>0, <1>1, <1>2, QuietStep, Zenon
  <1> QED  BY <1>0, <1>1, <1>3, Zenon DEF Uniprocessor, Moves

\* The value is no word that a task blocks on, and neither is the queue of the set.
LEMMA ValueWakes ==
    ASSUME WakeInv, NEW d \in Completers \cup {Owner}, StoreValue(d) \/ Push(d)
    PROVE  WakeInv'
  <1> USE WakeParties DEF WakeInv
  <1>0. /\ Moves(d) /\ waitPc[d] \in {"value", "push"}
        /\ waitPc'[d] = IF waitPc[d] = "value" THEN "signal" ELSE "count"
        /\ UNCHANGED <<watchList, blocked, signal, requests, job, wake_signal>>
    BY GotoMoves, Zenon DEF StoreValue, Push, At, futexVars, opVars, setVars
  <1>1. WakeTypes'
    BY <1>0, Zenon DEF WakeTypes, Moves
  <1>2. Uniprocessor /\ d \in Waiters => blocked[d] = "no"
    BY <1>0, Zenon DEF Listed
  <1>3. Uniprocessor => Alone' /\ StillDown' /\ Listed' /\ WakeIsComing'
    BY <1>0, <1>1, <1>2, QuietStep, Zenon
  <1> QED  BY <1>0, <1>1, <1>3, Zenon DEF Uniprocessor, Moves

\* The owner submits, or begins to wait, when nobody is inside.
LEMMA OwnerEnters ==
    ASSUME WakeInv, SubmitToSet \/ WaitOnSet
    PROVE  WakeInv'
  <1> USE WakeParties DEF WakeInv
  <1>0. /\ Moves(Owner) /\ waitPc[Owner] = "out" /\ CpuFree(Inside)
        /\ waitPc'[Owner] \in {"out", "push", "wait"}
        /\ \A r \in requests' : r \in requests \/ r.who = Owner
        /\ DOMAIN job' = DOMAIN job /\ \A d \in Completers : job'[d] = job[d]
        /\ UNCHANGED <<watchList, blocked, signal, wake_signal>>
    <2>1. CASE WaitOnSet
      BY <2>1, GotoMoves, Zenon DEF WaitOnSet, At, futexVars, opVars
    <2>2. CASE SubmitToSet
      <3>1. /\ waitPc[Owner] = "out" /\ CpuFree(Inside)
            /\ WaitGoto(Owner, "push") \/ (waitPc' = waitPc /\ ncpus' = ncpus)
            /\ \A r \in requests' : r \in requests \/ r.who = Owner
            /\ job' = job \/ \E op : job' = [job EXCEPT ![Owner] = op]
            /\ UNCHANGED <<watchList, blocked, signal, wake_signal>>
        BY <2>2 DEF SubmitToSet, At, futexVars, setVars
      <3>2. Moves(Owner) /\ waitPc'[Owner] \in {"out", "push"}
        BY <3>1, GotoMoves, Zenon DEF WakeTypes, Moves
      <3>3. DOMAIN job' = DOMAIN job /\ \A d \in Completers : job'[d] = job[d]
        BY <3>1, Zenon DEF WakeTypes
      <3> QED  BY <3>1, <3>2, <3>3, Zenon
    <2> QED  BY <2>1, <2>2, Zenon
  <1>1. WakeTypes'
    BY <1>0, Zenon DEF WakeTypes, Moves
  <1>2. Uniprocessor /\ Owner \in Waiters => blocked[Owner] = "no"
    BY <1>0, Zenon DEF Listed
  <1>3. Uniprocessor => Alone' /\ StillDown' /\ Listed' /\ WakeIsComing'
    BY <1>0, <1>1, <1>2, QuietStep, Zenon
  <1> QED  BY <1>0, <1>1, <1>3, Zenon DEF Uniprocessor, Moves

\* The owner takes what is ready when it is not blocked, and nobody is about to block.
LEMMA TakeReadyWakes ==
    ASSUME WakeInv, TakeReady
    PROVE  WakeInv'
  <1> USE WakeParties DEF WakeInv
  <1>0. /\ Moves(Owner) /\ waitPc[Owner] = "yield" /\ blocked[Owner] = "no" /\ CpuFree(Inside)
        /\ waitPc'[Owner] = "out" /\ wake_signal' = Len(ready_queue')
        /\ UNCHANGED <<watchList, blocked, signal, requests, job>>
    BY GotoMoves, Zenon DEF TakeReady, Ready, futexVars, opVars
  <1>1. WakeTypes'
    BY <1>0, Zenon DEF WakeTypes, Moves
  <1>2. Uniprocessor /\ Owner \in Waiters => blocked[Owner] = "no"
    BY <1>0, Zenon DEF Listed
  <1>3. Uniprocessor => Alone' /\ StillDown' /\ Listed' /\ WakeIsComing'
    BY <1>0, <1>1, <1>2, QuietStep, Zenon
  <1> QED  BY <1>0, <1>1, <1>3, Zenon DEF Uniprocessor, Moves

-----------------------------------------------------------------------------
(* Blocking, raising a word and waking *)

\* A task blocks on a word that is down.
LEMMA BlockWakes ==
    ASSUME WakeInv, NEW t \in Waiters, NEW timeout \in {"without", "with"},
           Block(t, IF t = Owner THEN TheSet ELSE t, timeout)
    PROVE  WakeInv'
  <1> USE WakeParties DEF WakeInv
  <1> DEFINE a == IF t = Owner THEN TheSet ELSE t
  <1>0. /\ Moves(t) /\ waitPc[t] = "block" /\ waitPc'[t] = "yield" /\ a \in Words
        /\ watchList' = [watchList EXCEPT ![a] = Append(@, t)]
        /\ blocked' = [blocked EXCEPT ![t] = timeout]
        /\ UNCHANGED <<signal, requests, job, wake_signal>>
    BY GotoMoves, Zenon DEF Block, Enlist, At, opVars, setVars
  <1>1. WakeTypes'
    BY <1>0 DEF WakeTypes, Moves
  <1>2. ASSUME Uniprocessor
        PROVE  Alone' /\ StillDown' /\ Listed' /\ WakeIsComing'
    <2>1. Alone' /\ StillDown'
      BY <1>0, <1>2, Zenon DEF Alone, StillDown, Moves
    <2>2. blocked[t] = "no"
      BY <1>0, <1>2, Zenon DEF Listed
    <2>3. /\ \A s \in Waiters : blocked'[s] = IF s = t THEN timeout ELSE blocked[s]
          /\ \A b \in Words :
                watchList'[b] = IF b = a THEN Append(watchList[a], t) ELSE watchList[b]
      BY <1>0, Zenon DEF WakeTypes
    <2>5. Listed'
      <3>1. \A s \in Waiters : blocked'[s] # "no" => waitPc'[s] = "yield"
        BY <1>0, <1>2, <2>3, ZenonT(60) DEF Listed, Moves
      <3>2. CASE t = Owner
        <4>1. /\ watchList'[TheSet] = Append(watchList[TheSet], Owner)
              /\ watchList[TheSet] \in Seq(Waiters)
          BY <3>2, <2>3, Zenon DEF WakeTypes
        <4>2. /\ \A i \in 1..Len(watchList'[TheSet]) : watchList'[TheSet][i] = Owner
              /\ watchList'[TheSet] # <<>>
          BY <4>1, <1>2, SMTT(30) DEF Listed
        <4> QED  BY <3>1, <3>2, <4>2, <2>3, <1>2 DEF Listed
      <3>3. CASE t # Owner
        <4>0. t \in Callers /\ a = t /\ watchList[t] = <<>>
          BY <3>3, <2>2, <1>2, Zenon DEF Listed
        <4>1. watchList'[t] = <<t>> /\ blocked'[t] # "no"
          <5>1. watchList'[t] = Append(<<>>, t)
            BY <4>0, <2>3, Zenon
          <5>2. Append(<<>>, t) = <<t>>
            OBVIOUS
          <5> QED  BY <5>1, <5>2, <2>3, Zenon
        <4> QED  BY <3>1, <3>3, <4>0, <4>1, <2>3, <1>2 DEF Listed
      <3> QED  BY <3>2, <3>3, Zenon
    <2>4. WakeIsComing'
      BY <1>0, <1>2, SMTT(30) DEF WakeIsComing, StillDown, Moves, WakeTypes, At
    <2> QED  BY <2>1, <2>4, <2>5, Zenon
  <1> QED  BY <1>0, <1>1, <1>2, Zenon DEF Uniprocessor, Moves

\* A word that is raised leaves its wake-up to be done.
LEMMA RaiseWakes ==
    ASSUME WakeInv, NEW d \in Completers \cup {Owner},
           (StoreSignal(d) /\ d \in Completers) \/ Count(d)
    PROVE  WakeInv'
  <1> USE WakeParties DEF WakeInv
  <1>0. /\ Moves(d) /\ waitPc[d] \in {"signal", "count"}
        /\ waitPc'[d] = IF waitPc[d] = "signal" THEN "wake" ELSE "wakeOne"
        /\ signal' = IF waitPc[d] = "signal" THEN [signal EXCEPT ![job[d].who] = 1] ELSE signal
        /\ wake_signal' = IF waitPc[d] = "signal" THEN wake_signal ELSE wake_signal + 1
        /\ waitPc[d] = "signal" => d \in Completers
        /\ UNCHANGED <<watchList, blocked, requests, job>>
    BY GotoMoves, Zenon DEF StoreSignal, Count, At, futexVars, opVars, setVars
  <1>1. WakeTypes'
    BY <1>0, Zenon DEF WakeTypes, Moves
  <1>2. ASSUME Uniprocessor
        PROVE  Alone' /\ StillDown' /\ Listed' /\ WakeIsComing'
    <2>1. Alone' /\ StillDown'
      BY <1>0, <1>2 DEF Alone, StillDown, Moves
    <2>3. Listed'
      BY <1>0, <1>2, Zenon DEF Listed, Moves
    <2>4. WakeIsComing'
      BY <1>0, <1>2, SMTT(30) DEF WakeIsComing, Listed, Moves, WakeTypes, At
    <2> QED  BY <2>1, <2>3, <2>4, Zenon
  <1> QED  BY <1>0, <1>1, <1>2, Zenon DEF Uniprocessor, Moves

\* The wake-up empties the list of the caller's word.
LEMMA WakeAllWakes ==
    ASSUME WakeInv, NEW d \in Completers, WakeAll(d)
    PROVE  WakeInv'
  <1> USE WakeParties DEF WakeInv
  <1> DEFINE w == job[d].who
  <1>0. /\ Moves(d) /\ waitPc[d] = "wake" /\ waitPc'[d] = "out"
        /\ w \in Callers /\ w \in Words
        /\ Wake(w, Cardinality(Waiters))
        /\ job' = [job EXCEPT ![d] = NoJob]
        /\ UNCHANGED <<signal, requests, wake_signal>>
    BY GotoMoves, Zenon DEF WakeAll, WakeTypes, At, setVars
  <1> HIDE DEF w
  <1>a. /\ watchList' \in [Words -> Seq(Waiters)]
        /\ blocked' \in [Waiters -> {"no", "without", "with"}]
        /\ \A v \in Words : v # w => watchList'[v] = watchList[v]
        /\ Len(watchList[w]) <= 1 => watchList'[w] = <<>>
        /\ watchList[w] # <<>> => blocked'[watchList[w][1]] = "no"
        /\ \A t \in Waiters : blocked'[t] # "no" => blocked'[t] = blocked[t]
        /\ \A t \in Waiters :
              (\A i \in 1..Len(watchList[w]) : watchList[w][i] # t) => blocked'[t] = blocked[t]
    BY <1>0, FiniteTasks, WakeEffect, Zenon
  <1>1. WakeTypes'
    BY <1>0, <1>a, Zenon DEF WakeTypes, Moves
  <1>2. ASSUME Uniprocessor
        PROVE  Alone' /\ StillDown' /\ Listed' /\ WakeIsComing'
    <2>0. /\ watchList'[w] = <<>> /\ blocked'[w] = "no"
          /\ \A t \in Waiters : t # w => blocked'[t] = blocked[t]
      <3>1. /\ Len(watchList[w]) <= 1 /\ \A i \in 1..Len(watchList[w]) : watchList[w][i] = w
            /\ blocked[w] # "no" => watchList[w] # <<>> /\ watchList[w][1] = w
        <4>1. watchList[w] = IF blocked[w] = "no" THEN <<>> ELSE <<w>>
          BY <1>0, <1>2, Zenon DEF Listed
        <4>2. Len(<<w>>) = 1 /\ <<w>>[1] = w /\ <<w>> # <<>> /\ Len(<<>>) = 0
          BY Zenon
        <4> QED  BY <4>1, <4>2
      <3>2. watchList'[w] = <<>> /\ \A t \in Waiters : t # w => blocked'[t] = blocked[t]
        BY <3>1, <1>a, Zenon
      <3>3. blocked'[w] = "no"
        BY <3>1, <1>a, <1>0, Zenon
      <3> QED  BY <3>2, <3>3, Zenon
    <2>1. Alone' /\ StillDown'
      BY <1>0, <1>2, Zenon DEF Alone, StillDown, Moves
    <2>2. \A v \in Callers : v # w => watchList'[v] = watchList[v] /\ blocked'[v] = blocked[v]
      BY <1>a, <2>0, Zenon
    <2>3. watchList'[TheSet] = watchList[TheSet] /\ blocked'[Owner] = blocked[Owner]
      BY <1>a, <2>0, <1>0, Zenon
    <2>4. \A t \in Waiters : blocked'[t] # "no" => waitPc'[t] = "yield"
      BY <1>0, <1>2, <2>0, Zenon DEF Listed, Moves
    <2>5. Listed'
      BY <2>0, <2>2, <2>3, <2>4, <1>2 DEF Listed
    <2>6. ASSUME NEW v \in Callers, blocked'[v] # "no", signal'[v] = 1
          PROVE  \E e \in Completers : waitPc'[e] = "wake" /\ job'[e].who = v
      <3>1. v # w /\ blocked[v] # "no" /\ signal[v] = 1
        BY <2>0, <2>2, <2>6, <1>0, Zenon
      <3>2. PICK e \in Completers : waitPc[e] = "wake" /\ job[e].who = v
        BY <3>1, <1>2, Zenon DEF WakeIsComing, At
      <3>3. e # d /\ waitPc'[e] = waitPc[e] /\ job'[e] = job[e]
        BY <3>1, <3>2, <1>0, Zenon DEF Moves, WakeTypes, w
      <3> QED  BY <3>2, <3>3, Zenon
    <2>7. blocked'[Owner] # "no" /\ wake_signal' > 0 => \E e \in Completers : waitPc'[e] = "wakeOne"
      BY <2>3, <1>0, <1>2, SMTT(30) DEF WakeIsComing, At, Moves
    <2>8. WakeIsComing'
      BY <2>6, <2>7, Zenon DEF WakeIsComing, At
    <2> QED  BY <2>1, <2>5, <2>8, Zenon
  <1> QED  BY <1>0, <1>1, <1>2, Zenon DEF Uniprocessor, Moves

\* The first entry of the set's list is the owner's, left by a timeout or not.
LEMMA WakeOneWakes ==
    ASSUME WakeInv, NEW d \in Completers \cup {Owner}, WakeOne(d)
    PROVE  WakeInv'
  <1> USE WakeParties DEF WakeInv
  <1>1. CASE d = Owner /\ Owner \in Popped(TheSet, 1)
    <2>0. /\ Moves(d) /\ waitPc[d] = "wakeOne" /\ waitPc'[d] = "hung"
          /\ UNCHANGED <<watchList, blocked, signal, requests, job, wake_signal>>
      BY <1>1, GotoMoves, Zenon DEF WakeOne, At, futexVars, setVars
    <2>1. WakeTypes'
      BY <1>1, <2>0, Zenon DEF WakeTypes, Moves
    <2>2. ASSUME Uniprocessor
          PROVE  Alone' /\ StillDown' /\ Listed' /\ WakeIsComing'
      <3>1. Alone' /\ StillDown' /\ Listed'
        BY <1>1, <2>0, <2>2, ZenonT(60) DEF Alone, StillDown, Listed, Moves
      <3>2. WakeIsComing'
        BY <1>1, <2>0, <2>2, SMTT(30) DEF Listed, WakeIsComing, Moves, At
      <3> QED  BY <3>1, <3>2, Zenon
    <2> QED  BY <2>0, <2>1, <2>2, Zenon DEF Uniprocessor, Moves
  <1>2. CASE ~(d = Owner /\ Owner \in Popped(TheSet, 1))
    <2>0. /\ Moves(d) /\ waitPc[d] = "wakeOne" /\ waitPc'[d] = "out"
          /\ Wake(TheSet, 1) /\ job' = [job EXCEPT ![d] = NoJob]
          /\ UNCHANGED <<signal, requests, wake_signal>>
      BY <1>2, GotoMoves, Zenon DEF WakeOne, At, setVars
    <2>a. /\ watchList' \in [Words -> Seq(Waiters)]
          /\ blocked' \in [Waiters -> {"no", "without", "with"}]
          /\ \A v \in Words : v # TheSet => watchList'[v] = watchList[v]
          /\ \A i \in 1..Len(watchList'[TheSet]) :
                \E j \in 1..Len(watchList[TheSet]) : watchList'[TheSet][i] = watchList[TheSet][j]
          /\ watchList[TheSet] # <<>> => blocked'[watchList[TheSet][1]] = "no"
          /\ \A t \in Waiters : blocked'[t] # "no" => blocked'[t] = blocked[t]
          /\ \A t \in Waiters : (\A i \in 1..Len(watchList[TheSet]) : watchList[TheSet][i] # t)
                                => blocked'[t] = blocked[t]
      <3>1. TheSet \in Words /\ 1 \in Nat \ {0}
        OBVIOUS
      <3> QED  BY <2>0, <3>1, WakeEffect, ZenonT(60)
    <2>1. WakeTypes'
      BY <2>0, <2>a, Zenon DEF WakeTypes, Moves
    <2>2. ASSUME Uniprocessor
          PROVE  Alone' /\ StillDown' /\ Listed' /\ WakeIsComing'
      <3>0. /\ blocked'[Owner] = "no"
            /\ \A w \in Callers : watchList'[w] = watchList[w] /\ blocked'[w] = blocked[w]
            /\ \A i \in 1..Len(watchList'[TheSet]) : watchList'[TheSet][i] = Owner
        BY <2>2, <2>a, SMTT(30) DEF Listed, WakeTypes
      <3>1. Alone' /\ StillDown'
        BY <2>0, <2>2, Zenon DEF Alone, StillDown, Moves
      <3>2. Listed'
        <4>1. \A t \in Waiters : blocked'[t] # "no" => waitPc'[t] = waitPc[t] /\ blocked[t] # "no"
          BY <2>0, <2>2, <3>0, Zenon DEF Listed, Moves
        <4> QED  BY <2>2, <3>0, <4>1, SMTT(30) DEF Listed
      <3>3. WakeIsComing'
        <4>1. ASSUME NEW v \in Callers, blocked'[v] # "no", signal'[v] = 1
              PROVE  \E e \in Completers : waitPc'[e] = "wake" /\ job'[e].who = v
          <5>1. PICK e \in Completers : waitPc[e] = "wake" /\ job[e].who = v
            BY <4>1, <2>0, <2>2, <3>0, Zenon DEF WakeIsComing, At
          <5>2. waitPc'[e] = waitPc[e] /\ job'[e] = job[e]
            BY <5>1, <2>0, Zenon DEF Moves, WakeTypes
          <5> QED  BY <5>1, <5>2, Zenon
        <4> QED  BY <3>0, <4>1, Zenon DEF WakeIsComing, At
      <3> QED  BY <3>1, <3>2, <3>3, Zenon
    <2> QED  BY <2>0, <2>1, <2>2, Zenon DEF Uniprocessor, Moves
  <1> QED  BY <1>1, <1>2, Zenon

\* A timeout leaves the entry in the list.
LEMMA TimeoutWakes ==
    ASSUME WakeInv, Timeout
    PROVE  WakeInv'
  <1> USE WakeParties DEF WakeInv, Timeout, Expire, opVars, setVars
  <1>1. WakeTypes'
    BY Zenon DEF WakeTypes
  <1>2. ASSUME Uniprocessor
        PROVE  Alone' /\ StillDown' /\ Listed' /\ WakeIsComing'
    BY <1>2 DEF WakeTypes, Alone, StillDown, Listed, WakeIsComing, At
  <1> QED  BY <1>1, <1>2, Zenon DEF Uniprocessor

-----------------------------------------------------------------------------

\* Every step keeps the inductive invariant.
LEMMA WakeStepKeeps ==
    ASSUME WakeInv, [WaitNext]_<<ncpus, waitVars>>
    PROVE  WakeInv'
  <1> USE WakeParties
  <1>1. ASSUME NEW w \in Callers, Submit(w) \/ CallerStep(w)
        PROVE  WakeInv'
    <2>1. w \in Waiters /\ w # Owner
      BY Zenon
    <2>2. CASE Compare(w, signal[w])
      BY <2>1, <2>2, CompareWakes, Zenon
    <2>3. CASE Block(w, w, "without")
      BY <2>1, <2>3, BlockWakes, Zenon
    <2> QED  BY <1>1, <2>2, <2>3, SubmitWakes, LoopWakes, Zenon DEF CallerStep
  <1>2. ASSUME NEW d \in Completers \cup {Owner}, WakeStep(d)
        PROVE  WakeInv'
    BY <1>2, ValueWakes, RaiseWakes, WakeOneWakes, Zenon DEF WakeStep
  <1>3. ASSUME NEW d \in Completers, CompleterStep(d)
        PROVE  WakeInv'
    BY <1>2, <1>3, TakeWakes, ValueWakes, RaiseWakes, WakeAllWakes, Zenon DEF CompleterStep, Complete
  <1>4. CASE OwnerStep
    <2>1. CASE Compare(Owner, wake_signal)
      BY <2>1, CompareWakes, Zenon
    <2>2. ASSUME NEW timeout \in {"without", "with"}, Block(Owner, TheSet, timeout)
          PROVE  WakeInv'
      BY <2>2, BlockWakes, Zenon
    <2>3. CASE WakeStep(Owner)
      BY <1>2, <2>3, Zenon
    <2> QED  BY <1>4, <2>1, <2>2, <2>3, OwnerEnters, TakeReadyWakes, Zenon DEF OwnerStep
  <1>5. CASE UNCHANGED <<ncpus, waitVars>>
    <2>1. WakeTypes' = WakeTypes /\ Alone' = Alone /\ StillDown' = StillDown /\ Listed' = Listed
      BY <1>5, Zenon DEF waitVars, futexVars, opVars, setVars, WakeTypes, Alone, StillDown, Listed
    <2>2. WakeIsComing' = WakeIsComing /\ Uniprocessor' = Uniprocessor
      BY <1>5, ZenonT(60) DEF waitVars, futexVars, opVars, setVars, WakeIsComing, Uniprocessor, At
    <2> QED  BY <2>1, <2>2, Zenon DEF WakeInv
  <1> QED  BY <1>1, <1>3, <1>4, <1>5, OwnerEnters, TimeoutWakes, Zenon DEF WaitNext

\* On one CPU a task that is blocked on a signal or on a wake set, and whose word is up,
\* still has its wake-up to come (futex_wait against UnmappedAsyncOp::complete and
\* WakeSet::wake), for any number of tasks, completers and operations.
THEOREM NoWakeUpLost == WaitSpec => []WakeIsComing
  <1>1. WaitInit => WakeInv
    BY WakeStarts, Zenon
  <1>2. WakeInv /\ [WaitNext]_<<ncpus, waitVars>> => WakeInv'
    BY WakeStepKeeps, Zenon
  <1>3. WakeInv => WakeIsComing
    BY Zenon DEF WakeInv, WakeIsComing
  <1> QED  BY <1>1, <1>2, <1>3, PTL DEF WaitSpec

-----------------------------------------------------------------------------
(* Every call returns the value of its own completion *)

Finishers == Completers \cup {Owner}

WaitTypes ==
    /\ DOMAIN waitPc = WaitTasks
    /\ signal \in [Callers -> {0, 1}]
    /\ result \in [Callers -> Nat]
    /\ calls \in [Waiters -> Nat]
    /\ returned \in [Callers -> Seq(Nat)]
    /\ \A r \in requests : r.who \in Waiters /\ r.call \in Nat
    /\ DOMAIN job = Finishers
    /\ \A d \in Completers : waitPc[d] \in {"value", "signal"} =>
          job[d].who \in Callers /\ job[d].call \in Nat

\* Completer d has the operation of caller w and has yet to raise its signal.
Holds(d, w) == waitPc[d] \in {"value", "signal"} /\ job[d].who = w

\* An operation whose signal is not raised yet is that of the call under way.
Current ==
    /\ \A r \in requests : r.who \in Callers =>
          r.call = calls[r.who] /\ waitPc[r.who] # "out" /\ signal[r.who] = 0
    /\ \A d \in Completers : \A w \in Callers : Holds(d, w) =>
          job[d].call = calls[w] /\ waitPc[w] # "out" /\ signal[w] = 0

\* It is in one place.
OneOperation ==
    /\ \A q, r \in requests : q.who \in Callers /\ q.who = r.who => q = r
    /\ \A d \in Completers : \A r \in requests : r.who \in Callers => ~Holds(d, r.who)
    /\ \A d, e \in Completers : \A w \in Callers : Holds(d, w) /\ Holds(e, w) => d = e

\* The value is there before the signal.
ValueFirst ==
    /\ \A d \in Completers : waitPc[d] = "signal" => result[job[d].who] = job[d].call
    /\ \A w \in Callers : waitPc[w] # "out" /\ signal[w] # 0 => result[w] = calls[w]

\* The calls that have returned are all but the one under way.
Counted ==
    \A w \in Callers : calls[w] = Len(returned[w]) + (IF waitPc[w] = "out" THEN 0 ELSE 1)

WaitInv == WaitTypes /\ Current /\ OneOperation /\ ValueFirst /\ Counted /\ OwnResult

-----------------------------------------------------------------------------

\* Callers, completers and the owner are different tasks.
LEMMA WaitParties ==
    /\ Callers \subseteq Waiters /\ Owner \in Waiters /\ Owner \notin Callers
    /\ Waiters \subseteq WaitTasks /\ Completers \subseteq WaitTasks
    /\ Owner \notin Completers /\ Callers \cap Completers = {}
    /\ Waiters = Callers \cup {Owner}
  BY AsyncWaitAssumption, Zenon DEF WaitTasks

\* At boot nothing has been submitted.
LEMMA WaitStarts ==
    ASSUME WaitInit
    PROVE  WaitInv
  <1> USE WaitParties DEF WaitInit
  <1>1. WaitTypes
    BY DEF WaitTypes, Finishers
  <1>2. Current /\ OneOperation /\ ValueFirst
    BY Zenon DEF Current, OneOperation, ValueFirst, Holds
  <1>3. Counted /\ OwnResult
    BY DEF Counted, OwnResult
  <1> QED  BY <1>1, <1>2, <1>3, Zenon DEF WaitInv

-----------------------------------------------------------------------------
(* The caller *)

\* A new call finds no operation of the task on its way.
LEMMA SubmitKeeps ==
    ASSUME WaitInv, NEW w \in Callers, Submit(w)
    PROVE  WaitInv'
  <1> USE WaitParties DEF WaitInv, Submit, WaitGoto, At
  <1>1. WaitTypes'
    BY SMTT(30) DEF WaitTypes
  <1>2. Current'
    BY SMTT(30) DEF WaitTypes, Current, Holds
  <1>3. OneOperation'
    BY SMTT(30) DEF WaitTypes, Current, OneOperation, Holds
  <1>4. ValueFirst'
    BY ZenonT(60) DEF WaitTypes, Current, ValueFirst, Holds
  <1>5. Counted' /\ OwnResult'
    BY SMTT(30) DEF WaitTypes, Counted, OwnResult
  <1> QED  BY <1>1, <1>2, <1>3, <1>4, <1>5, Zenon

\* A caller that moves inside its call touches no operation.
LEMMA CallerMoves ==
    ASSUME WaitInv, UNCHANGED opVars, NEW w \in Callers, NEW p, p # "out",
           waitPc[w] # "out", waitPc' = [waitPc EXCEPT ![w] = p]
    PROVE  WaitInv'
  <1> USE WaitParties DEF WaitInv, opVars
  <1>0. /\ \A d \in Completers : waitPc'[d] = waitPc[d]
        /\ \A v \in Callers : waitPc'[v] = "out" <=> waitPc[v] = "out"
    BY ZenonT(60) DEF WaitTypes
  <1>1. WaitTypes'
    BY <1>0, Zenon DEF WaitTypes
  <1>2. Current' /\ OneOperation'
    BY <1>0, SMTT(30) DEF WaitTypes, Current, OneOperation, Holds
  <1>3. ValueFirst' /\ OwnResult'
    BY <1>0 DEF WaitTypes, ValueFirst, OwnResult
  <1>4. Counted'
    BY <1>0, Zenon DEF WaitTypes, Counted
  <1> QED  BY <1>1, <1>2, <1>3, <1>4, Zenon

\* The loop leaves with the value of the call under way.
LEMMA LoopKeeps ==
    ASSUME WaitInv, NEW w \in Callers, Loop(w)
    PROVE  WaitInv'
  <1> USE WaitParties DEF WaitInv
  <1>0. waitPc[w] # "out"
    BY Zenon DEF Loop, At, Ready
  <1>1. CASE signal[w] = 0
    BY <1>0, <1>1, CallerMoves, Zenon DEF Loop, WaitGoto, opVars
  <1>2. CASE signal[w] # 0
    <2>0. /\ waitPc' = [waitPc EXCEPT ![w] = "out"]
          /\ returned' = [returned EXCEPT ![w] = Append(@, result[w])]
          /\ UNCHANGED <<signal, result, calls, requests, job>>
      BY <1>2, Zenon DEF Loop, WaitGoto
    <2>1. WaitTypes'
      BY <2>0 DEF WaitTypes
    <2>2. Current'
      BY <2>0, <1>2, ZenonT(60) DEF WaitTypes, Current, Holds
    <2>3. OneOperation'
      BY <2>0, ZenonT(60) DEF WaitTypes, OneOperation, Holds
    <2>4. ValueFirst'
      <3>1. \A d \in Completers : waitPc'[d] = waitPc[d]
        BY <2>0, Zenon DEF WaitTypes
      <3>2. \A v \in Callers : waitPc'[v] # "out" => waitPc[v] # "out"
        BY <2>0, <1>0, Zenon DEF WaitTypes
      <3> QED  BY <2>0, <3>1, <3>2, Zenon DEF ValueFirst
    <2>5. result[w] = Len(returned[w]) + 1 /\ calls[w] = Len(returned[w]) + 1
      BY <1>2, <1>0, Zenon DEF WaitTypes, ValueFirst, Counted
    <2>6. Counted'
      <3>1. \A v \in Callers : v # w => waitPc'[v] = waitPc[v] /\ returned'[v] = returned[v]
        BY <2>0, Zenon DEF WaitTypes
      <3>2. waitPc'[w] = "out"
        BY <2>0, Zenon DEF WaitTypes
      <3>3. Len(returned'[w]) = Len(returned[w]) + 1
        BY <2>0 DEF WaitTypes
      <3>4. Len(returned[w]) \in Nat
        BY DEF WaitTypes
      <3>5. ASSUME NEW v \in Callers
            PROVE  calls'[v] = Len(returned'[v]) + (IF waitPc'[v] = "out" THEN 0 ELSE 1)
        <4>1. CASE v = w
          BY <4>1, <2>0, <2>5, <3>2, <3>3, <3>4
        <4>2. CASE v # w
          BY <4>2, <2>0, <3>1, Zenon DEF Counted
        <4> QED  BY <4>1, <4>2, Zenon
      <3> QED  BY <3>5, Zenon DEF Counted
    <2>7. OwnResult'
      BY <2>0, <2>5 DEF WaitTypes, OwnResult
    <2> QED  BY <2>1, <2>2, <2>3, <2>4, <2>6, <2>7, Zenon
  <1> QED  BY <1>1, <1>2, Zenon

\* Waiting moves the task and leaves the operations alone.
LEMMA WaitKeeps ==
    ASSUME WaitInv, NEW w \in Callers, Compare(w, signal[w]) \/ Block(w, w, "without")
    PROVE  WaitInv'
  <1>1. CASE Compare(w, signal[w])
    <2>1. UNCHANGED opVars /\ waitPc[w] # "out"
      BY <1>1, Zenon DEF Compare, At
    <2>2. CASE signal[w] = 0
      <3>1. waitPc' = [waitPc EXCEPT ![w] = "block"]
        BY <1>1, <2>2, Zenon DEF Compare, WaitGoto
      <3> QED  BY <2>1, <3>1, CallerMoves, Zenon
    <2>3. CASE signal[w] # 0
      <3>1. waitPc' = [waitPc EXCEPT ![w] = "yield"]
        BY <1>1, <2>3, Zenon DEF Compare, WaitGoto
      <3> QED  BY <2>1, <3>1, CallerMoves, Zenon
    <2> QED  BY <2>2, <2>3, Zenon
  <1>2. CASE Block(w, w, "without")
    BY <1>2, CallerMoves, Zenon DEF Block, At, WaitGoto
  <1> QED  BY <1>1, <1>2, Zenon

-----------------------------------------------------------------------------
(* The completer *)

\* An operation taken is no longer among the requests.
LEMMA TakeKeeps ==
    ASSUME WaitInv, NEW d \in Completers, Take(d)
    PROVE  WaitInv'
  <1> USE WaitParties DEF WaitInv, WaitGoto, At
  <1>0. PICK r \in requests : /\ job' = [job EXCEPT ![d] = r]
                              /\ requests' = requests \ {r}
                              /\ WaitGoto(d, IF r.who = Owner THEN "push" ELSE "value")
    BY Zenon DEF Take
  <1>a. /\ waitPc[d] = "out"
        /\ UNCHANGED <<signal, result, calls, returned>>
    BY Zenon DEF Take
  <1>1. WaitTypes'
    BY <1>0, <1>a, Zenon DEF WaitTypes, Finishers
  <1>2. Current'
    BY <1>0, <1>a, SMTT(30) DEF WaitTypes, Current, Holds, Finishers
  <1>3. OneOperation'
    BY <1>0, <1>a DEF WaitTypes, OneOperation, Holds, Finishers
  <1>4. ValueFirst'
    BY <1>0, <1>a, Zenon DEF WaitTypes, ValueFirst, Finishers
  <1>5. Counted' /\ OwnResult'
    BY <1>0, <1>a, ZenonT(60) DEF WaitTypes, Counted, OwnResult
  <1> QED  BY <1>1, <1>2, <1>3, <1>4, <1>5, Zenon

\* The value goes to the call under way, whose signal is still down.
LEMMA ValueKeeps ==
    ASSUME WaitInv, NEW d \in Completers, StoreValue(d)
    PROVE  WaitInv'
  <1> USE WaitParties DEF WaitInv, StoreValue, WaitGoto, At
  <1>1. WaitTypes'
    BY Zenon DEF WaitTypes, Finishers, NoJob
  <1>2. Current' /\ OneOperation'
    BY SMTT(30) DEF WaitTypes, Current, OneOperation, Holds
  <1>3. ValueFirst'
    BY SMTT(30) DEF WaitTypes, Current, OneOperation, ValueFirst, Holds
  <1>4. Counted' /\ OwnResult'
    BY Zenon DEF WaitTypes, Counted, OwnResult
  <1> QED  BY <1>1, <1>2, <1>3, <1>4, Zenon

\* The signal spends the operation.
LEMMA SignalKeeps ==
    ASSUME WaitInv, NEW d \in Completers, StoreSignal(d)
    PROVE  WaitInv'
  <1> USE WaitParties DEF WaitInv, StoreSignal, WaitGoto, At
  <1>1. WaitTypes'
    BY Zenon DEF WaitTypes
  <1>2. Current' /\ OneOperation'
    BY DEF WaitTypes, Current, OneOperation, Holds
  <1>3. ValueFirst'
    BY Zenon DEF WaitTypes, Current, ValueFirst, Holds
  <1>4. Counted' /\ OwnResult'
    BY Zenon DEF WaitTypes, Counted, OwnResult
  <1> QED  BY <1>1, <1>2, <1>3, <1>4, Zenon

\* Waking, and all that concerns the set, leave the callers' operations alone.
LEMMA RestKeeps ==
    ASSUME WaitInv, NEW d \in Finishers, WakeAll(d) \/ WakeStep(d)
    PROVE  WaitInv'
  <1> USE WaitParties DEF WaitInv, WakeAll, WakeStep, Push, Count, WakeOne, WaitGoto, At, opVars
  <1>0. /\ d \in WaitTasks /\ d \notin Callers
        /\ waitPc[d] \notin {"value", "signal"}
        /\ \E p : p \notin {"value", "signal"} /\ waitPc' = [waitPc EXCEPT ![d] = p]
        /\ job' \in {job, [job EXCEPT ![d] = NoJob]}
        /\ UNCHANGED <<signal, result, calls, requests, returned>>
    BY Zenon DEF Finishers
  <1> HIDE DEF WakeAll, WakeStep, Push, Count, WakeOne, WaitGoto
  <1>1. WaitTypes'
    BY <1>0, SMTT(30) DEF WaitTypes, Finishers
  <1>a. /\ \A e \in Completers : \A w \in Callers :
              Holds(e, w)' => Holds(e, w) /\ job'[e].call = job[e].call
        /\ \A w \in Callers : waitPc'[w] = waitPc[w] /\ calls'[w] = calls[w]
    BY <1>0 DEF WaitTypes, Holds, Finishers
  <1>b. \A r \in requests' : r.who \in Callers => r \in requests
    BY <1>0, Zenon
  <1>2. Current'
    BY <1>0, <1>a, <1>b, SMTT(30) DEF Current
  <1>3. OneOperation'
    BY <1>0, <1>a, <1>b, Zenon DEF OneOperation
  <1>4. ValueFirst'
    BY <1>0, SMTT(30) DEF WaitTypes, ValueFirst, Finishers
  <1>5. Counted' /\ OwnResult'
    BY <1>0 DEF WaitTypes, Counted, OwnResult
  <1> QED  BY <1>1, <1>2, <1>3, <1>4, <1>5, Zenon

-----------------------------------------------------------------------------
(* The owner of the set *)

\* The owner's operations are not the callers'.
LEMMA SubmitToSetKeeps ==
    ASSUME WaitInv, SubmitToSet
    PROVE  WaitInv'
  <1> USE WaitParties DEF WaitInv
  <1>0. /\ waitPc' \in {waitPc, [waitPc EXCEPT ![Owner] = "push"]}
        /\ calls' = [calls EXCEPT ![Owner] = @ + 1]
        /\ requests' \in {requests, requests \cup {[who |-> Owner, call |-> calls[Owner] + 1]}}
        /\ job' \in {job, [job EXCEPT ![Owner] = [who |-> Owner, call |-> calls[Owner] + 1]]}
        /\ UNCHANGED <<signal, result, returned>>
    BY Zenon DEF SubmitToSet, WaitGoto
  <1>1. WaitTypes'
    BY <1>0 DEF WaitTypes, Finishers
  <1>a. /\ \A e \in Completers : \A w \in Callers :
              Holds(e, w)' => Holds(e, w) /\ job'[e].call = job[e].call
        /\ \A w \in Callers : waitPc'[w] = waitPc[w] /\ calls'[w] = calls[w]
    BY <1>0, ZenonT(60) DEF WaitTypes, Holds, Finishers
  <1>b. \A r \in requests' : r.who \in Callers => r \in requests
    BY <1>0, SMTT(30)
  <1>2. Current'
    BY <1>0, <1>a, <1>b, SMTT(30) DEF Current
  <1>3. OneOperation'
    BY <1>0, <1>a, <1>b, Zenon DEF OneOperation
  <1>4. ValueFirst'
    BY <1>0, Zenon DEF WaitTypes, ValueFirst, Finishers
  <1>5. Counted' /\ OwnResult'
    BY <1>0, Zenon DEF WaitTypes, Counted, OwnResult
  <1> QED  BY <1>1, <1>2, <1>3, <1>4, <1>5, Zenon

\* A step that moves the owner alone, or nobody, touches no operation.
LEMMA OwnerMoves ==
    ASSUME WaitInv, UNCHANGED opVars,
           waitPc' = waitPc \/ \E p : waitPc' = [waitPc EXCEPT ![Owner] = p]
    PROVE  WaitInv'
  <1> USE WaitParties DEF WaitInv, opVars
  <1>1. WaitTypes'
    BY Zenon DEF WaitTypes
  <1>2. Current' /\ OneOperation'
    BY SMTT(30) DEF WaitTypes, Current, OneOperation, Holds
  <1>3. ValueFirst' /\ Counted' /\ OwnResult'
    BY DEF WaitTypes, ValueFirst, Counted, OwnResult
  <1> QED  BY <1>1, <1>2, <1>3, Zenon

-----------------------------------------------------------------------------

\* Every step keeps the inductive invariant.
LEMMA WaitStepKeeps ==
    ASSUME WaitInv, [WaitNext]_<<ncpus, waitVars>>
    PROVE  WaitInv'
  <1>1. CASE \E w \in Callers : Submit(w) \/ CallerStep(w)
    BY <1>1, SubmitKeeps, LoopKeeps, WaitKeeps, Zenon DEF CallerStep
  <1>2. CASE \E d \in Completers : CompleterStep(d)
    <2>1. PICK d \in Completers : Take(d) \/ Complete(d) \/ WakeStep(d)
      BY <1>2, Zenon DEF CompleterStep
    <2>2. d \in Finishers
      BY Zenon DEF Finishers
    <2> QED  BY <2>1, <2>2, TakeKeeps, ValueKeeps, SignalKeeps, RestKeeps, Zenon DEF Complete
  <1>3. CASE SubmitToSet
    BY <1>3, SubmitToSetKeeps, Zenon
  <1>4. CASE OwnerStep
    <2>1. CASE WakeStep(Owner)
      BY <2>1, RestKeeps, Zenon DEF Finishers
    <2>2. CASE WaitOnSet \/ TakeReady
      BY <2>2, OwnerMoves, Zenon DEF WaitOnSet, TakeReady, WaitGoto
    <2>3. CASE Compare(Owner, wake_signal)
      BY <2>3, OwnerMoves, Zenon DEF Compare, WaitGoto
    <2>4. ASSUME NEW t, Block(Owner, TheSet, t)
          PROVE  WaitInv'
      BY <2>4, OwnerMoves, Zenon DEF Block, WaitGoto
    <2> QED  BY <1>4, <2>1, <2>2, <2>3, <2>4, Zenon DEF OwnerStep
  <1>5. CASE Timeout
    BY <1>5, OwnerMoves, Zenon DEF Timeout
  <1>6. CASE UNCHANGED <<ncpus, waitVars>>
    BY <1>6, OwnerMoves, Zenon DEF waitVars
  <1> QED  BY <1>1, <1>2, <1>3, <1>4, <1>5, <1>6, Zenon DEF WaitNext

\* A task that calls io_sync again and again gets from each call the value its
\* own completion stored (kernel/src/task/actions/io.rs against
\* UnmappedAsyncOp::complete), however many tasks, completers and CPUs there are.
THEOREM EachCallItsOwn == WaitSpec => []OwnResult
  <1>1. WaitInit => WaitInv
    BY WaitStarts, Zenon
  <1>2. WaitInv /\ [WaitNext]_<<ncpus, waitVars>> => WaitInv'
    BY WaitStepKeeps, Zenon
  <1>3. WaitInv => OwnResult
    BY Zenon DEF WaitInv
  <1> QED  BY <1>1, <1>2, <1>3, PTL DEF WaitSpec

=============================================================================
