------------------------------- MODULE Messages -------------------------------
(***************************************************************************)
(* Message passing: MessageQueue of kernel/src/task/messaging.rs,          *)
(* send_message of task/actions/mod.rs and MessageIOProvider of            *)
(* io/provider/message.rs.  A sender adds to the receiver's queue and then *)
(* serves its pending reads; the receiver adds a read and then looks at    *)
(* the queue.                                                              *)
(***************************************************************************)
EXTENDS Kernel

CONSTANTS
    Senders,    \* tasks that send
    Receiver,   \* the task that reads its message queue
    Expiries,   \* expiration times in use, in system ticks
    MaxTicks,   \* bound on the clock
    MaxSends,   \* bound on the messages of one sender
    MaxReads    \* bound on the reads of the receiver

ASSUME MessagesAssumption ==
    /\ IsFiniteSet(Senders) /\ Receiver \notin Senders
    /\ Expiries \subseteq Nat \ {0}
    /\ MaxTicks \in Nat /\ MaxSends \in Nat /\ MaxReads \in Nat

MsgTasks == Senders \cup {Receiver}
Packets == [from : Senders, n : 1..MaxSends, expires : Expiries]
ReadOps == 1..MaxReads

ASSUME NoPacket == None \notin Packets

VARIABLES
    msgPc,          \* where each task is in the kernel
    ticks,          \* the system clock
    message_queue,  \* Task::message_queue of the receiver
    readOps,        \* MessageIOProvider::pending_ops: the ids of the reads that wait
    sent,           \* the expiration time of each message a sender has sent
    reads,          \* ids given out by id_gen
    popped,         \* the packet a task popped and not yet delivered
    readBuffer,     \* what was last copied into the buffer of each read
    served          \* how often each read was completed

msgVars == <<msgPc, ticks, message_queue, readOps, sent, reads, popped, readBuffer, served>>

MsgInit ==
    /\ Boot
    /\ msgPc = [t \in MsgTasks |-> "out"]
    /\ ticks = 0
    /\ message_queue = <<>>
    /\ readOps = {}
    /\ sent = [s \in Senders |-> <<>>]
    /\ reads = 0
    /\ popped = [t \in MsgTasks |-> None]
    /\ readBuffer = [i \in ReadOps |-> None]
    /\ served = [i \in ReadOps |-> 0]

MsgEnter(t) == msgPc[t] = "out" /\ CpuFree({u \in MsgTasks : msgPc[u] # "out"})
MsgGoto(t, point) == msgPc' = [msgPc EXCEPT ![t] = point] /\ UNCHANGED <<ncpus, ticks>>

\* remove_expired_items: drop from the front while the front has expired.
Unexpired(q, now) ==
    LET live == {i \in 1..Len(q) : q[i].expires > now}
    IN  IF live = {} THEN <<>>
        ELSE SubSeq(q, CHOOSE i \in live : \A j \in live : i <= j, Len(q))

\* pop_message by task t: MessageQueue::read, with a current time of zero.
PopMessage(t) ==
    LET q == Unexpired(message_queue, 0) IN
    /\ popped' = [popped EXCEPT ![t] = IF q = <<>> THEN None ELSE Head(q)]
    /\ message_queue' = IF q = <<>> THEN q ELSE Tail(q)

-----------------------------------------------------------------------------
(* send_message *)

\* MessageQueue::add of a message that expires at e, under the receiver's lock.
AddMessage(s, e) ==
    /\ Len(sent[s]) < MaxSends
    /\ sent' = [sent EXCEPT ![s] = Append(@, e)]
    /\ message_queue' = Append(Unexpired(message_queue, ticks),
                               [from |-> s, n |-> Len(sent'[s]), expires |-> e])
    /\ UNCHANGED <<readOps, reads, popped, readBuffer, served>>

Send(s) ==
    /\ MsgEnter(s)
    /\ \E e \in Expiries : AddMessage(s, e)
    /\ MsgGoto(s, "check")

\* check_messages: with no read pending the message stays in the queue.
CheckMessages(s) ==
    /\ msgPc[s] = "check"
    /\ MsgGoto(s, IF readOps = {} THEN "out" ELSE "pop")
    /\ UNCHANGED <<message_queue, readOps, sent, reads, popped, readBuffer, served>>

\* check_messages, head of its loop.
PopMail(s) ==
    /\ msgPc[s] = "pop"
    /\ PopMessage(s)
    /\ MsgGoto(s, IF popped'[s] = None THEN "out" ELSE "serve")
    /\ UNCHANGED <<readOps, sent, reads, readBuffer, served>>

\* The slip of serving the youngest read first.
FirstOp_Newest == CHOOSE i \in readOps : \A j \in readOps : i >= j

\* BTreeMap::pop_first: ids grow, so the first read is the oldest.
FirstOp == CHOOSE i \in readOps : \A j \in readOps : i <= j

\* check_messages, rest of its loop: give the packet to the first read.  The
\* packet is gone when no read is left.
Serve(s) ==
    /\ msgPc[s] = "serve"
    /\ IF readOps = {} THEN UNCHANGED <<readOps, readBuffer, served>>
       ELSE /\ readOps' = readOps \ {FirstOp}
            /\ readBuffer' = [readBuffer EXCEPT ![FirstOp] = popped[s]]
            /\ served' = [served EXCEPT ![FirstOp] = @ + 1]
    /\ popped' = [popped EXCEPT ![s] = None]
    /\ MsgGoto(s, "pop")
    /\ UNCHANGED <<message_queue, sent, reads>>

-----------------------------------------------------------------------------
(* MessageIOProvider::add_op of a read; its id is reads. *)

AddOp ==
    /\ MsgEnter(Receiver)
    /\ reads < MaxReads
    /\ reads' = reads + 1
    /\ readOps' = readOps \cup {reads + 1}
    /\ MsgGoto(Receiver, "run")
    /\ UNCHANGED <<message_queue, sent, popped, readBuffer, served>>

\* run_op looks the op up; a sender may have served it already.
RunOp ==
    /\ msgPc[Receiver] = "run"
    /\ MsgGoto(Receiver, IF reads \in readOps THEN "read" ELSE "out")
    /\ UNCHANGED <<message_queue, readOps, sent, reads, popped, readBuffer, served>>

\* read: pop, and copy into the op's buffer.
ReadMail ==
    /\ msgPc[Receiver] = "read"
    /\ PopMessage(Receiver)
    /\ IF popped'[Receiver] = None
       THEN MsgGoto(Receiver, "out") /\ UNCHANGED readBuffer
       ELSE /\ MsgGoto(Receiver, "finish")
            /\ readBuffer' = [readBuffer EXCEPT ![reads] = popped'[Receiver]]
    /\ UNCHANGED <<readOps, sent, reads, served>>

\* remove_op, and complete what it returned.
Finish ==
    /\ msgPc[Receiver] = "finish"
    /\ readOps' = readOps \ {reads}
    /\ served' = [served EXCEPT ![reads] = IF reads \in readOps THEN @ + 1 ELSE @]
    /\ popped' = [popped EXCEPT ![Receiver] = None]
    /\ MsgGoto(Receiver, "out")
    /\ UNCHANGED <<message_queue, sent, reads, readBuffer>>

-----------------------------------------------------------------------------

Tick ==
    /\ ticks < MaxTicks
    /\ ticks' = ticks + 1
    /\ UNCHANGED <<ncpus, msgPc, message_queue, readOps, sent, reads, popped, readBuffer, served>>

MsgNext ==
    \/ \E s \in Senders : Send(s) \/ CheckMessages(s) \/ PopMail(s) \/ Serve(s)
    \/ AddOp \/ RunOp \/ ReadMail \/ Finish
    \/ Tick

MsgSpec == MsgInit /\ [][MsgNext]_<<ncpus, msgVars>>

-----------------------------------------------------------------------------

Is(m, s, n) == m # None /\ m.from = s /\ m.n = n

\* Every message sent and not expired is in the queue, on its way, or in the
\* buffer of a read: serving reads never pops a message nobody is waiting for.
NoneDropped ==
    \A s \in Senders : \A n \in 1..Len(sent[s]) :
        \/ \E i \in 1..Len(message_queue) : Is(message_queue[i], s, n)
        \/ \E t \in MsgTasks : Is(popped[t], s, n)
        \/ \E i \in ReadOps : Is(readBuffer[i], s, n)
        \/ sent[s][n] <= ticks

\* When no task is inside the kernel, reads wait only on an empty queue: the
\* sender that adds before it looks for reads and the receiver that adds its
\* read before it looks at the queue cannot miss each other, on any number of
\* CPUs.
NobodyWaitsOnMail == (\A t \in MsgTasks : msgPc[t] = "out") /\ readOps # {} => message_queue = <<>>

\* On one CPU, reads complete in the order they were made, the messages of
\* one sender arrive in the order they were sent, and none is dropped: serving
\* reads pops no message that nobody waits for.
InOrder ==
    Uniprocessor =>
        /\ NoneDropped
        /\ \A i, j \in ReadOps : i < j /\ served[j] > 0
              => /\ served[i] > 0
                 /\ readBuffer[i].from = readBuffer[j].from => readBuffer[i].n < readBuffer[j].n

\* Mail reaches the reads that wait for it: what a sender sent comes in order,
\* and no read waits while there is mail.
MailArrives == InOrder /\ NobodyWaitsOnMail
=============================================================================
