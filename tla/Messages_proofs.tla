-------------------------- MODULE Messages_proofs ---------------------------
(***************************************************************************)
(* The theorems of Messages, for any number of senders, messages, reads    *)
(* and expiration times.                                                   *)
(*                                                                         *)
(* With any number of CPUs no read waits beside a message: a read that its *)
(* own call has left behind has a message beside it only while some sender *)
(* is on its way to the queue (OnItsWay).                                  *)
(*                                                                         *)
(* On one CPU messages arrive in order, and none is lost. The reads that   *)
(* wait are the last ones made (Waiting), and where a task is in its call  *)
(* says what it finds in the queue and among the reads (Call). The packets *)
(* of one sender are numbered upwards from the first read through what is  *)
(* popped to the end of the queue (Order), and a packet leaves the queue   *)
(* only for a read, or because it expired (Kept).                          *)
(***************************************************************************)
EXTENDS Messages, FiniteSetTheorems, WellFoundedInduction, TLAPS

Mail == Packets \cup {None}

SenderPoints == {"out", "check", "pop", "serve"}
ReceiverPoints == {"out", "run", "read", "finish"}

MsgTypes ==
    /\ DOMAIN msgPc = MsgTasks
    /\ \A s \in Senders : msgPc[s] \in SenderPoints
    /\ msgPc[Receiver] \in ReceiverPoints
    /\ ticks \in Nat
    /\ message_queue \in Seq(Packets)
    /\ reads \in Nat /\ readOps \subseteq 1..reads /\ reads <= MaxReads
    /\ sent \in [Senders -> Seq(Expiries)]
    /\ \A s \in Senders : Len(sent[s]) <= MaxSends
    /\ popped \in [MsgTasks -> Mail]
    /\ readBuffer \in [ReadOps -> Mail]
    /\ served \in [ReadOps -> Nat]

\* A sender is between adding its message and leaving the reads alone.
Serving == \E s \in Senders : msgPc[s] # "out"

OnItsWay ==
    message_queue # <<>> /\ (\E i \in readOps : i # reads \/ msgPc[Receiver] = "out") => Serving

-----------------------------------------------------------------------------
(* Numbers and queues *)

\* A set of numbers that is not empty has a least one.
LEMMA HasLeast ==
    ASSUME NEW T, T \subseteq Nat, T # {}
    PROVE  \E x \in T : \A y \in T : x <= y
  <1> DEFINE R == OpToRel(<, Nat)
  <1>1. IsWellFoundedOn(R, Nat)
    BY NatLessThanWellFounded, Zenon
  <1>2. \A x, y \in Nat : y < x => <<y, x>> \in R
    BY Zenon DEF OpToRel
  <1> HIDE DEF R
  <1>3. PICK x \in T : \A y \in T : ~ (<<y, x>> \in R)
    BY <1>1, WFMin, Zenon
  <1>4. \A y \in T : ~(y < x)
    BY <1>2, <1>3, Zenon
  <1> QED  BY <1>4

\* What a packet is made of.
LEMMA Packet ==
    ASSUME NEW m \in Packets
    PROVE  m.from \in Senders /\ m.n \in 1..MaxSends /\ m.expires \in Nat /\ m.expires > 0
  <1>1. m.from \in Senders /\ m.n \in 1..MaxSends /\ m.expires \in Expiries
    BY Zenon DEF Packets
  <1>2. m.expires \in Nat \ {0}
    BY <1>1, MessagesAssumption, Zenon
  <1> QED  BY <1>1, <1>2

\* remove_expired_items drops a prefix, of messages that have expired.
LEMMA DropsExpired ==
    ASSUME NEW q \in Seq(Packets), NEW now \in Nat
    PROVE  /\ Unexpired(q, now) \in Seq(Packets)
           /\ \E d \in 0..Len(q) :
                 /\ Len(Unexpired(q, now)) = Len(q) - d
                 /\ \A i \in 1..Len(q) - d : Unexpired(q, now)[i] = q[i + d]
                 /\ \A i \in 1..d : q[i].expires <= now
                 /\ d < Len(q) => q[d + 1].expires > now
  <1> DEFINE live == {i \in 1..Len(q) : q[i].expires > now}
  <1>1. \A i \in 1..Len(q) : q[i] \in Packets /\ q[i].expires \in Nat
    <2>1. \A i \in 1..Len(q) : q[i] \in Packets
      OBVIOUS
    <2> QED  BY <2>1, Packet, Zenon
  <1>2. CASE live = {}
    <2>1. Unexpired(q, now) = <<>>
      BY <1>2, Zenon DEF Unexpired
    <2>2. \A i \in 1..Len(q) : q[i].expires <= now
      BY <1>1, <1>2
    <2>3. Len(q) \in 0..Len(q) /\ <<>> \in Seq(Packets) /\ Len(<<>>) = Len(q) - Len(q)
      OBVIOUS
    <2> QED  BY <2>1, <2>2, <2>3
  <1>3. CASE live # {}
    <2> DEFINE m == CHOOSE i \in live : \A j \in live : i <= j
    <2>1. m \in live /\ \A j \in live : m <= j
      <3>1. live \subseteq Nat
        OBVIOUS
      <3>2. \E x \in live : \A y \in live : x <= y
        BY <1>3, <3>1, HasLeast, Zenon
      <3> HIDE DEF live
      <3> QED  BY <3>2, Zenon
    <2>2. Unexpired(q, now) = SubSeq(q, m, Len(q))
      BY <1>3, Zenon DEF Unexpired
    <2> HIDE DEF m
    <2> DEFINE d == m - 1
    <2>3. m \in 1..Len(q) /\ q[m].expires > now
      BY <2>1, Zenon
    <2>4. SubSeq(q, m, Len(q)) \in Seq(Packets) /\ Len(SubSeq(q, m, Len(q))) = Len(q) - d
      BY <2>3
    <2>5. \A i \in 1..Len(q) - d : SubSeq(q, m, Len(q))[i] = q[i + d]
      BY <2>3
    <2>6. \A i \in 1..d : q[i].expires <= now
      BY <1>1, <2>1, <2>3
    <2>7. d \in 0..Len(q) /\ q[d + 1].expires > now
      BY <2>3
    <2> HIDE DEF d
    <2> QED  BY <2>2, <2>4, <2>5, <2>6, <2>7, Zenon
  <1> QED  BY <1>2, <1>3, Zenon

\* No message has expired at time zero.
LEMMA NoneExpiredAtZero ==
    ASSUME NEW q \in Seq(Packets)
    PROVE  Unexpired(q, 0) = q
  <1>1. \A i \in 1..Len(q) : q[i].expires \in Nat /\ q[i].expires > 0
    <2>1. \A i \in 1..Len(q) : q[i] \in Packets
      OBVIOUS
    <2> QED  BY <2>1, Packet, Zenon
  <1>2. PICK d \in 0..Len(q) :
                 /\ Len(Unexpired(q, 0)) = Len(q) - d
                 /\ \A i \in 1..Len(q) - d : Unexpired(q, 0)[i] = q[i + d]
                 /\ \A i \in 1..d : q[i].expires <= 0
    BY DropsExpired, Zenon
  <1>3. d = 0
    <2>1. ASSUME d # 0 PROVE FALSE
      <3>1. 1 \in 1..d /\ 1 \in 1..Len(q)
        BY <2>1
      <3>2. q[1].expires \in Nat /\ q[1].expires > 0 /\ q[1].expires <= 0
        BY <1>1, <1>2, <3>1, Zenon
      <3> QED  BY <3>2
    <2> QED  BY <2>1, Zenon
  <1>4. Unexpired(q, 0) \in Seq(Packets)
    BY DropsExpired, Zenon
  <1> QED  BY <1>2, <1>3, <1>4

\* pop_message takes the first message, if there is one.
LEMMA Pops ==
    ASSUME NEW t \in MsgTasks, MsgTypes, PopMessage(t)
    PROVE  /\ message_queue = <<>> =>
                 message_queue' = <<>> /\ popped' = [popped EXCEPT ![t] = None]
           /\ message_queue # <<>> =>
                 /\ message_queue' = Tail(message_queue)
                 /\ popped' = [popped EXCEPT ![t] = Head(message_queue)]
                 /\ Head(message_queue) \in Packets /\ Head(message_queue) # None
           /\ message_queue' \in Seq(Packets) /\ popped' \in [MsgTasks -> Mail]
  <1>1. Unexpired(message_queue, 0) = message_queue
    BY NoneExpiredAtZero, Zenon DEF MsgTypes
  <1>2. CASE message_queue = <<>>
    BY <1>1, <1>2, Zenon DEF PopMessage, MsgTypes, Mail
  <1>3. CASE message_queue # <<>>
    <2>1. Head(message_queue) \in Packets /\ Tail(message_queue) \in Seq(Packets)
      BY <1>3 DEF MsgTypes
    <2>2. Head(message_queue) # None
      BY <2>1, NoPacket, Zenon
    <2> QED  BY <1>1, <1>3, <2>1, <2>2, Zenon DEF PopMessage, MsgTypes, Mail
  <1> QED  BY <1>2, <1>3, Zenon

\* BTreeMap::pop_first takes the oldest read.
LEMMA FirstIsOldest ==
    ASSUME MsgTypes, readOps # {}
    PROVE  FirstOp \in readOps /\ (\A j \in readOps : FirstOp <= j) /\ FirstOp \in ReadOps
  <1>1. readOps \subseteq Nat /\ readOps \subseteq ReadOps
    BY MessagesAssumption DEF MsgTypes, ReadOps
  <1>2. \E x \in readOps : \A y \in readOps : x <= y
    BY <1>1, HasLeast, Zenon
  <1>3. FirstOp \in readOps /\ (\A j \in readOps : FirstOp <= j)
    BY <1>2, Zenon DEF FirstOp
  <1> QED  BY <1>1, <1>3, Zenon

-----------------------------------------------------------------------------
(* Types, and reads that wait beside a message, on any number of CPUs *)

\* A task moves to another point of its call.
LEMMA Moves ==
    ASSUME NEW t \in MsgTasks, NEW point, MsgTypes, MsgGoto(t, point)
    PROVE  /\ msgPc'[t] = point /\ \A u \in MsgTasks : u # t => msgPc'[u] = msgPc[u]
           /\ DOMAIN msgPc' = MsgTasks /\ ticks' = ticks /\ ncpus' = ncpus
  BY Zenon DEF MsgGoto, MsgTypes

\* Points and clock have their types after a move.
LEMMA MovesWell ==
    ASSUME NEW t \in MsgTasks, NEW point, MsgTypes, MsgGoto(t, point),
           t \in Senders => point \in SenderPoints,
           t = Receiver => point \in ReceiverPoints
    PROVE  /\ DOMAIN msgPc' = MsgTasks
           /\ \A s \in Senders : msgPc'[s] \in SenderPoints
           /\ msgPc'[Receiver] \in ReceiverPoints
           /\ ticks' \in Nat
  <1>1. /\ msgPc'[t] = point /\ \A u \in MsgTasks : u # t => msgPc'[u] = msgPc[u]
        /\ DOMAIN msgPc' = MsgTasks /\ ticks' = ticks
    BY Moves, Zenon
  <1>2. Senders \subseteq MsgTasks /\ Receiver \in MsgTasks
    BY Zenon DEF MsgTasks
  <1>3. /\ \A s \in Senders : msgPc[s] \in SenderPoints
        /\ msgPc[Receiver] \in ReceiverPoints /\ ticks \in Nat
    BY Zenon DEF MsgTypes
  <1>4. ASSUME NEW s \in Senders PROVE msgPc'[s] \in SenderPoints
    BY <1>1, <1>2, <1>3, Zenon
  <1>5. msgPc'[Receiver] \in ReceiverPoints
    BY <1>1, <1>2, <1>3, Zenon
  <1> QED  BY <1>1, <1>3, <1>4, <1>5, Zenon

\* send_message keeps to the types.
LEMMA SendTypes ==
    ASSUME NEW s \in Senders, MsgTypes, Send(s)
    PROVE  /\ MsgTypes' /\ Serving'
           /\ \E e \in Expiries :
                 /\ sent' = [sent EXCEPT ![s] = Append(@, e)]
                 /\ Len(sent'[s]) = Len(sent[s]) + 1 /\ sent'[s] = Append(sent[s], e)
                 /\ [from |-> s, n |-> Len(sent[s]) + 1, expires |-> e] \in Packets
                 /\ message_queue' = Append(Unexpired(message_queue, ticks),
                                            [from |-> s, n |-> Len(sent[s]) + 1, expires |-> e])
  <1>1. s \in MsgTasks /\ s # Receiver
    BY MessagesAssumption, Zenon DEF MsgTasks
  <1>2. MsgGoto(s, "check") /\ UNCHANGED <<readOps, reads, popped, readBuffer, served>>
    BY Zenon DEF Send, AddMessage
  <1>3. PICK e \in Expiries : AddMessage(s, e)
    BY Zenon DEF Send
  <1>4. sent[s] \in Seq(Expiries) /\ Len(sent[s]) \in Nat /\ Len(sent[s]) < MaxSends
    BY <1>3 DEF AddMessage, MsgTypes
  <1>5. sent' = [sent EXCEPT ![s] = Append(sent[s], e)]
    BY <1>3, Zenon DEF AddMessage
  <1>6. sent'[s] = Append(sent[s], e) /\ Len(sent'[s]) = Len(sent[s]) + 1
    BY <1>4, <1>5 DEF MsgTypes
  <1> DEFINE m == [from |-> s, n |-> Len(sent[s]) + 1, expires |-> e]
  <1>7. message_queue' = Append(Unexpired(message_queue, ticks), m)
    BY <1>3, <1>6, Zenon DEF AddMessage
  <1>8. m \in Packets
    BY <1>4, MessagesAssumption, SMTT(30) DEF Packets
  <1> HIDE DEF m
  <1>9. message_queue' \in Seq(Packets)
    <2>1. Unexpired(message_queue, ticks) \in Seq(Packets)
      BY DropsExpired, Zenon DEF MsgTypes
    <2> QED  BY <1>7, <1>8, <2>1
  <1>10. sent' \in [Senders -> Seq(Expiries)] /\ \A u \in Senders : Len(sent'[u]) <= MaxSends
    <2>1. Append(sent[s], e) \in Seq(Expiries)
      BY <1>4
    <2>2. sent' \in [Senders -> Seq(Expiries)]
      BY <1>5, <2>1, Zenon DEF MsgTypes
    <2>3. ASSUME NEW u \in Senders PROVE Len(sent'[u]) <= MaxSends
      <3>1. CASE u = s
        BY <1>4, <1>6, <3>1, MessagesAssumption
      <3>2. CASE u # s
        BY <1>5, <3>2, Zenon DEF MsgTypes
      <3> QED  BY <3>1, <3>2, Zenon
    <2> QED  BY <2>2, <2>3, Zenon
  <1>11. MsgTypes'
    <2>1. /\ DOMAIN msgPc' = MsgTasks
          /\ \A u \in Senders : msgPc'[u] \in SenderPoints
          /\ msgPc'[Receiver] \in ReceiverPoints
          /\ ticks' \in Nat
      BY <1>1, <1>2, MovesWell, Zenon DEF SenderPoints
    <2> QED  BY <1>2, <1>9, <1>10, <2>1, Zenon DEF MsgTypes
  <1>12. Serving'
    BY <1>1, <1>2, Moves DEF Serving
  <1> QED  BY <1>5, <1>6, <1>7, <1>8, <1>11, <1>12, Zenon DEF m

\* So does the step that takes a packet off the queue.
LEMMA PopTypes ==
    ASSUME NEW s \in Senders, MsgTypes, CheckMessages(s) \/ PopMail(s)
    PROVE  MsgTypes'
  <1>1. s \in MsgTasks /\ s # Receiver
    BY MessagesAssumption, Zenon DEF MsgTasks
  <1>2. PICK p \in SenderPoints : MsgGoto(s, p)
    BY Zenon DEF CheckMessages, PopMail, SenderPoints
  <1>3. /\ DOMAIN msgPc' = MsgTasks
        /\ \A u \in Senders : msgPc'[u] \in SenderPoints
        /\ msgPc'[Receiver] \in ReceiverPoints
        /\ ticks' \in Nat
    BY <1>1, <1>2, MovesWell, Zenon
  <1>4. message_queue' \in Seq(Packets) /\ popped' \in [MsgTasks -> Mail]
    BY <1>1, Pops, Zenon DEF CheckMessages, PopMail, MsgTypes
  <1>5. UNCHANGED <<readOps, sent, reads, readBuffer, served>>
    BY Zenon DEF CheckMessages, PopMail
  <1> QED  BY <1>3, <1>4, <1>5, Zenon DEF MsgTypes

\* So do the other steps of a sender that serves the reads.
LEMMA ServeTypes ==
    ASSUME NEW s \in Senders, MsgTypes, Serve(s)
    PROVE  MsgTypes'
  <1>1. s \in MsgTasks /\ s # Receiver
    BY MessagesAssumption, Zenon DEF MsgTasks
  <1>2. /\ DOMAIN msgPc' = MsgTasks
        /\ \A u \in Senders : msgPc'[u] \in SenderPoints
        /\ msgPc'[Receiver] \in ReceiverPoints
        /\ ticks' \in Nat
    BY <1>1, MovesWell, Zenon DEF Serve, SenderPoints
  <1>3. popped' \in [MsgTasks -> Mail] /\ UNCHANGED <<message_queue, sent, reads>>
    BY Zenon DEF Serve, MsgTypes, Mail
  <1>4. /\ readOps' \subseteq 1..reads /\ readBuffer' \in [ReadOps -> Mail]
        /\ served' \in [ReadOps -> Nat]
    <2>1. CASE readOps = {}
      BY <2>1, Zenon DEF Serve, MsgTypes
    <2>2. CASE readOps # {}
      <3>1. FirstOp \in ReadOps
        BY <2>2, FirstIsOldest, Zenon
      <3>2. popped[s] \in Mail
        BY <1>1, Zenon DEF MsgTypes
      <3>3. /\ readOps' = readOps \ {FirstOp}
            /\ readBuffer' = [readBuffer EXCEPT ![FirstOp] = popped[s]]
            /\ served' = [served EXCEPT ![FirstOp] = served[FirstOp] + 1]
        BY <2>2, Zenon DEF Serve
      <3>4. served[FirstOp] + 1 \in Nat
        BY <3>1 DEF MsgTypes
      <3>5. readBuffer' \in [ReadOps -> Mail]
        BY <3>1, <3>2, <3>3, Zenon DEF MsgTypes
      <3>6. served' \in [ReadOps -> Nat]
        BY <3>1, <3>3, <3>4, Zenon DEF MsgTypes
      <3> QED  BY <3>3, <3>5, <3>6, Zenon DEF MsgTypes
    <2> QED  BY <2>1, <2>2, Zenon
  <1> QED  BY <1>2, <1>3, <1>4, Zenon DEF MsgTypes

\* So do the receiver's steps.
LEMMA ReadTypes ==
    ASSUME MsgTypes, AddOp \/ RunOp \/ ReadMail \/ Finish
    PROVE  MsgTypes'
  <1>1. Receiver \in MsgTasks /\ Receiver \notin Senders
    BY MessagesAssumption, Zenon DEF MsgTasks
  <1>2. PICK p \in ReceiverPoints : MsgGoto(Receiver, p)
    BY Zenon DEF AddOp, RunOp, ReadMail, Finish, ReceiverPoints
  <1>3. /\ DOMAIN msgPc' = MsgTasks
        /\ \A u \in Senders : msgPc'[u] \in SenderPoints
        /\ msgPc'[Receiver] \in ReceiverPoints
        /\ ticks' \in Nat
    BY <1>1, <1>2, MovesWell, Zenon
  <1>4. sent' = sent
    BY Zenon DEF AddOp, RunOp, ReadMail, Finish
  <1>5. message_queue' \in Seq(Packets) /\ popped' \in [MsgTasks -> Mail]
    <2>1. CASE ReadMail
      BY <1>1, <2>1, Pops, Zenon DEF ReadMail
    <2>2. CASE AddOp \/ RunOp \/ Finish
      BY <2>2, Zenon DEF AddOp, RunOp, Finish, MsgTypes, Mail
    <2> QED  BY <2>1, <2>2, Zenon
  <1>6. reads' \in Nat /\ readOps' \subseteq 1..reads' /\ reads' <= MaxReads
    <2>1. CASE AddOp
      BY <2>1, MessagesAssumption DEF AddOp, MsgTypes
    <2>2. CASE RunOp \/ ReadMail \/ Finish
      BY <2>2, Zenon DEF RunOp, ReadMail, Finish, MsgTypes
    <2> QED  BY <2>1, <2>2, Zenon
  <1>7. readBuffer' \in [ReadOps -> Mail]
    <2>1. CASE ReadMail
      <3>1. popped'[Receiver] \in Mail
        BY <1>1, <1>5, Zenon
      <3> QED  BY <2>1, <3>1, Zenon DEF ReadMail, MsgTypes
    <2>2. CASE AddOp \/ RunOp \/ Finish
      BY <2>2, Zenon DEF AddOp, RunOp, Finish, MsgTypes
    <2> QED  BY <2>1, <2>2, Zenon
  <1>8. served' \in [ReadOps -> Nat]
    <2>1. CASE Finish
      <3>1. served' = [served EXCEPT ![reads] = IF reads \in readOps THEN served[reads] + 1
                                                                     ELSE served[reads]]
        BY <2>1, Zenon DEF Finish
      <3>2. reads \in ReadOps =>
               (IF reads \in readOps THEN served[reads] + 1 ELSE served[reads]) \in Nat
        BY DEF MsgTypes
      <3> QED  BY <3>1, <3>2, Zenon DEF MsgTypes
    <2>2. CASE AddOp \/ RunOp \/ ReadMail
      BY <2>2, Zenon DEF AddOp, RunOp, ReadMail, MsgTypes
    <2> QED  BY <2>1, <2>2, Zenon
  <1> QED  BY <1>3, <1>4, <1>5, <1>6, <1>7, <1>8, Zenon DEF MsgTypes

\* Every step keeps the types.
LEMMA TypesStep ==
    ASSUME MsgTypes, [MsgNext]_<<ncpus, msgVars>>
    PROVE  MsgTypes'
  <1>1. CASE Tick \/ UNCHANGED <<ncpus, msgVars>>
    <2>1. ticks' \in Nat
      BY <1>1 DEF Tick, msgVars, MsgTypes
    <2>2. UNCHANGED <<msgPc, message_queue, readOps, sent, reads, popped, readBuffer, served>>
      BY <1>1, Zenon DEF Tick, msgVars
    <2> QED  BY <2>1, <2>2, Zenon DEF MsgTypes
  <1>2. ASSUME NEW s \in Senders, Send(s) \/ CheckMessages(s) \/ PopMail(s) \/ Serve(s)
        PROVE  MsgTypes'
    BY <1>2, SendTypes, PopTypes, ServeTypes, Zenon
  <1>3. CASE AddOp \/ RunOp \/ ReadMail \/ Finish
    BY <1>3, ReadTypes, Zenon
  <1> QED  BY <1>1, <1>2, <1>3, Zenon DEF MsgNext

\* A read that waits beside a message is somebody's business.
LEMMA OnItsWayStep ==
    ASSUME MsgTypes, OnItsWay, [MsgNext]_<<ncpus, msgVars>>
    PROVE  OnItsWay'
  <1>0. Receiver \in MsgTasks /\ Receiver \notin Senders /\ Senders \subseteq MsgTasks
    BY MessagesAssumption, Zenon DEF MsgTasks
  <1>1. CASE Tick \/ UNCHANGED <<ncpus, msgVars>>
    BY <1>1, Zenon DEF Tick, msgVars, OnItsWay, Serving
  <1>2. ASSUME NEW s \in Senders, Send(s)
        PROVE  OnItsWay'
    BY <1>2, SendTypes, Zenon DEF OnItsWay
  <1>3. ASSUME NEW s \in Senders, CheckMessages(s)
        PROVE  OnItsWay'
    <2>1. MsgGoto(s, IF readOps = {} THEN "out" ELSE "pop") /\ readOps' = readOps
      BY <1>3, Zenon DEF CheckMessages
    <2>2. readOps # {} => msgPc'[s] = "pop"
      BY <1>0, <2>1, Moves, Zenon
    <2> QED  BY <2>1, <2>2, Zenon DEF OnItsWay, Serving
  <1>4. ASSUME NEW s \in Senders, PopMail(s)
        PROVE  OnItsWay'
    <2>1. PopMessage(s) /\ MsgGoto(s, IF popped'[s] = None THEN "out" ELSE "serve")
      BY <1>4, Zenon DEF PopMail
    <2>2. CASE message_queue = <<>>
      BY <1>0, <2>1, <2>2, Pops, Zenon DEF OnItsWay
    <2>3. CASE message_queue # <<>>
      <3>1. popped'[s] # None
        <4>1. popped' = [popped EXCEPT ![s] = Head(message_queue)] /\ Head(message_queue) # None
          BY <1>0, <2>1, <2>3, Pops, Zenon
        <4> QED  BY <1>0, <4>1, Zenon DEF MsgTypes
      <3>2. msgPc'[s] = "serve"
        BY <1>0, <2>1, <3>1, Moves, Zenon
      <3> QED  BY <3>2, Zenon DEF OnItsWay, Serving
    <2> QED  BY <2>2, <2>3, Zenon
  <1>5. ASSUME NEW s \in Senders, Serve(s)
        PROVE  OnItsWay'
    <2>1. msgPc'[s] = "pop"
      BY <1>0, <1>5, Moves, Zenon DEF Serve
    <2> QED  BY <2>1, Zenon DEF OnItsWay, Serving
  <1>6. ASSUME AddOp \/ RunOp \/ ReadMail \/ Finish
        PROVE  Serving' = Serving
    <2>1. PICK p : MsgGoto(Receiver, p)
      BY <1>6, Zenon DEF AddOp, RunOp, ReadMail, Finish
    <2>2. \A s \in Senders : msgPc'[s] = msgPc[s]
      BY <1>0, <2>1, Moves, Zenon
    <2> QED  BY <2>2, Zenon DEF Serving
  <1>7. CASE AddOp
    <2>1. /\ msgPc[Receiver] = "out" /\ readOps' = readOps \cup {reads + 1} /\ reads' = reads + 1
          /\ message_queue' = message_queue /\ MsgGoto(Receiver, "run")
      BY <1>7, Zenon DEF AddOp, MsgEnter
    <2>2. msgPc'[Receiver] = "run"
      BY <1>0, <2>1, Moves, Zenon
    <2> QED  BY <1>6, <1>7, <2>1, <2>2, Zenon DEF OnItsWay
  <1>8. CASE RunOp
    <2>1. /\ readOps' = readOps /\ reads' = reads /\ message_queue' = message_queue
          /\ MsgGoto(Receiver, IF reads \in readOps THEN "read" ELSE "out")
      BY <1>8, Zenon DEF RunOp
    <2>2. msgPc'[Receiver] = "out" => reads \notin readOps
      BY <1>0, <2>1, Moves
    <2> QED  BY <1>6, <1>8, <2>1, <2>2, Zenon DEF OnItsWay
  <1>9. CASE ReadMail
    <2>1. PopMessage(Receiver) /\ readOps' = readOps /\ reads' = reads
      BY <1>9, Zenon DEF ReadMail
    <2>2. CASE message_queue = <<>>
      BY <1>0, <2>1, <2>2, Pops, Zenon DEF OnItsWay
    <2>3. CASE message_queue # <<>>
      <3>1. popped'[Receiver] # None
        <4>1. /\ popped' = [popped EXCEPT ![Receiver] = Head(message_queue)]
              /\ Head(message_queue) # None
          BY <1>0, <2>1, <2>3, Pops, Zenon
        <4> QED  BY <1>0, <4>1, Zenon DEF MsgTypes
      <3>2. MsgGoto(Receiver, "finish")
        BY <1>9, <3>1, Zenon DEF ReadMail
      <3>3. msgPc'[Receiver] = "finish"
        BY <1>0, <3>2, Moves, Zenon
      <3> QED  BY <1>6, <1>9, <2>1, <2>3, <3>3, Zenon DEF OnItsWay
    <2> QED  BY <2>2, <2>3, Zenon
  <1>10. CASE Finish
    BY <1>6, <1>10, Zenon DEF Finish, OnItsWay
  <1> QED  BY <1>1, <1>2, <1>3, <1>4, <1>5, <1>7, <1>8, <1>9, <1>10, Zenon DEF MsgNext

\* Before the first message nobody waits.
LEMMA MsgStarts ==
    ASSUME MsgInit
    PROVE  MsgTypes /\ OnItsWay
  <1> USE MessagesAssumption DEF MsgInit
  <1>1. MsgTypes
    BY DEF MsgTypes, MsgTasks, SenderPoints, ReceiverPoints, Mail
  <1>2. OnItsWay
    BY Zenon DEF OnItsWay
  <1> QED  BY <1>1, <1>2, Zenon

\* With nobody inside the kernel nobody is on the way.
LEMMA NobodyOnItsWay ==
    ASSUME MsgTypes, OnItsWay
    PROVE  NobodyWaitsOnMail
  <1>1. ASSUME \A t \in MsgTasks : msgPc[t] = "out" PROVE ~Serving /\ msgPc[Receiver] = "out"
    BY <1>1, Zenon DEF Serving, MsgTasks
  <1> QED  BY <1>1, Zenon DEF NobodyWaitsOnMail, OnItsWay

\* Reads of MessageIOProvider wait only on an empty queue, on any number of CPUs: the sender
\* that adds its message before it looks for reads and the receiver that adds its read before
\* it looks at the queue do not miss each other.
THEOREM NobodyIsMissed ==
    MsgSpec => []NobodyWaitsOnMail
  <1>1. MsgInit => MsgTypes /\ OnItsWay
    BY MsgStarts, Zenon
  <1>2. MsgTypes /\ OnItsWay /\ [MsgNext]_<<ncpus, msgVars>> => MsgTypes' /\ OnItsWay'
    BY TypesStep, OnItsWayStep, Zenon
  <1>3. MsgTypes /\ OnItsWay => NobodyWaitsOnMail
    BY NobodyOnItsWay, Zenon
  <1> QED  BY <1>1, <1>2, <1>3, PTL DEF MsgSpec

-----------------------------------------------------------------------------
(* Order and loss on one CPU *)

\* One task is inside the kernel.
One == \A t, u \in MsgTasks : msgPc[t] # "out" /\ msgPc[u] # "out" => t = u

\* Read i has its message.
Has(i) == i <= reads /\ (i \notin readOps \/ (i = reads /\ msgPc[Receiver] = "finish"))

Waiting ==
    /\ \A i \in readOps, j \in 1..reads : i < j => j \in readOps
    /\ \A i \in ReadOps : served[i] > 0 <=> i <= reads /\ i \notin readOps
    /\ \A i \in ReadOps : readBuffer[i] # None <=> Has(i)

Call ==
    /\ \A s \in Senders :
          /\ popped[s] # None <=> msgPc[s] = "serve"
          /\ msgPc[s] = "check" => readOps = {} \/ Len(message_queue) = 1
          /\ msgPc[s] = "pop" =>
                message_queue = <<>> \/ (Len(message_queue) = 1 /\ readOps # {})
          /\ msgPc[s] = "serve" => message_queue = <<>> /\ readOps # {}
    /\ msgPc[Receiver] \in {"run", "read"} => reads \in readOps
    /\ msgPc[Receiver] = "finish" => readOps = {reads}

\* Packet a comes before packet b, and packet m is one of those sent.
Before(a, b) == a.from = b.from => a.n < b.n
Known(m, log) == m.n <= Len(log[m.from]) /\ m.expires = log[m.from][m.n]

Order ==
    /\ \A p \in 1..Len(message_queue) :
          /\ Known(message_queue[p], sent)
          /\ \A q \in 1..Len(message_queue) : p < q => Before(message_queue[p], message_queue[q])
    /\ \A s \in Senders : popped[s] # None => Known(popped[s], sent)
    /\ \A i \in ReadOps : readBuffer[i] # None =>
          /\ Known(readBuffer[i], sent)
          /\ \A j \in ReadOps :
                i < j /\ readBuffer[j] # None => Before(readBuffer[i], readBuffer[j])
          /\ \A q \in 1..Len(message_queue) : Before(readBuffer[i], message_queue[q])
          /\ \A s \in Senders : popped[s] # None => Before(readBuffer[i], popped[s])

\* Packet m is somewhere.
Somewhere(m) ==
    \/ \E p \in 1..Len(message_queue) : message_queue[p] = m
    \/ \E s \in Senders : popped[s] = m
    \/ \E i \in ReadOps : readBuffer[i] = m

Kept == \A m \in Packets : Known(m, sent) => m.expires <= ticks \/ Somewhere(m)

MsgInv ==
    /\ MsgTypes /\ OnItsWay
    /\ Uniprocessor => One /\ Waiting /\ Call /\ Order /\ Kept

-----------------------------------------------------------------------------

\* Only one task is inside the kernel.
LEMMA OthersOut ==
    ASSUME MsgTypes, One, Uniprocessor, NEW t \in MsgTasks, msgPc[t] # "out" \/ MsgEnter(t)
    PROVE  \A u \in MsgTasks : u # t => msgPc[u] = "out"
  <1>1. CASE msgPc[t] # "out"
    BY <1>1, Zenon DEF One
  <1>2. CASE MsgEnter(t)
    <2> DEFINE inside == {u \in MsgTasks : msgPc[u] # "out"}
    <2>1. IsFiniteSet(Senders \cup {Receiver})
      BY MessagesAssumption, FS_AddElement, Zenon
    <2>2. IsFiniteSet(inside)
      BY <2>1, FS_Subset, Zenon DEF MsgTasks
    <2>3. Cardinality(inside) < 1
      BY <1>2, Zenon DEF MsgEnter, CpuFree, Uniprocessor
    <2>4. inside = {}
      BY <2>2, <2>3, FS_CardinalityType, FS_EmptySet
    <2> QED  BY <2>4, Zenon
  <1> QED  BY <1>1, <1>2, Zenon

\* So it stays when a task moves.
LEMMA OneStays ==
    ASSUME MsgTypes, NEW t \in MsgTasks, NEW point, MsgGoto(t, point),
           \A u \in MsgTasks : u # t => msgPc[u] = "out"
    PROVE  One' /\ \A u \in MsgTasks : u # t => msgPc'[u] = "out"
  <1>1. \A u \in MsgTasks : u # t => msgPc'[u] = "out"
    BY Moves, Zenon
  <1> QED  BY <1>1, Zenon DEF One

\* Reads and their buffers stay as they are.
LEMMA WaitingStays ==
    ASSUME Waiting, UNCHANGED <<readOps, reads, readBuffer, served>>,
           msgPc'[Receiver] = "finish" <=> msgPc[Receiver] = "finish"
    PROVE  Waiting'
  <1>1. \A i \in ReadOps : Has(i)' <=> Has(i)
    BY Zenon DEF Has
  <1> QED  BY <1>1, Zenon DEF Waiting

\* Packets stay where they are, and time passes.
LEMMA OrderStays ==
    ASSUME MsgTypes, Order, Kept, UNCHANGED <<message_queue, sent, readBuffer>>,
           \A s \in Senders : popped'[s] = popped[s], ticks' \in Nat, ticks' >= ticks
    PROVE  Order' /\ Kept'
  <1>1. Order'
    BY Zenon DEF Order
  <1>2. ASSUME NEW m \in Packets, Known(m, sent), ~(m.expires <= ticks')
        PROVE  Somewhere(m)'
    <2>1. ~(m.expires <= ticks)
      BY <1>2, Packet DEF MsgTypes
    <2>2. Somewhere(m)
      BY <1>2, <2>1, Zenon DEF Kept
    <2> QED  BY <2>2, Zenon DEF Somewhere
  <1>3. Kept'
    BY <1>2, Zenon DEF Kept
  <1> QED  BY <1>1, <1>3, Zenon

\* A sender that looks for readers changes nothing but its own place.
LEMMA CheckInOrder ==
    ASSUME NEW s \in Senders, MsgTypes, Uniprocessor, One, Waiting, Call, Order, Kept,
           CheckMessages(s)
    PROVE  One' /\ Waiting' /\ Call' /\ Order' /\ Kept'
  <1>0. Receiver \in MsgTasks /\ Receiver \notin Senders /\ Senders \subseteq MsgTasks
    BY MessagesAssumption, Zenon DEF MsgTasks
  <1>1. /\ msgPc[s] = "check" /\ MsgGoto(s, IF readOps = {} THEN "out" ELSE "pop")
        /\ UNCHANGED <<message_queue, readOps, sent, reads, popped, readBuffer, served>>
    BY Zenon DEF CheckMessages
  <1>2. /\ \A u \in MsgTasks : u # s => msgPc[u] = "out" /\ msgPc'[u] = "out"
        /\ One'
    BY <1>0, <1>1, OthersOut, OneStays, Zenon
  <1>3. msgPc'[s] = (IF readOps = {} THEN "out" ELSE "pop") /\ ticks' = ticks
    BY <1>0, <1>1, Moves, Zenon
  <1>4. Waiting' /\ Order' /\ Kept'
    <2>1. ticks' \in Nat /\ ticks' >= ticks
      BY <1>3 DEF MsgTypes
    <2>2. Waiting'
      BY <1>0, <1>1, <1>2, WaitingStays, Zenon
    <2> QED  BY <1>1, <2>1, <2>2, OrderStays, Zenon
  <1>5. Call'
    BY <1>0, <1>1, <1>2, <1>3, Zenon DEF Call
  <1> QED  BY <1>2, <1>4, <1>5, Zenon

\* run_op of the receiver: the read goes for the queue.
LEMMA RunInOrder ==
    ASSUME MsgTypes, Uniprocessor, One, Waiting, Call, Order, Kept, RunOp
    PROVE  One' /\ Waiting' /\ Call' /\ Order' /\ Kept'
  <1>0. Receiver \in MsgTasks /\ Receiver \notin Senders /\ Senders \subseteq MsgTasks
    BY MessagesAssumption, Zenon DEF MsgTasks
  <1>1. /\ msgPc[Receiver] = "run" /\ MsgGoto(Receiver, IF reads \in readOps THEN "read" ELSE "out")
        /\ UNCHANGED <<message_queue, readOps, sent, reads, popped, readBuffer, served>>
    BY Zenon DEF RunOp
  <1>2. /\ \A u \in MsgTasks : u # Receiver => msgPc[u] = "out" /\ msgPc'[u] = "out"
        /\ One'
    BY <1>0, <1>1, OthersOut, OneStays, Zenon
  <1>3. reads \in readOps /\ msgPc'[Receiver] = "read" /\ ticks' = ticks
    BY <1>0, <1>1, Moves, Zenon DEF Call
  <1>4. Waiting' /\ Order' /\ Kept'
    <2>1. ticks' \in Nat /\ ticks' >= ticks
      BY <1>3 DEF MsgTypes
    <2>2. Waiting'
      BY <1>1, <1>3, WaitingStays, Zenon
    <2> QED  BY <1>1, <2>1, <2>2, OrderStays, Zenon
  <1>5. Call'
    BY <1>0, <1>1, <1>2, <1>3, Zenon DEF Call
  <1> QED  BY <1>2, <1>4, <1>5, Zenon

\* A message is put behind the others.
LEMMA SendInOrder ==
    ASSUME NEW s \in Senders, MsgTypes, OnItsWay, Uniprocessor, One, Waiting, Call, Order, Kept,
           Send(s)
    PROVE  One' /\ Waiting' /\ Call' /\ Order' /\ Kept'
  <1>0. Receiver \in MsgTasks /\ Receiver \notin Senders /\ Senders \subseteq MsgTasks
    BY MessagesAssumption, Zenon DEF MsgTasks
  <1>1. /\ MsgEnter(s) /\ MsgGoto(s, "check") /\ msgPc[s] = "out"
        /\ UNCHANGED <<readOps, reads, popped, readBuffer, served>>
    BY Zenon DEF Send, AddMessage, MsgEnter
  <1>2. /\ \A u \in MsgTasks : u # s => msgPc[u] = "out" /\ msgPc'[u] = "out"
        /\ One' /\ msgPc'[s] = "check" /\ ticks' = ticks
    BY <1>0, <1>1, OthersOut, OneStays, Moves, Zenon
  <1>3. PICK e \in Expiries :
                 /\ sent' = [sent EXCEPT ![s] = Append(@, e)]
                 /\ Len(sent'[s]) = Len(sent[s]) + 1 /\ sent'[s] = Append(sent[s], e)
                 /\ [from |-> s, n |-> Len(sent[s]) + 1, expires |-> e] \in Packets
                 /\ message_queue' = Append(Unexpired(message_queue, ticks),
                                            [from |-> s, n |-> Len(sent[s]) + 1, expires |-> e])
    BY SendTypes, Zenon
  <1> DEFINE m == [from |-> s, n |-> Len(sent[s]) + 1, expires |-> e]
             q == message_queue
             len == Len(message_queue')
  <1>4. m.from = s /\ m.n = Len(sent[s]) + 1 /\ m.expires = e
    BY Zenon
  <1>5. m \in Packets /\ message_queue' = Append(Unexpired(q, ticks), m)
    BY <1>3, Zenon
  <1> HIDE DEF m
  <1>6. PICK d \in 0..Len(q) :
           /\ len = Len(q) - d + 1
           /\ \A i \in 1..len - 1 : i + d \in 1..Len(q) /\ message_queue'[i] = q[i + d]
           /\ message_queue'[len] = m
           /\ \A i \in 1..d : q[i].expires <= ticks
    <2> DEFINE u == Unexpired(q, ticks)
    <2>1. u \in Seq(Packets)
      BY DropsExpired, Zenon DEF MsgTypes
    <2>2. PICK d \in 0..Len(q) :
                 /\ Len(u) = Len(q) - d
                 /\ \A i \in 1..Len(q) - d : u[i] = q[i + d]
                 /\ \A i \in 1..d : q[i].expires <= ticks
      BY DropsExpired, Zenon DEF MsgTypes
    <2> HIDE DEF u
    <2>3. q \in Seq(Packets) /\ Len(q) \in Nat
      BY DEF MsgTypes
    <2>4. /\ len = Len(u) + 1 /\ message_queue'[len] = m
          /\ \A i \in 1..Len(u) : message_queue'[i] = u[i]
      BY <1>5, <2>1 DEF u
    <2> HIDE DEF q, len
    <2>5. /\ len = Len(q) - d + 1
          /\ \A i \in 1..len - 1 : i + d \in 1..Len(q) /\ message_queue'[i] = q[i + d]
      BY <2>2, <2>3, <2>4
    <2> QED  BY <2>2, <2>4, <2>5, Zenon
  <1>7. \A u \in Senders : /\ Len(sent[u]) \in Nat /\ Len(sent'[u]) >= Len(sent[u])
                           /\ \A n \in 1..Len(sent[u]) : sent'[u][n] = sent[u][n]
    <2>1. ASSUME NEW u \in Senders
          PROVE  /\ Len(sent[u]) \in Nat /\ Len(sent'[u]) >= Len(sent[u])
                 /\ \A n \in 1..Len(sent[u]) : sent'[u][n] = sent[u][n]
      <3>1. sent[u] \in Seq(Expiries)
        BY Zenon DEF MsgTypes
      <3>2. CASE u = s
        BY <1>3, <3>1, <3>2
      <3>3. CASE u # s
        <4>1. sent'[u] = sent[u]
          BY <1>3, <3>3, Zenon DEF MsgTypes
        <4> QED  BY <3>1, <4>1
      <3> QED  BY <3>2, <3>3, Zenon
    <2> QED  BY <2>1, Zenon
  <1>8. ASSUME NEW p \in Packets, Known(p, sent)
        PROVE  Known(p, sent') /\ Before(p, m)
    <2>1. p.from \in Senders /\ p.n \in Nat /\ p.n >= 1
      BY Packet, MessagesAssumption
    <2>2. p.n <= Len(sent[p.from]) /\ p.expires = sent[p.from][p.n]
      BY <1>8, Zenon DEF Known
    <2>3. Known(p, sent')
      BY <1>7, <2>1, <2>2, SMTT(30) DEF Known
    <2>4. Before(p, m)
      BY <1>4, <1>7, <2>1, <2>2, SMTT(30) DEF Before
    <2> QED  BY <2>3, <2>4, Zenon
  <1>9. Known(m, sent')
    <2>1. sent[s] \in Seq(Expiries)
      BY Zenon DEF MsgTypes
    <2>2. sent'[s][Len(sent[s]) + 1] = e
      BY <1>3, <2>1, SMTT(30)
    <2> QED  BY <1>3, <1>4, <1>7, <2>2 DEF Known
  <1>10. /\ \A i \in 1..Len(q) : q[i] \in Packets /\ Known(q[i], sent)
         /\ \A i, j \in 1..Len(q) : i < j => Before(q[i], q[j])
    BY SMTT(30) DEF Order, MsgTypes
  <1>11. \A i \in ReadOps : readBuffer[i] # None =>
            readBuffer[i] \in Packets /\ Known(readBuffer[i], sent)
    BY Zenon DEF Order, MsgTypes, Mail
  <1>12. \A u \in Senders : popped[u] # None => popped[u] \in Packets /\ Known(popped[u], sent)
    BY <1>0, Zenon DEF Order, MsgTypes, Mail
  <1>13. len \in Nat /\ \A i \in 1..len : i = len \/ i \in 1..len - 1
    BY <1>6, SMTT(30) DEF MsgTypes
  <1> HIDE DEF len, q
  <1>14. Order'
    <2>1. ASSUME NEW i \in 1..len
          PROVE  Known(message_queue'[i], sent')
      BY <1>6, <1>8, <1>9, <1>10, <1>13, Zenon
    <2>2. ASSUME NEW i \in 1..len, NEW j \in 1..len, i < j
          PROVE  Before(message_queue'[i], message_queue'[j])
      <3>1. i \in 1..len - 1
        BY <1>13, <2>2
      <3>2. CASE j = len
        BY <1>6, <1>8, <1>10, <3>1, <3>2, Zenon
      <3>3. CASE j \in 1..len - 1
        <4>1. /\ i + d \in 1..Len(q) /\ message_queue'[i] = q[i + d]
              /\ j + d \in 1..Len(q) /\ message_queue'[j] = q[j + d]
          BY <1>6, <3>1, <3>3, Zenon
        <4>2. i + d < j + d
          BY <2>2
        <4> QED  BY <1>10, <4>1, <4>2, Zenon
      <3> QED  BY <1>13, <3>2, <3>3, Zenon
    <2>3. ASSUME NEW i \in ReadOps, readBuffer[i] # None, NEW j \in 1..len
          PROVE  Before(readBuffer[i], message_queue'[j])
      <3>1. CASE j = len
        BY <1>6, <1>8, <1>11, <2>3, <3>1, ZenonT(60)
      <3>2. CASE j \in 1..len - 1
        BY <1>6, <2>3, <3>2, Zenon DEF Order, q
      <3> QED  BY <1>13, <3>1, <3>2, Zenon
    <2>4. /\ \A i \in ReadOps : readBuffer[i] # None => Known(readBuffer[i], sent')
          /\ \A u \in Senders : popped[u] # None => Known(popped[u], sent')
      BY <1>8, <1>11, <1>12, Zenon
    <2>5. \A i \in ReadOps : readBuffer[i] # None =>
             /\ \A j \in ReadOps :
                   i < j /\ readBuffer[j] # None => Before(readBuffer[i], readBuffer[j])
             /\ \A u \in Senders : popped[u] # None => Before(readBuffer[i], popped[u])
      BY Zenon DEF Order
    <2> QED  BY <1>1, <2>1, <2>2, <2>3, <2>4, <2>5, Zenon DEF Order, len
  <1>15. Waiting'
    BY <1>0, <1>1, <1>2, WaitingStays, Zenon
  <1>16. Call'
    <2>1. readOps # {} => len = 1
      <3>1. ASSUME readOps # {} PROVE Len(q) = 0
        <4>1. ~Serving /\ msgPc[Receiver] = "out"
          BY <1>0, <1>1, <1>2, Zenon DEF Serving
        <4> QED  BY <3>1, <4>1 DEF OnItsWay, q
      <3> QED  BY <1>6, <3>1
    <2> QED  BY <1>0, <1>1, <1>2, <2>1, Zenon DEF Call, len
  <1>17. Kept'
    <2> SUFFICES ASSUME NEW k \in Packets, Known(k, sent'), ~(k.expires <= ticks)
                 PROVE  Somewhere(k)'
      BY <1>2, Zenon DEF Kept
    <2>1. CASE Known(k, sent)
      <3>1. Somewhere(k)
        BY <2>1, Zenon DEF Kept
      <3>2. CASE \E p \in 1..Len(q) : q[p] = k
        <4>1. PICK p \in 1..Len(q) : q[p] = k
          BY <3>2, Zenon
        <4>2. p \notin 1..d
          BY <1>6, <4>1, Zenon
        <4>3. p - d \in 1..len - 1 /\ (p - d) + d = p /\ p - d \in 1..len
          BY <1>6, <1>13, <4>2
        <4>4. message_queue'[p - d] = k
          BY <1>6, <4>1, <4>3, Zenon
        <4> QED  BY <4>3, <4>4, Zenon DEF Somewhere, len
      <3>3. CASE ~\E p \in 1..Len(q) : q[p] = k
        BY <1>1, <3>1, <3>3, Zenon DEF Somewhere, q
      <3> QED  BY <3>2, <3>3, Zenon
    <2>2. CASE ~Known(k, sent)
      <3>0. k.from \in Senders /\ k.n \in Nat /\ k.n >= 1
        BY Packet, MessagesAssumption
      <3>1. k.n <= Len(sent'[k.from]) /\ k.expires = sent'[k.from][k.n]
        BY Zenon DEF Known
      <3>2. ~(k.n <= Len(sent[k.from]))
        BY <1>7, <2>2, <3>0, <3>1, SMTT(30) DEF Known
      <3>3. k.from = s
        BY <1>3, <3>0, <3>1, <3>2, Zenon DEF MsgTypes
      <3>4. k.n = Len(sent[s]) + 1
        BY <1>3, <1>7, <3>0, <3>1, <3>2, <3>3, SMTT(30)
      <3>5. k.expires = e
        BY <1>4, <1>9, <3>1, <3>3, <3>4, Zenon DEF Known
      <3>6. k = m
        BY <3>3, <3>4, <3>5, Zenon DEF m, Packets
      <3>7. len \in 1..len /\ message_queue'[len] = k
        BY <1>6, <1>13, <3>6
      <3> QED  BY <3>7, Zenon DEF Somewhere, len
    <2> QED  BY <2>1, <2>2, Zenon
  <1> QED  BY <1>2, <1>14, <1>15, <1>16, <1>17, Zenon

\* A sender takes the message that is there for the reads that wait.
LEMMA PopInOrder ==
    ASSUME NEW s \in Senders, MsgTypes, Uniprocessor, One, Waiting, Call, Order, Kept, PopMail(s)
    PROVE  One' /\ Waiting' /\ Call' /\ Order' /\ Kept'
  <1>0. Receiver \in MsgTasks /\ Receiver \notin Senders /\ Senders \subseteq MsgTasks
    BY MessagesAssumption, Zenon DEF MsgTasks
  <1>1. /\ msgPc[s] = "pop" /\ PopMessage(s)
        /\ MsgGoto(s, IF popped'[s] = None THEN "out" ELSE "serve")
        /\ UNCHANGED <<readOps, sent, reads, readBuffer, served>>
    BY Zenon DEF PopMail
  <1>2. /\ \A u \in MsgTasks : u # s => msgPc[u] = "out" /\ msgPc'[u] = "out"
        /\ One' /\ msgPc'[s] = (IF popped'[s] = None THEN "out" ELSE "serve") /\ ticks' = ticks
    BY <1>0, <1>1, OthersOut, OneStays, Moves, Zenon
  <1>3. Waiting'
    BY <1>0, <1>1, <1>2, WaitingStays, Zenon
  <1>4. popped[s] = None /\ \A u \in Senders : u # s => popped[u] = None
    BY <1>0, <1>1, <1>2, Zenon DEF Call
  <1>5. CASE message_queue = <<>>
    <2>1. message_queue' = message_queue /\ popped' = [popped EXCEPT ![s] = None]
      BY <1>0, <1>1, <1>5, Pops, Zenon
    <2>2. \A u \in Senders : popped'[u] = popped[u] /\ popped'[u] = None
      BY <1>0, <1>4, <2>1, Zenon DEF MsgTypes
    <2>3. Order' /\ Kept'
      <3>1. ticks' \in Nat /\ ticks' >= ticks
        BY <1>2 DEF MsgTypes
      <3> QED  BY <1>1, <2>1, <2>2, <3>1, OrderStays, Zenon
    <2>4. Call'
      BY <1>0, <1>1, <1>2, <2>2, Zenon DEF Call
    <2> QED  BY <1>2, <1>3, <2>3, <2>4, Zenon
  <1>6. CASE message_queue # <<>>
    <2> DEFINE m == message_queue[1]
    <2>1. Len(message_queue) = 1 /\ readOps # {}
      BY <1>1, <1>6, Zenon DEF Call
    <2>2. /\ message_queue' = Tail(message_queue) /\ popped' = [popped EXCEPT ![s] = m]
          /\ m \in Packets /\ m # None
      <3>1. Head(message_queue) = m
        BY <1>6 DEF MsgTypes
      <3> HIDE DEF m
      <3> QED  BY <1>0, <1>1, <1>6, <3>1, Pops, Zenon
    <2>3. message_queue' = <<>> /\ Len(message_queue') = 0
      BY <2>1, <2>2 DEF MsgTypes
    <2> HIDE DEF m
    <2>4. popped'[s] = m /\ \A u \in Senders : u # s => popped'[u] = None
      BY <1>0, <1>4, <2>2, Zenon DEF MsgTypes
    <2>5. 1 \in 1..Len(message_queue) /\ \A p \in 1..Len(message_queue) : p = 1
      BY <2>1
    <2>6. Known(m, sent) /\ \A i \in ReadOps : readBuffer[i] # None => Before(readBuffer[i], m)
      BY <2>5, Zenon DEF Order, m
    <2>7. Call'
      BY <1>0, <1>1, <1>2, <2>1, <2>2, <2>3, <2>4, Zenon DEF Call
    <2>8. Order'
      <3>1. \A i \in ReadOps : readBuffer[i] # None =>
             /\ Known(readBuffer[i], sent)
             /\ \A j \in ReadOps :
                   i < j /\ readBuffer[j] # None => Before(readBuffer[i], readBuffer[j])
        BY Zenon DEF Order
      <3>2. \A u \in Senders : popped'[u] # None => popped'[u] = m
        BY <2>4, Zenon
      <3>3. \A p \in 1..Len(message_queue') : FALSE
        BY <2>3, SMTT(30)
      <3> QED  BY <1>1, <2>6, <3>1, <3>2, <3>3, Zenon DEF Order
    <2>9. ASSUME NEW k \in Packets, Known(k, sent), ~(k.expires <= ticks)
          PROVE  Somewhere(k)'
      <3>1. Somewhere(k) /\ k # None
        BY <2>9, NoPacket, Zenon DEF Kept
      <3>2. CASE \E p \in 1..Len(message_queue) : message_queue[p] = k
        BY <2>4, <2>5, <3>2, Zenon DEF Somewhere, m
      <3>3. CASE \E i \in ReadOps : readBuffer[i] = k
        BY <1>1, <3>3, Zenon DEF Somewhere
      <3> QED  BY <1>4, <3>1, <3>2, <3>3, Zenon DEF Somewhere
    <2>10. Kept'
      BY <1>1, <1>2, <2>9, Zenon DEF Kept
    <2> QED  BY <1>2, <1>3, <2>7, <2>8, <2>10, Zenon
  <1> QED  BY <1>5, <1>6, Zenon

\* The oldest read that waits gets it.
LEMMA ServeInOrder ==
    ASSUME NEW s \in Senders, MsgTypes, Uniprocessor, One, Waiting, Call, Order, Kept, Serve(s)
    PROVE  One' /\ Waiting' /\ Call' /\ Order' /\ Kept'
  <1>0. Receiver \in MsgTasks /\ Receiver \notin Senders /\ Senders \subseteq MsgTasks
    BY MessagesAssumption, Zenon DEF MsgTasks
  <1> DEFINE f == FirstOp
             m == popped[s]
  <1>1. msgPc[s] = "serve" /\ MsgGoto(s, "pop") /\ UNCHANGED <<message_queue, sent, reads>>
    BY Zenon DEF Serve
  <1>2. /\ \A u \in MsgTasks : u # s => msgPc[u] = "out" /\ msgPc'[u] = "out"
        /\ One' /\ msgPc'[s] = "pop" /\ ticks' = ticks
    BY <1>0, <1>1, OthersOut, OneStays, Moves, Zenon
  <1>3. /\ readOps # {} /\ message_queue = <<>> /\ Len(message_queue) = 0 /\ m # None
        /\ \A u \in Senders : u # s => popped[u] = None
    BY <1>0, <1>1, <1>2 DEF Call
  <1>4. /\ f \in readOps /\ (\A j \in readOps : f <= j)
        /\ f \in ReadOps /\ f \in 1..reads /\ reads \in Nat
    BY <1>3, FirstIsOldest, Zenon DEF MsgTypes
  <1>5. /\ readOps' = readOps \ {f}
        /\ readBuffer' = [readBuffer EXCEPT ![f] = m]
        /\ served' = [served EXCEPT ![f] = served[f] + 1]
        /\ popped' = [popped EXCEPT ![s] = None]
    BY <1>3, Zenon DEF Serve
  <1> HIDE DEF f, m
  <1>6. /\ readBuffer'[f] = m /\ served'[f] = served[f] + 1 /\ served[f] \in Nat
        /\ \A i \in ReadOps : i # f => readBuffer'[i] = readBuffer[i] /\ served'[i] = served[i]
    BY <1>4, <1>5, Zenon DEF MsgTypes
  <1>7. \A u \in Senders : popped'[u] = None
    BY <1>0, <1>3, <1>5, Zenon DEF MsgTypes
  <1>8. \A i \in ReadOps : readBuffer[i] # None <=> i <= reads /\ i \notin readOps
    BY <1>0, <1>2, Zenon DEF Waiting, Has
  <1>9. Waiting'
    <2>1. ASSUME NEW i \in readOps', NEW j \in 1..reads, i < j PROVE j \in readOps'
      <3>1. i \in readOps /\ f <= i /\ i \in Nat
        BY <1>4, <1>5 DEF MsgTypes
      <3>2. j \in readOps /\ j # f
        BY <1>4, <2>1, <3>1 DEF Waiting
      <3> QED  BY <1>5, <3>2, Zenon
    <2>2. ASSUME NEW i \in ReadOps
          PROVE  served'[i] > 0 <=> i <= reads /\ i \notin readOps'
      <3>1. CASE i = f
        BY <1>4, <1>5, <1>6, <3>1
      <3>2. CASE i # f
        BY <1>5, <1>6, <3>2, Zenon DEF Waiting
      <3> QED  BY <3>1, <3>2, Zenon
    <2>3. ASSUME NEW i \in ReadOps
          PROVE  readBuffer'[i] # None <=> i <= reads /\ i \notin readOps'
      <3>1. CASE i = f
        BY <1>3, <1>4, <1>5, <1>6, <3>1, SMTT(30)
      <3>2. CASE i # f
        BY <1>5, <1>6, <1>8, <3>2, Zenon
      <3> QED  BY <3>1, <3>2, Zenon
    <2> QED  BY <1>0, <1>1, <1>2, <2>1, <2>2, <2>3, Zenon DEF Waiting, Has
  <1>10. Call'
    BY <1>0, <1>1, <1>2, <1>3, <1>7, ZenonT(60) DEF Call
  <1>11. Order'
    <2>1. \A i \in ReadOps : readBuffer[i] # None => i < f
      <3>1. ASSUME NEW i \in ReadOps, readBuffer[i] # None, ~(i < f) PROVE FALSE
        <4>1. i \in 1..reads /\ i \notin readOps
          BY <1>8, <3>1 DEF ReadOps, MsgTypes
        <4>2. i > f
          BY <1>4, <3>1, <4>1, SMTT(30)
        <4> QED  BY <1>4, <4>1, <4>2, Zenon DEF Waiting
      <3> QED  BY <3>1, Zenon
    <2>2. Known(m, sent) /\ \A i \in ReadOps : readBuffer[i] # None => Before(readBuffer[i], m)
      BY <1>3, Zenon DEF Order, m
    <2>3. \A i \in ReadOps : readBuffer[i] # None =>
             /\ Known(readBuffer[i], sent)
             /\ \A j \in ReadOps :
                   i < j /\ readBuffer[j] # None => Before(readBuffer[i], readBuffer[j])
      BY Zenon DEF Order
    <2>4. ASSUME NEW i \in ReadOps, readBuffer'[i] # None PROVE Known(readBuffer'[i], sent)
      BY <1>6, <2>2, <2>3, <2>4, Zenon
    <2>5. ASSUME NEW i \in ReadOps, NEW j \in ReadOps,
               readBuffer'[i] # None, readBuffer'[j] # None, i < j
          PROVE  Before(readBuffer'[i], readBuffer'[j])
      <3>1. CASE j = f
        BY <1>6, <2>2, <2>5, <3>1, SMTT(30) DEF ReadOps
      <3>2. CASE j # f
        <4>1. readBuffer[j] # None /\ j < f
          BY <1>6, <2>1, <2>5, <3>2, Zenon
        <4>2. i # f
          BY <1>4, <2>5, <4>1 DEF ReadOps
        <4>3. readBuffer'[i] = readBuffer[i] /\ readBuffer'[j] = readBuffer[j]
          BY <1>6, <3>2, <4>2, Zenon
        <4> QED  BY <2>3, <2>5, <4>3, Zenon
      <3> QED  BY <3>1, <3>2, Zenon
    <2> QED  BY <1>1, <1>3, <1>7, <2>4, <2>5, SMTT(30) DEF Order
  <1>12. ASSUME NEW k \in Packets, Known(k, sent), ~(k.expires <= ticks)
         PROVE  Somewhere(k)'
    <2>1. Somewhere(k) /\ k # None
      BY <1>12, NoPacket, Zenon DEF Kept
    <2>2. CASE \E u \in Senders : popped[u] = k
      <3>1. m = k
        BY <1>3, <2>1, <2>2, Zenon DEF m
      <3> QED  BY <1>4, <1>6, <3>1, Zenon DEF Somewhere
    <2>3. CASE \E i \in ReadOps : readBuffer[i] = k
      <3>1. PICK i \in ReadOps : readBuffer[i] = k
        BY <2>3, Zenon
      <3>2. i # f
        BY <1>4, <1>8, <2>1, <3>1, Zenon
      <3> QED  BY <1>6, <3>1, <3>2, Zenon DEF Somewhere
    <2> QED  BY <1>3, <2>1, <2>2, <2>3, SMTT(30) DEF Somewhere
  <1>13. Kept'
    BY <1>1, <1>2, <1>12, Zenon DEF Kept
  <1> QED  BY <1>2, <1>9, <1>10, <1>11, <1>13, Zenon

\* A new read waits behind the others.
LEMMA AddInOrder ==
    ASSUME MsgTypes, Uniprocessor, One, Waiting, Call, Order, Kept, AddOp
    PROVE  One' /\ Waiting' /\ Call' /\ Order' /\ Kept'
  <1>0. Receiver \in MsgTasks /\ Receiver \notin Senders /\ Senders \subseteq MsgTasks
    BY MessagesAssumption, Zenon DEF MsgTasks
  <1>1. /\ MsgEnter(Receiver) /\ msgPc[Receiver] = "out" /\ MsgGoto(Receiver, "run")
        /\ reads' = reads + 1 /\ readOps' = readOps \cup {reads + 1}
        /\ UNCHANGED <<message_queue, sent, popped, readBuffer, served>>
    BY Zenon DEF AddOp, MsgEnter
  <1>2. /\ \A u \in MsgTasks : u # Receiver => msgPc[u] = "out" /\ msgPc'[u] = "out"
        /\ One' /\ msgPc'[Receiver] = "run" /\ ticks' = ticks
    BY <1>0, <1>1, OthersOut, OneStays, Moves, Zenon
  <1>3. Order' /\ Kept'
    <2>1. ticks' \in Nat /\ ticks' >= ticks
      BY <1>2 DEF MsgTypes
    <2> QED  BY <1>1, <2>1, OrderStays, Zenon
  <1>4. Call'
    BY <1>0, <1>1, <1>2, Zenon DEF Call
  <1>5. Waiting'
    <2>1. reads \in Nat /\ readOps \subseteq 1..reads
      BY Zenon DEF MsgTypes
    <2>2. ASSUME NEW i \in ReadOps
          PROVE  (i <= reads' /\ i \notin readOps') <=> (i <= reads /\ i \notin readOps)
      BY <1>1, <2>1 DEF ReadOps
    <2>3. \A i \in ReadOps : Has(i)' <=> Has(i)
      BY <1>1, <1>2, <2>2, Zenon DEF Has
    <2>4. \A i \in readOps', j \in 1..reads' : i < j => j \in readOps'
      BY <1>1, <2>1 DEF Waiting
    <2> QED  BY <1>1, <2>2, <2>3, <2>4, Zenon DEF Waiting
  <1> QED  BY <1>2, <1>3, <1>4, <1>5, Zenon

\* A read takes the first message only when no older read waits.
LEMMA ReadInOrder ==
    ASSUME MsgTypes, OnItsWay, Uniprocessor, One, Waiting, Call, Order, Kept, ReadMail
    PROVE  One' /\ Waiting' /\ Call' /\ Order' /\ Kept'
  <1>0. Receiver \in MsgTasks /\ Receiver \notin Senders /\ Senders \subseteq MsgTasks
    BY MessagesAssumption, Zenon DEF MsgTasks
  <1>1. /\ msgPc[Receiver] = "read" /\ PopMessage(Receiver)
        /\ UNCHANGED <<readOps, sent, reads, served>>
    BY Zenon DEF ReadMail
  <1>2. /\ \A u \in MsgTasks : u # Receiver => msgPc[u] = "out"
        /\ \A u \in Senders : msgPc[u] = "out" /\ popped[u] = None
        /\ reads \in readOps /\ reads \in ReadOps /\ reads \in Nat
    BY <1>0, <1>1, OthersOut, MessagesAssumption DEF Call, MsgTypes, ReadOps
  <1>3. \A i \in ReadOps : readBuffer[i] # None <=> i <= reads /\ i \notin readOps
    BY <1>1, Zenon DEF Waiting, Has
  <1>4. CASE message_queue = <<>>
    <2>1. message_queue' = message_queue /\ popped' = [popped EXCEPT ![Receiver] = None]
      BY <1>0, <1>1, <1>4, Pops, Zenon
    <2>2. popped'[Receiver] = None /\ \A u \in Senders : popped'[u] = popped[u]
      BY <1>0, <2>1, Zenon DEF MsgTypes
    <2>3. MsgGoto(Receiver, "out") /\ readBuffer' = readBuffer
      BY <2>2, Zenon DEF ReadMail
    <2>4. /\ \A u \in Senders : msgPc'[u] = "out"
          /\ One' /\ msgPc'[Receiver] = "out" /\ ticks' = ticks
      BY <1>0, <1>2, <2>3, OneStays, Moves, Zenon
    <2>5. Waiting' /\ Order' /\ Kept'
      <3>1. ticks' \in Nat /\ ticks' >= ticks
        BY <2>4 DEF MsgTypes
      <3>2. Waiting'
        BY <1>1, <2>3, <2>4, WaitingStays, Zenon
      <3> QED  BY <1>1, <2>1, <2>2, <2>3, <3>1, <3>2, OrderStays, Zenon
    <2>6. Call'
      BY <1>2, <2>2, <2>4, Zenon DEF Call
    <2> QED  BY <2>4, <2>5, <2>6, Zenon
  <1>5. CASE message_queue # <<>>
    <2> DEFINE m == message_queue[1]
               q == message_queue
               len == Len(message_queue')
    <2>1. readOps = {reads}
      <3>1. ~Serving
        BY <1>2, Zenon DEF Serving
      <3> QED  BY <1>2, <1>5, <3>1, Zenon DEF OnItsWay
    <2>2. /\ message_queue' = Tail(q) /\ popped' = [popped EXCEPT ![Receiver] = m]
          /\ m \in Packets /\ m # None
      BY <1>0, <1>1, <1>5, Pops, SMTT(30) DEF MsgTypes
    <2>3. popped'[Receiver] = m /\ \A u \in Senders : popped'[u] = None
      BY <1>0, <1>2, <2>2, Zenon DEF MsgTypes
    <2>4. MsgGoto(Receiver, "finish") /\ readBuffer' = [readBuffer EXCEPT ![reads] = m]
      BY <2>2, <2>3, Zenon DEF ReadMail
    <2>5. /\ \A u \in Senders : msgPc'[u] = "out"
          /\ One' /\ msgPc'[Receiver] = "finish" /\ ticks' = ticks
      BY <1>0, <1>2, <2>4, OneStays, Moves, Zenon
    <2>6. /\ q \in Seq(Packets) /\ Len(q) >= 1 /\ len = Len(q) - 1
          /\ \A p \in 1..len : p + 1 \in 1..Len(q) /\ message_queue'[p] = q[p + 1]
      BY <1>5, <2>2, SMTT(30) DEF MsgTypes
    <2>7. /\ \A p \in 1..Len(q) : Known(q[p], sent)
          /\ \A p, r \in 1..Len(q) : p < r => Before(q[p], q[r])
          /\ \A i \in ReadOps : readBuffer[i] # None =>
                /\ Known(readBuffer[i], sent)
                /\ \A j \in ReadOps :
                      i < j /\ readBuffer[j] # None => Before(readBuffer[i], readBuffer[j])
                /\ \A p \in 1..Len(q) : Before(readBuffer[i], q[p])
      BY Zenon DEF Order
    <2>8. m = q[1] /\ 1 \in 1..Len(q) /\ len \in Nat
      BY <2>6
    <2> HIDE DEF m, q, len
    <2>9. /\ readBuffer'[reads] = m
          /\ \A i \in ReadOps : i # reads => readBuffer'[i] = readBuffer[i]
      BY <1>2, <2>4, Zenon DEF MsgTypes
    <2>10. Call'
      BY <1>1, <1>2, <2>1, <2>3, <2>5, Zenon DEF Call
    <2>11. Waiting'
      <3>1. ASSUME NEW i \in ReadOps PROVE readBuffer'[i] # None <=> Has(i)'
        <4>1. CASE i = reads
          BY <1>1, <1>2, <2>2, <2>5, <2>9, <4>1, SMTT(30) DEF Has
        <4>2. CASE i # reads
          BY <1>1, <1>3, <2>9, <4>2, Zenon DEF Has
        <4> QED  BY <4>1, <4>2, Zenon
      <3> QED  BY <1>1, <3>1, Zenon DEF Waiting
    <2>12. Order'
      <3>1. ASSUME NEW p \in 1..len PROVE Known(message_queue'[p], sent)
        BY <2>6, <2>7, Zenon
      <3>2. ASSUME NEW p \in 1..len, NEW r \in 1..len, p < r
            PROVE  Before(message_queue'[p], message_queue'[r])
        <4>1. p + 1 < r + 1
          BY <3>2
        <4> QED  BY <2>6, <2>7, <4>1, Zenon
      <3>3. ASSUME NEW i \in ReadOps, readBuffer'[i] # None
            PROVE  /\ Known(readBuffer'[i], sent)
                   /\ \A p \in 1..len : Before(readBuffer'[i], message_queue'[p])
        <4>1. CASE i = reads
          <5>1. \A p \in 1..len : 1 < p + 1
            BY <2>8
          <5> QED  BY <2>6, <2>7, <2>8, <2>9, <4>1, <5>1, Zenon
        <4>2. CASE i # reads
          BY <2>6, <2>7, <2>9, <3>3, <4>2, Zenon
        <4> QED  BY <4>1, <4>2, Zenon
      <3>4. ASSUME NEW i \in ReadOps, NEW j \in ReadOps,
                 readBuffer'[i] # None, readBuffer'[j] # None, i < j
            PROVE  Before(readBuffer'[i], readBuffer'[j])
        <4>1. i # reads
          <5>1. j # reads => j <= reads
            BY <1>3, <2>9, <3>4, Zenon
          <5> QED  BY <1>2, <3>4, <5>1 DEF ReadOps
        <4>2. CASE j = reads
          BY <2>7, <2>8, <2>9, <3>4, <4>1, <4>2, Zenon
        <4>3. CASE j # reads
          BY <2>7, <2>9, <3>4, <4>1, <4>3, Zenon
        <4> QED  BY <4>2, <4>3, Zenon
      <3> QED  BY <1>1, <2>3, <3>1, <3>2, <3>3, <3>4, Zenon DEF Order, len
    <2>13. ASSUME NEW k \in Packets, Known(k, sent), ~(k.expires <= ticks)
          PROVE  Somewhere(k)'
      <3>1. Somewhere(k) /\ k # None
        BY <2>13, NoPacket, Zenon DEF Kept
      <3>2. CASE \E p \in 1..Len(q) : q[p] = k
        <4>1. PICK p \in 1..Len(q) : q[p] = k
          BY <3>2, Zenon
        <4>2. CASE p = 1
          BY <1>2, <2>8, <2>9, <4>1, <4>2, Zenon DEF Somewhere
        <4>3. CASE p # 1
          <5>1. p - 1 \in 1..len /\ (p - 1) + 1 = p
            BY <2>6, <4>3
          <5>2. message_queue'[p - 1] = k
            BY <2>6, <4>1, <5>1, Zenon
          <5> QED  BY <5>1, <5>2, Zenon DEF Somewhere, len
        <4> QED  BY <4>2, <4>3, Zenon
      <3>3. CASE \E i \in ReadOps : readBuffer[i] = k
        <4>1. PICK i \in ReadOps : readBuffer[i] = k
          BY <3>3, Zenon
        <4>2. i # reads
          BY <1>2, <1>3, <3>1, <4>1, Zenon
        <4> QED  BY <2>9, <4>1, <4>2, Zenon DEF Somewhere
      <3> QED  BY <1>2, <3>1, <3>2, <3>3, Zenon DEF Somewhere, q
    <2>14. Kept'
      BY <1>1, <2>5, <2>13, Zenon DEF Kept
    <2> QED  BY <2>5, <2>10, <2>11, <2>12, <2>14, Zenon
  <1> QED  BY <1>4, <1>5, Zenon

\* A read that has its message ends.
LEMMA FinishInOrder ==
    ASSUME MsgTypes, Uniprocessor, One, Waiting, Call, Order, Kept, Finish
    PROVE  One' /\ Waiting' /\ Call' /\ Order' /\ Kept'
  <1>0. Receiver \in MsgTasks /\ Receiver \notin Senders /\ Senders \subseteq MsgTasks
    BY MessagesAssumption, Zenon DEF MsgTasks
  <1>1. /\ msgPc[Receiver] = "finish" /\ MsgGoto(Receiver, "out") /\ readOps' = readOps \ {reads}
        /\ served' = [served EXCEPT ![reads] = IF reads \in readOps THEN served[reads] + 1
                                                                     ELSE served[reads]]
        /\ popped' = [popped EXCEPT ![Receiver] = None]
        /\ UNCHANGED <<message_queue, sent, reads, readBuffer>>
    BY Zenon DEF Finish
  <1>2. /\ \A u \in MsgTasks : u # Receiver => msgPc[u] = "out" /\ msgPc'[u] = "out"
        /\ One' /\ msgPc'[Receiver] = "out" /\ ticks' = ticks
    BY <1>0, <1>1, OthersOut, OneStays, Moves, Zenon
  <1>3. \A u \in Senders : popped'[u] = popped[u]
    BY <1>0, <1>1, Zenon DEF MsgTypes
  <1>4. Order' /\ Kept'
    <2>1. ticks' \in Nat /\ ticks' >= ticks
      BY <1>2, SMTT(30) DEF MsgTypes
    <2> QED  BY <1>1, <1>3, <2>1, OrderStays, Zenon
  <1>5. readOps = {reads} /\ readOps' = {} /\ reads \in ReadOps /\ reads \in Nat
    BY <1>1, MessagesAssumption, SMTT(30) DEF Call, MsgTypes, ReadOps
  <1>6. Call'
    BY <1>0, <1>1, <1>2, <1>3, <1>5, Zenon DEF Call
  <1>7. Waiting'
    <2>1. \A i \in ReadOps : Has(i)' <=> Has(i)
      BY <1>1, <1>2, <1>5, Zenon DEF Has
    <2>2. served'[reads] > 0 /\ \A i \in ReadOps : i # reads => served'[i] = served[i]
      BY <1>1, <1>5 DEF MsgTypes
    <2>3. ASSUME NEW i \in ReadOps PROVE served'[i] > 0 <=> i <= reads' /\ i \notin readOps'
      BY <1>1, <1>5, <2>2 DEF Waiting
    <2> QED  BY <1>1, <1>5, <2>1, <2>3, Zenon DEF Waiting
  <1> QED  BY <1>2, <1>4, <1>6, <1>7, Zenon

-----------------------------------------------------------------------------

\* Every step keeps the invariant.
LEMMA MsgStep ==
    ASSUME MsgInv, [MsgNext]_<<ncpus, msgVars>>
    PROVE  MsgInv'
  <1>0. MsgTypes /\ OnItsWay /\ MsgTypes' /\ OnItsWay'
    BY TypesStep, OnItsWayStep, Zenon DEF MsgInv
  <1>1. ncpus' = ncpus
    BY Zenon DEF MsgNext, Send, CheckMessages, PopMail, Serve, AddOp, RunOp, ReadMail, Finish, Tick,
                 MsgGoto
  <1>2. ASSUME Uniprocessor PROVE One' /\ Waiting' /\ Call' /\ Order' /\ Kept'
    <2>0. One /\ Waiting /\ Call /\ Order /\ Kept
      BY <1>2, Zenon DEF MsgInv
    <2>1. CASE Tick \/ UNCHANGED <<ncpus, msgVars>>
      <3>1. UNCHANGED <<msgPc, message_queue, readOps, sent, reads, popped, readBuffer, served>>
        BY <2>1, Zenon DEF Tick, msgVars
      <3>2. ticks' \in Nat /\ ticks' >= ticks
        BY <1>0, <2>1 DEF Tick, msgVars, MsgTypes
      <3>3. Waiting' /\ Order' /\ Kept'
        BY <1>0, <2>0, <3>1, <3>2, WaitingStays, OrderStays, Zenon
      <3>4. One' /\ Call'
        BY <2>0, <3>1, Zenon DEF One, Call
      <3> QED  BY <3>3, <3>4, Zenon
    <2>2. ASSUME NEW s \in Senders, Send(s) \/ CheckMessages(s) \/ PopMail(s) \/ Serve(s)
          PROVE  One' /\ Waiting' /\ Call' /\ Order' /\ Kept'
      BY <1>0, <1>2, <2>0, <2>2, SendInOrder, CheckInOrder, PopInOrder, ServeInOrder, Zenon
    <2>3. CASE AddOp \/ RunOp \/ ReadMail \/ Finish
      BY <1>0, <1>2, <2>0, <2>3, AddInOrder, RunInOrder, ReadInOrder, FinishInOrder, Zenon
    <2> QED  BY <2>1, <2>2, <2>3, Zenon DEF MsgNext
  <1> QED  BY <1>0, <1>1, <1>2, Zenon DEF MsgInv, Uniprocessor

\* The invariant holds before the first message.
LEMMA MsgStartsInOrder ==
    ASSUME MsgInit
    PROVE  MsgInv
  <1> USE MessagesAssumption DEF MsgInit
  <1>1. MsgTypes /\ OnItsWay
    BY MsgStarts, Zenon
  <1>2. One /\ Waiting
    BY DEF One, Waiting, Has, ReadOps
  <1>3. Call
    BY Zenon DEF Call, MsgTasks
  <1>4. Order
    BY DEF Order, MsgTasks
  <1>5. Kept
    <2>1. ASSUME NEW m \in Packets PROVE ~Known(m, sent)
      <3>1. m.from \in Senders /\ m.n \in Nat /\ m.n >= 1
        BY Packet
      <3> QED  BY <3>1 DEF Known
    <2> QED  BY <2>1, Zenon DEF Kept
  <1> QED  BY <1>1, <1>2, <1>3, <1>4, <1>5, Zenon DEF MsgInv

\* Reads of MessageIOProvider wait only on an empty queue, on any number of CPUs; on one,
\* they complete in the order they were made, the messages of one sender arrive in the
\* order they were sent, and none is lost before it expires.
THEOREM MailReachesReads ==
    MsgSpec => []MailArrives
  <1>1. MsgInit => MsgInv
    BY MsgStartsInOrder, Zenon
  <1>2. MsgInv /\ [MsgNext]_<<ncpus, msgVars>> => MsgInv'
    BY MsgStep, Zenon
  <1>3. ASSUME MsgInv PROVE MailArrives
    <2>0. MsgTypes /\ OnItsWay
      BY <1>3, Zenon DEF MsgInv
    <2>1. NobodyWaitsOnMail
      BY <2>0, NobodyOnItsWay, Zenon
    <2>2. ASSUME Uniprocessor PROVE NoneDropped
      <3> SUFFICES ASSUME NEW s \in Senders, NEW n \in 1..Len(sent[s]), ~(sent[s][n] <= ticks)
                   PROVE  \/ \E i \in 1..Len(message_queue) : Is(message_queue[i], s, n)
                          \/ \E t \in MsgTasks : Is(popped[t], s, n)
                          \/ \E i \in ReadOps : Is(readBuffer[i], s, n)
        BY Zenon DEF NoneDropped
      <3> DEFINE m == [from |-> s, n |-> n, expires |-> sent[s][n]]
      <3>1. sent[s] \in Seq(Expiries) /\ Len(sent[s]) <= MaxSends
        BY <2>0, Zenon DEF MsgTypes
      <3>2. sent[s][n] \in Expiries /\ n \in 1..MaxSends
        BY <3>1, MessagesAssumption
      <3>3. m \in Packets /\ m.from = s /\ m.n = n /\ m.expires = sent[s][n]
        BY <3>2, Zenon DEF Packets
      <3> HIDE DEF m
      <3>4. Known(m, sent)
        BY <3>3 DEF Known
      <3>5. Somewhere(m) /\ m # None
        BY <1>3, <2>2, <3>3, <3>4, NoPacket, Zenon DEF MsgInv, Kept
      <3> QED  BY <3>3, <3>5 DEF Somewhere, Is, MsgTasks
    <2>3. ASSUME Uniprocessor, NEW i \in ReadOps, NEW j \in ReadOps, i < j, served[j] > 0
          PROVE  /\ served[i] > 0
                 /\ readBuffer[i].from = readBuffer[j].from => readBuffer[i].n < readBuffer[j].n
      <3>0. Waiting /\ Order /\ reads \in Nat
        BY <1>3, <2>0, <2>3, Zenon DEF MsgInv, MsgTypes
      <3>1. j <= reads /\ j \notin readOps
        BY <2>3, <3>0, Zenon DEF Waiting
      <3>2. i <= reads /\ i \notin readOps
        BY <2>3, <3>0, <3>1 DEF Waiting, ReadOps
      <3>3. readBuffer[i] # None /\ readBuffer[j] # None /\ served[i] > 0
        BY <3>0, <3>1, <3>2, Zenon DEF Waiting, Has
      <3>4. Before(readBuffer[i], readBuffer[j])
        BY <2>3, <3>0, <3>3, Zenon DEF Order
      <3> QED  BY <3>3, <3>4, Zenon DEF Before
    <2> QED  BY <2>1, <2>2, <2>3, Zenon DEF MailArrives, InOrder
  <1> QED  BY <1>1, <1>2, <1>3, PTL DEF MsgSpec

=============================================================================
