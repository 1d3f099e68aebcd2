----------------------------- MODULE TcpConnection -----------------------------
(***************************************************************************)
(* A TCP connection, kernel/src/net/protocol/tcp/connection.rs.  The calls *)
(* of the kernel on a connection are operators that give the connection    *)
(* after the call, the operations it completed with their results, and the *)
(* packets it handed to net_respond.  The kernel is built without overflow *)
(* checks: sequence numbers wrap.                                          *)
(***************************************************************************)
EXTENDS Integers, Sequences, Functions

CONSTANTS
    SeqSpace,  \* sequence numbers are below it; 2^32
    MSS,     \* bytes in a segment
    NoOp     \* no operation

ASSUME SeqAssumption == SeqSpace \in Nat /\ SeqSpace % 2 = 0 /\ MSS \in Nat \ {0}

Plus(a, b) == (a + b) % SeqSpace

EOF == <<>>

\* res is what the operation returns: the bytes of a read, the length of a write.
Done(op, res) == [op |-> op, ok |-> TRUE, res |-> res]
Failed(op) == [op |-> op, ok |-> FALSE, res |-> EOF]

\* The result of a call.
Result(conn, done, out) == [conn |-> conn, done |-> done, out |-> out]

\* TcpConnection::new.  A connection somebody accepts was created by a SYN.
NewConnection(port, remote, isOutbound, onConnect) ==
    [state |-> IF isOutbound THEN "SynSent" ELSE "SynReceived",
     port |-> port, remote |-> remote, sent |-> 0, rcvd |-> 0, onConnect |-> onConnect,
     reads |-> <<>>, writes |-> <<>>, data |-> <<>>]

\* TcpHeader::create_packet
Packet(seq, ack, flags, data) == [seq |-> seq, ack |-> ack, flags |-> flags, data |-> data]

Is(flag, packet) == flag \in packet.flags

ActionForTcpPacket(conn, packet) ==
    IF Is("rst", packet) THEN "Close"
    ELSE CASE conn.state = "SynSent" ->
                 IF Is("syn", packet) /\ Is("ack", packet) THEN "ConnectAck" ELSE "Reset"
           [] conn.state = "SynReceived" ->
                 IF Is("ack", packet) /\ packet.ack = Plus(conn.sent, 1) THEN "Connect" ELSE "Reset"
           [] conn.state = "Established" ->
                 IF Is("fin", packet) THEN "FinAck" ELSE IF Is("syn", packet) THEN "Reset" ELSE "Enqueue"
           [] conn.state = "LastAck" -> "Close"

\* The writes at the head of the queue that an acknowledgement covers.
Acked(write, ack) == Plus(ack, SeqSpace - write.end) < SeqSpace \div 2

ProcessAck(conn, ack) ==
    LET n == CHOOSE n \in 0..Len(conn.writes) :
                /\ \A i \in 1..n : Acked(conn.writes[i], ack)
                /\ n < Len(conn.writes) => ~Acked(conn.writes[n + 1], ack)
        complete(i) == Done(conn.writes[i].op, conn.writes[i].len)
    IN  Result([conn EXCEPT !.writes = SubSeq(@, n + 1, Len(@))], [i \in 1..n |-> complete(i)], <<>>)

\* What a packet's ACK flag completes, before its data are looked at.
AckOf(conn, packet) ==
    IF Is("ack", packet) THEN ProcessAck(conn, packet.ack) ELSE Result(conn, <<>>, <<>>)

Answer(conn, ack, flags) == Packet(conn.sent, ack, flags, <<>>)

Shorter(a, b) == IF a < b THEN a ELSE b

\* Data go to the read that waits longest; what its buffer cannot hold, and
\* what nobody waits for, is kept.
Deliver(conn, packet) ==
    LET taken == IF conn.reads = <<>> THEN 0 ELSE Shorter(Head(conn.reads).len, Len(packet.data))
        kept == SubSeq(packet.data, taken + 1, Len(packet.data))
        next == [conn EXCEPT !.data = @ \o kept, !.rcvd = Plus(packet.seq, Len(packet.data))]
    IN  IF conn.reads = <<>>
        THEN Result(next, <<>>, <<>>)
        ELSE Result([next EXCEPT !.reads = Tail(@)],
                    <<Done(Head(conn.reads).op, SubSeq(packet.data, 1, taken))>>, <<>>)

\* Complete what waits, as a closed connection does.
EndReads(conn) == [i \in 1..Len(conn.reads) |-> Done(conn.reads[i].op, EOF)]
FailWrites(conn) == [i \in 1..Len(conn.writes) |-> Failed(conn.writes[i].op)]

-----------------------------------------------------------------------------
(* The arms of handle_packet. *)

HandleClose(conn) ==
    Result([conn EXCEPT !.reads = <<>>, !.writes = <<>>], EndReads(conn) \o FailWrites(conn), <<>>)

Established(conn, packet, action) ==
    [conn EXCEPT !.state = "Established", !.sent = Plus(@, 1), !.onConnect = NoOp,
                 !.rcvd = IF action = "ConnectAck" THEN Plus(packet.seq, 1) ELSE packet.seq]

HandleConnect(conn, packet, action) ==
    LET next == Established(conn, packet, action)
    IN  Result(next,
               IF conn.onConnect = NoOp THEN <<>> ELSE <<Done(conn.onConnect, "connected")>>,
               IF action = "ConnectAck" THEN <<Answer(next, Plus(packet.seq, 1), {"ack"})>> ELSE <<>>)

\* The slip of taking whatever comes after what is there.
HandleEnqueue_AnyOrder(conn, packet) ==
    LET acked == AckOf(conn, packet)
        given == Deliver(acked.conn, packet)
    IN  IF packet.data = <<>> THEN acked
        ELSE Result(given.conn, acked.done \o given.done, <<Answer(given.conn, given.conn.rcvd, {"ack"})>>)

HandleEnqueue(conn, packet) ==
    LET acked == AckOf(conn, packet)
        given == Deliver(acked.conn, packet)
    IN  IF packet.data = <<>> THEN acked
        ELSE IF packet.seq # conn.rcvd
        THEN Result(acked.conn, acked.done, <<Answer(acked.conn, conn.rcvd, {"ack"})>>)
        ELSE Result(given.conn, acked.done \o given.done, <<Answer(given.conn, given.conn.rcvd, {"ack"})>>)

\* A FIN is taken whatever its number; its data only in order.
HandleFin(conn, packet) ==
    LET acked == AckOf(conn, packet)
        given == IF packet.data = <<>> \/ packet.seq # conn.rcvd
                 THEN Result(acked.conn, <<>>, <<>>) ELSE Deliver(acked.conn, packet)
        next == [given.conn EXCEPT !.state = "LastAck", !.reads = <<>>]
    IN  Result(next, acked.done \o given.done \o EndReads(given.conn),
               <<Answer(next, Plus(next.rcvd, 1), {"fin", "ack"})>>)

HandleReset(conn, packet) ==
    Result(conn, <<>>, <<Answer(conn, Plus(packet.seq, 1), {"rst", "ack"})>>)

HandlePacket(conn, packet) ==
    LET action == ActionForTcpPacket(conn, packet)
    IN  CASE action = "Close" -> HandleClose(conn)
          [] action \in {"Connect", "ConnectAck"} -> HandleConnect(conn, packet, action)
          [] action = "Enqueue" -> HandleEnqueue(conn, packet)
          [] action = "FinAck" -> HandleFin(conn, packet)
          [] action = "Reset" -> HandleReset(conn, packet)

-----------------------------------------------------------------------------
(* The calls of tasks: write, read and close. *)

\* The segments of a write, each with the number its first byte has.
Segments(conn, data) ==
    [k \in 1..(Len(data) + MSS - 1) \div MSS |->
        Packet(Plus(conn.sent, (k - 1) * MSS), conn.rcvd, {"ack"},
               SubSeq(data, (k - 1) * MSS + 1, Shorter(k * MSS, Len(data))))]

Write(conn, data, op) ==
    IF conn.state # "Established"
    THEN Result(conn, <<Failed(op)>>, <<>>)
    ELSE LET end == Plus(conn.sent, Len(data))
         IN  Result([conn EXCEPT !.sent = end,
                                 !.writes = Append(@, [end |-> end, len |-> Len(data), op |-> op])],
                    <<>>, Segments(conn, data))

Read(conn, len, op) ==
    LET n == Shorter(len, Len(conn.data))
    IN  CASE conn.data # <<>> ->
                 Result([conn EXCEPT !.data = SubSeq(@, n + 1, Len(@))],
                        <<Done(op, SubSeq(conn.data, 1, n))>>, <<>>)
          [] conn.data = <<>> /\ conn.state = "LastAck" -> Result(conn, <<Done(op, EOF)>>, <<>>)
          [] OTHER -> Result([conn EXCEPT !.reads = Append(@, [len |-> len, op |-> op])], <<>>, <<>>)

Close(conn) ==
    Result([conn EXCEPT !.reads = <<>>, !.writes = <<>>], EndReads(conn) \o FailWrites(conn),
           IF conn.state = "Established" THEN <<Answer(conn, conn.rcvd, {"fin", "ack"})>> ELSE <<>>)
=============================================================================
