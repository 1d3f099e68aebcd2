------------------------------- MODULE TcpStream -------------------------------
(***************************************************************************)
(* One TCP connection of the kernel with the task that uses it, and the    *)
(* other end.  The network loses, repeats and reorders: whatever the other *)
(* end has ever sent may arrive next, and it may receive whatever the      *)
(* kernel has ever sent.  The other end follows the protocol; its bytes    *)
(* are numbered, and so are the kernel's.                                  *)
(***************************************************************************)
EXTENDS TcpConnection, FiniteSets

CONSTANTS
    ISNs,        \* initial sequence numbers of the other end
    MaxIn,       \* bytes the other end sends at most
    MaxOut,      \* bytes the task writes at most
    Chunks,      \* sizes of reads and of writes
    StreamFlaws  \* what the passing run leaves out: "reads": two reads wait at a
                 \* time; "fin": a FIN comes, before what precedes its segment or
                 \* again with data; "first": a later segment overtakes the one
                 \* that completes the handshake; "zero": a SYN has the number 0

\* A stream is shorter than the numbers go, and what waits for its acknowledgement
\* than half of them: packets of the network do not grow old.
ASSUME StreamAssumption ==
    /\ ISNs \subseteq 0..SeqSpace - 1 /\ Chunks \subseteq Nat \ {0}
    /\ MaxIn \in Nat /\ MaxIn + 1 < SeqSpace
    /\ MaxOut \in Nat /\ MaxOut < SeqSpace \div 2

VARIABLES
    conn,   \* the connection, or NoConn once it was closed
    peer,   \* the other end: isn, state, bytes sent and received, has sent FIN
    wire,   \* the packets the kernel sent, but for the numbers they acknowledge
    acks,   \* those numbers
    taken,  \* the bytes completed reads gave to the task, in order
    ended,  \* results other than bytes: "eof", "reset", "closed"
    wrote   \* numbers of the last bytes of writes that were completed

streamVars == <<conn, peer, wire, acks, taken, ended, wrote>>

NoConn == [state |-> "none"]
Open == conn.state # "none"

Bytes(from, to) == [i \in 1..to - from |-> from + i]
PeerPacket(flags, from, to, ack) == Packet(Plus(peer.isn, 1 + from), ack, flags, Bytes(from, to))

\* An accepted connection begins with the answer of init_connection to a SYN,
\* an outbound one with the SYN of open_tcp.  A SYN with the number 0 makes it
\* take the connection for an outbound one.
StreamInit ==
    /\ \E isn \in ISNs, outbound \in BOOLEAN :
          /\ "zero" \notin StreamFlaws => outbound \/ isn # 0
          /\ conn = [NewConnection(1, 1, outbound \/ isn = 0, NoOp) EXCEPT !.rcvd = IF outbound THEN 0 ELSE isn]
          /\ peer = [isn |-> isn, state |-> IF outbound THEN "listen" ELSE "synsent",
                     sent |-> 0, got |-> 0, fin |-> FALSE]
          /\ wire = {Packet(0, 0, IF outbound \/ isn = 0 THEN {"syn"} ELSE {"syn", "ack"}, <<>>)}
    /\ acks = {} /\ taken = <<>> /\ ended = {} /\ wrote = {}

-----------------------------------------------------------------------------
(* The other end. *)

PeerReceives(packet) ==
    /\ packet \in wire /\ peer.state # "reset"
    /\ LET next == CASE Is("rst", packet) -> [peer EXCEPT !.state = "reset"]
                     [] peer.state = "listen" /\ Is("syn", packet) -> [peer EXCEPT !.state = "synreceived"]
                     [] peer.state = "synsent" /\ packet.flags = {"syn", "ack"} -> [peer EXCEPT !.state = "open"]
                     [] peer.state = "synreceived" /\ Is("ack", packet) -> [peer EXCEPT !.state = "open"]
                     [] OTHER -> peer
       IN  peer' = IF next.state = "open" /\ packet.data # <<>> /\ packet.seq = Plus(1, next.got)
                   THEN [next EXCEPT !.got = @ + Len(packet.data)] ELSE next
    /\ peer' # peer
    /\ UNCHANGED <<conn, wire, acks, taken, ended, wrote>>

PeerWrites ==
    /\ peer.state = "open" /\ ~peer.fin
    /\ \/ peer.sent < MaxIn /\ peer' = [peer EXCEPT !.sent = @ + 1]
       \/ peer' = [peer EXCEPT !.fin = TRUE]
    /\ UNCHANGED <<conn, wire, acks, taken, ended, wrote>>

\* It answered a SYN, instead of sending one.
AnsweredSyn == peer.state # "synsent" /\ \E p \in wire : p.flags = {"syn"}

\* What the other end may have in the network.
FromPeer ==
    LET opening == IF AnsweredSyn THEN PeerPacket({"syn", "ack"}, -1, -1, 1) ELSE PeerPacket({"syn"}, -1, -1, 0)
        numbers == {Plus(1, n) : n \in 0..peer.got}
        segments == {PeerPacket({"ack"}, i, j, a) : i \in 0..peer.sent, j \in 0..peer.sent, a \in numbers}
        fins == {PeerPacket({"ack", "fin"}, i, peer.sent, a) : i \in 0..peer.sent, a \in numbers}
    IN  (IF peer.state # "listen" THEN {opening} ELSE {})
        \cup (IF peer.state \in {"open", "reset"} THEN segments ELSE {})
        \cup (IF peer.state \in {"open", "reset"} /\ peer.fin THEN fins ELSE {})
        \cup (IF peer.state = "reset" THEN {PeerPacket({"rst"}, peer.sent, peer.sent, 0)} ELSE {})

PeerResets ==
    /\ peer.state = "open" /\ peer' = [peer EXCEPT !.state = "reset"]
    /\ UNCHANGED <<conn, wire, acks, taken, ended, wrote>>

-----------------------------------------------------------------------------
(* The connection. *)

\* Of the operations a call completes at most one is a read that is given bytes.
ReadsOf(done) == {i \in DOMAIN done : done[i].op[1] = "read"}
Given(done) ==
    LET full == {i \in ReadsOf(done) : done[i].res # EOF}
    IN  IF full = {} THEN taken ELSE taken \o done[CHOOSE i \in full : TRUE].res
\* What the other end looks at: the number of a packet only for its data.
Sent(p) == Packet(IF p.data = <<>> THEN 0 ELSE p.seq, 0, p.flags, p.data)
Apply(result) ==
    /\ wire' = wire \cup {Sent(p) : p \in Range(result.out)}
    /\ acks' = acks \cup {<<p.flags, p.ack>> : p \in Range(result.out)}
    /\ taken' = Given(result.done)
    /\ wrote' = wrote \cup {d.op[2] : d \in {d \in Range(result.done) : d.op[1] = "write" /\ d.ok}}
    /\ UNCHANGED peer

Eof(result) == \E i \in ReadsOf(result.done) : result.done[i].res = EOF

\* handle_tcp_packet finds the connection.
Arrives(packet) ==
    /\ Open
    /\ "fin" \notin StreamFlaws /\ Is("fin", packet) => packet.seq = conn.rcvd
    /\ "first" \notin StreamFlaws /\ conn.state = "SynReceived" => packet.seq \in {conn.rcvd, Plus(conn.rcvd, 1)}
    /\ LET result == HandlePacket(conn, packet)
       IN  /\ conn' = result.conn /\ Apply(result)
           /\ ended' = ended \cup (IF Is("rst", packet) THEN {"reset"} ELSE {})
                             \cup (IF Eof(result) THEN {"eof"} ELSE {})

TaskReads(len) ==
    /\ Open /\ conn.state \in {"Established", "LastAck"} /\ "eof" \notin ended
    /\ Len(conn.reads) < IF "reads" \in StreamFlaws THEN 2 ELSE 1
    /\ LET result == Read(conn, len, <<"read">>)
       IN  /\ conn' = result.conn /\ Apply(result)
           /\ ended' = ended \cup (IF Eof(result) THEN {"eof"} ELSE {})

\* The task's bytes are numbered as they are in the stream.
Written == IF conn.sent = 0 THEN 0 ELSE conn.sent - 1
TaskWrites(len) ==
    /\ Open /\ conn.state \in {"Established", "LastAck"} /\ Written + len <= MaxOut
    /\ LET result == Write(conn, Bytes(Written, Written + len), <<"write", Written + len>>)
       IN  conn' = result.conn /\ Apply(result)
    /\ UNCHANGED ended

TaskCloses ==
    /\ Open /\ conn.state \in {"Established", "LastAck"}
    /\ LET result == Close(conn)
       IN  Apply(result) /\ conn' = NoConn
    /\ ended' = ended \cup {"closed"}

StreamNext ==
    \/ \E p \in wire : PeerReceives(p)
    \/ PeerWrites \/ PeerResets
    \/ \E p \in FromPeer : Arrives(p)
    \/ \E n \in Chunks : TaskReads(n) \/ TaskWrites(n)
    \/ TaskCloses

StreamSpec == StreamInit /\ [][StreamNext]_streamVars

-----------------------------------------------------------------------------
(* Properties. *)

\* Nothing is acknowledged that was not kept: the number in every packet the
\* kernel sent is at most the bytes taken and kept, and one for a FIN
\* (last_sequence_received in handle_packet, write and close).
AcksWhatItKeeps ==
    Open /\ conn.state \in {"Established", "LastAck"} =>
        LET kept == Len(taken \o conn.data)
        IN  /\ conn.rcvd = Plus(peer.isn, 1 + kept)
            /\ \A a \in acks : "rst" \notin a[1] =>
                  \/ \E n \in 0..kept : a[2] = Plus(peer.isn, 1 + n)
                  \/ peer.fin /\ "fin" \in a[1] /\ a[2] = Plus(peer.isn, 2 + peer.sent)

\* A write that was completed with its length has been received by the other
\* end (process_ack compares with wrapping numbers).
WritesDelivered == \A n \in wrote : n <= peer.got

\* A read returns 0 bytes only when everything the other end sent was read and
\* it has finished, or when the connection was reset or closed.
EofIsTheEnd == "eof" \in ended /\ ended \cap {"reset", "closed"} = {} => peer.fin /\ Len(taken) = peer.sent

\* What reads gave to the task and what the connection keeps for it is, in
\* order, a beginning of what the other end sent: no byte is lost, repeated or
\* moved by packets that come again, late or in another order
\* (handle_packet, Enqueue and FinAck).  So it is the other way round, for the
\* writes that were completed, and the end of the stream comes at its end.
StreamInOrder ==
    /\ Open => LET kept == taken \o conn.data
               IN  Len(kept) <= peer.sent /\ kept = Bytes(0, Len(kept))
    /\ WritesDelivered /\ EofIsTheEnd

\* A reader is given the stream, and the sender is told no more than was kept.
StreamIsKept == StreamInOrder /\ AcksWhatItKeeps
=============================================================================
