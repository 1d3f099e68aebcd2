-------------------------------- MODULE Sockets --------------------------------
(***************************************************************************)
(* The socket tables of kernel/src/net/socket: which port belongs to which *)
(* socket, the listeners with the connections they created, the operations *)
(* that wait on a socket.  The connections are those of TcpConnection.     *)
(* What runs under the lock of SOCKET_MAP is one action.  A bind and a     *)
(* packet handler look at ACTIVE_CONNECTIONS before they take that lock    *)
(* and are several: other CPUs run between them.                           *)
(***************************************************************************)
EXTENDS TcpConnection, SequencesExt, FiniteSets

CONSTANTS
    LocalPorts,      \* ports tasks listen on
    EphemeralPorts,  \* ports for outbound connections, 49153..65534 in the code: 49152
                     \* is taken at boot, for DNS, whose packets no socket sees
    Hosts,           \* endpoints on the network, an address with a port
    HostISNs,        \* sequence numbers their SYNs have
    MaxSockets,      \* bound on the sockets ever created
    MaxOps,          \* bound on the operations ever issued
    MaxDatagrams,    \* bound on the datagrams a UDP socket keeps
    SocketCpus,      \* CPUs: on one, a call that is not under the lock runs to its end
    SocketFlaws      \* what the passing run leaves out: "again": a host repeats a SYN
                     \* that is queued; "close": a listener or UDP socket is closed
                     \* while operations wait on it; "twice": a datagram is written
                     \* after DHCP, which completes the write two times

VARIABLES
    active,    \* ACTIVE_CONNECTIONS: port -> socket id, 0 if none
    socks,     \* SOCKET_MAP: id -> socket
    nextSock,  \* NEXT_SOCKET_ID
    owned,     \* ids bound to a handle of a task
    opCount,   \* operations issued
    answers,   \* how often each was completed
    hosts,     \* what each host does: the port it talks to, and how far it got
    inside,    \* binds and packets between two of their steps
    udpWrites  \* the operations in PENDING_UDP_WRITES

socketVars == <<active, socks, nextSock, owned, opCount, answers, hosts, inside, udpWrites>>

Ports == LocalPorts \cup EphemeralPorts
SockIds == 1..MaxSockets
NoSocket == [kind |-> "none"]
Kind(id) == IF id = 0 THEN "none" ELSE socks[id].kind

SocketsInit ==
    /\ active = [p \in Ports |-> 0]
    /\ socks = [i \in SockIds |-> NoSocket]
    /\ nextSock = 1 /\ owned = {} /\ opCount = 0
    /\ answers = [o \in 1..MaxOps |-> 0]
    /\ hosts = [h \in Hosts |-> [state |-> "idle", port |-> 0, isn |-> 0]]
    /\ inside = {} /\ udpWrites = {}

\* A CPU is left for a call.
CpuLeft == Cardinality(inside) < SocketCpus

UdpSocket(port) == [kind |-> "udp", port |-> port, reads |-> <<>>, grams |-> 0]
Listener(port) ==
    [kind |-> "listener", port |-> port, lookup |-> [h \in Hosts |-> 0], syns |-> <<>>, accepts |-> <<>>]
ConnSocket(conn) == [kind |-> "conn", conn |-> conn]

Answered(done) == [o \in 1..MaxOps |-> answers[o] + Cardinality({i \in DOMAIN done : done[i].op = o})]

NewOp(op) == op = opCount + 1 /\ op <= MaxOps /\ opCount' = op
NewSocket(n) == nextSock + n <= MaxSockets + 1 /\ nextSock' = nextSock + n

\* What a host learns from what the kernel sends to it.
Hears(host, out) ==
    LET flags == UNION {p.flags : p \in ToSet(out)}
    IN  CASE "rst" \in flags -> [host EXCEPT !.state = "idle"]
          [] "syn" \in flags /\ host.state = "syn" -> [host EXCEPT !.state = "open"]
          [] "fin" \in flags /\ host.state = "done" -> [host EXCEPT !.state = "idle"]
          [] OTHER -> host

-----------------------------------------------------------------------------
(* socket_io_bind *)

\* A local port is looked up and taken under one lock.
ClaimPort(kind, port) ==
    /\ CpuLeft /\ active[port] = 0 /\ NewSocket(1)
    /\ active' = [active EXCEPT ![port] = nextSock]
    /\ inside' = inside \cup {[step |-> kind, port |-> port, id |-> nextSock]}
    /\ UNCHANGED <<socks, owned, opCount, answers, hosts, udpWrites>>

\* get_ephemeral_port
FirstFree(p) == p \in EphemeralPorts /\ active[p] = 0 /\ \A q \in EphemeralPorts : active[q] = 0 => p <= q

\* An outbound connection: the port is found under the lock,
FindPort(h, op) ==
    /\ CpuLeft /\ hosts[h].state = "idle" /\ \A b \in inside : b.step = "found" => b.host # h
    /\ NewOp(op)
    /\ \E p \in EphemeralPorts :
          FirstFree(p) /\ inside' = inside \cup {[step |-> "found", port |-> p, host |-> h, op |-> op]}
    /\ UNCHANGED <<active, socks, nextSock, owned, answers, hosts, udpWrites>>

\* and taken under the lock later.  The SYN that open_tcp sends reaches the
\* host at once.
TakePort(b) ==
    /\ b.step = "found" /\ NewSocket(1)
    /\ active' = [active EXCEPT ![b.port] = nextSock]
    /\ inside' = (inside \ {b}) \cup {[step |-> "conn", port |-> b.port, id |-> nextSock, host |-> b.host, op |-> b.op]}
    /\ UNCHANGED <<socks, owned, opCount, answers, hosts, udpWrites>>

NewlyBound(b) ==
    CASE b.step = "udp" -> UdpSocket(b.port)
      [] b.step = "listener" -> Listener(b.port)
      [] b.step = "conn" -> ConnSocket(NewConnection(b.port, b.host, TRUE, b.op))

\* The end of a bind: the socket is put into SOCKET_MAP.
InsertSocket(b) ==
    /\ b.step \in {"udp", "listener", "conn"}
    /\ socks' = [socks EXCEPT ![b.id] = NewlyBound(b)]
    /\ inside' = inside \ {b}
    /\ IF b.step = "conn"
       THEN /\ \E isn \in HostISNs : hosts' = [hosts EXCEPT ![b.host] = [state |-> "called", port |-> b.port, isn |-> isn]]
            /\ UNCHANGED owned
       ELSE owned' = owned \cup {b.id} /\ UNCHANGED hosts
    /\ UNCHANGED <<active, nextSock, opCount, answers, udpWrites>>

-----------------------------------------------------------------------------
(* TcpListener::init_connection: a new connection of a listener, with the SYN *)
(* it answers.  A sequence number of 0 stands for an outbound connection.     *)

Child(listener, syn, op) ==
    [NewConnection(listener.port, syn.from, syn.seq = 0, op) EXCEPT !.rcvd = syn.seq]
SynAnswer(syn) ==
    Packet(0, Plus(syn.seq, 1), IF syn.seq = 0 THEN {"syn"} ELSE {"syn", "ack"}, <<>>)

InitConnection(id, listener, syn, op) ==
    /\ NewSocket(1)
    /\ socks' = [socks EXCEPT ![id] = [listener EXCEPT !.lookup[syn.from] = nextSock],
                              ![nextSock] = ConnSocket(Child(listener, syn, op))]
    /\ hosts' = [hosts EXCEPT ![syn.from] = Hears(@, <<SynAnswer(syn)>>)]

Accept(id, op) ==
    /\ CpuLeft /\ Kind(id) = "listener" /\ id \in owned /\ NewOp(op)
    /\ LET l == socks[id]
       IN  IF l.syns = <<>>
           THEN socks' = [socks EXCEPT ![id].accepts = Append(@, op)] /\ UNCHANGED <<nextSock, hosts>>
           ELSE InitConnection(id, [l EXCEPT !.syns = Tail(@)], Head(l.syns), op)
    /\ UNCHANGED <<active, owned, answers, inside, udpWrites>>

-----------------------------------------------------------------------------
(* socket_io_read and socket_io_write on the other kinds of sockets *)

ReadUdp(id, op) ==
    /\ CpuLeft /\ Kind(id) = "udp" /\ id \in owned /\ NewOp(op)
    /\ IF socks[id].grams > 0
       THEN /\ socks' = [socks EXCEPT ![id].grams = @ - 1]
            /\ answers' = Answered(<<Done(op, EOF)>>)
       ELSE /\ socks' = [socks EXCEPT ![id].reads = Append(@, op)]
            /\ UNCHANGED answers
    /\ UNCHANGED <<active, nextSock, owned, hosts, inside, udpWrites>>

\* UdpListener::write; the datagrams themselves are in NetStack.
WriteDatagram(id, op) ==
    /\ CpuLeft /\ Kind(id) = "udp" /\ id \in owned /\ NewOp(op)
    /\ \/ udpWrites' = udpWrites \cup {op} /\ UNCHANGED answers
       \/ "twice" \in SocketFlaws /\ answers' = Answered(<<Done(op, EOF), Done(op, EOF)>>) /\ UNCHANGED udpWrites
    /\ UNCHANGED <<active, socks, nextSock, owned, hosts, inside>>

\* flush_pending_udp_writes, whatever became of the socket since.
FlushDatagrams ==
    /\ CpuLeft /\ udpWrites # {} /\ udpWrites' = {}
    /\ answers' = [o \in 1..MaxOps |-> answers[o] + IF o \in udpWrites THEN 1 ELSE 0]
    /\ UNCHANGED <<active, socks, nextSock, owned, opCount, hosts, inside>>

CallConn(id, result) ==
    /\ socks' = [socks EXCEPT ![id].conn = result.conn]
    /\ answers' = Answered(result.done)
    /\ UNCHANGED <<active, nextSock, owned, hosts, inside, udpWrites>>

ReadConn(id, op) == CpuLeft /\ Kind(id) = "conn" /\ id \in owned /\ NewOp(op) /\ CallConn(id, Read(socks[id].conn, 1, op))
WriteConn(id, op) == CpuLeft /\ Kind(id) = "conn" /\ id \in owned /\ NewOp(op) /\ CallConn(id, Write(socks[id].conn, <<1>>, op))

-----------------------------------------------------------------------------
(* socket_io_close *)

Gone(ids) == [i \in SockIds |-> IF i \in ids THEN NoSocket ELSE socks[i]]
Without(p) == [active EXCEPT ![p] = 0]

CloseUdp(id) ==
    /\ CpuLeft /\ Kind(id) = "udp" /\ id \in owned
    /\ "close" \notin SocketFlaws => socks[id].reads = <<>>
    /\ socks' = Gone({id}) /\ owned' = owned \ {id}
    /\ active' = Without(socks[id].port)
    /\ UNCHANGED <<nextSock, opCount, answers, hosts, inside, udpWrites>>

Children(id) == {socks[id].lookup[h] : h \in Hosts} \ {0}

\* The slip of forgetting the connections it made.
CloseListener_KeepsChildren(id) ==
    /\ CpuLeft /\ Kind(id) = "listener" /\ id \in owned
    /\ "close" \notin SocketFlaws => socks[id].accepts = <<>>
    /\ socks' = Gone({id}) /\ owned' = owned \ {id} /\ active' = Without(socks[id].port)
    /\ UNCHANGED <<nextSock, opCount, answers, hosts, inside, udpWrites>>

CloseListener(id) ==
    LET alive == {c \in Children(id) : Kind(c) = "conn"}
        closing == [c \in alive |-> Close(socks[c].conn)]
        done == FlattenSeq(SetToSeq({closing[c].done : c \in alive}))
    IN  /\ CpuLeft /\ Kind(id) = "listener" /\ id \in owned
        /\ "close" \notin SocketFlaws =>
              socks[id].accepts = <<>> /\ \A c \in alive : socks[c].conn.onConnect = NoOp
        /\ socks' = Gone(alive \cup {id}) /\ owned' = owned \ {id}
        /\ active' = Without(socks[id].port)
        /\ answers' = Answered(done)
        /\ hosts' = [h \in Hosts |-> IF socks[id].lookup[h] \in alive
                                     THEN Hears(hosts[h], closing[socks[id].lookup[h]].out) ELSE hosts[h]]
        /\ UNCHANGED <<nextSock, opCount, inside, udpWrites>>

CloseConn(id) ==
    /\ CpuLeft /\ Kind(id) = "conn" /\ id \in owned
    /\ LET conn == socks[id].conn
           owner == active[conn.port]
           result == Close(conn)
       IN  /\ owned' = owned \ {id}
           /\ socks' = IF owner # id /\ Kind(owner) = "listener"
                       THEN [Gone({id}) EXCEPT ![owner].lookup[conn.remote] = 0] ELSE Gone({id})
           /\ active' = IF owner = id THEN Without(conn.port) ELSE active
           /\ answers' = Answered(result.done)
           /\ hosts' = [hosts EXCEPT ![conn.remote] = Hears(@, result.out)]
    /\ UNCHANGED <<nextSock, opCount, inside, udpWrites>>

-----------------------------------------------------------------------------
(* handle_udp_packet and handle_tcp_packet *)

\* The resident handles one packet at a time: it looks the port up under one
\* lock, and what it found under another.  Nobody answers a port that is free.
NoPacket == \A b \in inside : b.step \notin {"datagram", "segment"}

\* The port of a TCP socket ignores a datagram.
DatagramArrives(port) ==
    /\ CpuLeft /\ NoPacket /\ active[port] # 0
    /\ \/ Kind(active[port]) = "none"
       \/ Kind(active[port]) = "udp" /\ socks[active[port]].grams < MaxDatagrams
    /\ inside' = inside \cup {[step |-> "datagram", id |-> active[port]]}
    /\ UNCHANGED <<active, socks, nextSock, owned, opCount, answers, hosts, udpWrites>>

HandleDatagram(b) ==
    /\ b.step = "datagram" /\ inside' = inside \ {b}
    /\ IF Kind(b.id) # "udp" THEN UNCHANGED <<socks, answers>>
       ELSE LET u == socks[b.id]
            IN  \/ /\ u.reads = <<>>
                   /\ socks' = [socks EXCEPT ![b.id].grams = @ + 1] /\ UNCHANGED answers
                \/ /\ u.reads # <<>>
                   /\ socks' = [socks EXCEPT ![b.id].reads = Tail(@)]
                   /\ answers' = Answered(<<Done(Head(u.reads), EOF)>>)
    /\ UNCHANGED <<active, nextSock, owned, opCount, hosts, udpWrites>>

\* TcpListener::handle_packet for a SYN.
SynArrives(id, syn) ==
    LET l == socks[id]
    IN  IF l.accepts = <<>>
        THEN socks' = [socks EXCEPT ![id].syns = Append(@, syn)] /\ UNCHANGED <<nextSock, hosts>>
        ELSE InitConnection(id, [l EXCEPT !.accepts = Tail(@)], syn, Head(l.accepts))

\* The socket a packet of a host is for: what the port led to, or a listener's
\* connection.
LookupId(h, id) == IF Kind(id) = "listener" /\ socks[id].lookup[h] # 0 THEN socks[id].lookup[h] ELSE id

ConnArrives(id, h, packet) ==
    LET conn == socks[id].conn
        result == HandlePacket(conn, packet)
    IN  /\ socks' = [socks EXCEPT ![id].conn = result.conn]
        /\ answers' = Answered(result.done)
        \* the accepting task gets a handle of its own, the connecting one has it
        /\ owned' = owned \cup (IF conn.onConnect # NoOp /\ result.conn.onConnect = NoOp THEN {id} ELSE {})
        /\ hosts' = [hosts EXCEPT ![h] = Hears(@, result.out)]
        /\ UNCHANGED nextSock

HandleTcpPacket(b) ==
    LET h == b.host
        packet == b.packet
        id == LookupId(h, b.id)
        refused == [hosts EXCEPT ![h].state = "idle"]
    IN  /\ b.step = "segment" /\ inside' = inside \ {b}
        /\ UNCHANGED <<active, opCount, udpWrites>>
        /\ \/ Kind(id) = "conn" /\ ConnArrives(id, h, packet)
           \/ /\ Kind(id) = "listener" /\ Is("syn", packet)
              /\ SynArrives(id, [from |-> h, seq |-> packet.seq])
              /\ UNCHANGED <<answers, owned>>
           \* a RST is the answer to what belongs to no connection of the listener
           \/ /\ Kind(id) = "listener" /\ ~Is("syn", packet)
              /\ hosts' = IF Is("rst", packet) THEN hosts ELSE refused
              /\ UNCHANGED <<socks, answers, owned, nextSock>>
           \* nobody answers; the host gives up at some time
           \/ /\ Kind(id) \in {"none", "udp"} /\ hosts' = refused
              /\ UNCHANGED <<socks, answers, owned, nextSock>>

HostPacket(h, flags, data) == Packet(Plus(hosts[h].isn, IF "syn" \in flags THEN 0 ELSE 1), 1, flags, data)

\* An acknowledgement of all that was written to the host.
HostAck(h) ==
    LET id == LookupId(h, active[hosts[h].port])
    IN  [HostPacket(h, {"ack"}, <<>>) EXCEPT !.ack = IF Kind(id) = "conn" /\ socks[id].conn.sent > 1
                                                     THEN socks[id].conn.sent ELSE 1]

\* A host starts a conversation; its SYN arrives in a later step, or never.  It
\* makes no difference to a call the only CPU is in.
HostCalls(h) ==
    /\ CpuLeft /\ hosts[h].state = "idle"
    /\ \E p \in LocalPorts, isn \in HostISNs : hosts' = [hosts EXCEPT ![h] = [state |-> "syn", port |-> p, isn |-> isn]]
    /\ UNCHANGED <<active, socks, nextSock, owned, opCount, answers, inside, udpWrites>>

\* What a host may send next, and the state it is in then.
HostMoves(h) ==
    LET Move(packet, state) == [packet |-> packet, after |-> [hosts[h] EXCEPT !.state = state]]
        reset == Move(HostPacket(h, {"rst"}, <<>>), "idle")
    IN  CASE hosts[h].state = "syn" -> {reset, Move(HostPacket(h, {"syn"}, <<>>), "syn")}
          [] hosts[h].state = "called" -> {reset, Move(HostPacket(h, {"syn", "ack"}, <<>>), "open")}
          [] hosts[h].state = "open" ->
                {reset, Move(HostAck(h), "open"), Move(HostPacket(h, {"ack"}, <<1>>), "open"),
                 Move(HostPacket(h, {"ack", "fin"}, <<>>), "done")}
          [] OTHER -> {reset}

\* A SYN of the host waits to be accepted.
SynQueued(h) ==
    LET id == active[hosts[h].port]
    IN  Kind(id) = "listener" /\ \E i \in DOMAIN socks[id].syns : socks[id].syns[i].from = h

HostSends(h) ==
    /\ CpuLeft /\ NoPacket /\ hosts[h].state # "idle"
    /\ \E m \in HostMoves(h), id \in {active[hosts[h].port]} :
          /\ "again" \notin SocketFlaws => ~(Is("syn", m.packet) /\ SynQueued(h))
          /\ IF id = 0
             THEN hosts' = [hosts EXCEPT ![h] = [m.after EXCEPT !.state = "idle"]] /\ UNCHANGED inside
             ELSE /\ hosts' = [hosts EXCEPT ![h] = m.after]
                  /\ inside' = inside \cup {[step |-> "segment", id |-> id, host |-> h, packet |-> m.packet]}
    /\ UNCHANGED <<active, socks, nextSock, owned, opCount, answers, udpWrites>>

SocketsNext ==
    \/ \E p \in LocalPorts : ClaimPort("udp", p) \/ ClaimPort("listener", p) \/ DatagramArrives(p)
    \/ \E op \in (1..MaxOps) \cap {opCount + 1} :
          \/ \E h \in Hosts : FindPort(h, op)
          \/ \E id \in SockIds : Accept(id, op) \/ ReadUdp(id, op) \/ WriteDatagram(id, op)
                                 \/ ReadConn(id, op) \/ WriteConn(id, op)
    \/ \E b \in inside : TakePort(b) \/ InsertSocket(b) \/ HandleDatagram(b) \/ HandleTcpPacket(b)
    \/ \E id \in SockIds : CloseUdp(id) \/ CloseListener(id) \/ CloseConn(id)
    \/ \E h \in Hosts : HostCalls(h) \/ HostSends(h)
    \/ FlushDatagrams

SocketsSpec == SocketsInit /\ [][SocketsNext]_socketVars

-----------------------------------------------------------------------------
(* Properties. *)

\* Ports and tables lead to sockets that are there, or about to be, and that
\* have that port: a closed socket leaves nothing behind that would swallow
\* packets.
TablesAreLive ==
    /\ \A p \in Ports : active[p] # 0 /\ (\A b \in inside : b.step # "found" => b.id # active[p]) =>
          /\ Kind(active[p]) # "none"
          /\ p = IF Kind(active[p]) = "conn" THEN socks[active[p]].conn.port ELSE socks[active[p]].port
    /\ \A id \in SockIds : Kind(id) = "listener" => \A c \in Children(id) : Kind(c) = "conn"

\* Packets of a connection find it: the port of an outbound connection is its
\* own, and a connection a listener made is in that listener's table under its
\* remote end (socket_io_close, init_connection); and nothing else is found.
ConnectionsAreFound ==
    /\ TablesAreLive
    /\ \A id \in SockIds : Kind(id) = "conn" =>
          LookupId(socks[id].conn.remote, active[socks[id].conn.port]) = id

\* The operations that wait on a socket.
WaitsOn(s) ==
    CASE s.kind = "none" -> {}
      [] s.kind = "udp" -> ToSet(s.reads)
      [] s.kind = "listener" -> ToSet(s.accepts)
      [] s.kind = "conn" -> {s.conn.reads[i].op : i \in DOMAIN s.conn.reads}
                            \cup {s.conn.writes[i].op : i \in DOMAIN s.conn.writes}
                            \cup ({s.conn.onConnect} \ {NoOp})

\* Every operation is completed once or still waits on exactly one socket, in a
\* bind or for DHCP: closing sockets, resets and connections that are set up
\* lose none and complete none twice.
OperationsAreHeld ==
    LET binding == {b \in inside : b.step \in {"found", "conn"}}
        waiting == UNION {{id} \X WaitsOn(socks[id]) : id \in SockIds}
                   \cup {<<0, b.op>> : b \in binding} \cup {<<0, op>> : op \in udpWrites}
    IN  \A op \in 1..opCount : answers[op] + Cardinality({w \in waiting : w[2] = op}) = 1

\* The socket tables lead to the connection a packet is for, and what waits on
\* a socket is kept by it.
SocketsServe == ConnectionsAreFound /\ OperationsAreHeld
=============================================================================
