------------------------------- MODULE NetStack --------------------------------
(***************************************************************************)
(* The network stack's resident task (kernel/src/net/resident.rs), its     *)
(* device (netdevice.rs) with DHCP, ARP and DNS, and the executor that     *)
(* polls its futures (executor/mod.rs).  One turn of the resident's loop   *)
(* runs without preemption and is one action; other tasks and the network  *)
(* act between turns, on several CPUs also while a task is about to queue  *)
(* a datagram.  GetIp and GetMacForIp have no callers.                     *)
(***************************************************************************)
EXTENDS Integers, Sequences, SequencesExt, FiniteSets

CONSTANTS
    Servers,    \* DHCP servers that answer
    NearHosts,  \* addresses on the subnet
    FarNames,   \* names of machines behind the gateway
    Gateway,    \* the gateway's address
    NetPackets, \* bound on what is asked of the stack
    MaxWakers,  \* bound on the registered wakers beyond which no read fails
    StackCpus,  \* CPUs: on one, a write runs to its end
    NetFlaws    \* what the passing run leaves out: "loss": a frame is lost;
                \* "decline": a DHCP server declines; "nodns": its answer names no
                \* DNS server; "norecord": a DNS answer has no address of the name;
                \* "early": a task asks before a device is registered

VARIABLES
    requests,  \* NET_STACK_REQUESTS
    wakes,     \* something woke the wake set since the resident last blocked
    resident,  \* "running", "blocked" on the wake set, or "panicked"
    stack,     \* device, executor and DNS cache, see NetStackInit
    readOp,    \* the device's active read: a frame, "pending", or the open's result
    pendUdp,   \* PENDING_UDP_WRITES
    resolved,  \* RESOLVED_LOCAL_IP is known
    writing,   \* UDP writes that found no address and are not queued yet
    asked,     \* what tasks asked for, in order
    onWire,    \* questions on their way to the network
    incoming   \* answers on their way back

netVars == <<requests, wakes, resident, stack, readOp, pendUdp, resolved, writing, asked, onWire, incoming>>

NoWait == <<"none", 0>>
Far(d) == d \in FarNames
Hop(d) == IF Far(d) THEN Gateway ELSE d

\* ip: Unbound, "progress" or the server whose address was taken.
\* named: that server named a DNS server.
\* events: entries of the waker registry; fired: those that fired once.
NewStack ==
    [registered |-> FALSE, open |-> FALSE, ip |-> <<"unbound", 0>>, named |-> FALSE, arp |-> {}, dns |-> {},
     tasks |-> <<>>, runq |-> <<>>, wakers |-> <<>>, events |-> {}, fired |-> {},
     out |-> <<>>, frames |-> {}, flush |-> FALSE]

NetStackInit ==
    /\ requests = <<>> /\ wakes = FALSE /\ resident = "running"
    /\ stack = NewStack /\ readOp = NoWait
    /\ pendUdp = <<>> /\ resolved = FALSE /\ writing = {}
    /\ asked = <<>> /\ onWire = {} /\ incoming = {}

-----------------------------------------------------------------------------
(* The executor.  A task is what its future still has to do: the event it *)
(* waits for, whether it registered, and where it goes on.                *)

Spawn(s, goal, dest, n) ==
    LET t == [goal |-> goal, dest |-> dest, n |-> n, wait |-> NoWait, next |-> "start", live |-> TRUE]
    IN  [s EXCEPT !.tasks = Append(@, t), !.runq = Append(@, Len(s.tasks) + 1)]

\* The first poll of a WaitForEvent registers and is never ready.
Await(s, id, event, next) ==
    [s EXCEPT !.tasks[id].wait = event, !.tasks[id].next = next, !.runq = Append(@, id),
              !.wakers = Append(@, <<event, id>>), !.events = @ \cup {event}]

\* A future that is done is dropped with its task.
Dropped == [live |-> FALSE]
Ready(s, id) == [s EXCEPT !.tasks[id] = Dropped]

NotifyEvent(s, event) ==
    LET mine(w) == w[1] = event
        other(w) == w[1] # event
    IN  [s EXCEPT !.runq = @ \o [i \in 1..Len(SelectSeq(s.wakers, mine)) |-> SelectSeq(s.wakers, mine)[i][2]],
                  !.wakers = SelectSeq(@, other),
                  !.fired = IF event \in s.events THEN @ \cup {event} ELSE @]

-----------------------------------------------------------------------------
(* The futures.  Each operator runs to the next wait or to the end. *)

SendFrame(s, frame) == [s EXCEPT !.frames = @ \cup {frame}]

\* The questions the stack sends, by what the answers depend on.
DhcpDiscover == <<"discover", 0>>
DhcpRequest(server) == <<"request", server>>
ArpRequest(ip) == <<"arp", ip>>
DnsQuery(name) == <<"dns", name>>

\* The end of send_packet_direct: the packet itself.
Transmit(s, id) == Ready([s EXCEPT !.out = Append(@, s.tasks[id].n)], id)

\* resolve_ip_to_mac, from where the local address is known.
ResolveIpToMac(s, id) ==
    LET hop == Hop(s.tasks[id].dest)
    IN  IF hop \in s.arp THEN Transmit(s, id)
        ELSE Await(SendFrame(s, ArpRequest(hop)), id, <<"arp", hop>>, "arp")

GotArp(s, id) == IF Hop(s.tasks[id].dest) \in s.arp THEN Transmit(s, id) ELSE Ready(s, id)

\* dns_lookup
DnsLookup(s, id) ==
    IF s.tasks[id].dest \in s.dns THEN ResolveIpToMac(s, id)
    ELSE IF ~s.named THEN Ready(s, id)
    ELSE Await(SendFrame(s, DnsQuery(s.tasks[id].dest)), id, <<"dns", 0>>, "dns")

\* The slip of giving up when the answer was for somebody else.
GotDns_Once(s, id) == IF s.tasks[id].dest \in s.dns THEN ResolveIpToMac(s, id) ELSE Ready(s, id)

GotDns(s, id) ==
    IF s.tasks[id].dest \in s.dns THEN ResolveIpToMac(s, id) ELSE Await(s, id, <<"dns", 0>>, "dns")

\* What follows get_local_ip: nothing, send_packet_direct, or open_tcp.
GotIp(s, id) ==
    CASE s.tasks[id].goal = "ip" -> Ready(s, id)
      [] s.tasks[id].goal = "send" -> ResolveIpToMac(s, id)
      [] s.tasks[id].goal = "open" -> IF Far(s.tasks[id].dest) THEN DnsLookup(s, id) ELSE ResolveIpToMac(s, id)

\* get_local_ip, after the link is there.
Linked(s, id) ==
    CASE s.ip[1] = "bound" -> GotIp(s, id)
      [] s.ip[1] = "unbound" ->
            Await(SendFrame([s EXCEPT !.ip = <<"progress", 0>>], DhcpDiscover), id, <<"offer", 0>>, "offer")
      [] s.ip[1] = "progress" -> Await(s, id, <<"ack", 0>>, "ack")

GotAck(s, id) == IF s.ip[1] = "bound" THEN GotIp([s EXCEPT !.flush = TRUE], id) ELSE Ready(s, id)

\* Goes on where the future stopped.
Resume(s, id) ==
    LET next == s.tasks[id].next
    IN  CASE next = "start" -> IF s.open THEN Linked(s, id) ELSE Await(s, id, <<"link", 0>>, "link")
          [] next = "link" -> Linked(s, id)
          [] next = "offer" -> Await(s, id, <<"ack", 0>>, "ack")
          [] next = "ack" -> GotAck(s, id)
          [] next = "arp" -> GotArp(s, id)
          [] next = "dns" -> GotDns(s, id)

Poll(s, id) ==
    LET t == s.tasks[id]
    IN  IF ~t.live THEN s
        ELSE IF t.wait # NoWait /\ t.wait \notin s.fired THEN [s EXCEPT !.runq = Append(@, id)]
        ELSE Resume(s, id)

PollTasks(s) == FoldLeft(Poll, [s EXCEPT !.runq = <<>>], s.runq)

-----------------------------------------------------------------------------
(* The resident's loop. *)

TakeRequest(s, r) ==
    CASE r.kind = "register" -> Spawn([s EXCEPT !.registered = TRUE], "ip", 0, 0)
      [] r.kind = "open" -> Spawn(s, "open", r.dest, r.n)
      [] r.kind = "respond" -> Spawn(s, "send", r.dest, r.n)

\* The message type and the server among the options of a DHCP packet.
MessageType(frame) == frame[1]
ServerOf(frame) == frame[2]

ProcessDhcp(s, frame) ==
    LET type == MessageType(frame)
        server == ServerOf(frame)
    IN  CASE s.ip[1] # "progress" \/ type = "decline" -> [event |-> "none", s |-> s]
          [] s.ip[1] = "progress" /\ type = "offer" -> [event |-> "offer", s |-> SendFrame(s, DhcpRequest(server))]
          [] s.ip[1] = "progress" /\ type \in {"ack", "bare"} ->
                [event |-> "ack", s |-> [s EXCEPT !.ip = <<"bound", server>>, !.named = (type = "ack")]]

\* The names with A records in a DNS packet: none, or the canonical one, if the
\* answer goes through a CNAME.
ARecords(frame) == IF frame[1] = "dns" THEN {frame[2]} ELSE {}

HandleArpPacket(s, frame) == [event |-> frame, s |-> [s EXCEPT !.arp = @ \cup {frame[2]}]]
HandleDnsPacket(s, frame) ==
    [event |-> IF frame[1] = "empty" THEN NoWait ELSE <<"dns", 0>>,
     s |-> [s EXCEPT !.dns = @ \cup ARecords(frame)]]

\* The DHCP arm of handle_ip_packet; what is bound for a socket is in Sockets.
HandleDhcp(s, frame) == LET r == ProcessDhcp(s, frame) IN [event |-> <<r.event, 0>>, s |-> r.s]

\* NetDevice::process_read_result with the packet handlers: the event, if
\* any, and the device after it.
ProcessReadResult(s) ==
    CASE readOp[1] \in {"none", "pending", "opening", "failed", "bad"} -> [event |-> NoWait, s |-> s]
      [] readOp[1] = "opened" -> [event |-> <<"link", 0>>, s |-> [s EXCEPT !.open = TRUE]]
      [] readOp[1] = "arp" -> HandleArpPacket(s, readOp)
      [] readOp[1] \in {"dns", "cname", "empty"} -> HandleDnsPacket(s, readOp)
      [] OTHER -> HandleDhcp(s, readOp)

\* flush_pending_udp_writes: the queue as requests of their own.
Flushed == [i \in 1..Len(pendUdp) |-> [kind |-> "respond", dest |-> pendUdp[i].dest, n |-> pendUdp[i].n]]

\* On one CPU a task that is writing is not interrupted.
CpuForAll == Cardinality(writing) < StackCpus

\* Every request but the first to register needs device 0.
NoDevice == ~stack.registered /\ requests # <<>> /\ Head(requests).kind # "register"

Panic ==
    /\ resident' = "panicked"
    /\ UNCHANGED <<requests, wakes, stack, readOp, pendUdp, resolved, onWire>>

TakeTurn ==
    LET drained == FoldLeft(TakeRequest, stack, requests)
        read == ProcessReadResult(drained)
        woken == IF read.event = NoWait THEN read.s ELSE NotifyEvent(read.s, read.event)
        polled == PollTasks(woken)
        didWork == requests # <<>> \/ read.event # NoWait
        flush == polled.flush
    IN  /\ stack' = [polled EXCEPT !.frames = {}, !.flush = FALSE]
        /\ onWire' = onWire \cup polled.frames
        /\ requests' = IF flush THEN Flushed ELSE <<>>
        /\ pendUdp' = IF flush THEN <<>> ELSE pendUdp
        /\ resolved' = (resolved \/ flush)
        /\ readOp' = CASE polled.registered /\ ~stack.registered -> <<"opening", 0>>
                       [] readOp[1] \in {"none", "pending", "opening", "failed"} -> readOp
                       [] OTHER -> <<"pending", 0>>
        \* a wake that came since the last block is consumed by the next one
        /\ LET awake == wakes \/ (flush /\ pendUdp # <<>>)
           IN  IF didWork THEN resident' = resident /\ wakes' = awake
               ELSE resident' = (IF awake THEN "running" ELSE "blocked") /\ wakes' = FALSE

Turn ==
    /\ resident = "running" /\ CpuForAll
    /\ IF NoDevice THEN Panic ELSE TakeTurn
    /\ UNCHANGED <<writing, asked, incoming>>

\* The wake set, which is there once the resident runs.
Wake == IF resident = "blocked" THEN resident' = "running" /\ UNCHANGED wakes
        ELSE wakes' = TRUE /\ UNCHANGED resident

-----------------------------------------------------------------------------
(* Other tasks: register_network_device, net_respond, net_open_tcp, *)
(* UdpListener::write.                                              *)

Registered == stack.registered \/ \E i \in DOMAIN requests : requests[i].kind = "register"

Register ==
    /\ CpuForAll /\ ~Registered
    /\ requests' = Append(requests, [kind |-> "register"]) /\ Wake
    /\ UNCHANGED <<stack, readOp, pendUdp, resolved, writing, asked, onWire, incoming>>

More(kind, dest) ==
    /\ CpuForAll /\ Len(asked) < NetPackets
    /\ "early" \notin NetFlaws => Registered
    /\ asked' = Append(asked, [kind |-> kind, dest |-> dest])

Respond(dest) ==
    /\ More("tcp", dest)
    /\ requests' = Append(requests, [kind |-> "respond", dest |-> dest, n |-> Len(asked')]) /\ Wake
    /\ UNCHANGED <<stack, readOp, pendUdp, resolved, writing, onWire, incoming>>

OpenTcp(dest) ==
    /\ More("open", dest)
    /\ requests' = Append(requests, [kind |-> "open", dest |-> dest, n |-> Len(asked')]) /\ Wake
    /\ UNCHANGED <<stack, readOp, pendUdp, resolved, writing, onWire, incoming>>

\* With an address the datagram is a request;
WriteUdp(dest) ==
    /\ More("udp", dest)
    /\ IF resolved
       THEN /\ requests' = Append(requests, [kind |-> "respond", dest |-> dest, n |-> Len(asked')]) /\ Wake
            /\ UNCHANGED writing
       ELSE writing' = writing \cup {[dest |-> dest, n |-> Len(asked')]} /\ UNCHANGED <<requests, wakes, resident>>
    /\ UNCHANGED <<stack, readOp, pendUdp, resolved, onWire, incoming>>

\* without, it is queued, under another lock than the one it was looked up under.
QueueUdp(w) ==
    /\ writing' = writing \ {w} /\ pendUdp' = Append(pendUdp, w)
    /\ UNCHANGED <<requests, wakes, resident, stack, readOp, resolved, asked, onWire, incoming>>

-----------------------------------------------------------------------------
(* The driver and the network. *)

\* A device that cannot be opened stays closed; a read that fails is repeated.
DriverOpens ==
    /\ readOp = <<"opening", 0>> /\ readOp' \in {<<"opened", 0>>, <<"failed", 0>>} /\ Wake
    /\ UNCHANGED <<requests, stack, pendUdp, resolved, writing, asked, onWire, incoming>>

DriverReadFails ==
    /\ Len(stack.wakers) < MaxWakers
    /\ readOp = <<"pending", 0>> /\ readOp' = <<"bad", 0>> /\ Wake
    /\ UNCHANGED <<requests, stack, pendUdp, resolved, writing, asked, onWire, incoming>>

DriverReads(frame) ==
    /\ readOp = <<"pending", 0>> /\ frame \in incoming
    /\ readOp' = frame /\ incoming' = incoming \ {frame} /\ Wake
    /\ UNCHANGED <<requests, stack, pendUdp, resolved, writing, asked, onWire>>

Answers(q) ==
    CASE q[1] = "discover" -> {<<"offer", s>> : s \in Servers}
      [] q[1] = "request" -> {<<"ack", q[2]>>}
      [] OTHER -> {q}

\* The answers of NetFlaws.
OddAnswers(q) ==
    {<<kind, q[2]>> : kind \in (IF q[1] = "request" /\ "decline" \in NetFlaws THEN {"decline"} ELSE {})
                              \cup (IF q[1] = "request" /\ "nodns" \in NetFlaws THEN {"bare"} ELSE {})
                              \cup (IF q[1] = "dns" /\ "norecord" \in NetFlaws THEN {"cname", "empty"} ELSE {})}

NetworkAnswers(q) ==
    /\ q \in onWire /\ onWire' = onWire \ {q}
    /\ \/ incoming' = incoming \cup Answers(q)
       \/ "loss" \in NetFlaws /\ UNCHANGED incoming
       \/ \E a \in OddAnswers(q) : incoming' = incoming \cup {a}
    /\ UNCHANGED <<requests, wakes, resident, stack, readOp, pendUdp, resolved, writing, asked>>

NetStackNext ==
    \/ Turn \/ Register \/ DriverOpens \/ DriverReadFails
    \/ \E d \in NearHosts : Respond(d) \/ WriteUdp(d)
    \/ \E d \in FarNames : OpenTcp(d)
    \/ \E w \in writing : QueueUdp(w)
    \/ \E f \in incoming : DriverReads(f)
    \/ \E q \in onWire : NetworkAnswers(q)

NetStackSpec == NetStackInit /\ [][NetStackNext]_netVars

-----------------------------------------------------------------------------
(* Properties. *)

\* Nothing is left behind: when the resident sleeps, the driver waits for a
\* frame and the network owes none, everything that was asked for was sent, and
\* the resident never panics.
\* No event is missed between its registration and its notification.  What was
\* sent to one address left in the order in which it was written, whether it
\* waited for DHCP, for ARP or for nothing (run_queue, flush_pending_udp_writes).
NothingLeftUndone ==
    /\ resident # "panicked"
    /\ (/\ resident = "blocked" /\ writing = {} /\ readOp = <<"pending", 0>> /\ onWire = {} /\ incoming = {})
          => ToSet(stack.out) = 1..Len(asked)
    /\ \A i, j \in DOMAIN stack.out :
          i < j /\ asked[stack.out[i]] = asked[stack.out[j]] => stack.out[i] < stack.out[j]

=============================================================================
