-------------------------- MODULE TcpStream_proofs --------------------------
(***************************************************************************)
(* What makes a TCP connection a stream: the inductive invariant of        *)
(* TcpStream, the lemmas on sequence numbers, runs of bytes and what a     *)
(* call completes, the steps of the other end and of a connection that     *)
(* begins or ends, the packets that bring data or the end, the calls of    *)
(* the task, and the theorem.                                              *)
(*                                                                         *)
(* The invariant says of each number where it is in the stream: Outgoing,  *)
(* of what was written and is on its way, and Incoming and Acknowledged,   *)
(* of what came, was kept and was told to the other end.                   *)
(***************************************************************************)
EXTENDS TcpStream, WellFoundedInduction, TLAPS

Ports == {1}
Flags == {"syn", "ack", "fin", "rst"}
Numbers == 0..SeqSpace - 1
Reading == [len : Nat \ {0}, op : {<<"read">>}]
Writing == [end : Nat, len : Nat, op : {"write"} \X Nat]

Connections ==
    [state : {"SynSent", "SynReceived", "Established", "LastAck"}, port : Ports, remote : Ports,
     sent : Nat, rcvd : Nat, onConnect : {NoOp}, reads : Seq(Reading), writes : Seq(Writing),
     data : Seq(Nat)]
Peers ==
    [isn : Numbers, state : {"listen", "synsent", "synreceived", "open", "reset"},
     sent : 0..MaxIn, got : Nat, fin : BOOLEAN]
Packets == [seq : Nat, ack : Nat, flags : SUBSET Flags, data : Seq(Nat)]

StreamTypes ==
    /\ conn = NoConn \/ conn \in Connections
    /\ peer \in Peers
    /\ wire \subseteq Packets
    /\ \A a \in acks : a[1] \subseteq Flags
    /\ taken \in Seq(Nat)
    /\ ended \subseteq {"eof", "reset", "closed"}
    /\ wrote \subseteq Nat

\* Until the handshake is over on its side the other end has neither sent nor received.
PeerSilent ==
    peer.state \in {"listen", "synsent", "synreceived"} =>
        peer.sent = 0 /\ peer.got = 0 /\ peer.fin = FALSE

\* Before the handshake is over nothing has happened, and the number to come is known.
Opening ==
    conn.state \in {"SynSent", "SynReceived"} =>
        /\ conn.sent = 0 /\ conn.reads = <<>> /\ conn.writes = <<>> /\ conn.data = <<>>
        /\ taken = <<>> /\ "eof" \notin ended
        /\ \A a \in acks : "rst" \in a[1]
        /\ conn.state = "SynSent" => /\ peer.state \in {"listen", "synreceived"}
                                     /\ \A p \in wire : p.flags = {"syn"}
                                     /\ \E p \in wire : p.flags = {"syn"}
        /\ conn.state = "SynReceived" => /\ peer.state \notin {"listen", "synreceived"}
                                         /\ conn.rcvd = peer.isn
                                         /\ \A p \in wire : p.flags # {"syn"}

\* What was sent is numbered without wrapping, and the other end has no more than that.
Outgoing ==
    Open =>
        /\ conn.sent <= MaxOut + 1 /\ peer.got <= Written
        /\ conn.state \in {"Established", "LastAck"} => conn.sent > 0
        /\ \A p \in wire : p.data # <<>> => p.seq > 0 /\ p.seq - 1 + Len(p.data) <= Written
        /\ \A i \in DOMAIN conn.writes :
              LET w == conn.writes[i] IN w.op[2] = w.end - 1 /\ w.end \in 1..conn.sent

Kept == Len(taken) + Len(conn.data)

\* The bytes that were read and those that are kept are the beginning of the stream.
Incoming ==
    Open =>
        /\ taken = Bytes(0, Len(taken)) /\ conn.data = Bytes(Len(taken), Kept)
        /\ Kept <= peer.sent
        /\ Len(conn.reads) <= 1 /\ (conn.reads # <<>> => conn.data = <<>>)

\* Numbers told to the other end.
Acknowledged ==
    conn.state \in {"Established", "LastAck"} =>
        /\ conn.rcvd = Plus(peer.isn, 1 + Kept)
        /\ \A a \in acks : "rst" \notin a[1] =>
              \/ \E n \in 0..Kept : a[2] = Plus(peer.isn, 1 + n)
              \/ peer.fin /\ "fin" \in a[1] /\ a[2] = Plus(peer.isn, 2 + peer.sent)

\* After the other end's FIN everything it sent is here.
AtTheEnd ==
    /\ conn.state = "LastAck" => peer.fin /\ Kept = peer.sent /\ conn.reads = <<>>
    /\ ~Open => "closed" \in ended

StreamInv ==
    /\ StreamTypes /\ PeerSilent /\ Opening /\ Outgoing /\ Incoming /\ Acknowledged /\ AtTheEnd
    /\ WritesDelivered /\ EofIsTheEnd

-----------------------------------------------------------------------------
(* Sequence numbers and runs of bytes *)

\* What is below the size is its own remainder, and what is one round above loses the round.
LEMMA Remainders ==
    ASSUME NEW B \in Nat \ {0}, NEW a \in 0..2 * B - 1
    PROVE  /\ a < B => a % B = a
           /\ a >= B => a % B = a - B
           /\ a % B \in 0..B - 1
  <1>1. a < B => a % B = a
    OBVIOUS
  <1>2. a % B \in 0..B - 1
    OBVIOUS
  <1>3. ASSUME a >= B
        PROVE  a % B = a - B
    <2> DEFINE q == a \div B
    <2>1. q \in Int /\ a % B \in Int /\ a = B * q + (a % B)
      OBVIOUS
    <2>2. q = 1
      <3> HIDE DEF q
      <3>1. CASE q <= 0
        <4>1. B * q <= 0
          BY <2>1, <3>1
        <4> QED  BY <2>1, <4>1, <1>2, <1>3
      <3>2. CASE q >= 2
        <4>1. B * q >= 2 * B
          BY <2>1, <3>2
        <4> QED  BY <2>1, <4>1, <1>2, <1>3
      <3> QED  BY <2>1, <3>1, <3>2
    <2> QED  BY <2>1, <2>2
  <1> QED  BY <1>1, <1>2, <1>3, Zenon

\* SeqSpace is a number above 0.
LEMMA SpaceIsPositive == SeqSpace \in Nat \ {0}
  BY SeqAssumption, StreamAssumption

\* Plus within one round.
LEMMA PlusWraps ==
    ASSUME NEW a \in Nat, NEW b \in Nat, a + b < 2 * SeqSpace
    PROVE  /\ Plus(a, b) = IF a + b < SeqSpace THEN a + b ELSE (a + b) - SeqSpace
           /\ Plus(a, b) \in Numbers
  <1>1. ASSUME NEW x \in 0..2 * SeqSpace - 1
        PROVE  /\ x % SeqSpace = IF x < SeqSpace THEN x ELSE x - SeqSpace
               /\ x % SeqSpace \in Numbers
    <2>1. /\ x < SeqSpace => x % SeqSpace = x
          /\ x >= SeqSpace => x % SeqSpace = x - SeqSpace
          /\ x % SeqSpace \in 0..SeqSpace - 1
      BY ONLY Remainders, SpaceIsPositive, Zenon
    <2>2. x % SeqSpace = IF x < SeqSpace THEN x ELSE x - SeqSpace
      BY <2>1, SpaceIsPositive
    <2> QED  BY <2>1, <2>2, Zenon DEF Numbers
  <1>2. a + b \in 0..2 * SeqSpace - 1
    BY SpaceIsPositive
  <1> QED  BY <1>1, <1>2, Zenon DEF Plus

\* Bytes of a stream that is shorter than the sequence numbers have different numbers.
LEMMA PlusIsInjective ==
    ASSUME NEW isn \in Numbers, NEW i \in 0..SeqSpace - 1, NEW j \in 0..SeqSpace - 1,
           Plus(isn, 1 + i) = Plus(isn, 1 + j)
    PROVE  i = j
  <1>1. isn \in Nat /\ 1 + i \in Nat /\ 1 + j \in Nat
        /\ isn + (1 + i) < 2 * SeqSpace /\ isn + (1 + j) < 2 * SeqSpace
    BY SpaceIsPositive DEF Numbers
  <1>2. /\ Plus(isn, 1 + i) = IF isn + (1 + i) < SeqSpace THEN isn + (1 + i)
                              ELSE (isn + (1 + i)) - SeqSpace
        /\ Plus(isn, 1 + j) = IF isn + (1 + j) < SeqSpace THEN isn + (1 + j)
                              ELSE (isn + (1 + j)) - SeqSpace
    BY <1>1, PlusWraps, Zenon
  <1> QED  BY <1>1, <1>2, SpaceIsPositive DEF Numbers

\* The number before the first byte, the number of the byte that comes i after it, and
\* of the one after that.
LEMMA PlusOne ==
    ASSUME NEW isn \in Numbers, NEW i \in 0..SeqSpace - 2
    PROVE  /\ Plus(isn, 0) = isn /\ Plus(isn, 1 + i) # isn
           /\ Plus(Plus(isn, 1 + i), 1) = Plus(isn, 2 + i)
           /\ Plus(isn, 1 + i) \in Numbers
  <1>1. isn \in Nat /\ 1 + i \in Nat /\ 2 + i \in Nat /\ isn + 0 < 2 * SeqSpace
        /\ isn + (1 + i) < 2 * SeqSpace /\ isn + (2 + i) < 2 * SeqSpace
    BY SpaceIsPositive DEF Numbers
  <1>2. Plus(isn, 0) = isn
    BY <1>1, PlusWraps, SpaceIsPositive DEF Numbers
  <1>3. /\ Plus(isn, 1 + i) = IF isn + (1 + i) < SeqSpace THEN isn + (1 + i)
                              ELSE (isn + (1 + i)) - SeqSpace
        /\ Plus(isn, 1 + i) \in Numbers
    BY <1>1, PlusWraps, Zenon
  <1>4. Plus(isn, 1 + i) # isn
    BY <1>1, <1>3, SpaceIsPositive DEF Numbers
  <1>5. Plus(Plus(isn, 1 + i), 1) = Plus(isn, 2 + i)
    <2> DEFINE b == Plus(isn, 1 + i)
    <2>1. b \in Nat /\ b + 1 < 2 * SeqSpace
      BY <1>3, SpaceIsPositive DEF Numbers
    <2>2. Plus(b, 1) = IF b + 1 < SeqSpace THEN b + 1 ELSE (b + 1) - SeqSpace
      BY <2>1, PlusWraps, Zenon
    <2>3. Plus(isn, 2 + i) = IF isn + (2 + i) < SeqSpace THEN isn + (2 + i)
                             ELSE (isn + (2 + i)) - SeqSpace
      BY <1>1, PlusWraps, Zenon
    <2> QED  BY <1>1, <1>3, <2>1, <2>2, <2>3, SpaceIsPositive DEF Numbers
  <1> QED  BY <1>2, <1>3, <1>4, <1>5, Zenon

\* A run of the stream and its length.
LEMMA Runs ==
    ASSUME NEW a \in Nat, NEW b \in Nat, a <= b
    PROVE  Bytes(a, b) \in Seq(Nat) /\ Len(Bytes(a, b)) = b - a
  BY SMTT(30) DEF Bytes

\* The first n bytes of a run, and the ones after them.
LEMMA RunParts ==
    ASSUME NEW a \in Nat, NEW b \in Nat, a <= b, NEW n \in 0..b - a
    PROVE  /\ SubSeq(Bytes(a, b), 1, n) = Bytes(a, a + n)
           /\ SubSeq(Bytes(a, b), n + 1, b - a) = Bytes(a + n, b)
  BY SMTT(30) DEF Bytes

\* A run and the one that follows it.
LEMMA RunJoins ==
    ASSUME NEW a \in Nat, NEW b \in Nat, NEW c \in Nat, a <= b, b <= c
    PROVE  Bytes(a, b) \o Bytes(b, c) = Bytes(a, c)
  BY SMTT(30) DEF Bytes

\* There is nothing between a position and one that does not come after it.
LEMMA EmptyRun ==
    ASSUME NEW a \in Int, NEW b \in Int, b <= a
    PROVE  Bytes(a, b) = <<>>
  BY DEF Bytes

-----------------------------------------------------------------------------
(* What a call leaves behind *)

\* A call that gives bytes to no read.
LEMMA GivesNothing ==
    ASSUME NEW done, \A i \in DOMAIN done : done[i].op[1] = "read" => done[i].res = EOF
    PROVE  Given(done) = taken
  BY Zenon DEF Given, ReadsOf

\* A call that gives bytes to the read that is at place k of its results.
LEMMA GivesBytes ==
    ASSUME NEW done, NEW k \in DOMAIN done, done[k].op[1] = "read", done[k].res # EOF,
           \A i \in DOMAIN done : done[i].op[1] = "read" /\ done[i].res # EOF => i = k
    PROVE  Given(done) = taken \o done[k].res
  <1> DEFINE full == {i \in ReadsOf(done) : done[i].res # EOF}
  <1>1. full = {k}
    BY Zenon DEF ReadsOf
  <1>2. (CHOOSE i \in full : TRUE) = k
    BY <1>1, Zenon
  <1> QED  BY <1>1, <1>2, Zenon DEF Given

\* The writes a call completes are there.
LEMMA WritesStayDelivered ==
    ASSUME NEW r, Apply(r), WritesDelivered, wrote \subseteq Nat, peer.got \in Nat,
           \A i \in DOMAIN r.done :
              r.done[i].op[1] = "write" /\ r.done[i].ok => r.done[i].op[2] \in 0..peer.got
    PROVE  WritesDelivered' /\ wrote' \subseteq Nat
  <1>1. \A n \in wrote' : n \in wrote \/ \E i \in DOMAIN r.done :
              r.done[i].op[1] = "write" /\ r.done[i].ok /\ n = r.done[i].op[2]
    BY ZenonT(60) DEF Apply, Range
  <1>2. peer' = peer
    BY Zenon DEF Apply
  <1>3. ASSUME NEW n \in wrote' PROVE n \in Nat /\ n <= peer.got
    <2>1. CASE n \in wrote
      BY <2>1, Zenon DEF WritesDelivered
    <2>2. CASE n \in 0..peer.got
      BY <2>2
    <2> QED  BY <1>1, <2>1, <2>2, Zenon
  <1> QED  BY <1>2, <1>3, Zenon DEF WritesDelivered

\* A call that sends nothing.
LEMMA SendsNothing ==
    ASSUME NEW r, Apply(r), r.out = <<>>
    PROVE  wire' = wire /\ acks' = acks /\ peer' = peer
  <1>1. Range(r.out) = {}
    BY DEF Range
  <1> QED  BY <1>1, Zenon DEF Apply

\* A call that sends an answer without data.
LEMMA SendsAnswer ==
    ASSUME NEW r, NEW c, NEW a, NEW f, Apply(r), r.out = <<Answer(c, a, f)>>
    PROVE  /\ wire' = wire \cup {Packet(0, 0, f, <<>>)} /\ acks' = acks \cup {<<f, a>>}
           /\ peer' = peer
  <1>1. Range(r.out) = {Answer(c, a, f)}
    BY DEF Range
  <1>2. /\ Answer(c, a, f).flags = f /\ Answer(c, a, f).ack = a
        /\ Sent(Answer(c, a, f)) = Packet(0, 0, f, <<>>)
    BY Zenon DEF Answer, Packet, Sent
  <1>3. /\ wire' = wire \cup {Sent(p) : p \in Range(r.out)}
        /\ acks' = acks \cup {<<p.flags, p.ack>> : p \in Range(r.out)}
        /\ peer' = peer
    BY Zenon DEF Apply
  <1> QED  BY <1>1, <1>2, <1>3, Zenon

-----------------------------------------------------------------------------
(* The packets of the other end *)

\* A segment, or a FIN, from byte i of the stream to byte j, that acknowledges n bytes.
Segment(p, flags, i, j, n) ==
    /\ p.flags = flags /\ p.seq = Plus(peer.isn, 1 + i) /\ p.ack = Plus(1, n)
    /\ p.data = Bytes(i, j)

\* What may arrive.
LEMMA PacketsOfPeer ==
    ASSUME StreamTypes, NEW p \in FromPeer
    PROVE  \/ peer.state # "listen" /\ ~AnsweredSyn /\ p.flags = {"syn"}
           \/ AnsweredSyn /\ p.flags = {"syn", "ack"} /\ p.seq = peer.isn
           \/ /\ peer.state \in {"open", "reset"}
              /\ \E i, j \in 0..peer.sent, n \in 0..peer.got : Segment(p, {"ack"}, i, j, n)
           \/ /\ peer.state \in {"open", "reset"} /\ peer.fin
              /\ \E i \in 0..peer.sent, n \in 0..peer.got :
                    Segment(p, {"ack", "fin"}, i, peer.sent, n)
           \/ peer.state = "reset" /\ p.flags = {"rst"}
  <1> DEFINE numbers == {Plus(1, n) : n \in 0..peer.got}
  <1>1. CASE peer.state # "listen" /\ ~AnsweredSyn /\ p = PeerPacket({"syn"}, -1, -1, 0)
    BY <1>1, Zenon DEF PeerPacket, Packet
  <1>2. CASE AnsweredSyn /\ p = PeerPacket({"syn", "ack"}, -1, -1, 1)
    <2>1. p.flags = {"syn", "ack"} /\ p.seq = Plus(peer.isn, 1 + (-1))
      BY <1>2, Zenon DEF PeerPacket, Packet
    <2>2. Plus(peer.isn, 1 + (-1)) = peer.isn
      <3>1. 1 + (-1) = 0 /\ 0 \in 0..SeqSpace - 2
        BY SeqAssumption, StreamAssumption
      <3>2. peer.isn \in Numbers
        BY Zenon DEF StreamTypes, Peers
      <3> QED  BY <3>1, <3>2, PlusOne, Zenon
    <2> QED  BY <1>2, <2>1, <2>2, Zenon
  <1>3. ASSUME peer.state \in {"open", "reset"},
               NEW i \in 0..peer.sent, NEW j \in 0..peer.sent, NEW a \in numbers,
               p = PeerPacket({"ack"}, i, j, a)
        PROVE  \E n \in 0..peer.got : Segment(p, {"ack"}, i, j, n)
    BY <1>3, Zenon DEF PeerPacket, Packet, Segment
  <1>4. ASSUME peer.state \in {"open", "reset"}, peer.fin,
               NEW i \in 0..peer.sent, NEW a \in numbers,
               p = PeerPacket({"ack", "fin"}, i, peer.sent, a)
        PROVE  \E n \in 0..peer.got : Segment(p, {"ack", "fin"}, i, peer.sent, n)
    BY <1>4, Zenon DEF PeerPacket, Packet, Segment
  <1>5. CASE peer.state = "reset" /\ p = PeerPacket({"rst"}, peer.sent, peer.sent, 0)
    BY <1>5, Zenon DEF PeerPacket, Packet
  <1>6. \/ peer.state # "listen" /\ ~AnsweredSyn /\ p = PeerPacket({"syn"}, -1, -1, 0)
        \/ AnsweredSyn /\ p = PeerPacket({"syn", "ack"}, -1, -1, 1)
        \/ /\ peer.state \in {"open", "reset"}
           /\ \E i, j \in 0..peer.sent, a \in numbers : p = PeerPacket({"ack"}, i, j, a)
        \/ /\ peer.state \in {"open", "reset"} /\ peer.fin
           /\ \E i \in 0..peer.sent, a \in numbers : p = PeerPacket({"ack", "fin"}, i, peer.sent, a)
        \/ peer.state = "reset" /\ p = PeerPacket({"rst"}, peer.sent, peer.sent, 0)
    BY DEF FromPeer
  <1>7. CASE /\ peer.state \in {"open", "reset"}
             /\ \E i, j \in 0..peer.sent, a \in numbers : p = PeerPacket({"ack"}, i, j, a)
    BY <1>3, <1>7, Zenon
  <1>8. CASE /\ peer.state \in {"open", "reset"} /\ peer.fin
             /\ \E i \in 0..peer.sent, a \in numbers :
                    p = PeerPacket({"ack", "fin"}, i, peer.sent, a)
    BY <1>4, <1>8, Zenon
  <1> QED  BY <1>1, <1>2, <1>5, <1>6, <1>7, <1>8, Zenon

-----------------------------------------------------------------------------
(* Acknowledged writes *)

\* A write is taken for acknowledged only by a number that covers it.
LEMMA AckedIsCovered ==
    ASSUME NEW n \in 0..MaxOut, NEW e \in 1..MaxOut + 1, NEW w, w.end = e, Acked(w, Plus(1, n))
    PROVE  e - 1 <= n
  <1>1. /\ SeqSpace \in Nat \ {0} /\ SeqSpace \div 2 \in Nat /\ 2 * (SeqSpace \div 2) = SeqSpace
        /\ MaxOut \in Nat /\ MaxOut < SeqSpace \div 2
    BY SpaceIsPositive, SeqAssumption, StreamAssumption
  <1>2. 1 \in Nat /\ n \in Nat /\ 1 + n < SeqSpace
    BY <1>1
  <1>3. Plus(1, n) = 1 + n
    BY <1>1, <1>2, PlusWraps
  <1>4. /\ 1 + n \in Nat /\ SeqSpace - e \in Nat /\ (1 + n) + (SeqSpace - e) < 2 * SeqSpace
    BY <1>1, <1>2
  <1> DEFINE d == Plus(1 + n, SeqSpace - e)
  <1>5. d = IF (1 + n) + (SeqSpace - e) < SeqSpace THEN (1 + n) + (SeqSpace - e)
            ELSE ((1 + n) + (SeqSpace - e)) - SeqSpace
    BY <1>4, PlusWraps, Zenon
  <1>6. d < SeqSpace \div 2
    BY <1>3, Zenon DEF Acked
  <1> QED  BY <1>1, <1>4, <1>5, <1>6

\* A set of numbers that is not empty has a least one.
LEMMA HasLeast ==
    ASSUME NEW T, T \subseteq Nat, T # {}
    PROVE  \E x \in T : \A y \in T : x <= y
  <1> DEFINE R == OpToRel(<, Nat)
  <1>1. IsWellFoundedOn(R, Nat)
    BY NatLessThanWellFounded, Zenon
  <1>2. \A x, y \in Nat : y < x => <<y, x>> \in R
    BY Zenon DEF OpToRel
  <1> HIDE DEF R
  <1>3. PICK x \in T : \A y \in T : ~ (<<y, x>> \in R)
    BY <1>1, WFMin, Zenon
  <1>4. \A y \in T : ~(y < x)
    BY <1>2, <1>3, Zenon
  <1> QED  BY <1>4

\* How many writes an acknowledgement completes: those at the head of the queue.
Covers(n, ack) ==
    /\ \A i \in 1..n : Acked(conn.writes[i], ack)
    /\ n < Len(conn.writes) => ~Acked(conn.writes[n + 1], ack)

\* There is such a number.
LEMMA CoversSome ==
    ASSUME NEW ack, conn.writes \in Seq(Writing)
    PROVE  \E n \in 0..Len(conn.writes) : Covers(n, ack)
  <1> DEFINE T == {i \in 1..Len(conn.writes) : ~Acked(conn.writes[i], ack)}
  <1>0. Len(conn.writes) \in Nat
    OBVIOUS
  <1>1. CASE T = {}
    <2>1. Covers(Len(conn.writes), ack)
      BY <1>0, <1>1 DEF Covers
    <2> QED  BY <1>0, <2>1
  <1>2. CASE T # {}
    <2>0. T \subseteq Nat
      OBVIOUS
    <2>1. PICK m \in T : \A y \in T : m <= y
      BY <1>2, <2>0, HasLeast, Zenon
    <2>2. m - 1 \in 0..Len(conn.writes) /\ \A i \in 1..m - 1 : i \notin T
          /\ i \in 1..Len(conn.writes)
      BY <1>0, <2>1
    <2>3. Covers(m - 1, ack)
      BY <1>0, <2>1, <2>2 DEF Covers
    <2> QED  BY <2>2, <2>3, Zenon
  <1> QED  BY <1>1, <1>2, Zenon

\* process_ack takes writes off the head of the queue, and the other end has those.
LEMMA AckedWrites ==
    ASSUME conn \in Connections, Outgoing, peer.got \in Nat, NEW m \in 0..peer.got
    PROVE  LET r == ProcessAck(conn, Plus(1, m)) IN
           \E n \in 0..Len(conn.writes) :
              /\ r = Result([conn EXCEPT !.writes = SubSeq(@, n + 1, Len(@))],
                            [i \in 1..n |-> Done(conn.writes[i].op, conn.writes[i].len)], <<>>)
              /\ \A i \in 1..n : /\ conn.writes[i].op[1] = "write"
                                 /\ conn.writes[i].op[2] \in 0..peer.got
  <1> DEFINE ack == Plus(1, m)
             n == CHOOSE n \in 0..Len(conn.writes) : Covers(n, ack)
  <1>1. conn.writes \in Seq(Writing) /\ Len(conn.writes) \in Nat
    BY DEF Connections
  <1>2. n \in 0..Len(conn.writes) /\ Covers(n, ack)
    BY <1>1, CoversSome, Zenon
  <1>3. ProcessAck(conn, ack) =
            Result([conn EXCEPT !.writes = SubSeq(@, n + 1, Len(@))],
                   [i \in 1..n |-> Done(conn.writes[i].op, conn.writes[i].len)], <<>>)
    BY Zenon DEF ProcessAck, Covers
  <1> HIDE DEF n
  <1>4. ASSUME NEW i \in 1..n
        PROVE  conn.writes[i].op[1] = "write" /\ conn.writes[i].op[2] \in 0..peer.got
    <2>1. i \in DOMAIN conn.writes /\ conn.writes[i] \in Writing
      BY <1>1, <1>2
    <2>2. /\ conn.state # "none" /\ conn.sent \in Nat
          /\ conn.sent <= MaxOut + 1 /\ peer.got <= Written /\ MaxOut \in Nat
      BY StreamAssumption, Zenon DEF Outgoing, Open, Connections
    <2>3. /\ conn.writes[i].op[2] = conn.writes[i].end - 1 /\ conn.writes[i].end \in 1..conn.sent
      BY <2>1, <2>2, Zenon DEF Outgoing, Open
    <2>4. m \in 0..MaxOut /\ conn.writes[i].end \in 1..MaxOut + 1
      BY <2>2, <2>3 DEF Written
    <2>5. Acked(conn.writes[i], ack)
      BY <1>2, Zenon DEF Covers
    <2>6. conn.writes[i].end - 1 <= m
      BY <2>4, <2>5, AckedIsCovered, Zenon
    <2>7. conn.writes[i].op[1] = "write"
      BY <2>1, Zenon DEF Writing
    <2>8. conn.writes[i].op[2] \in 0..peer.got
      BY <2>2, <2>3, <2>6
    <2> QED  BY <2>7, <2>8, Zenon
  <1> QED  BY <1>2, <1>3, <1>4, Zenon

-----------------------------------------------------------------------------
(* Initially, and what the other end does *)

\* The connection as it is created, and the SYN or its answer.
LEMMA StreamStarts ==
    ASSUME StreamFlaws = {}, StreamInit
    PROVE  StreamInv
  <1>0. PICK isn \in ISNs, outbound \in BOOLEAN :
            /\ outbound \/ isn # 0
            /\ conn = [NewConnection(1, 1, outbound \/ isn = 0, NoOp) EXCEPT
                         !.rcvd = IF outbound THEN 0 ELSE isn]
            /\ peer = [isn |-> isn, state |-> IF outbound THEN "listen" ELSE "synsent",
                       sent |-> 0, got |-> 0, fin |-> FALSE]
            /\ wire = {Packet(0, 0, IF outbound \/ isn = 0 THEN {"syn"} ELSE {"syn", "ack"}, <<>>)}
    BY Zenon DEF StreamInit
  <1>a. (outbound \/ isn = 0) = outbound
    BY <1>0, Zenon
  <1>1. /\ conn = [NewConnection(1, 1, outbound, NoOp) EXCEPT
                     !.rcvd = IF outbound THEN 0 ELSE isn]
        /\ peer = [isn |-> isn, state |-> IF outbound THEN "listen" ELSE "synsent",
                   sent |-> 0, got |-> 0, fin |-> FALSE]
        /\ wire = {Packet(0, 0, IF outbound THEN {"syn"} ELSE {"syn", "ack"}, <<>>)}
    BY <1>0, <1>a, Zenon
  <1>2. /\ acks = {} /\ taken = <<>> /\ ended = {} /\ wrote = {}
    BY Zenon DEF StreamInit
  <1>3. isn \in Numbers /\ MaxIn \in Nat /\ isn \in Nat
    BY StreamAssumption, SpaceIsPositive DEF Numbers
  <1>4. conn = [state |-> IF outbound THEN "SynSent" ELSE "SynReceived",
                port |-> 1, remote |-> 1, sent |-> 0, rcvd |-> IF outbound THEN 0 ELSE isn,
                onConnect |-> NoOp, reads |-> <<>>, writes |-> <<>>, data |-> <<>>]
    BY <1>1, Zenon DEF NewConnection
  <1>5. conn \in Connections
    BY <1>3, <1>4 DEF Connections, Ports
  <1>6. wire \subseteq Packets /\ \A p \in wire : p.data = <<>> /\ (outbound <=> p.flags = {"syn"})
    BY <1>1 DEF Packet, Packets, Flags
  <1>b. wire # {}
    BY <1>1
  <1>7. peer \in Peers
    BY <1>1, <1>3 DEF Peers
  <1>8. StreamTypes
    BY <1>2, <1>5, <1>6, <1>7 DEF StreamTypes
  <1>9. PeerSilent /\ Opening
    BY <1>1, <1>2, <1>4, <1>6, <1>b DEF PeerSilent, Opening
  <1>10. Outgoing
    BY <1>1, <1>4, <1>6, StreamAssumption DEF Outgoing, Written
  <1>11. Incoming
    <2>1. Kept = 0 /\ Len(taken) = 0 /\ Bytes(0, 0) = <<>>
      BY <1>2, <1>4, EmptyRun DEF Kept
    <2>2. conn.data = <<>> /\ conn.reads = <<>> /\ peer.sent = 0
      BY <1>1, <1>4
    <2> QED  BY <1>2, <2>1, <2>2 DEF Incoming
  <1>12. Acknowledged /\ AtTheEnd /\ WritesDelivered /\ EofIsTheEnd
    BY <1>2, <1>4, Zenon DEF Acknowledged, AtTheEnd, Open, WritesDelivered, EofIsTheEnd
  <1> QED  BY <1>8, <1>9, <1>10, <1>11, <1>12, Zenon DEF StreamInv

\* The other end sends, finishes or gives up.
LEMMA PeerSends ==
    ASSUME StreamInv, PeerWrites \/ PeerResets
    PROVE  StreamInv'
  <1>1. /\ peer \in Peers /\ peer.state = "open"
        /\ UNCHANGED <<conn, wire, acks, taken, ended, wrote>>
    BY Zenon DEF PeerWrites, PeerResets, StreamInv, StreamTypes
  <1>2. \/ ~peer.fin /\ peer.sent < MaxIn /\ peer' = [peer EXCEPT !.sent = @ + 1]
        \/ ~peer.fin /\ peer' = [peer EXCEPT !.fin = TRUE]
        \/ peer' = [peer EXCEPT !.state = "reset"]
    BY Zenon DEF PeerWrites, PeerResets
  <1>3. /\ peer' \in Peers /\ peer'.isn = peer.isn /\ peer'.got = peer.got
        /\ peer'.state \in {"open", "reset"} /\ peer.sent <= peer'.sent
        /\ peer.fin => peer'.fin /\ peer'.sent = peer.sent
    <2>1. CASE peer.sent < MaxIn /\ ~peer.fin /\ peer' = [peer EXCEPT !.sent = @ + 1]
      BY <1>1, <2>1, StreamAssumption DEF Peers
    <2>2. CASE ~peer.fin /\ peer' = [peer EXCEPT !.fin = TRUE]
      <3>1. peer' \in Peers
        BY <1>1, <2>2, Zenon DEF Peers
      <3>2. /\ peer'.isn = peer.isn /\ peer'.got = peer.got /\ peer'.sent = peer.sent
            /\ peer'.state = peer.state /\ peer'.fin = TRUE
        BY <1>1, <2>2, Zenon DEF Peers
      <3>3. peer.sent \in Int
        BY <1>1 DEF Peers
      <3> QED  BY <1>1, <2>2, <3>1, <3>2, <3>3
    <2>3. CASE peer' = [peer EXCEPT !.state = "reset"]
      BY <1>1, <2>3 DEF Peers
    <2> QED  BY <1>2, <2>1, <2>2, <2>3, Zenon
  <1> HIDE <1>2
  <1>4. StreamTypes' /\ PeerSilent'
    BY <1>1, <1>3, Zenon DEF StreamInv, StreamTypes, PeerSilent
  <1>5. Opening'
    BY <1>1, <1>3, Zenon DEF StreamInv, Opening
  <1>6. Outgoing'
    BY <1>1, <1>3, Zenon DEF StreamInv, Outgoing, Open, Written
  <1>7. Incoming'
    <2>1. Open => Kept \in Int
      BY <1>1 DEF StreamInv, StreamTypes, Kept, Connections, Open, NoConn
    <2>2. peer.sent \in Int /\ peer'.sent \in Int
      BY <1>1, <1>3 DEF Peers
    <2> QED  BY <1>1, <1>3, <2>1, <2>2 DEF StreamInv, Incoming, Open, Kept
  <1>8. Acknowledged' /\ AtTheEnd'
    BY <1>1, <1>3 DEF StreamInv, Acknowledged, AtTheEnd, Open, Kept
  <1>9. WritesDelivered' /\ EofIsTheEnd'
    BY <1>1, <1>3, Zenon DEF StreamInv, WritesDelivered, EofIsTheEnd
  <1> QED  BY <1>4, <1>5, <1>6, <1>7, <1>8, <1>9, Zenon DEF StreamInv

\* The other end takes a packet.
LEMMA PeerTakes ==
    ASSUME StreamInv, NEW packet \in wire, PeerReceives(packet)
    PROVE  StreamInv'
  <1> DEFINE next == CASE Is("rst", packet) -> [peer EXCEPT !.state = "reset"]
                     [] peer.state = "listen"
                        /\ Is("syn", packet) -> [peer EXCEPT !.state = "synreceived"]
                     [] peer.state = "synsent"
                        /\ packet.flags = {"syn", "ack"} -> [peer EXCEPT !.state = "open"]
                     [] peer.state = "synreceived"
                        /\ Is("ack", packet) -> [peer EXCEPT !.state = "open"]
                     [] OTHER -> peer
  <1>1. /\ UNCHANGED <<conn, wire, acks, taken, ended, wrote>>
        /\ peer' = IF next.state = "open" /\ packet.data # <<>> /\ packet.seq = Plus(1, next.got)
                   THEN [next EXCEPT !.got = @ + Len(packet.data)] ELSE next
    BY Zenon DEF PeerReceives
  <1>2. packet \in Packets /\ peer \in Peers
    BY Zenon DEF StreamInv, StreamTypes
  <1>3. /\ next \in Peers /\ next.isn = peer.isn /\ next.got = peer.got /\ next.sent = peer.sent
        /\ next.fin = peer.fin
        /\ peer.state \notin {"listen", "synreceived", "synsent"} =>
               next.state \in {"open", "reset"}
        /\ peer.state = "synsent" => next.state \in {"synsent", "open", "reset"}
        /\ packet.flags = {"syn"} /\ peer.state \in {"listen", "synreceived"} =>
              next.state = "synreceived"
    BY <1>2, Zenon DEF Is, Peers
  <1> HIDE DEF next
  <1>4. /\ peer' \in Peers /\ peer'.isn = peer.isn /\ peer'.sent = peer.sent /\ peer'.fin = peer.fin
        /\ peer'.state = next.state /\ peer.got <= peer'.got
        /\ \/ peer'.got = peer.got
           \/ /\ packet.data # <<>> /\ next.state = "open" /\ packet.seq = Plus(1, peer.got)
              /\ peer'.got = peer.got + Len(packet.data)
    <2>1. Len(packet.data) \in Nat /\ next.got \in Nat
      BY <1>2, <1>3 DEF Packets, Peers
    <2>2. [next EXCEPT !.got = next.got + Len(packet.data)] \in Peers
      BY <1>3, <2>1 DEF Peers
    <2>3. CASE next.state = "open" /\ packet.data # <<>> /\ packet.seq = Plus(1, next.got)
      <3>1. peer' = [next EXCEPT !.got = next.got + Len(packet.data)]
        BY <1>1, <2>3, Zenon
      <3> HIDE <1>1
      <3> QED  BY <1>2, <1>3, <2>1, <2>2, <2>3, <3>1 DEF Peers
    <2>4. CASE ~(next.state = "open" /\ packet.data # <<>> /\ packet.seq = Plus(1, next.got))
      <3>1. peer' = next
        BY <1>1, <2>4, Zenon
      <3> QED  BY <1>3, <2>1, <3>1
    <2> QED  BY <2>3, <2>4, Zenon
  <1>5. /\ UNCHANGED <<conn, wire, acks, taken, ended, wrote>>
    BY <1>1, Zenon
  <1> HIDE <1>1
  <1>6. StreamTypes'
    BY <1>4, <1>5, Zenon DEF StreamInv, StreamTypes
  <1>7. PeerSilent'
    BY <1>3, <1>4, <1>2, Zenon DEF StreamInv, PeerSilent, Peers
  <1>8. Opening'
    BY <1>2, <1>3, <1>4, <1>5, Zenon DEF StreamInv, Opening, Peers
  <1>9. Outgoing'
    <2>1. ASSUME Open
          PROVE  peer'.got <= Written
      <3>1. CASE peer'.got = peer.got
        BY <2>1, <3>1, Zenon DEF StreamInv, Outgoing
      <3>2. CASE packet.data # <<>> /\ packet.seq = Plus(1, peer.got)
                 /\ peer'.got = peer.got + Len(packet.data)
        <4>1. /\ packet.seq - 1 + Len(packet.data) <= Written /\ peer.got <= Written
              /\ conn.sent <= MaxOut + 1 /\ conn.sent \in Nat
          BY <2>1, <3>2 DEF StreamInv, Outgoing, StreamTypes, Connections, Open, NoConn
        <4>2. /\ MaxOut \in Nat /\ 2 * (SeqSpace \div 2) = SeqSpace /\ MaxOut < SeqSpace \div 2
              /\ SeqSpace \div 2 \in Nat /\ SeqSpace \in Nat
          BY SpaceIsPositive, SeqAssumption, StreamAssumption
        <4>3. peer.got \in Nat /\ 1 \in Nat /\ 1 + peer.got < SeqSpace
          BY <1>2, <4>1, <4>2 DEF Peers, Written
        <4>4. Plus(1, peer.got) = 1 + peer.got
          BY <4>2, <4>3, PlusWraps
        <4>5. Len(packet.data) \in Nat /\ packet.seq \in Nat
          BY <1>2 DEF Packets
        <4> QED  BY <3>2, <4>1, <4>3, <4>4, <4>5 DEF Written
      <3> QED  BY <1>4, <3>1, <3>2, Zenon
    <2> QED  BY <1>5, <2>1, Zenon DEF StreamInv, Outgoing, Open, Written
  <1>10. Incoming' /\ Acknowledged' /\ AtTheEnd'
    BY <1>4, <1>5 DEF StreamInv, Incoming, Acknowledged, AtTheEnd, Open, Kept
  <1>11. EofIsTheEnd'
    BY <1>4, <1>5, Zenon DEF StreamInv, EofIsTheEnd
  <1>12. WritesDelivered'
    BY <1>2, <1>4, <1>5 DEF StreamInv, StreamTypes, WritesDelivered, Peers
  <1> QED  BY <1>6, <1>7, <1>8, <1>9, <1>10, <1>11, <1>12, Zenon DEF StreamInv

-----------------------------------------------------------------------------
(* A packet that ends or begins a connection, or is refused *)

\* Two sequences in a row.
LEMMA Joined ==
    ASSUME NEW S, NEW T, NEW a \in Seq(S), NEW b \in Seq(T)
    PROVE  /\ DOMAIN (a \o b) = 1..Len(a) + Len(b) /\ Len(a) \in Nat /\ Len(b) \in Nat
           /\ \A i \in 1..Len(a) : (a \o b)[i] = a[i]
           /\ \A i \in Len(a) + 1..Len(a) + Len(b) :
                 (a \o b)[i] = b[i - Len(a)] /\ i - Len(a) \in 1..Len(b)
  OBVIOUS

\* What waits when a connection is closed ends without bytes.
LEMMA ClosingResults ==
    ASSUME conn \in Connections
    PROVE  LET done == EndReads(conn) \o FailWrites(conn) IN
           /\ \A i \in DOMAIN done : \/ done[i].op[1] = "read" /\ done[i].res = EOF
                                     \/ done[i].op[1] = "write" /\ ~done[i].ok
           /\ conn.reads = <<>> => \A i \in DOMAIN done : done[i].op[1] = "write"
  <1> DEFINE a == EndReads(conn)
             b == FailWrites(conn)
             done == a \o b
             S == {Done(<<"read">>, EOF)}
             T == {Failed(op) : op \in {"write"} \X Nat}
  <1>1. /\ conn.reads \in Seq(Reading) /\ Len(conn.reads) \in Nat
        /\ conn.writes \in Seq(Writing) /\ Len(conn.writes) \in Nat
    BY DEF Connections
  <1>2. /\ a \in Seq(S) /\ Len(a) = Len(conn.reads)
    <2>1. ASSUME NEW i \in 1..Len(conn.reads)
          PROVE  conn.reads[i].op = <<"read">>
      <3>1. conn.reads[i] \in Reading
        BY <1>1
      <3> QED  BY <3>1, Zenon DEF Reading
    <2>2. a = [i \in 1..Len(conn.reads) |-> Done(<<"read">>, EOF)]
      BY <2>1, Zenon DEF EndReads
    <2> QED  BY <1>1, <2>2
  <1>3. /\ b \in Seq(T) /\ Len(b) = Len(conn.writes)
    <2>1. ASSUME NEW i \in 1..Len(conn.writes)
          PROVE  conn.writes[i].op \in {"write"} \X Nat
      <3>1. conn.writes[i] \in Writing
        BY <1>1
      <3> QED  BY <3>1, Zenon DEF Writing
    <2> QED  BY <1>1, <2>1 DEF FailWrites
  <1>4. \A i \in 1..Len(a) : a[i].op[1] = "read" /\ a[i].res = EOF
    BY <1>1, <1>2 DEF Done
  <1>5. \A i \in 1..Len(b) : b[i].op[1] = "write" /\ ~b[i].ok
    BY <1>1, <1>3, SMTT(30) DEF Failed
  <1> HIDE DEF a, b, S, T
  <1>a. Len(a) \in Nat /\ Len(b) \in Nat
    BY <1>1, <1>2, <1>3, Zenon
  <1>6. /\ DOMAIN done = 1..Len(a) + Len(b)
        /\ \A i \in 1..Len(a) : done[i] = a[i]
        /\ \A i \in Len(a) + 1..Len(a) + Len(b) : done[i] = b[i - Len(a)]
           /\ i - Len(a) \in 1..Len(b)
    <2>1. a \in Seq(S) /\ b \in Seq(T)
      BY <1>2, <1>3, Zenon
    <2> QED  BY <2>1, Joined
  <1>7. ASSUME NEW i \in DOMAIN done
        PROVE  /\ \/ done[i].op[1] = "read" /\ done[i].res = EOF
                  \/ done[i].op[1] = "write" /\ ~done[i].ok
               /\ conn.reads = <<>> => done[i].op[1] = "write"
    <2>1. CASE i \in 1..Len(a)
      <3>1. conn.reads # <<>>
        BY <1>1, <1>2, <2>1
      <3> QED  BY <1>4, <1>6, <2>1, <3>1, Zenon
    <2>2. CASE i \in Len(a) + 1..Len(a) + Len(b)
      BY <1>5, <1>6, <2>2
    <2>3. i \in 1..Len(a) \/ i \in Len(a) + 1..Len(a) + Len(b)
      BY <1>6, <1>a
    <2> QED  BY <2>1, <2>2, <2>3, Zenon
  <1> QED  BY <1>7, Zenon DEF a, b

\* A reset, or whatever comes after the FIN, ends what waits.
LEMMA ClosingArrives ==
    ASSUME StreamInv, Open, conn.state = "LastAck" \/ "reset" \in ended',
           LET r == HandleClose(conn)
           IN  /\ conn' = r.conn /\ Apply(r)
               /\ ended \subseteq ended' /\ ended' \subseteq ended \cup {"reset", "eof"}
               /\ "eof" \in ended' => "eof" \in ended \/ Eof(r)
    PROVE  StreamInv'
  <1> DEFINE r == HandleClose(conn)
             done == EndReads(conn) \o FailWrites(conn)
  <1>0. conn \in Connections /\ peer \in Peers
    BY DEF StreamInv, StreamTypes, Open, NoConn
  <1>1. /\ r.done = done /\ r.out = <<>> /\ r.conn = [conn EXCEPT !.reads = <<>>, !.writes = <<>>]
    BY Zenon DEF HandleClose, Result
  <1>2. /\ \A i \in DOMAIN done : \/ done[i].op[1] = "read" /\ done[i].res = EOF
                                  \/ done[i].op[1] = "write" /\ ~done[i].ok
        /\ conn.reads = <<>> => \A i \in DOMAIN done : done[i].op[1] = "write"
    BY <1>0, ClosingResults, Zenon
  <1>3. Apply(r)
    BY Zenon
  <1> HIDE DEF done
  <1>4. wire' = wire /\ acks' = acks /\ peer' = peer
    BY <1>1, <1>3, SendsNothing, Zenon
  <1>5. taken' = taken
    <2>1. taken' = Given(done)
      BY <1>1, <1>3, Zenon DEF Apply
    <2> QED  BY <1>2, <2>1, GivesNothing, Zenon
  <1>6. WritesDelivered' /\ wrote' \subseteq Nat
    <2>1. WritesDelivered /\ wrote \subseteq Nat /\ peer.got \in Nat
      BY <1>0, Zenon DEF StreamInv, StreamTypes, Peers
    <2>2. \A i \in DOMAIN r.done :
              r.done[i].op[1] = "write" /\ r.done[i].ok => r.done[i].op[2] \in 0..peer.got
      BY <1>1, <1>2, Zenon
    <2> QED  BY <1>3, <2>1, <2>2, WritesStayDelivered, Zenon
  <1>7. /\ conn'.state = conn.state /\ conn'.sent = conn.sent /\ conn'.rcvd = conn.rcvd
        /\ conn'.data = conn.data /\ conn'.reads = <<>> /\ conn'.writes = <<>>
        /\ conn' \in Connections
    <2>1. conn' = [conn EXCEPT !.reads = <<>>, !.writes = <<>>]
      BY <1>1, Zenon
    <2> HIDE DEF r
    <2>2. <<>> \in Seq(Reading) /\ <<>> \in Seq(Writing)
      OBVIOUS
    <2>3. conn' \in Connections
      BY <1>0, <2>1, <2>2, Zenon DEF Connections
    <2>4. /\ conn'.state = conn.state /\ conn'.sent = conn.sent /\ conn'.rcvd = conn.rcvd
          /\ conn'.data = conn.data
      BY <1>0, <2>1, Zenon DEF Connections
    <2>5. conn'.reads = <<>> /\ conn'.writes = <<>>
      BY <1>0, <2>1, Zenon DEF Connections
    <2> QED  BY <2>3, <2>4, <2>5, Zenon
  <1>8. Eof(r) => conn.reads # <<>>
    BY <1>1, <1>2, Zenon DEF Eof, ReadsOf
  <1>9. /\ ended \subseteq ended' /\ ended' \subseteq ended \cup {"reset", "eof"}
        /\ "eof" \in ended' => "eof" \in ended \/ Eof(r)
    BY Zenon
  <1> HIDE DEF r
  <1>10. StreamTypes' /\ PeerSilent'
    BY <1>4, <1>5, <1>6, <1>7, <1>9, Zenon DEF StreamInv, StreamTypes, PeerSilent
  <1>11. Opening'
    BY <1>4, <1>5, <1>7, <1>8, <1>9, Zenon DEF StreamInv, Opening
  <1>12. Outgoing' /\ Incoming'
    BY <1>4, <1>5, <1>7 DEF StreamInv, Outgoing, Incoming, Open, Written, Kept
  <1>13. Acknowledged' /\ AtTheEnd'
    BY <1>4, <1>5, <1>7, ZenonT(60) DEF StreamInv, Acknowledged, AtTheEnd, Open, Kept
  <1>14. EofIsTheEnd'
    <2>1. CASE "reset" \in ended'
      BY <2>1, Zenon DEF EofIsTheEnd
    <2>2. CASE conn.state = "LastAck"
      BY <1>4, <1>5, <1>8, <1>9, <2>2, Zenon DEF StreamInv, EofIsTheEnd, AtTheEnd
    <2> QED  BY <2>1, <2>2, Zenon
  <1> QED  BY <1>6, <1>10, <1>11, <1>12, <1>13, <1>14, Zenon DEF StreamInv

\* close of the task's side.
LEMMA TaskClosesKeeps ==
    ASSUME StreamInv, TaskCloses
    PROVE  StreamInv'
  <1> DEFINE r == Close(conn)
             done == EndReads(conn) \o FailWrites(conn)
  <1>0. conn \in Connections /\ peer \in Peers
    BY DEF StreamInv, StreamTypes, TaskCloses, Open, NoConn
  <1>1. /\ r.done = done
        /\ r.out = <<>> \/ r.out = <<Answer(conn, conn.rcvd, {"fin", "ack"})>>
    BY Zenon DEF Close, Result
  <1>2. /\ \A i \in DOMAIN done : \/ done[i].op[1] = "read" /\ done[i].res = EOF
                                  \/ done[i].op[1] = "write" /\ ~done[i].ok
    BY <1>0, ClosingResults, Zenon
  <1>3. Apply(r) /\ conn' = NoConn /\ ended' = ended \cup {"closed"}
    BY Zenon DEF TaskCloses
  <1> HIDE DEF done
  <1>4. /\ peer' = peer
        /\ wire' = wire \/ wire' = wire \cup {Packet(0, 0, {"fin", "ack"}, <<>>)}
        /\ acks' = acks \/ acks' = acks \cup {<<{"fin", "ack"}, conn.rcvd>>}
    <2>1. CASE r.out = <<>>
      BY <1>3, <2>1, SendsNothing, Zenon
    <2>2. CASE r.out = <<Answer(conn, conn.rcvd, {"fin", "ack"})>>
      <3> DEFINE f == {"fin", "ack"}
                 n == conn.rcvd
      <3>1. Apply(r) /\ r.out = <<Answer(conn, n, f)>>
        BY <1>3, <2>2, Zenon
      <3> HIDE DEF f, n, r
      <3>2. /\ wire' = wire \cup {Packet(0, 0, f, <<>>)} /\ acks' = acks \cup {<<f, n>>}
            /\ peer' = peer
        BY <3>1, SendsAnswer, Zenon
      <3> QED  BY <3>2, Zenon DEF f, n
    <2> QED  BY <1>1, <2>1, <2>2, Zenon
  <1>5. taken' = taken
    <2>1. taken' = Given(done)
      BY <1>1, <1>3, Zenon DEF Apply
    <2> QED  BY <1>2, <2>1, GivesNothing, Zenon
  <1>6. WritesDelivered' /\ wrote' \subseteq Nat
    <2>1. WritesDelivered /\ wrote \subseteq Nat /\ peer.got \in Nat
      BY <1>0, Zenon DEF StreamInv, StreamTypes, Peers
    <2>2. \A i \in DOMAIN r.done :
              r.done[i].op[1] = "write" /\ r.done[i].ok => r.done[i].op[2] \in 0..peer.got
      BY <1>1, <1>2, Zenon
    <2> QED  BY <1>3, <2>1, <2>2, WritesStayDelivered, Zenon
  <1>7. /\ wire' \subseteq Packets /\ \A a \in acks' : a[1] \subseteq Flags
    <2>1. Packet(0, 0, {"fin", "ack"}, <<>>) \in Packets
      BY DEF Packet, Packets, Flags
    <2>2. wire \subseteq Packets /\ \A a \in acks : a[1] \subseteq Flags
      BY Zenon DEF StreamInv, StreamTypes
    <2>3. \A a \in {<<{"fin", "ack"}, conn.rcvd>>} : a[1] \subseteq Flags
      BY DEF Flags
    <2> QED  BY <1>4, <2>1, <2>2, <2>3, Zenon
  <1> HIDE DEF r
  <1>8. StreamTypes' /\ PeerSilent'
    BY <1>3, <1>4, <1>5, <1>6, <1>7, Zenon DEF StreamInv, StreamTypes, PeerSilent
  <1>9. conn'.state = "none" /\ "closed" \in ended'
    BY <1>3, Zenon DEF NoConn
  <1>10. Opening' /\ Outgoing' /\ Incoming' /\ Acknowledged' /\ AtTheEnd' /\ EofIsTheEnd'
    BY <1>9, Zenon DEF Opening, Outgoing, Incoming, Acknowledged, AtTheEnd, EofIsTheEnd, Open
  <1> QED  BY <1>6, <1>8, <1>10, Zenon DEF StreamInv

\* A packet that is refused is answered, and that is all.
LEMMA ResetArrives ==
    ASSUME StreamInv, Open, conn.state # "SynSent", NEW packet,
           LET r == HandleReset(conn, packet)
           IN  /\ conn' = r.conn /\ Apply(r)
               /\ ended' = ended \cup (IF Eof(r) THEN {"eof"} ELSE {})
    PROVE  StreamInv'
  <1> DEFINE r == HandleReset(conn, packet)
             n == Plus(packet.seq, 1)
             f == {"rst", "ack"}
  <1>0. conn \in Connections /\ peer \in Peers
    BY DEF StreamInv, StreamTypes, Open, NoConn
  <1>1. r.conn = conn /\ r.done = <<>> /\ r.out = <<Answer(conn, n, f)>>
    BY Zenon DEF HandleReset, Result
  <1>2. Apply(r) /\ conn' = conn
    BY <1>1, Zenon
  <1>3. ~Eof(r)
    BY <1>1 DEF Eof, ReadsOf
  <1>4. ended' = ended
    BY <1>3, Zenon
  <1>5. /\ wire' = wire \cup {Packet(0, 0, f, <<>>)} /\ acks' = acks \cup {<<f, n>>}
        /\ peer' = peer
    BY <1>1, <1>2, SendsAnswer, Zenon
  <1>6. \A i \in DOMAIN r.done : FALSE
    BY <1>1
  <1>7. taken' = taken
    <2>1. taken' = Given(r.done)
      BY <1>2, Zenon DEF Apply
    <2> QED  BY <1>6, <2>1, GivesNothing, Zenon
  <1>8. WritesDelivered' /\ wrote' \subseteq Nat
    <2>1. WritesDelivered /\ wrote \subseteq Nat /\ peer.got \in Nat
      BY <1>0, Zenon DEF StreamInv, StreamTypes, Peers
    <2> QED  BY <1>2, <1>6, <2>1, WritesStayDelivered, Zenon
  <1> HIDE DEF r, n
  <1>9. /\ Packet(0, 0, f, <<>>) \in Packets /\ Packet(0, 0, f, <<>>).data = <<>>
        /\ <<f, n>>[1] = f /\ f \subseteq Flags /\ "rst" \in f
        /\ Packet(0, 0, f, <<>>).flags # {"syn"}
    BY DEF Packet, Packets, Flags
  <1>10. StreamTypes' /\ PeerSilent'
    BY <1>0, <1>2, <1>4, <1>5, <1>7, <1>8, <1>9, Zenon DEF StreamInv, StreamTypes, PeerSilent
  <1>11. Opening'
    BY <1>2, <1>4, <1>5, <1>7, <1>9, Zenon DEF StreamInv, Opening
  <1>12. Outgoing' /\ Incoming'
    BY <1>2, <1>5, <1>7, <1>9, Zenon DEF StreamInv, Outgoing, Incoming, Open, Written, Kept
  <1>13. Acknowledged' /\ AtTheEnd'
    BY <1>2, <1>4, <1>5, <1>7, <1>9, Zenon DEF StreamInv, Acknowledged, AtTheEnd, Open, Kept
  <1>14. EofIsTheEnd'
    BY <1>4, <1>5, <1>7, Zenon DEF StreamInv, EofIsTheEnd
  <1> QED  BY <1>8, <1>10, <1>11, <1>12, <1>13, <1>14, Zenon DEF StreamInv

\* The handshake is over: the first byte that comes has the number after the other end's first.
LEMMA HandshakeEnds ==
    ASSUME StreamInv, conn.state \in {"SynSent", "SynReceived"}, NEW rcvd,
           rcvd = Plus(peer.isn, 1),
           conn' = [conn EXCEPT !.state = "Established", !.sent = Plus(@, 1), !.onConnect = NoOp,
                                !.rcvd = rcvd],
           NEW f, f = {"ack"},
           wire' = wire \/ wire' = wire \cup {Packet(0, 0, f, <<>>)},
           acks' = acks \/ acks' = acks \cup {<<f, rcvd>>},
           UNCHANGED <<peer, taken, ended>>, WritesDelivered', wrote' \subseteq Nat
    PROVE  StreamInv'
  <1>0. conn \in Connections /\ peer \in Peers
    BY DEF StreamInv, StreamTypes, NoConn
  <1>1. /\ conn.sent = 0 /\ conn.reads = <<>> /\ conn.writes = <<>> /\ conn.data = <<>>
        /\ taken = <<>> /\ "eof" \notin ended /\ \A a \in acks : "rst" \in a[1]
    BY Zenon DEF StreamInv, Opening
  <1>2. Plus(0, 1) = 1 /\ rcvd \in Nat /\ MaxOut \in Nat
    <2>1. /\ 0 \in Nat /\ 1 \in Nat /\ 0 + 1 < SeqSpace /\ SeqSpace \in Nat /\ MaxOut \in Nat
      BY SeqAssumption, StreamAssumption
    <2>2. peer.isn \in Numbers /\ 0 \in 0..SeqSpace - 2 /\ 1 + 0 = 1
      BY <1>0, <2>1 DEF Peers
    <2>3. rcvd \in Numbers
      BY <2>2, PlusOne, Zenon
    <2>4. Plus(0, 1) = IF 0 + 1 < SeqSpace THEN 0 + 1 ELSE (0 + 1) - SeqSpace
      <3>1. 0 + 1 < 2 * SeqSpace
        BY <2>1
      <3> QED  BY <2>1, <3>1, PlusWraps, Zenon
    <2>5. Plus(0, 1) = 1
      BY <2>1, <2>4
    <2> QED  BY <2>1, <2>3, <2>5 DEF Numbers
  <1>3. /\ conn' \in Connections /\ conn'.state = "Established" /\ conn'.sent = 1
        /\ conn'.rcvd = rcvd /\ conn'.reads = <<>> /\ conn'.writes = <<>> /\ conn'.data = <<>>
    <2>1. conn' = [conn EXCEPT !.state = "Established", !.sent = 1, !.onConnect = NoOp,
                                  !.rcvd = rcvd]
      BY <1>1, <1>2, Zenon
    <2>2. conn' \in Connections
      <3>1. /\ "Established" \in {"SynSent", "SynReceived", "Established", "LastAck"}
            /\ 1 \in Nat /\ NoOp \in {NoOp}
        BY Zenon
      <3> QED  BY <1>0, <1>2, <2>1, <3>1, ZenonT(60) DEF Connections
    <2>3. /\ conn'.state = "Established" /\ conn'.sent = 1 /\ conn'.rcvd = rcvd
          /\ conn'.reads = conn.reads /\ conn'.writes = conn.writes /\ conn'.data = conn.data
      BY <1>0, <2>1, Zenon DEF Connections
    <2> QED  BY <1>1, <2>2, <2>3, Zenon
  <1>4. /\ Packet(0, 0, f, <<>>) \in Packets /\ Packet(0, 0, f, <<>>).data = <<>>
        /\ <<f, rcvd>>[1] = f /\ <<f, rcvd>>[2] = rcvd /\ f \subseteq Flags
    BY DEF Packet, Packets, Flags
  <1>5. StreamTypes' /\ PeerSilent'
    BY <1>3, <1>4, Zenon DEF StreamInv, StreamTypes, PeerSilent
  <1>6. Opening' /\ AtTheEnd' /\ EofIsTheEnd'
    BY <1>1, <1>3, Zenon DEF Opening, AtTheEnd, EofIsTheEnd, Open
  <1>7. Outgoing'
    BY <1>0, <1>1, <1>2, <1>3, <1>4 DEF StreamInv, Outgoing, Open, Written
  <1>8. Kept' = 0 /\ Kept = 0
    BY <1>1, <1>3 DEF Kept
  <1>9. Incoming'
    BY <1>1, <1>3, <1>8, Zenon DEF StreamInv, Incoming, Open
  <1>10. Acknowledged'
    <2>1. \A a \in acks' : "rst" \notin a[1] => a[2] = Plus(peer.isn, 1 + 0)
      BY <1>1, <1>4
    <2>2. conn'.rcvd = Plus(peer.isn, 1 + 0)
      BY <1>3
    <2> QED  BY <1>8, <2>1, <2>2 DEF Acknowledged
  <1> QED  BY <1>5, <1>6, <1>7, <1>9, <1>10, Zenon DEF StreamInv

-----------------------------------------------------------------------------
(* Bytes that come in *)

\* The number of byte j of the stream, from the one of byte i.
LEMMA PlusPlus ==
    ASSUME NEW isn \in Numbers, NEW i \in 0..SeqSpace - 2, NEW j \in 0..SeqSpace - 2, i <= j
    PROVE  Plus(Plus(isn, 1 + i), j - i) = Plus(isn, 1 + j)
  <1> DEFINE b == Plus(isn, 1 + i)
  <1>1. isn \in Nat /\ 1 + i \in Nat /\ 1 + j \in Nat /\ j - i \in Nat
        /\ isn + (1 + i) < 2 * SeqSpace /\ isn + (1 + j) < 2 * SeqSpace
    BY SpaceIsPositive DEF Numbers
  <1>2. /\ b = IF isn + (1 + i) < SeqSpace THEN isn + (1 + i) ELSE (isn + (1 + i)) - SeqSpace
        /\ b \in Numbers
    BY <1>1, PlusWraps, Zenon
  <1>3. Plus(isn, 1 + j) = IF isn + (1 + j) < SeqSpace THEN isn + (1 + j)
                           ELSE (isn + (1 + j)) - SeqSpace
    BY <1>1, PlusWraps, Zenon
  <1> HIDE DEF b
  <1>4. b \in Nat /\ b + (j - i) < 2 * SeqSpace
    BY <1>2, SpaceIsPositive DEF Numbers
  <1>5. Plus(b, j - i) = IF b + (j - i) < SeqSpace THEN b + (j - i) ELSE (b + (j - i)) - SeqSpace
    BY <1>1, <1>4, PlusWraps, Zenon
  <1>6. Plus(b, j - i) = Plus(isn, 1 + j)
    BY <1>1, <1>2, <1>3, <1>4, <1>5, SpaceIsPositive DEF Numbers
  <1> QED  BY <1>6, Zenon DEF b

\* Bytes come in, or are read: t of them have been read then, and k have come.
Moves(n, k, t, f, a) ==
    /\ conn' \in Connections /\ conn'.state \in {"Established", "LastAck"}
    /\ conn'.sent = conn.sent
    /\ n \in 0..Len(conn.writes) /\ conn'.writes = SubSeq(conn.writes, n + 1, Len(conn.writes))
    /\ k \in Nat /\ Kept <= k /\ k <= peer.sent /\ conn'.rcvd = Plus(peer.isn, 1 + k)
    /\ t \in Nat /\ Len(taken) <= t /\ t <= k /\ taken' = Bytes(0, t) /\ conn'.data = Bytes(t, k)
    /\ Len(conn'.reads) <= 1 /\ (conn'.reads # <<>> => conn'.data = <<>>)
    /\ conn'.state = "LastAck" => peer.fin /\ k = peer.sent /\ conn'.reads = <<>>
    /\ \/ wire' = wire /\ acks' = acks
       \/ /\ wire' = wire \cup {Packet(0, 0, f, <<>>)} /\ acks' = acks \cup {<<f, a>>}
          /\ f \subseteq Flags
          /\ \/ a = Plus(peer.isn, 1 + k)
             \/ peer.fin /\ "fin" \in f /\ a = Plus(peer.isn, 2 + peer.sent)
    /\ peer' = peer /\ WritesDelivered' /\ wrote' \subseteq Nat
    /\ ended \subseteq ended' /\ ended' \subseteq ended \cup {"eof"}
    /\ "eof" \in ended' => "eof" \in ended \/ (peer.fin /\ t = peer.sent)

\* A step like that keeps the invariant.
LEMMA StreamMoves ==
    ASSUME StreamInv, Open, conn.state \in {"Established", "LastAck"},
           NEW n, NEW k, NEW t, NEW f, NEW a, Moves(n, k, t, f, a)
    PROVE  StreamInv'
  <1>m. /\ conn' \in Connections /\ conn'.state \in {"Established", "LastAck"}
        /\ conn'.sent = conn.sent
        /\ n \in 0..Len(conn.writes) /\ conn'.writes = SubSeq(conn.writes, n + 1, Len(conn.writes))
        /\ k \in Nat /\ Kept <= k /\ k <= peer.sent /\ conn'.rcvd = Plus(peer.isn, 1 + k)
        /\ t \in Nat /\ Len(taken) <= t /\ t <= k /\ taken' = Bytes(0, t)
           /\ conn'.data = Bytes(t, k)
        /\ Len(conn'.reads) <= 1 /\ (conn'.reads # <<>> => conn'.data = <<>>)
        /\ conn'.state = "LastAck" => peer.fin /\ k = peer.sent /\ conn'.reads = <<>>
        /\ \/ wire' = wire /\ acks' = acks
           \/ /\ wire' = wire \cup {Packet(0, 0, f, <<>>)} /\ acks' = acks \cup {<<f, a>>}
              /\ f \subseteq Flags
              /\ \/ a = Plus(peer.isn, 1 + k)
                 \/ peer.fin /\ "fin" \in f /\ a = Plus(peer.isn, 2 + peer.sent)
        /\ peer' = peer /\ WritesDelivered' /\ wrote' \subseteq Nat
        /\ ended \subseteq ended' /\ ended' \subseteq ended \cup {"eof"}
        /\ "eof" \in ended' => "eof" \in ended \/ (peer.fin /\ t = peer.sent)
    BY Zenon DEF Moves
  <1> USE <1>m
  <1>0. conn \in Connections /\ peer \in Peers /\ taken \in Seq(Nat) /\ peer.sent \in Nat
    BY DEF StreamInv, StreamTypes, Open, NoConn, Peers
  <1>1. /\ taken' \in Seq(Nat) /\ Len(taken') = t
        /\ conn'.data \in Seq(Nat) /\ Len(conn'.data) = k - t
    <2>1. 0 \in Nat /\ 0 <= t /\ t - 0 = t
      OBVIOUS
    <2>2. Bytes(0, t) \in Seq(Nat) /\ Len(Bytes(0, t)) = t - 0
      BY <2>1, Runs, Zenon
    <2>3. Bytes(t, k) \in Seq(Nat) /\ Len(Bytes(t, k)) = k - t
      BY Runs, Zenon
    <2> QED  BY <2>1, <2>2, <2>3, Zenon
  <1>2. Kept' = k
    <2>1. k \in Nat /\ t \in Nat
      BY Zenon
    <2> HIDE <1>m
    <2> QED  BY <1>1, <2>1 DEF Kept
  <1>3. /\ Packet(0, 0, f, <<>>).data = <<>> /\ <<f, a>>[1] = f /\ <<f, a>>[2] = a
        /\ f \subseteq Flags => Packet(0, 0, f, <<>>) \in Packets
    BY DEF Packet, Packets, Flags
  <1>4. wire' \subseteq Packets /\ \A x \in acks' : x[1] \subseteq Flags
    BY <1>3, Zenon DEF StreamInv, StreamTypes
  <1>5. StreamTypes' /\ PeerSilent'
    BY <1>1, <1>4, Zenon DEF StreamInv, StreamTypes, PeerSilent
  <1>6. Opening' /\ AtTheEnd'
    BY <1>2, Zenon DEF Opening, AtTheEnd, Open
  <1>7. Outgoing'
    <2>1. ASSUME NEW i \in DOMAIN conn'.writes
          PROVE  conn'.writes[i].op[2] = conn'.writes[i].end - 1
                 /\ conn'.writes[i].end \in 1..conn.sent
      <3>1. conn.writes \in Seq(Writing)
        BY <1>0, Zenon DEF Connections
      <3> DEFINE w == conn.writes
      <3>2. w \in Seq(Writing) /\ n \in 0..Len(w) /\ i \in DOMAIN SubSeq(w, n + 1, Len(w))
        BY <3>1, Zenon
      <3> HIDE DEF w
      <3>3. SubSeq(w, n + 1, Len(w))[i] = w[n + i] /\ n + i \in DOMAIN w
        BY <3>2, SMTT(60)
      <3>4. conn'.writes[i] = conn.writes[n + i] /\ n + i \in DOMAIN conn.writes
        BY <3>3, Zenon DEF w
      <3> QED  BY <3>4, ZenonT(60) DEF StreamInv, Outgoing
    <2>2. \A p \in wire' : p.data # <<>> => p \in wire
      BY <1>3, Zenon
    <2>3. Written' = Written
      BY Zenon DEF Written
    <2> QED  BY <2>1, <2>2, <2>3, Zenon DEF StreamInv, Outgoing, Open
  <1>8. Incoming'
    BY <1>1, <1>2, Zenon DEF Incoming
  <1>9. Acknowledged'
    <2>1. \A x \in 0..Kept : x \in 0..k
      BY <1>0 DEF Kept, Connections
    <2>2. k \in 0..k
      OBVIOUS
    <2>3. ASSUME NEW x \in acks', "rst" \notin x[1]
          PROVE  \/ \E m \in 0..k : x[2] = Plus(peer.isn, 1 + m)
                 \/ peer.fin /\ "fin" \in x[1] /\ x[2] = Plus(peer.isn, 2 + peer.sent)
      <3>1. CASE x \in acks
        <4>1. \/ \E m \in 0..Kept : x[2] = Plus(peer.isn, 1 + m)
              \/ peer.fin /\ "fin" \in x[1] /\ x[2] = Plus(peer.isn, 2 + peer.sent)
          BY <2>3, <3>1, Zenon DEF StreamInv, Acknowledged
        <4> QED  BY <2>1, <4>1, Zenon
      <3>2. CASE x \notin acks
        <4>1. x = <<f, a>> /\ \/ a = Plus(peer.isn, 1 + k)
                              \/ peer.fin /\ "fin" \in f /\ a = Plus(peer.isn, 2 + peer.sent)
          BY <2>3, <3>2, Zenon
        <4> QED  BY <1>3, <2>2, <4>1, Zenon
      <3> QED  BY <3>1, <3>2, Zenon
    <2> QED  BY <1>2, <2>3, Zenon DEF Acknowledged
  <1>10. EofIsTheEnd'
    BY <1>0, <1>1, SMTT(30) DEF StreamInv, EofIsTheEnd
  <1> QED  BY <1>5, <1>6, <1>7, <1>8, <1>9, <1>10, Zenon DEF StreamInv

\* What follows from the results A \o B of a call, where B is the one of at most one read.
CompletedAs(A, B, res) ==
    /\ \A i \in DOMAIN (A \o B) :
          (A \o B)[i].op[1] = "write" => \E j \in DOMAIN A : (A \o B)[i] = A[j]
    /\ B = <<>> => Given(A \o B) = taken /\ ReadsOf(A \o B) = {}
    /\ B # <<>> => /\ Given(A \o B) = IF res = EOF THEN taken ELSE taken \o res
                   /\ (\E i \in ReadsOf(A \o B) : (A \o B)[i].res = EOF) => res = EOF

\* A call that completes writes, and after them at most one read.
LEMMA Completed ==
    ASSUME NEW S, NEW A \in Seq(S), \A i \in DOMAIN A : A[i].op[1] = "write",
           NEW res, NEW B, B = <<>> \/ B = <<Done(<<"read">>, res)>>
    PROVE  CompletedAs(A, B, res)
  <1> DEFINE D == A \o B
  <1>1. CASE B = <<>>
    <2>1. D = A
      BY <1>1
    <2>2. ReadsOf(A) = {}
      BY Zenon DEF ReadsOf
    <2>3. Given(A) = taken
      BY GivesNothing, Zenon
    <2> QED  BY <1>1, <2>1, <2>2, <2>3, Zenon DEF CompletedAs
  <1>2. CASE B = <<Done(<<"read">>, res)>>
    <2> DEFINE T == {Done(<<"read">>, res)}
               m == Len(A) + 1
    <2>1. B \in Seq(T) /\ Len(B) = 1 /\ B # <<>> /\ B[1] = Done(<<"read">>, res)
      BY <1>2
    <2>2. B[1].op[1] = "read" /\ B[1].res = res
      BY <2>1 DEF Done
    <2> HIDE DEF T
    <2>3. /\ DOMAIN D = 1..Len(A) + Len(B) /\ Len(A) \in Nat /\ Len(B) \in Nat
          /\ \A i \in 1..Len(A) : D[i] = A[i]
          /\ \A i \in Len(A) + 1..Len(A) + Len(B) : D[i] = B[i - Len(A)] /\ i - Len(A) \in 1..Len(B)
      BY <2>1, Joined, Zenon
    <2>4. DOMAIN A = 1..Len(A)
      OBVIOUS
    <2>5. /\ m \in DOMAIN D /\ D[m] = B[1]
          /\ \A i \in DOMAIN D : i # m => i \in DOMAIN A /\ D[i] = A[i]
      BY <2>1, <2>3, <2>4
    <2> HIDE DEF D, m
    <2>6. D[m].op[1] = "read" /\ D[m].res = res
      BY <2>2, <2>5, Zenon
    <2>7. \A i \in DOMAIN D : D[i].op[1] = "write" => \E j \in DOMAIN A : D[i] = A[j]
      BY <2>5, <2>6, Zenon
    <2>8. \A i \in DOMAIN D : D[i].op[1] = "read" => i = m
      BY <2>5, Zenon
    <2>9. (\E i \in ReadsOf(D) : D[i].res = EOF) => res = EOF
      BY <2>6, <2>8, Zenon DEF ReadsOf
    <2>10. CASE res = EOF
      <3>1. \A i \in DOMAIN D : D[i].op[1] = "read" => D[i].res = EOF
        BY <2>6, <2>8, <2>10, Zenon
      <3>2. Given(D) = taken
        BY <3>1, GivesNothing, Zenon
      <3> QED  BY <2>1, <2>7, <2>9, <2>10, <3>2, Zenon DEF D, CompletedAs
    <2>11. CASE res # EOF
      <3>1. /\ m \in DOMAIN D /\ D[m].op[1] = "read" /\ D[m].res # EOF
            /\ \A i \in DOMAIN D : D[i].op[1] = "read" /\ D[i].res # EOF => i = m
        BY <2>5, <2>6, <2>8, <2>11, Zenon
      <3>2. Given(D) = taken \o D[m].res
        BY <3>1, GivesBytes, Zenon
      <3>3. Given(D) = taken \o res
        BY <2>6, <3>2, Zenon
      <3> QED  BY <2>1, <2>7, <2>9, <2>11, <3>3, Zenon DEF D, CompletedAs
    <2> QED  BY <2>10, <2>11, Zenon
  <1> QED  BY <1>1, <1>2, Zenon

\* What an acknowledgement completes.
WriteResults == {Done(op, len) : op \in {"write"} \X Nat, len \in Nat}

\* An acknowledgement takes n writes off the queue, and nothing else changes.
AckTakes(n, r) ==
    /\ r.conn \in Connections /\ r.conn.state = conn.state /\ r.conn.sent = conn.sent
    /\ r.conn.rcvd = conn.rcvd /\ r.conn.reads = conn.reads /\ r.conn.data = conn.data
    /\ r.conn.writes = SubSeq(conn.writes, n + 1, Len(conn.writes))
    /\ r.done \in Seq(WriteResults) /\ r.out = <<>>
    /\ \A i \in DOMAIN r.done : r.done[i].op[1] = "write" /\ r.done[i].op[2] \in 0..peer.got

\* What the ACK flag of a segment does.
LEMMA AckOfSegment ==
    ASSUME conn \in Connections, Outgoing, peer.got \in Nat, NEW m \in 0..peer.got,
           NEW p, Is("ack", p), p.ack = Plus(1, m)
    PROVE  \E n \in 0..Len(conn.writes) : AckTakes(n, AckOf(conn, p))
  <1> DEFINE r == AckOf(conn, p)
  <1>1. r = ProcessAck(conn, Plus(1, m))
    BY Zenon DEF AckOf
  <1>2. PICK n \in 0..Len(conn.writes) :
              /\ r = Result([conn EXCEPT !.writes = SubSeq(@, n + 1, Len(@))],
                            [i \in 1..n |-> Done(conn.writes[i].op, conn.writes[i].len)], <<>>)
              /\ \A i \in 1..n : /\ conn.writes[i].op[1] = "write"
                                 /\ conn.writes[i].op[2] \in 0..peer.got
    BY <1>1, AckedWrites, Zenon
  <1> DEFINE w == conn.writes
             c == [conn EXCEPT !.writes = SubSeq(w, n + 1, Len(w))]
             done == [i \in 1..n |-> Done(w[i].op, w[i].len)]
  <1>3. r.conn = c /\ r.done = done /\ r.out = <<>>
    BY <1>2 DEF Result
  <1> HIDE DEF r
  <1>4. w \in Seq(Writing) /\ Len(w) \in Nat /\ n \in 0..Len(w)
    BY DEF Connections
  <1>5. SubSeq(w, n + 1, Len(w)) \in Seq(Writing)
    <2> HIDE DEF w
    <2> QED  BY <1>4
  <1>6. c \in Connections
    BY <1>5, Zenon DEF Connections
  <1>7. /\ c.state = conn.state /\ c.sent = conn.sent /\ c.rcvd = conn.rcvd
        /\ c.reads = conn.reads /\ c.data = conn.data /\ c.writes = SubSeq(w, n + 1, Len(w))
    BY Zenon DEF Connections
  <1>8. ASSUME NEW i \in 1..n
        PROVE  /\ Done(w[i].op, w[i].len) \in WriteResults
               /\ Done(w[i].op, w[i].len).op = w[i].op
    <2>1. w[i] \in Writing
      <3> HIDE DEF w
      <3> QED  BY <1>4
    <2> HIDE DEF w
    <2>2. w[i].op \in {"write"} \X Nat /\ w[i].len \in Nat
      BY <2>1, Zenon DEF Writing
    <2>3. Done(w[i].op, w[i].len) \in WriteResults
      BY <2>2 DEF WriteResults
    <2> QED  BY <2>3, Zenon DEF Done
  <1>9. done \in Seq(WriteResults) /\ DOMAIN done = 1..n
    <2> HIDE DEF w
    <2> QED  BY <1>4, <1>8, SMTT(30)
  <1>10. ASSUME NEW i \in DOMAIN done
         PROVE  done[i].op[1] = "write" /\ done[i].op[2] \in 0..peer.got
    <2>1. i \in 1..n /\ done[i] = Done(w[i].op, w[i].len)
      BY <1>9, Zenon
    <2>2. done[i].op = w[i].op
      BY <1>8, <2>1, Zenon
    <2> QED  BY <1>2, <2>1, <2>2, Zenon
  <1> HIDE DEF c, done
  <1>11. AckTakes(n, r)
    BY <1>3, <1>6, <1>7, <1>9, <1>10, Zenon DEF AckTakes, w
  <1> QED  BY <1>11, Zenon DEF r

\* Bytes i to j of the stream come to the connection c, which has those before i:
\* after that the task has been given the first t bytes.
Takes(c, i, j, t, r) ==
    /\ r.conn \in Connections /\ r.conn.state = c.state /\ r.conn.sent = c.sent
    /\ r.conn.writes = c.writes /\ r.conn.reads = <<>> /\ r.conn.data = Bytes(t, j)
    /\ r.conn.rcvd = Plus(peer.isn, 1 + j) /\ r.out = <<>>
    /\ \/ r.done = <<>> /\ t = Len(taken)
       \/ /\ r.done = <<Done(<<"read">>, Bytes(Len(taken), t))>>
          /\ Len(taken) < t /\ Len(taken) = i

\* Data in order.
LEMMA Delivers ==
    ASSUME Incoming, Open, taken \in Seq(Nat), peer \in Peers,
           NEW c \in Connections, c.reads = conn.reads, c.data = conn.data,
           NEW i \in Nat, NEW j \in 0..peer.sent, i < j, i = Kept,
           NEW p, p.seq = Plus(peer.isn, 1 + i), p.data = Bytes(i, j)
    PROVE  \E t \in Len(taken)..j : Takes(c, i, j, t, Deliver(c, p))
  <1> DEFINE n == IF c.reads = <<>> THEN 0 ELSE Shorter(Head(c.reads).len, Len(p.data))
             next == [c EXCEPT !.data = @ \o SubSeq(p.data, n + 1, Len(p.data)),
                               !.rcvd = Plus(p.seq, Len(p.data))]
  <1>1. /\ Len(taken) \in Nat /\ Len(c.data) \in Nat /\ i = Len(taken) + Len(c.data)
        /\ j \in Nat /\ peer.isn \in Numbers /\ j <= MaxIn
    BY StreamAssumption, SMTT(30) DEF Kept, Connections, Peers
  <1>2. Len(p.data) = j - i /\ p.data \in Seq(Nat)
    <2>1. i <= j
      BY <1>1
    <2>2. Len(Bytes(i, j)) = j - i /\ Bytes(i, j) \in Seq(Nat)
      BY <1>1, <2>1, Runs, Zenon
    <2> QED  BY <2>2, Zenon
  <1>3. Plus(p.seq, j - i) = Plus(peer.isn, 1 + j) /\ Plus(peer.isn, 1 + j) \in Nat
    <2>1. i \in 0..SeqSpace - 2 /\ j \in 0..SeqSpace - 2 /\ i <= j
      BY <1>1, StreamAssumption, SpaceIsPositive, SMTT(30)
    <2>2. Plus(Plus(peer.isn, 1 + i), j - i) = Plus(peer.isn, 1 + j)
      BY <1>1, <2>1, PlusPlus, Zenon
    <2>3. Plus(peer.isn, 1 + j) \in Numbers
      BY <1>1, <2>1, PlusOne, Zenon
    <2> QED  BY <2>2, <2>3, SpaceIsPositive DEF Numbers
  <1>4. Len(c.reads) <= 1 /\ c.reads \in Seq(Reading) /\ (c.reads # <<>> => c.data = <<>>)
    BY Zenon DEF Incoming, Connections
  <1>5. c.data = Bytes(Len(taken), i)
    BY Zenon DEF Incoming
  <1>6. CASE c.reads = <<>>
    <2>1. /\ Deliver(c, p) = Result(next, <<>>, <<>>)
      BY <1>6, Zenon DEF Deliver
    <2>2. SubSeq(p.data, n + 1, Len(p.data)) = Bytes(i, j)
      <3>1. n = 0 /\ 0 \in 0..j - i /\ i + 0 = i /\ i <= j
        BY <1>1, <1>6
      <3>2. SubSeq(Bytes(i, j), 0 + 1, j - i) = Bytes(i + 0, j)
        BY <1>1, <3>1, RunParts, Zenon
      <3> HIDE DEF n
      <3> QED  BY <1>2, <3>1, <3>2, Zenon
    <2>3. c.data \o Bytes(i, j) = Bytes(Len(taken), j) /\ Bytes(Len(taken), j) \in Seq(Nat)
      <3>1. Len(taken) <= i /\ i <= j /\ Len(taken) <= j
        BY <1>1
      <3>2. Bytes(Len(taken), i) \o Bytes(i, j) = Bytes(Len(taken), j)
        BY <1>1, <3>1, RunJoins, ZenonT(60)
      <3>3. Bytes(Len(taken), j) \in Seq(Nat)
        BY <1>1, <3>1, Runs, Zenon
      <3> QED  BY <1>5, <3>2, <3>3, Zenon
    <2>4. next = [c EXCEPT !.data = Bytes(Len(taken), j), !.rcvd = Plus(peer.isn, 1 + j)]
      <3> HIDE DEF n
      <3> QED  BY <1>2, <1>3, <2>2, <2>3, Zenon
    <2>5. [c EXCEPT !.data = Bytes(Len(taken), j), !.rcvd = Plus(peer.isn, 1 + j)] \in Connections
      BY <1>3, <2>3, Zenon DEF Connections
    <2> HIDE DEF n
    <2>6. /\ next.state = c.state /\ next.sent = c.sent /\ next.writes = c.writes
          /\ next.reads = c.reads /\ next.data = Bytes(Len(taken), j)
          /\ next.rcvd = Plus(peer.isn, 1 + j)
      BY <2>4, Zenon DEF Connections
    <2>7. next \in Connections
      BY <2>4, <2>5, Zenon
    <2> HIDE DEF next
    <2>8. Takes(c, i, j, Len(taken), Deliver(c, p))
      BY <1>6, <2>1, <2>6, <2>7 DEF Takes, Result
    <2> QED  BY <1>1, <2>8
  <1>7. CASE c.reads # <<>>
    <2>0. Head(c.reads) \in Reading /\ Tail(c.reads) = <<>>
      BY <1>4, <1>7
    <2>1. c.data = <<>> /\ i = Len(taken)
      BY <1>1, <1>4, <1>7
    <2>2. n \in 1..j - i
      <3>1. Head(c.reads).len \in Nat \ {0}
        BY <2>0, Zenon DEF Reading
      <3>2. n = Shorter(Head(c.reads).len, j - i)
        BY <1>2, <1>7, Zenon
      <3> HIDE DEF n
      <3>3. \A a, b \in Nat \ {0} : Shorter(a, b) \in 1..b
        BY DEF Shorter
      <3>4. j - i \in Nat \ {0}
        BY <1>1, SMTT(30)
      <3> QED  BY <3>1, <3>2, <3>3, <3>4, Zenon
    <2>3. Deliver(c, p) = Result([next EXCEPT !.reads = Tail(@)],
                                 <<Done(Head(c.reads).op, SubSeq(p.data, 1, n))>>, <<>>)
      BY <1>7, Zenon DEF Deliver
    <2> HIDE DEF n
    <2>4. n \in 0..j - i /\ i <= j /\ n \in Nat /\ i + n \in Nat /\ i + n <= j
      BY <1>1, <2>2
    <2>5. /\ SubSeq(p.data, n + 1, Len(p.data)) = Bytes(i + n, j)
          /\ SubSeq(p.data, 1, n) = Bytes(i, i + n)
      <3>1. /\ SubSeq(Bytes(i, j), n + 1, j - i) = Bytes(i + n, j)
            /\ SubSeq(Bytes(i, j), 1, n) = Bytes(i, i + n)
        BY <1>1, <2>4, RunParts, ZenonT(60)
      <3> QED  BY <1>2, <3>1, Zenon
    <2>6. Bytes(i + n, j) \in Seq(Nat)
      BY <1>1, <2>4, Runs, Zenon
    <2>7. c.data \o Bytes(i + n, j) = Bytes(i + n, j)
      BY <2>1, <2>6
    <2> DEFINE d == [c EXCEPT !.data = Bytes(i + n, j), !.rcvd = Plus(peer.isn, 1 + j)]
               e == [d EXCEPT !.reads = <<>>]
    <2>8. next = d
      BY <1>2, <1>3, <2>5, <2>7, Zenon
    <2>9. d \in Connections
      BY <1>3, <2>6, Zenon DEF Connections
    <2>10. /\ d.state = c.state /\ d.sent = c.sent /\ d.writes = c.writes
           /\ d.reads = c.reads /\ d.data = Bytes(i + n, j) /\ d.rcvd = Plus(peer.isn, 1 + j)
      BY Zenon DEF Connections
    <2> HIDE DEF d, next
    <2>11. [next EXCEPT !.reads = Tail(@)] = e
      BY <2>0, <2>8, <2>10, Zenon
    <2>12. e \in Connections
      <3>1. <<>> \in Seq(Reading)
        OBVIOUS
      <3> QED  BY <2>9, <3>1, Zenon DEF Connections
    <2>13. /\ e.state = d.state /\ e.sent = d.sent /\ e.writes = d.writes
           /\ e.reads = <<>> /\ e.data = d.data /\ e.rcvd = d.rcvd
      BY <2>9, Zenon DEF Connections
    <2>14. Head(c.reads).op = <<"read">>
      BY <2>0, Zenon DEF Reading
    <2> HIDE DEF e
    <2>15. Deliver(c, p) = Result(e, <<Done(<<"read">>, Bytes(i, i + n))>>, <<>>)
      BY <2>3, <2>5, <2>11, <2>14, ZenonT(60)
    <2>16. Takes(c, i, j, i + n, Deliver(c, p))
      BY <1>1, <2>1, <2>2, <2>10, <2>12, <2>13, <2>15, SMTT(30) DEF Takes, Result
    <2>17. i + n \in Len(taken)..j
      BY <1>1, <2>1, <2>2
    <2> QED  BY <2>16, <2>17, Zenon
  <1> QED  BY <1>6, <1>7, Zenon

-----------------------------------------------------------------------------
(* Packets that bring data or the end, and the calls of the task *)

\* What a call r does that completes writes and has the result B of at most one read.
ArrivalAs(r, B, res) ==
    /\ WritesDelivered' /\ wrote' \subseteq Nat /\ peer' = peer
    /\ B = <<>> => taken' = taken /\ ~Eof(r)
    /\ B # <<>> => /\ taken' = IF res = EOF THEN taken ELSE taken \o res
                   /\ Eof(r) => res = EOF

\* A packet acknowledges writes, and brings the bytes or the end of the stream for a read.
LEMMA ArrivalDone ==
    ASSUME StreamInv, NEW r, Apply(r), NEW acked, NEW n, AckTakes(n, acked),
           NEW res, NEW B, B = <<>> \/ B = <<Done(<<"read">>, res)>>, r.done = acked.done \o B
    PROVE  ArrivalAs(r, B, res)
  <1> DEFINE A == acked.done
  <1>1. /\ A \in Seq(WriteResults)
        /\ \A i \in DOMAIN A : A[i].op[1] = "write" /\ A[i].op[2] \in 0..peer.got
    BY Zenon DEF AckTakes
  <1> HIDE DEF A
  <1>2. /\ \A i \in DOMAIN (A \o B) :
              (A \o B)[i].op[1] = "write" => \E j \in DOMAIN A : (A \o B)[i] = A[j]
        /\ B = <<>> => Given(A \o B) = taken /\ ReadsOf(A \o B) = {}
        /\ B # <<>> => /\ Given(A \o B) = IF res = EOF THEN taken ELSE taken \o res
                       /\ (\E i \in ReadsOf(A \o B) : (A \o B)[i].res = EOF) => res = EOF
    <2>1. A \in Seq(WriteResults) /\ \A i \in DOMAIN A : A[i].op[1] = "write"
      BY <1>1, Zenon
    <2>2. CompletedAs(A, B, res)
      BY <2>1, Completed, Zenon
    <2> QED  BY <2>2, Zenon DEF CompletedAs
  <1>3. r.done = A \o B /\ Apply(r)
    BY Zenon DEF A
  <1>4. taken' = Given(r.done) /\ peer' = peer
    BY <1>3, Zenon DEF Apply
  <1>5. WritesDelivered' /\ wrote' \subseteq Nat
    <2>1. WritesDelivered /\ wrote \subseteq Nat /\ peer.got \in Nat
      BY Zenon DEF StreamInv, StreamTypes, Peers
    <2>2. \A i \in DOMAIN r.done :
              r.done[i].op[1] = "write" /\ r.done[i].ok => r.done[i].op[2] \in 0..peer.got
      BY <1>1, <1>2, <1>3, ZenonT(60)
    <2> QED  BY <1>3, <2>1, <2>2, WritesStayDelivered, Zenon
  <1>6. B = <<>> => taken' = taken /\ ~Eof(r)
    BY <1>2, <1>3, <1>4, Zenon DEF Eof
  <1>7. B # <<>> => taken' = IF res = EOF THEN taken ELSE taken \o res
    BY <1>2, <1>3, <1>4, Zenon
  <1>8. B # <<>> /\ Eof(r) => res = EOF
    BY <1>2, <1>3, Zenon DEF Eof
  <1> QED  BY <1>4, <1>5, <1>6, <1>7, <1>8, Zenon DEF ArrivalAs

\* A segment comes to an established connection.
LEMMA EnqueueArrives ==
    ASSUME StreamInv, conn.state = "Established",
           NEW i \in 0..peer.sent, NEW j \in 0..peer.sent, NEW m \in 0..peer.got,
           NEW p, Segment(p, {"ack"}, i, j, m),
           LET r == HandleEnqueue(conn, p)
           IN  /\ conn' = r.conn /\ Apply(r)
               /\ ended' = ended \cup (IF Eof(r) THEN {"eof"} ELSE {})
    PROVE  StreamInv'
  <1> DEFINE r == HandleEnqueue(conn, p)
             acked == AckOf(conn, p)
             given == Deliver(acked.conn, p)
             f == {"ack"}
  <1>0. conn \in Connections /\ peer \in Peers /\ taken \in Seq(Nat) /\ Open /\ Outgoing /\ Incoming
    BY DEF StreamInv, StreamTypes, Open, NoConn
  <1>1. /\ conn' = r.conn /\ Apply(r) /\ ended' = ended \cup (IF Eof(r) THEN {"eof"} ELSE {})
    BY Zenon
  <1>2. /\ peer.got \in Nat /\ peer.sent \in Nat /\ peer.sent <= MaxIn /\ peer.isn \in Numbers
        /\ MaxIn \in Nat
    BY <1>0, StreamAssumption DEF Peers
  <1>3. PICK n \in 0..Len(conn.writes) : AckTakes(n, acked)
    <2>1. Is("ack", p) /\ p.ack = Plus(1, m)
      BY Zenon DEF Segment, Is
    <2> QED  BY <1>0, <1>2, <2>1, AckOfSegment, Zenon
  <1>4. r = IF p.data = <<>> THEN acked
            ELSE IF p.seq # conn.rcvd
            THEN Result(acked.conn, acked.done, <<Answer(acked.conn, conn.rcvd, f)>>)
            ELSE Result(given.conn, acked.done \o given.done,
                        <<Answer(given.conn, given.conn.rcvd, f)>>)
    BY Zenon DEF HandleEnqueue
  <1> HIDE DEF r, acked, given, f
  <1>5. /\ conn.rcvd = Plus(peer.isn, 1 + Kept) /\ Kept \in Nat /\ Kept <= peer.sent
        /\ Len(taken) \in Nat /\ Len(taken) <= Kept
        /\ taken = Bytes(0, Len(taken)) /\ conn.data = Bytes(Len(taken), Kept)
        /\ Len(conn.reads) <= 1 /\ (conn.reads # <<>> => conn.data = <<>>)
    BY <1>0, SMTT(30) DEF StreamInv, Acknowledged, Incoming, Kept, Connections
  <1>6. f \subseteq Flags /\ conn.state \in {"Established", "LastAck"}
    BY Zenon DEF f, Flags
  <1>7. /\ acked.conn \in Connections /\ acked.conn.state = "Established"
        /\ acked.conn.sent = conn.sent /\ acked.conn.rcvd = conn.rcvd
        /\ acked.conn.reads = conn.reads /\ acked.conn.data = conn.data
        /\ acked.conn.writes = SubSeq(conn.writes, n + 1, Len(conn.writes)) /\ acked.out = <<>>
        /\ acked.done \in Seq(WriteResults)
    BY <1>3, Zenon DEF AckTakes
  <1>8. CASE p.data = <<>> \/ p.seq # conn.rcvd
    <2>1. /\ r.conn = acked.conn /\ r.done = acked.done
          /\ r.out = <<>> \/ r.out = <<Answer(acked.conn, conn.rcvd, f)>>
      BY <1>4, <1>7, <1>8, Zenon DEF Result
    <2>2. r.done = acked.done \o <<>>
      BY <1>7, <2>1
    <2>3. WritesDelivered' /\ wrote' \subseteq Nat /\ peer' = peer /\ taken' = taken /\ ~Eof(r)
      BY <1>1, <1>3, <2>2, ArrivalDone, Zenon DEF ArrivalAs
    <2>4. \/ wire' = wire /\ acks' = acks
          \/ wire' = wire \cup {Packet(0, 0, f, <<>>)} /\ acks' = acks \cup {<<f, conn.rcvd>>}
      <3>1. CASE r.out = <<>>
        BY <1>1, <3>1, SendsNothing, Zenon
      <3>2. CASE r.out = <<Answer(acked.conn, conn.rcvd, f)>>
        <4> DEFINE a == conn.rcvd
        <4>1. Apply(r) /\ r.out = <<Answer(acked.conn, a, f)>>
          BY <1>1, <3>2, Zenon
        <4> HIDE DEF a
        <4>2. /\ wire' = wire \cup {Packet(0, 0, f, <<>>)} /\ acks' = acks \cup {<<f, a>>}
              /\ peer' = peer
          BY <4>1, SendsAnswer, Zenon
        <4> QED  BY <4>2, Zenon DEF a
      <3> QED  BY <2>1, <3>1, <3>2, Zenon
    <2>5. ended' = ended /\ conn' = acked.conn
      BY <1>1, <2>1, <2>3, ZenonT(60)
    <2>6. Moves(n, Kept, Len(taken), f, conn.rcvd)
      BY <1>5, <1>6, <1>7, <2>3, <2>4, <2>5, SMTT(30) DEF Moves
    <2> QED  BY <1>0, <1>6, <2>6, StreamMoves, Zenon
  <1>9. CASE p.data # <<>> /\ p.seq = conn.rcvd
    <2>1. p.seq = Plus(peer.isn, 1 + i) /\ p.data = Bytes(i, j)
      BY Zenon DEF Segment
    <2>2. i = Kept
      <3>1. i \in 0..SeqSpace - 1 /\ Kept \in 0..SeqSpace - 1
        BY <1>2, <1>5, StreamAssumption, SpaceIsPositive, SMTT(30)
      <3>2. Plus(peer.isn, 1 + i) = Plus(peer.isn, 1 + Kept)
        BY <1>5, <1>9, <2>1, Zenon
      <3> QED  BY <1>2, <3>1, <3>2, PlusIsInjective, Zenon
    <2>3. i < j /\ i \in Nat /\ j \in Nat /\ j <= peer.sent
      <3>1. i \in Int /\ j \in Int /\ i \in Nat /\ j \in Nat /\ j <= peer.sent
        BY <1>2
      <3>2. ~(j <= i)
        BY <1>9, <2>1, <3>1, EmptyRun, Zenon
      <3> QED  BY <3>1, <3>2
    <2>4. PICK t \in Len(taken)..j : Takes(acked.conn, i, j, t, given)
      BY <1>0, <1>7, <2>1, <2>2, <2>3, Delivers, Zenon DEF given
    <2>5. /\ r.conn = given.conn /\ r.done = acked.done \o given.done
          /\ r.out = <<Answer(given.conn, given.conn.rcvd, f)>>
      BY <1>4, <1>9, Zenon DEF Result
    <2>6. /\ given.conn \in Connections /\ given.conn.state = "Established"
          /\ given.conn.sent = conn.sent
          /\ given.conn.writes = SubSeq(conn.writes, n + 1, Len(conn.writes))
          /\ given.conn.reads = <<>> /\ given.conn.data = Bytes(t, j)
          /\ given.conn.rcvd = Plus(peer.isn, 1 + j)
      BY <1>7, <2>4, Zenon DEF Takes
    <2>7. /\ WritesDelivered' /\ wrote' \subseteq Nat /\ peer' = peer
          /\ taken' = Bytes(0, t) /\ ~Eof(r)
      <3>1. CASE given.done = <<>> /\ t = Len(taken)
        <4>1. WritesDelivered' /\ wrote' \subseteq Nat /\ peer' = peer /\ taken' = taken /\ ~Eof(r)
          BY <1>1, <1>3, <2>5, <3>1, ArrivalDone, Zenon DEF ArrivalAs
        <4> QED  BY <1>5, <3>1, <4>1, Zenon
      <3>2. CASE /\ given.done = <<Done(<<"read">>, Bytes(Len(taken), t))>>
                 /\ Len(taken) < t /\ Len(taken) = i
        <4> DEFINE res == Bytes(Len(taken), t)
        <4>0. t \in Nat /\ Len(taken) <= t /\ 0 <= Len(taken) /\ 0 \in Nat
          BY <1>5, <2>3, SMTT(30)
        <4>1. res # EOF
          <5>1. Len(res) = t - Len(taken)
            BY <1>5, <4>0, Runs, Zenon
          <5> QED  BY <1>5, <3>2, <4>0, <5>1, SMTT(30) DEF EOF
        <4>2. Bytes(0, Len(taken)) \o res = Bytes(0, t)
          BY <1>5, <4>0, RunJoins, ZenonT(60)
        <4> HIDE DEF res
        <4>3. given.done = <<Done(<<"read">>, res)>> /\ given.done # <<>>
          BY <3>2 DEF res
        <4>4. /\ WritesDelivered' /\ wrote' \subseteq Nat /\ peer' = peer
              /\ taken' = IF res = EOF THEN taken ELSE taken \o res
              /\ Eof(r) => res = EOF
          BY <1>1, <1>3, <2>5, <4>3, ArrivalDone, ZenonT(60) DEF ArrivalAs
        <4> QED  BY <1>5, <4>1, <4>2, <4>4, ZenonT(60)
      <3> QED  BY <2>4, <3>1, <3>2, Zenon DEF Takes
    <2>8. /\ wire' = wire \cup {Packet(0, 0, f, <<>>)}
          /\ acks' = acks \cup {<<f, given.conn.rcvd>>}
      <3> DEFINE a == given.conn.rcvd
      <3>1. Apply(r) /\ r.out = <<Answer(given.conn, a, f)>>
        BY <1>1, <2>5, Zenon
      <3> HIDE DEF a
      <3>2. /\ wire' = wire \cup {Packet(0, 0, f, <<>>)} /\ acks' = acks \cup {<<f, a>>}
            /\ peer' = peer
        BY <3>1, SendsAnswer, Zenon
      <3> QED  BY <3>2, Zenon DEF a
    <2>9. conn' = given.conn /\ ended' = ended
      BY <1>1, <2>5, <2>7, Zenon
    <2>10. t \in Nat /\ Len(taken) <= t /\ t <= j /\ Kept <= j /\ Len(<<>>) <= 1
      BY <1>5, <2>2, <2>3, SMTT(30)
    <2>11. Moves(n, j, t, f, given.conn.rcvd)
      BY <1>6, <2>3, <2>6, <2>7, <2>8, <2>9, <2>10, Zenon DEF Moves
    <2> QED  BY <1>0, <1>6, <2>11, StreamMoves, Zenon
  <1> QED  BY <1>8, <1>9, Zenon

\* The reads that wait when the other end has finished.
LEMMA EndsReads ==
    ASSUME NEW c \in Connections, Len(c.reads) <= 1
    PROVE  /\ c.reads = <<>> => EndReads(c) = <<>>
           /\ c.reads # <<>> => EndReads(c) = <<Done(<<"read">>, EOF)>>
  <1>1. c.reads \in Seq(Reading) /\ Len(c.reads) \in Nat
    BY DEF Connections
  <1>2. CASE c.reads = <<>>
    <2>1. Len(c.reads) = 0
      BY <1>2
    <2>2. EndReads(c) = [i \in 1..0 |-> Done(c.reads[i].op, EOF)]
      BY <2>1, Zenon DEF EndReads
    <2>3. EndReads(c) = <<>>
      BY <2>2
    <2> QED  BY <1>2, <2>3, Zenon
  <1>3. CASE c.reads # <<>>
    <2>1. Len(c.reads) = 1 /\ c.reads[1] \in Reading
      <3> DEFINE w == c.reads
      <3>1. w \in Seq(Reading) /\ Len(w) \in Nat /\ Len(w) <= 1 /\ w # <<>>
        BY <1>1, <1>3, Zenon
      <3> HIDE DEF w
      <3>2. Len(w) # 0
        BY <3>1
      <3>3. Len(w) = 1
        <4>1. \A x \in Nat : x <= 1 /\ x # 0 => x = 1
          OBVIOUS
        <4> QED  BY <3>1, <3>2, <4>1, Zenon
      <3>4. w[1] \in Reading
        BY <3>1, <3>3
      <3> QED  BY <3>3, <3>4, Zenon DEF w
    <2>2. c.reads[1].op = <<"read">>
      BY <2>1, Zenon DEF Reading
    <2>3. EndReads(c) = [i \in 1..1 |-> Done(c.reads[i].op, EOF)]
      BY <2>1, Zenon DEF EndReads
    <2> DEFINE d == Done(<<"read">>, EOF)
    <2>4. Done(c.reads[1].op, EOF) = d
      BY <2>2, Zenon
    <2> HIDE DEF d
    <2>5. EndReads(c) = <<d>>
      BY <2>3, <2>4
    <2> QED  BY <1>3, <2>5, Zenon DEF d
  <1> QED  BY <1>2, <1>3, Zenon

\* The FIN comes, behind everything that was sent.
LEMMA FinArrives ==
    ASSUME StreamInv, conn.state = "Established", peer.fin,
           NEW i \in 0..peer.sent, NEW m \in 0..peer.got,
           NEW p, Segment(p, {"ack", "fin"}, i, peer.sent, m), p.seq = conn.rcvd,
           LET r == HandleFin(conn, p)
           IN  /\ conn' = r.conn /\ Apply(r)
               /\ ended' = ended \cup (IF Eof(r) THEN {"eof"} ELSE {})
    PROVE  StreamInv'
  <1> DEFINE r == HandleFin(conn, p)
             acked == AckOf(conn, p)
             given == IF p.data = <<>> \/ p.seq # conn.rcvd
                      THEN Result(acked.conn, <<>>, <<>>) ELSE Deliver(acked.conn, p)
             next == [given.conn EXCEPT !.state = "LastAck", !.reads = <<>>]
             f == {"fin", "ack"}
             a == Plus(next.rcvd, 1)
             j == peer.sent
  <1>0. conn \in Connections /\ peer \in Peers /\ taken \in Seq(Nat) /\ Open /\ Outgoing /\ Incoming
    BY DEF StreamInv, StreamTypes, Open, NoConn
  <1>1. /\ conn' = r.conn /\ Apply(r) /\ ended' = ended \cup (IF Eof(r) THEN {"eof"} ELSE {})
    BY Zenon
  <1>2. /\ peer.got \in Nat /\ j \in Nat /\ j <= MaxIn /\ peer.isn \in Numbers
        /\ MaxIn \in Nat /\ i \in Nat /\ i <= j
    BY <1>0, StreamAssumption DEF Peers
  <1>3. PICK n \in 0..Len(conn.writes) : AckTakes(n, acked)
    <2>1. Is("ack", p) /\ p.ack = Plus(1, m)
      BY Zenon DEF Segment, Is
    <2> QED  BY <1>0, <1>2, <2>1, AckOfSegment, Zenon
  <1>4. r = Result(next, acked.done \o given.done \o EndReads(given.conn), <<Answer(next, a, f)>>)
    BY Zenon DEF HandleFin
  <1>5. r.conn = next /\ r.done = acked.done \o given.done \o EndReads(given.conn)
        /\ r.out = <<Answer(next, a, f)>>
    <2> HIDE DEF r, acked, given, next, f, a
    <2> QED  BY <1>4, ZenonT(60) DEF Result
  <1> HIDE DEF r, acked, f, a
  <1>6. /\ conn.rcvd = Plus(peer.isn, 1 + Kept) /\ Kept \in Nat /\ Kept <= j
        /\ Len(taken) \in Nat /\ Len(taken) <= Kept /\ Kept = Len(taken) + Len(conn.data)
        /\ taken = Bytes(0, Len(taken)) /\ conn.data = Bytes(Len(taken), Kept)
        /\ Len(conn.reads) <= 1 /\ (conn.reads # <<>> => conn.data = <<>>)
    BY <1>0, SMTT(30) DEF StreamInv, Acknowledged, Incoming, Kept, Connections
  <1>7. /\ acked.conn \in Connections /\ acked.conn.state = "Established"
        /\ acked.conn.sent = conn.sent /\ acked.conn.rcvd = conn.rcvd
        /\ acked.conn.reads = conn.reads /\ acked.conn.data = conn.data
        /\ acked.conn.writes = SubSeq(conn.writes, n + 1, Len(conn.writes))
        /\ acked.done \in Seq(WriteResults)
    BY <1>3, Zenon DEF AckTakes
  <1>8. p.seq = Plus(peer.isn, 1 + i) /\ p.data = Bytes(i, j)
    BY Zenon DEF Segment
  <1>9. i = Kept
    <2>1. i \in 0..SeqSpace - 1 /\ Kept \in 0..SeqSpace - 1
      BY <1>2, <1>6, StreamAssumption, SpaceIsPositive, SMTT(30)
    <2>2. Plus(peer.isn, 1 + i) = Plus(peer.isn, 1 + Kept)
      BY <1>6, <1>8, Zenon
    <2> QED  BY <1>2, <2>1, <2>2, PlusIsInjective, Zenon
  <1> DEFINE Ends(t, B) ==
                /\ given.conn \in Connections /\ given.conn.sent = conn.sent
                /\ given.conn.writes = SubSeq(conn.writes, n + 1, Len(conn.writes))
                /\ given.conn.data = Bytes(t, j) /\ given.conn.rcvd = Plus(peer.isn, 1 + j)
                /\ r.done = acked.done \o B
                /\ \/ B = <<>> /\ t = Len(taken)
                   \/ B = <<Done(<<"read">>, EOF)>> /\ t = Len(taken) /\ t = j
                   \/ B = <<Done(<<"read">>, Bytes(Len(taken), t))>> /\ Len(taken) < t
  <1>10. \E t \in Len(taken)..j : \E B : Ends(t, B)
    <2>1. CASE p.data = <<>>
      <3>1. given = Result(acked.conn, <<>>, <<>>)
        BY <2>1, Zenon
      <3> HIDE DEF given
      <3>2. given.conn = acked.conn /\ given.done = <<>>
        BY <3>1, Zenon DEF Result
      <3>3. Kept = j
        <4>1. Len(Bytes(i, j)) = j - i
          BY <1>2, Runs, Zenon
        <4> QED  BY <1>2, <1>8, <1>9, <2>1, <4>1, SMTT(30)
      <3> DEFINE B == EndReads(acked.conn)
      <3>4. r.done = acked.done \o B
        <4> HIDE DEF B
        <4>1. acked.done \o <<>> = acked.done
          BY <1>7, SMTT(30)
        <4> QED  BY <1>5, <3>2, <4>1, Zenon DEF B
      <3>5. B = <<>> \/ (B = <<Done(<<"read">>, EOF)>> /\ Len(taken) = j)
        <4>1. CASE conn.reads = <<>>
          BY <1>6, <1>7, <4>1, EndsReads, Zenon
        <4>2. CASE conn.reads # <<>>
          <5>1. B = <<Done(<<"read">>, EOF)>>
            BY <1>6, <1>7, <4>2, EndsReads, ZenonT(60)
          <5>2. Len(taken) = j
            BY <1>6, <3>3, <4>2, SMTT(30)
          <5> QED  BY <5>1, <5>2, Zenon
        <4> QED  BY <4>1, <4>2, Zenon
      <3>6. Len(taken) \in Len(taken)..j
        BY <1>2, <1>6, SMTT(30)
      <3> HIDE DEF B
      <3>7. Ends(Len(taken), B)
        BY <1>6, <1>7, <3>2, <3>3, <3>4, <3>5, Zenon
      <3> HIDE DEF Ends
      <3> QED  BY <3>6, <3>7, Zenon
    <2>2. CASE p.data # <<>>
      <3>1. given = Deliver(acked.conn, p)
        BY <2>2, Zenon
      <3>2. i < j /\ j \in 0..peer.sent
        <4>1. i \in Int /\ j \in Int
          BY <1>2
        <4>2. ~(j <= i)
          BY <1>8, <2>2, <4>1, EmptyRun, Zenon
        <4> QED  BY <1>2, <4>1, <4>2, SMTT(30)
      <3> HIDE DEF given
      <3>3. PICK t \in Len(taken)..j : Takes(acked.conn, i, j, t, given)
        BY <1>0, <1>2, <1>7, <1>8, <1>9, <3>1, <3>2, Delivers, ZenonT(60)
      <3>4. EndReads(given.conn) = <<>>
        <4>1. given.conn \in Connections /\ given.conn.reads = <<>> /\ Len(given.conn.reads) <= 1
          BY <3>3, SMTT(30) DEF Takes
        <4> QED  BY <4>1, EndsReads, ZenonT(60)
      <3> DEFINE B == given.done
      <3>5. \/ B = <<>> /\ t = Len(taken)
            \/ B = <<Done(<<"read">>, Bytes(Len(taken), t))>> /\ Len(taken) < t
        BY <3>3, Zenon DEF Takes
      <3>6. r.done = acked.done \o B
        <4>1. PICK res : B = <<>> \/ B = <<res>>
          BY <3>5, Zenon
        <4> HIDE DEF B
        <4>2. (acked.done \o B) \o <<>> = acked.done \o B
          <5> DEFINE A == acked.done
                     T == WriteResults \cup {res}
          <5>1. A \in Seq(T)
            BY <1>7, SMTT(30)
          <5>2. res \in T
            BY Zenon
          <5> HIDE DEF A, T
          <5>3. (A \o B) \o <<>> = A \o B
            <6>1. <<>> \in Seq(T) /\ <<res>> \in Seq(T)
              BY <5>2
            <6>2. B \in Seq(T)
              BY <4>1, <6>1, Zenon
            <6> QED  BY <5>1, <6>2, SMTT(30)
          <5> QED  BY <5>3, ZenonT(60) DEF A
        <4> QED  BY <1>5, <3>4, <4>2, Zenon DEF B
      <3> HIDE DEF B
      <3>7. Ends(t, B)
        BY <1>7, <3>3, <3>5, <3>6, Zenon DEF Takes
      <3> HIDE DEF Ends
      <3> QED  BY <3>7, Zenon
    <2> QED  BY <2>1, <2>2, Zenon
  <1>a. PICK t \in Len(taken)..j : \E B : Ends(t, B)
    BY <1>10, Zenon
  <1>11. PICK B : Ends(t, B)
    BY <1>a, Zenon
  <1> HIDE DEF given
  <1>12. /\ given.conn \in Connections /\ given.conn.sent = conn.sent
         /\ given.conn.writes = SubSeq(conn.writes, n + 1, Len(conn.writes))
         /\ given.conn.data = Bytes(t, j) /\ given.conn.rcvd = Plus(peer.isn, 1 + j)
    BY <1>11, Zenon
  <1>13. /\ next \in Connections /\ next.state = "LastAck" /\ next.reads = <<>>
         /\ next.sent = conn.sent /\ next.data = Bytes(t, j) /\ next.rcvd = Plus(peer.isn, 1 + j)
         /\ next.writes = SubSeq(conn.writes, n + 1, Len(conn.writes))
    <2>1. /\ <<>> \in Seq(Reading)
          /\ "LastAck" \in {"SynSent", "SynReceived", "Established", "LastAck"}
      OBVIOUS
    <2>2. next \in Connections
      BY <1>12, <2>1, Zenon DEF Connections
    <2>3. /\ next.state = "LastAck" /\ next.reads = <<>> /\ next.sent = given.conn.sent
          /\ next.data = given.conn.data /\ next.rcvd = given.conn.rcvd
          /\ next.writes = given.conn.writes
      BY <1>12, Zenon DEF Connections
    <2> QED  BY <1>12, <2>2, <2>3, Zenon
  <1> HIDE DEF next
  <1>14. t \in Nat /\ Len(taken) <= t /\ t <= j /\ 0 <= Len(taken) /\ 0 \in Nat
    BY <1>2, <1>6
  <1>15. /\ WritesDelivered' /\ wrote' \subseteq Nat /\ peer' = peer
         /\ taken' = Bytes(0, t) /\ (Eof(r) => t = j)
    <2>0. r.done = acked.done \o B
      BY <1>11, Zenon
    <2>1. CASE B = <<>> /\ t = Len(taken)
      <3>1. WritesDelivered' /\ wrote' \subseteq Nat /\ peer' = peer /\ taken' = taken /\ ~Eof(r)
        BY <1>1, <1>3, <2>0, <2>1, ArrivalDone, Zenon DEF ArrivalAs
      <3> QED  BY <1>6, <2>1, <3>1, Zenon
    <2>2. CASE B = <<Done(<<"read">>, EOF)>> /\ t = Len(taken) /\ t = j
      <3>0. B # <<>>
        BY <2>2, Zenon
      <3>1. /\ WritesDelivered' /\ wrote' \subseteq Nat /\ peer' = peer
            /\ taken' = IF EOF = EOF THEN taken ELSE taken \o EOF
        BY <1>1, <1>3, <2>0, <2>2, <3>0, ArrivalDone, Zenon DEF ArrivalAs
      <3> QED  BY <1>6, <2>2, <3>1, Zenon
    <2>3. CASE B = <<Done(<<"read">>, Bytes(Len(taken), t))>> /\ Len(taken) < t
      <3> DEFINE res == Bytes(Len(taken), t)
      <3>1. res # EOF
        <4>1. Len(res) = t - Len(taken)
          BY <1>6, <1>14, Runs, Zenon
        <4> QED  BY <1>6, <1>14, <2>3, <4>1, SMTT(30) DEF EOF
      <3>2. Bytes(0, Len(taken)) \o res = Bytes(0, t)
        <4>1. /\ 0 \in Nat /\ Len(taken) \in Nat /\ 0 <= Len(taken)
              /\ t \in Nat /\ Len(taken) <= t
          BY <1>6, <1>14, Zenon
        <4> QED  BY <4>1, RunJoins, Zenon
      <3> HIDE DEF res
      <3>3. /\ B = <<Done(<<"read">>, res)>> /\ B # <<>>
            /\ Apply(r) /\ AckTakes(n, acked) /\ r.done = acked.done \o B
        BY <1>1, <1>3, <2>0, <2>3, Zenon DEF res
      <3>4. /\ WritesDelivered' /\ wrote' \subseteq Nat /\ peer' = peer
            /\ taken' = IF res = EOF THEN taken ELSE taken \o res
            /\ Eof(r) => res = EOF
        <4>1. ArrivalAs(r, B, res)
          BY <3>3, ArrivalDone, Zenon
        <4> QED  BY <3>3, <4>1, Zenon DEF ArrivalAs
      <3> QED  BY <1>6, <3>1, <3>2, <3>4, ZenonT(60)
    <2> QED  BY <1>11, <2>1, <2>2, <2>3, Zenon
  <1>16. /\ wire' = wire \cup {Packet(0, 0, f, <<>>)} /\ acks' = acks \cup {<<f, a>>}
         /\ peer' = peer
    BY <1>1, <1>5, SendsAnswer, Zenon
  <1>17. a = Plus(peer.isn, 2 + j)
    <2>1. j \in 0..SeqSpace - 2
      BY <1>2, StreamAssumption, SpaceIsPositive, SMTT(30)
    <2>2. Plus(Plus(peer.isn, 1 + j), 1) = Plus(peer.isn, 2 + j)
      BY <1>2, <2>1, PlusOne, ZenonT(60)
    <2> QED  BY <1>13, <2>2, ZenonT(60) DEF a
  <1>18. /\ f \subseteq Flags /\ "fin" \in f /\ conn.state \in {"Established", "LastAck"}
         /\ Len(<<>>) <= 1
    BY SMTT(30) DEF f, Flags
  <1>19. conn' = next /\ ended' = ended \cup (IF Eof(r) THEN {"eof"} ELSE {})
    BY <1>1, <1>5, Zenon
  <1> HIDE DEF Ends
  <1>20. /\ ended \subseteq ended' /\ ended' \subseteq ended \cup {"eof"}
         /\ "eof" \in ended' => "eof" \in ended \/ (peer.fin /\ t = j)
    BY <1>15, <1>19, Zenon
  <1>21. /\ conn' \in Connections /\ conn'.state = "LastAck" /\ conn'.reads = <<>>
         /\ conn'.sent = conn.sent /\ conn'.data = Bytes(t, j)
         /\ conn'.rcvd = Plus(peer.isn, 1 + j)
         /\ conn'.writes = SubSeq(conn.writes, n + 1, Len(conn.writes))
    BY <1>13, <1>19, Zenon
  <1>22. j <= j /\ "LastAck" \in {"Established", "LastAck"}
    BY <1>2
  <1>23. Moves(n, j, t, f, a)
    BY <1>2, <1>6, <1>14, <1>15, <1>16, <1>17, <1>18, <1>20, <1>21, <1>22, ZenonT(60) DEF Moves
  <1> QED  BY <1>0, <1>18, <1>23, StreamMoves, ZenonT(60)

-----------------------------------------------------------------------------
(* The task *)

\* A call of the task acknowledges nothing.
LEMMA NothingAcked ==
    ASSUME conn \in Connections
    PROVE  /\ AckTakes(0, Result(conn, <<>>, <<>>)) /\ 0 \in 0..Len(conn.writes)
           /\ conn.writes = SubSeq(conn.writes, 0 + 1, Len(conn.writes))
  <1> DEFINE w == conn.writes
             r == Result(conn, <<>>, <<>>)
  <1>1. w \in Seq(Writing) /\ Len(w) \in Nat
    BY DEF Connections
  <1> HIDE DEF w
  <1>2. w = SubSeq(w, 0 + 1, Len(w)) /\ 0 \in 0..Len(w)
    BY <1>1
  <1>3. r.conn = conn /\ r.done = <<>> /\ r.out = <<>>
    BY Zenon DEF Result
  <1>4. <<>> \in Seq(WriteResults) /\ DOMAIN <<>> = {}
    OBVIOUS
  <1> HIDE DEF r
  <1>5. AckTakes(0, r)
    BY <1>2, <1>3, <1>4, Zenon DEF AckTakes, w
  <1> QED  BY <1>2, <1>5, Zenon DEF w, r

\* read of the task, when no other read waits.
LEMMA TaskReadsKeeps ==
    ASSUME StreamInv, StreamFlaws = {}, NEW len \in Chunks, TaskReads(len)
    PROVE  StreamInv'
  <1> DEFINE op == <<"read">>
             r == Read(conn, len, op)
             n == Shorter(len, Len(conn.data))
             acked == Result(conn, <<>>, <<>>)
  <1>0. /\ conn \in Connections /\ peer \in Peers /\ taken \in Seq(Nat) /\ Open
        /\ conn.state \in {"Established", "LastAck"} /\ len \in Nat \ {0}
    BY StreamAssumption DEF StreamInv, StreamTypes, TaskReads, Open, NoConn
  <1>1. /\ conn' = r.conn /\ Apply(r) /\ ended' = ended \cup (IF Eof(r) THEN {"eof"} ELSE {})
    BY Zenon DEF TaskReads
  <1>2. conn.reads = <<>>
    <2> DEFINE w == conn.reads
    <2>1. w \in Seq(Reading) /\ Len(w) < 1
      BY <1>0, Zenon DEF TaskReads, Connections
    <2> HIDE DEF w
    <2>2. w = <<>>
      BY <2>1, SMTT(30)
    <2> QED  BY <2>2, Zenon DEF w
  <1>3. /\ conn.rcvd = Plus(peer.isn, 1 + Kept) /\ Kept \in Nat /\ Kept <= peer.sent
        /\ Len(taken) \in Nat /\ Len(taken) <= Kept /\ Kept = Len(taken) + Len(conn.data)
        /\ taken = Bytes(0, Len(taken)) /\ conn.data = Bytes(Len(taken), Kept)
        /\ conn.state = "LastAck" => peer.fin /\ Kept = peer.sent
        /\ 0 \in Nat /\ 0 <= Len(taken) /\ Kept <= Kept
    BY <1>0, SMTT(30) DEF StreamInv, Acknowledged, Incoming, Kept, Connections, AtTheEnd
  <1>4. /\ AckTakes(0, acked) /\ 0 \in 0..Len(conn.writes)
        /\ conn.writes = SubSeq(conn.writes, 0 + 1, Len(conn.writes))
    BY <1>0, NothingAcked, Zenon
  <1>5. acked.done = <<>>
    BY Zenon DEF Result
  <1> HIDE DEF acked, op
  <1>6. CASE conn.data # <<>>
    <2> DEFINE c == [conn EXCEPT !.data = SubSeq(@, n + 1, Len(@))]
               res == SubSeq(conn.data, 1, n)
               t == Len(taken) + n
    <2>1. r = Result(c, <<Done(op, res)>>, <<>>)
      BY <1>6, Zenon DEF Read
    <2> HIDE DEF r
    <2>2. n \in 1..Kept - Len(taken) /\ Len(conn.data) = Kept - Len(taken)
      <3>1. Len(conn.data) \in Nat \ {0}
        BY <1>0, <1>6, SMTT(30) DEF Connections
      <3>2. \A x, y \in Nat \ {0} : Shorter(x, y) \in 1..y
        BY DEF Shorter
      <3>3. n \in 1..Len(conn.data)
        BY <1>0, <3>1, <3>2, Zenon
      <3> HIDE DEF n
      <3>4. Len(conn.data) = Kept - Len(taken)
        BY <1>3, <3>1, SMTT(30)
      <3> QED  BY <3>3, <3>4, Zenon
    <2> HIDE DEF n
    <2>3. t \in Nat /\ Len(taken) <= t /\ t <= Kept /\ Len(taken) < t /\ n \in 0..Kept - Len(taken)
      BY <1>3, <2>2
    <2>a. /\ Len(taken) \in Nat /\ Kept \in Nat /\ Len(taken) <= Kept /\ 0 \in Nat
          /\ 0 <= Len(taken)
      BY <1>3, Zenon
    <2>4. /\ SubSeq(conn.data, n + 1, Len(conn.data)) = Bytes(t, Kept)
          /\ res = Bytes(Len(taken), t)
      <3>1. /\ SubSeq(Bytes(Len(taken), Kept), n + 1, Kept - Len(taken)) = Bytes(t, Kept)
            /\ SubSeq(Bytes(Len(taken), Kept), 1, n) = Bytes(Len(taken), t)
        BY <2>3, <2>a, RunParts, ZenonT(60)
      <3> QED  BY <1>3, <2>2, <3>1, Zenon
    <2>5. Bytes(t, Kept) \in Seq(Nat)
      BY <1>3, <2>3, Runs, Zenon
    <2>6. c \in Connections
      BY <1>0, <2>4, <2>5, Zenon DEF Connections
    <2>7. /\ c.state = conn.state /\ c.sent = conn.sent /\ c.rcvd = conn.rcvd
          /\ c.reads = conn.reads /\ c.writes = conn.writes /\ c.data = Bytes(t, Kept)
      BY <1>0, <2>4, Zenon DEF Connections
    <2>8. res # EOF
      <3>1. Len(Bytes(Len(taken), t)) = t - Len(taken)
        BY <2>3, <2>a, Runs, Zenon
      <3> HIDE DEF t, res
      <3> QED  BY <2>3, <2>4, <2>a, <3>1 DEF EOF
    <2>9. taken \o res = Bytes(0, t)
      <3>1. Bytes(0, Len(taken)) \o Bytes(Len(taken), t) = Bytes(0, t)
        BY <2>3, <2>a, RunJoins, ZenonT(60)
      <3> HIDE DEF t
      <3> QED  BY <1>3, <2>4, <3>1, Zenon
    <2> HIDE DEF c, res, t
    <2>10. r.conn = c /\ r.done = <<Done(op, res)>> /\ r.out = <<>>
      BY <2>1, Zenon DEF Result
    <2> DEFINE B == <<Done(<<"read">>, res)>>
    <2>11. B # <<>> /\ r.done = acked.done \o B
      <3> DEFINE x == Done(<<"read">>, res)
      <3>1. r.done = <<x>> /\ B = <<x>>
        BY <2>10, Zenon DEF op
      <3> HIDE DEF x, B
      <3> QED  BY <1>5, <3>1
    <2> HIDE DEF B
    <2>12. ArrivalAs(r, B, res)
      <3>1. B = <<>> \/ B = <<Done(<<"read">>, res)>>
        BY Zenon DEF B
      <3> QED  BY <1>1, <1>4, <2>11, <3>1, ArrivalDone, Zenon
    <2>13. /\ WritesDelivered' /\ wrote' \subseteq Nat /\ peer' = peer
           /\ taken' = Bytes(0, t) /\ ~Eof(r)
      BY <2>8, <2>9, <2>11, <2>12, Zenon DEF ArrivalAs
    <2>14. wire' = wire /\ acks' = acks
      BY <1>1, <2>10, SendsNothing, Zenon
    <2>15. conn' = c /\ ended' = ended /\ Len(<<>>) <= 1
      BY <1>1, <2>10, <2>13, SMTT(30)
    <2>16. Moves(0, Kept, t, {}, 0)
      BY <1>0, <1>2, <1>3, <1>4, <2>3, <2>6, <2>7, <2>13, <2>14, <2>15, ZenonT(60) DEF Moves
    <2> QED  BY <1>0, <2>16, StreamMoves, Zenon
  <1>7. CASE conn.data = <<>> /\ conn.state = "LastAck"
    <2>1. r = Result(conn, <<Done(op, EOF)>>, <<>>)
      BY <1>7, Zenon DEF Read
    <2> HIDE DEF r
    <2>2. r.conn = conn /\ r.done = <<Done(op, EOF)>> /\ r.out = <<>>
      BY <2>1, Zenon DEF Result
    <2> DEFINE B == <<Done(<<"read">>, EOF)>>
    <2>3. B # <<>> /\ r.done = acked.done \o B
      <3> DEFINE x == Done(<<"read">>, EOF)
      <3>1. r.done = <<x>> /\ B = <<x>>
        BY <2>2, Zenon DEF op
      <3> HIDE DEF x, B
      <3> QED  BY <1>5, <3>1
    <2> HIDE DEF B
    <2>4. ArrivalAs(r, B, EOF)
      <3>1. B = <<>> \/ B = <<Done(<<"read">>, EOF)>>
        BY Zenon DEF B
      <3> QED  BY <1>1, <1>4, <2>3, <3>1, ArrivalDone, Zenon
    <2>5. WritesDelivered' /\ wrote' \subseteq Nat /\ peer' = peer /\ taken' = taken
      BY <2>3, <2>4, Zenon DEF ArrivalAs
    <2>6. wire' = wire /\ acks' = acks
      BY <1>1, <2>2, SendsNothing, Zenon
    <2>7. Len(taken) = Kept /\ Kept = peer.sent /\ peer.fin
      <3>1. Len(conn.data) = 0
        BY <1>7
      <3> QED  BY <1>3, <1>7, <3>1, SMTT(30)
    <2>8. /\ ended \subseteq ended' /\ ended' \subseteq ended \cup {"eof"}
          /\ conn' = conn /\ Len(<<>>) <= 1
      BY <1>1, <2>2, SMTT(30)
    <2>9. Moves(0, Kept, Len(taken), {}, 0)
      BY <1>0, <1>2, <1>3, <1>4, <2>5, <2>6, <2>7, <2>8, ZenonT(60) DEF Moves
    <2> QED  BY <1>0, <2>9, StreamMoves, Zenon
  <1>8. CASE conn.data = <<>> /\ conn.state = "Established"
    <2> DEFINE w == [len |-> len, op |-> op]
               c == [conn EXCEPT !.reads = Append(@, w)]
    <2>1. r = Result(c, <<>>, <<>>)
      BY <1>8, Zenon DEF Read
    <2> HIDE DEF r
    <2>2. r.conn = c /\ r.done = <<>> /\ r.out = <<>>
      BY <2>1, Zenon DEF Result
    <2>3. w \in Reading
      BY <1>0, Zenon DEF Reading, op
    <2> HIDE DEF w
    <2>4. Append(conn.reads, w) = <<w>> /\ <<w>> \in Seq(Reading) /\ Len(<<w>>) <= 1
      BY <1>2, <2>3
    <2>5. c \in Connections
      BY <1>0, <2>4, Zenon DEF Connections
    <2>6. /\ c.state = conn.state /\ c.sent = conn.sent /\ c.rcvd = conn.rcvd
          /\ c.reads = <<w>> /\ c.writes = conn.writes /\ c.data = conn.data
      BY <1>0, <2>4, Zenon DEF Connections
    <2> HIDE DEF c
    <2>7. r.done = acked.done \o <<>>
      BY <1>5, <2>2
    <2>8. ArrivalAs(r, <<>>, EOF)
      BY <1>1, <1>4, <2>7, ArrivalDone, Zenon
    <2>9. WritesDelivered' /\ wrote' \subseteq Nat /\ peer' = peer /\ taken' = taken /\ ~Eof(r)
      BY <2>8, Zenon DEF ArrivalAs
    <2>10. wire' = wire /\ acks' = acks
      BY <1>1, <2>2, SendsNothing, Zenon
    <2>11. conn' = c /\ ended' = ended
      BY <1>1, <2>2, <2>9, Zenon
    <2>12. /\ conn' \in Connections /\ conn'.state = "Established" /\ conn'.sent = conn.sent
           /\ conn'.rcvd = conn.rcvd /\ conn'.writes = conn.writes /\ conn'.data = conn.data
           /\ Len(conn'.reads) <= 1 /\ conn'.data = <<>>
      BY <1>8, <2>4, <2>5, <2>6, <2>11, ZenonT(60)
    <2>13. Moves(0, Kept, Len(taken), {}, 0)
      BY <1>0, <1>3, <1>4, <2>9, <2>10, <2>11, <2>12, SMTT(30) DEF Moves
    <2> QED  BY <1>0, <2>13, StreamMoves, Zenon
  <1> QED  BY <1>0, <1>6, <1>7, <1>8, Zenon

\* Bytes of the stream up to the last, the first of which has the number seq.
WithinWrite(d, seq, last) ==
    d \in Seq(Nat) /\ Len(d) \in Nat /\ seq \in Nat /\ seq > 0 /\ seq - 1 + Len(d) <= last

\* A segment of a write has bytes of the write, and the number of the first of them.
LEMMA SegmentOfWrite ==
    ASSUME NEW from \in Nat, NEW len \in Nat, NEW sent \in Nat, sent = from + 1,
           sent + len <= MaxOut + 1, NEW q \in Nat, NEW h \in Nat, h <= len,
           NEW d, d = SubSeq(Bytes(from, from + len), q + 1, h), d # <<>>
    PROVE  WithinWrite(d, Plus(sent, q), from + len)
  <1>1. Bytes(from, from + len) \in Seq(Nat) /\ Len(Bytes(from, from + len)) = len
    <2>1. from + len \in Nat /\ from <= from + len /\ (from + len) - from = len
      OBVIOUS
    <2>2. /\ Bytes(from, from + len) \in Seq(Nat)
          /\ Len(Bytes(from, from + len)) = (from + len) - from
      BY <2>1, Runs, Zenon
    <2> QED  BY <2>1, <2>2, Zenon
  <1> DEFINE b == Bytes(from, from + len)
  <1> HIDE DEF b
  <1>2. b \in Seq(Nat) /\ Len(b) = len /\ d = SubSeq(b, q + 1, h)
    BY <1>1, Zenon DEF b
  <1>3. q < h
    BY <1>2
  <1>4. d \in Seq(Nat) /\ Len(d) = h - q
    BY <1>2, <1>3, SMTT(30)
  <1>5. /\ MaxOut \in Nat /\ 2 * (SeqSpace \div 2) = SeqSpace /\ MaxOut < SeqSpace \div 2
        /\ SeqSpace \div 2 \in Nat /\ SeqSpace \in Nat
    BY SpaceIsPositive, SeqAssumption, StreamAssumption
  <1>6. sent + q < SeqSpace /\ sent + q < 2 * SeqSpace
    BY <1>3, <1>5
  <1>7. Plus(sent, q) = IF sent + q < SeqSpace THEN sent + q ELSE (sent + q) - SeqSpace
    BY <1>6, PlusWraps, Zenon
  <1>8. Plus(sent, q) = sent + q
    BY <1>6, <1>7, Zenon
  <1> QED  BY <1>3, <1>4, <1>8 DEF WithinWrite

\* write of the task.
LEMMA TaskWritesKeeps ==
    ASSUME StreamInv, NEW len \in Chunks, TaskWrites(len)
    PROVE  StreamInv'
  <1> DEFINE data == Bytes(Written, Written + len)
             op == <<"write", Written + len>>
             r == Write(conn, data, op)
             acked == Result(conn, <<>>, <<>>)
  <1>0. /\ conn \in Connections /\ peer \in Peers /\ taken \in Seq(Nat) /\ Open
        /\ conn.state \in {"Established", "LastAck"} /\ len \in Nat
        /\ Written + len <= MaxOut /\ MaxOut \in Nat
    BY StreamAssumption DEF StreamInv, StreamTypes, TaskWrites, Open, NoConn
  <1>1. conn' = r.conn /\ Apply(r) /\ ended' = ended
    BY Zenon DEF TaskWrites
  <1>2. /\ conn.sent \in Nat \ {0} /\ Written = conn.sent - 1 /\ Written \in Nat
        /\ conn.sent = Written + 1 /\ conn.sent + len <= MaxOut + 1
    BY <1>0, SMTT(30) DEF StreamInv, Outgoing, Connections, Written
  <1>3. /\ conn.rcvd = Plus(peer.isn, 1 + Kept) /\ Kept \in Nat /\ Kept <= peer.sent
        /\ Len(taken) \in Nat /\ Len(taken) <= Kept
        /\ taken = Bytes(0, Len(taken)) /\ conn.data = Bytes(Len(taken), Kept)
        /\ conn.state = "LastAck" => peer.fin /\ Kept = peer.sent /\ conn.reads = <<>>
        /\ Kept <= Kept /\ Len(conn.reads) <= 1 /\ (conn.reads # <<>> => conn.data = <<>>)
    BY <1>0, SMTT(30) DEF StreamInv, Acknowledged, Incoming, Kept, Connections, AtTheEnd
  <1>4. peer' = peer
    BY <1>1, Zenon DEF Apply
  <1> HIDE DEF op, data
  <1>5. CASE conn.state = "LastAck"
    <2>1. r = Result(conn, <<Failed(op)>>, <<>>)
      BY <1>5, Zenon DEF Write
    <2> HIDE DEF r
    <2>2. r.conn = conn /\ r.done = <<Failed(op)>> /\ r.out = <<>>
      BY <2>1, Zenon DEF Result
    <2>3. /\ Failed(op).op[1] = "write" /\ ~Failed(op).ok
      BY ZenonT(60) DEF Failed, op
    <2>4. \A i \in DOMAIN r.done : r.done[i] = Failed(op)
      BY <2>2
    <2>5. WritesDelivered' /\ wrote' \subseteq Nat
      <3>1. WritesDelivered /\ wrote \subseteq Nat /\ peer.got \in Nat
        BY <1>0, Zenon DEF StreamInv, StreamTypes, Peers
      <3>2. \A i \in DOMAIN r.done :
                r.done[i].op[1] = "write" /\ r.done[i].ok => r.done[i].op[2] \in 0..peer.got
        BY <2>3, <2>4, Zenon
      <3> QED  BY <1>1, <3>1, <3>2, WritesStayDelivered, Zenon
    <2>6. taken' = taken
      <3>1. \A i \in DOMAIN r.done : r.done[i].op[1] # "read"
        BY <2>3, <2>4, Zenon
      <3>2. taken' = Given(r.done)
        BY <1>1, Zenon DEF Apply
      <3> QED  BY <3>1, <3>2, GivesNothing, Zenon
    <2>7. wire' = wire /\ acks' = acks
      BY <1>1, <2>2, SendsNothing, Zenon
    <2>8. conn' = conn
      BY <1>1, <2>2, Zenon
    <2>9. /\ 0 \in 0..Len(conn.writes)
          /\ conn.writes = SubSeq(conn.writes, 0 + 1, Len(conn.writes))
      BY <1>0, NothingAcked, ZenonT(60)
    <2>10. Moves(0, Kept, Len(taken), {}, 0)
      BY <1>0, <1>1, <1>3, <1>4, <2>5, <2>6, <2>7, <2>8, <2>9, SMTT(30) DEF Moves
    <2> QED  BY <1>0, <2>10, StreamMoves, Zenon
  <1>6. CASE conn.state = "Established"
    <2> DEFINE end == Plus(conn.sent, Len(data))
               w == [end |-> end, len |-> Len(data), op |-> op]
               c == [conn EXCEPT !.sent = end, !.writes = Append(@, w)]
               out == Segments(conn, data)
    <2>1. r = Result(c, <<>>, out)
      BY <1>6, Zenon DEF Write
    <2> HIDE DEF r
    <2>2. r.conn = c /\ r.done = <<>> /\ r.out = out
      BY <2>1, Zenon DEF Result
    <2>3. Len(data) = len
      <3>1. Written + len \in Nat /\ Written <= Written + len /\ (Written + len) - Written = len
        <4>1. \A x, y \in Nat : x + y \in Nat /\ x <= x + y /\ (x + y) - x = y
          OBVIOUS
        <4> QED  BY <1>0, <1>2, <4>1, Zenon
      <3>2. Len(data) = (Written + len) - Written
        BY <1>2, <3>1, Runs, Zenon DEF data
      <3> QED  BY <3>1, <3>2, Zenon
    <2>4. end = conn.sent + len
      <3>1. /\ MaxOut \in Nat /\ 2 * (SeqSpace \div 2) = SeqSpace /\ MaxOut < SeqSpace \div 2
            /\ SeqSpace \div 2 \in Nat /\ SeqSpace \in Nat
        BY SpaceIsPositive, SeqAssumption, StreamAssumption
      <3>2. conn.sent + len < SeqSpace /\ conn.sent + len < 2 * SeqSpace /\ conn.sent \in Nat
        BY <1>0, <1>2, <3>1, SMTT(30)
      <3>3. Plus(conn.sent, len) = IF conn.sent + len < SeqSpace THEN conn.sent + len
                                   ELSE (conn.sent + len) - SeqSpace
        BY <1>0, <3>2, PlusWraps, Zenon
      <3> QED  BY <2>3, <3>2, <3>3, Zenon
    <2> HIDE DEF end
    <2>5. end \in Nat /\ end = Written + len + 1 /\ conn.sent <= end /\ end <= MaxOut + 1 /\ end > 0
      <3>2. conn.sent \in Nat /\ end \in Nat
        <4>1. \A x, y \in Nat : x + y \in Nat
          OBVIOUS
        <4>2. conn.sent \in Nat
          BY <1>2, Zenon
        <4> QED  BY <1>0, <2>4, <4>1, <4>2, Zenon
      <3>3. /\ Written \in Nat /\ len \in Nat /\ MaxOut \in Nat
            /\ conn.sent = Written + 1 /\ conn.sent + len <= MaxOut + 1
        BY <1>0, <1>2, Zenon
      <3> QED  BY <2>4, <3>2, <3>3
    <2>6. w \in Writing /\ w.end = end /\ w.op[2] = end - 1
      <3>1. op \in {"write"} \X Nat /\ op[2] = end - 1
        <4>1. Written \in Nat /\ len \in Nat /\ end \in Nat /\ end = Written + len + 1
          BY <1>0, <1>2, <2>5, Zenon
        <4>2. Written + len \in Nat /\ Written + len = end - 1
          BY <4>1
        <4> QED  BY <4>2, Zenon DEF op
      <3>2. end \in Nat /\ Len(data) \in Nat
        BY <1>0, <2>3, <2>5, Zenon
      <3>3. w \in Writing
        BY <3>1, <3>2, Zenon DEF Writing
      <3> QED  BY <3>1, <3>3, Zenon
    <2> HIDE DEF w
    <2>7. Append(conn.writes, w) \in Seq(Writing) /\ conn.writes \in Seq(Writing)
      <3> DEFINE ws == conn.writes
      <3>1. ws \in Seq(Writing)
        BY <1>0, Zenon DEF Connections
      <3> HIDE DEF ws
      <3>2. Append(ws, w) \in Seq(Writing)
        BY <2>6, <3>1
      <3> QED  BY <3>1, <3>2, Zenon DEF ws
    <2>8. c \in Connections
      BY <1>0, <2>5, <2>7, Zenon DEF Connections
    <2>9. /\ c.state = "Established" /\ c.sent = end /\ c.rcvd = conn.rcvd
          /\ c.reads = conn.reads /\ c.writes = Append(conn.writes, w) /\ c.data = conn.data
      BY <1>0, <1>6, Zenon DEF Connections
    <2> HIDE DEF c
    <2>10. conn' = c
      BY <1>1, <2>2, Zenon
    <2>11. /\ \A p \in wire' : p \in wire \/ \E s \in Range(out) : p = Sent(s)
           /\ \A a \in acks' : a \in acks \/ \E s \in Range(out) : a = <<s.flags, s.ack>>
      BY <1>1, <2>2, Zenon DEF Apply
    <2>12. ASSUME NEW s \in Range(out)
           PROVE  /\ s.flags = {"ack"} /\ s.ack = conn.rcvd
                  /\ Sent(s) \in Packets
                  /\ Sent(s).data # <<>> =>
                        Sent(s).seq > 0 /\ Sent(s).seq - 1 + Len(Sent(s).data) <= end - 1
      <3>1. PICK k \in DOMAIN out : s = out[k]
        BY Zenon DEF Range
      <3> DEFINE q == (k - 1) * MSS
                 h == Shorter(k * MSS, Len(data))
                 d == SubSeq(data, q + 1, h)
      <3>2. k \in Int /\ 1 <= k
        BY DEF Segments
      <3>3. s = Packet(Plus(conn.sent, q), conn.rcvd, {"ack"}, d)
        BY <3>1, Zenon DEF Segments
      <3>4. q \in Nat /\ h \in Nat /\ h <= len
        <4>1. \A x, y \in Nat : x * y \in Nat
          OBVIOUS
        <4>2. k - 1 \in Nat /\ k \in Nat /\ MSS \in Nat
          BY <3>2, SeqAssumption, SMTT(30)
        <4>3. q \in Nat /\ k * MSS \in Nat
          BY <4>1, <4>2, Zenon
        <4>4. \A x, y \in Nat : Shorter(x, y) \in Nat /\ Shorter(x, y) <= y
          BY DEF Shorter
        <4>5. Shorter(k * MSS, len) \in Nat /\ Shorter(k * MSS, len) <= len
          BY <1>0, <4>3, <4>4, Zenon
        <4> QED  BY <2>3, <4>3, <4>5, Zenon
      <3> HIDE DEF q, h
      <3>5. d # <<>> => /\ d \in Seq(Nat) /\ Len(d) \in Nat /\ Plus(conn.sent, q) \in Nat
                        /\ Plus(conn.sent, q) > 0
                        /\ Plus(conn.sent, q) - 1 + Len(d) <= Written + len
        <4>1. /\ conn.sent \in Nat /\ Written \in Nat /\ len \in Nat
              /\ conn.sent = Written + 1 /\ conn.sent + len <= MaxOut + 1
              /\ d = SubSeq(Bytes(Written, Written + len), q + 1, h)
          BY <1>0, <1>2, Zenon DEF data
        <4> HIDE DEF d
        <4> SUFFICES ASSUME d # <<>>
                     PROVE  /\ d \in Seq(Nat) /\ Len(d) \in Nat /\ Plus(conn.sent, q) \in Nat
                            /\ Plus(conn.sent, q) > 0
                            /\ Plus(conn.sent, q) - 1 + Len(d) <= Written + len
          BY Zenon
        <4> DEFINE x == conn.sent
                   y == Written
        <4>2. /\ x \in Nat /\ x = y + 1 /\ x + len <= MaxOut + 1 /\ y \in Nat /\ len \in Nat
              /\ d = SubSeq(Bytes(y, y + len), q + 1, h)
          BY <4>1, Zenon
        <4> HIDE DEF x, y
        <4>3. WithinWrite(d, Plus(x, q), y + len)
          BY <3>4, <4>2, SegmentOfWrite, Zenon
        <4> QED  BY <4>3, Zenon DEF WithinWrite, x, y
      <3> HIDE DEF d
      <3>6. /\ s.flags = {"ack"} /\ s.ack = conn.rcvd /\ s.data = d /\ s.seq = Plus(conn.sent, q)
        BY <3>3, Zenon DEF Packet
      <3>7. Sent(s) = Packet(IF d = <<>> THEN 0 ELSE Plus(conn.sent, q), 0, {"ack"}, d)
        BY <3>6, Zenon DEF Sent
      <3>8. /\ Sent(s).data = d /\ Sent(s).seq = IF d = <<>> THEN 0 ELSE Plus(conn.sent, q)
            /\ Sent(s).flags = {"ack"}
        BY <3>7 DEF Packet
      <3>9. Sent(s) \in Packets
        <4>1. d \in Seq(Nat) /\ (IF d = <<>> THEN 0 ELSE Plus(conn.sent, q)) \in Nat
          <5>1. CASE d = <<>>
            BY <5>1
          <5>2. CASE d # <<>>
            BY <3>5, <5>2, Zenon
          <5> QED  BY <5>1, <5>2, Zenon
        <4>2. {"ack"} \in SUBSET Flags /\ 0 \in Nat
          BY Zenon DEF Flags
        <4> DEFINE x == IF d = <<>> THEN 0 ELSE Plus(conn.sent, q)
                   g == {"ack"}
        <4>3. x \in Nat /\ g \in SUBSET Flags /\ d \in Seq(Nat)
          BY <4>1, <4>2, Zenon
        <4> HIDE DEF x, g
        <4>4. Packet(x, 0, g, d) \in Packets
          BY <4>3, Zenon DEF Packet, Packets
        <4> QED  BY <3>7, <4>4, Zenon DEF x, g
      <3>10. ASSUME d # <<>>
             PROVE  Sent(s).seq > 0 /\ Sent(s).seq - 1 + Len(Sent(s).data) <= end - 1
        <4>1. Sent(s).seq = Plus(conn.sent, q) /\ Sent(s).data = d
          BY <3>8, <3>10, Zenon
        <4>2. Written + len = end - 1
          <5>1. Written \in Nat /\ len \in Nat /\ end \in Nat /\ end = Written + len + 1
            BY <1>0, <1>2, <2>5, Zenon
          <5> QED  BY <5>1
        <4>3. Plus(conn.sent, q) > 0 /\ Plus(conn.sent, q) - 1 + Len(d) <= end - 1
          BY <3>5, <3>10, <4>2, Zenon
        <4> QED  BY <4>1, <4>3, Zenon
      <3> QED  BY <3>6, <3>8, <3>9, <3>10, Zenon
    <2> HIDE DEF out
    <2>13. WritesDelivered' /\ wrote' \subseteq Nat
      <3>1. WritesDelivered /\ wrote \subseteq Nat /\ peer.got \in Nat
        BY <1>0, Zenon DEF StreamInv, StreamTypes, Peers
      <3>2. \A i \in DOMAIN r.done : FALSE
        BY <2>2
      <3> QED  BY <1>1, <3>1, <3>2, WritesStayDelivered, ZenonT(60)
    <2>14. taken' = taken
      <3>1. \A i \in DOMAIN r.done : FALSE
        BY <2>2
      <3>2. taken' = Given(r.done)
        BY <1>1, Zenon DEF Apply
      <3> QED  BY <3>1, <3>2, GivesNothing, Zenon
    <2>15. StreamTypes' /\ PeerSilent'
      <3>1. wire' \subseteq Packets
        BY <2>11, <2>12, Zenon DEF StreamInv, StreamTypes
      <3>2. \A a \in acks' : a[1] \subseteq Flags
        <4>1. {"ack"} \subseteq Flags
          BY Zenon DEF Flags
        <4> QED  BY <2>11, <2>12, <4>1, SMTT(30) DEF StreamInv, StreamTypes
      <3> QED  BY <1>1, <1>4, <2>8, <2>10, <2>13, <2>14, <3>1, <3>2, ZenonT(60)
               DEF StreamInv, StreamTypes, PeerSilent
    <2>16. Opening' /\ AtTheEnd' /\ Incoming'
      <3>1. /\ conn'.state = "Established" /\ conn'.reads = conn.reads /\ conn'.data = conn.data
            /\ Kept' = Kept
        BY <2>9, <2>10, <2>14, Zenon DEF Kept
      <3>2. Opening' /\ AtTheEnd'
        BY <3>1, Zenon DEF Opening, AtTheEnd, Open
      <3>3. Incoming'
        BY <1>3, <1>4, <2>14, <3>1, Zenon DEF Incoming
      <3> QED  BY <3>2, <3>3, Zenon
    <2>17. Outgoing'
      <3>1. Written' = end - 1 /\ Written <= end - 1 /\ conn'.sent = end
        BY <1>2, <2>5, <2>9, <2>10, SMTT(30) DEF Written
      <3>2. ASSUME NEW p \in wire', p.data # <<>>
            PROVE  p.seq > 0 /\ p.seq - 1 + Len(p.data) <= end - 1
        <4>1. CASE p \in wire
          <5>1. p.seq > 0 /\ p.seq - 1 + Len(p.data) <= Written /\ p \in Packets
            BY <1>0, <3>2, <4>1, Zenon DEF StreamInv, Outgoing, StreamTypes
          <5>2. p.seq \in Nat /\ Len(p.data) \in Nat
            BY <5>1, SMTT(30) DEF Packets
          <5> QED  BY <1>2, <2>5, <3>1, <5>1, <5>2, SMTT(30)
        <4> QED  BY <2>11, <2>12, <3>2, <4>1, Zenon
      <3>3. ASSUME NEW i \in DOMAIN conn'.writes
            PROVE  /\ conn'.writes[i].op[2] = conn'.writes[i].end - 1
                   /\ conn'.writes[i].end \in 1..end
        <4> DEFINE ws == conn.writes
        <4>1. \A x \in DOMAIN ws : ws[x].op[2] = ws[x].end - 1 /\ ws[x].end \in 1..conn.sent
          BY <1>0, Zenon DEF StreamInv, Outgoing
        <4>2. i \in DOMAIN Append(ws, w) /\ ws \in Seq(Writing) /\ conn'.writes = Append(ws, w)
          BY <2>7, <2>9, <2>10, Zenon
        <4> HIDE DEF ws
        <4>3. \/ i \in DOMAIN ws /\ Append(ws, w)[i] = ws[i]
              \/ Append(ws, w)[i] = w
          BY <4>2, SMTT(30)
        <4>4. CASE i \in DOMAIN ws /\ Append(ws, w)[i] = ws[i]
          BY <1>2, <2>5, <4>1, <4>2, <4>4, SMTT(30)
        <4>5. CASE Append(ws, w)[i] = w
          BY <2>5, <2>6, <4>2, <4>5, SMTT(30)
        <4> QED  BY <4>3, <4>4, <4>5, Zenon
      <3>4. peer.got <= end - 1
        <4>1. peer.got <= Written /\ peer.got \in Nat
          BY <1>0, Zenon DEF StreamInv, Outgoing, Peers
        <4> QED  BY <1>2, <2>5, <3>1, <4>1, SMTT(30)
      <3> QED  BY <1>4, <2>5, <3>1, <3>2, <3>3, <3>4, ZenonT(60) DEF Outgoing
    <2>18. Acknowledged'
      <3>1. Kept' = Kept /\ conn'.rcvd = conn.rcvd /\ Kept \in 0..Kept
        BY <1>3, <2>9, <2>10, <2>14, SMTT(30) DEF Kept
      <3>2. ASSUME NEW a \in acks', "rst" \notin a[1]
            PROVE  \/ \E n \in 0..Kept : a[2] = Plus(peer.isn, 1 + n)
                   \/ peer.fin /\ "fin" \in a[1] /\ a[2] = Plus(peer.isn, 2 + peer.sent)
        <4>1. CASE a \in acks
          BY <1>0, <3>2, <4>1, Zenon DEF StreamInv, Acknowledged
        <4>2. CASE a[2] = conn.rcvd
          BY <1>3, <3>1, <4>2, Zenon
        <4> QED  BY <2>11, <2>12, <4>1, <4>2, SMTT(30)
      <3> QED  BY <1>3, <1>4, <3>1, <3>2, ZenonT(60) DEF Acknowledged
    <2>19. EofIsTheEnd'
      BY <1>1, <1>4, <2>14, Zenon DEF StreamInv, EofIsTheEnd
    <2> QED  BY <2>13, <2>15, <2>16, <2>17, <2>18, <2>19, Zenon DEF StreamInv
  <1> QED  BY <1>0, <1>5, <1>6, Zenon

-----------------------------------------------------------------------------
(* What may arrive, and when *)

\* The packet that ends the handshake.
LEMMA ConnectArrives ==
    ASSUME StreamInv, conn.state \in {"SynSent", "SynReceived"}, NEW p, NEW action,
           (IF action = "ConnectAck" THEN Plus(p.seq, 1) ELSE p.seq) = Plus(peer.isn, 1),
           LET r == HandleConnect(conn, p, action)
           IN  /\ conn' = r.conn /\ Apply(r)
               /\ ended' = ended \cup (IF Eof(r) THEN {"eof"} ELSE {})
    PROVE  StreamInv'
  <1> DEFINE r == HandleConnect(conn, p, action)
             rcvd == Plus(peer.isn, 1)
             next == Established(conn, p, action)
             f == {"ack"}
  <1>0. conn \in Connections /\ peer \in Peers /\ conn.onConnect = NoOp
    BY DEF StreamInv, StreamTypes, NoConn, Connections
  <1>1. /\ conn' = r.conn /\ Apply(r) /\ ended' = ended \cup (IF Eof(r) THEN {"eof"} ELSE {})
    BY Zenon
  <1>2. /\ r.conn = next /\ r.done = <<>>
        /\ r.out = <<>> \/ r.out = <<Answer(next, rcvd, f)>>
    BY <1>0, Zenon DEF HandleConnect, Result
  <1>3. next = [conn EXCEPT !.state = "Established", !.sent = Plus(@, 1), !.onConnect = NoOp,
                            !.rcvd = rcvd]
    BY Zenon DEF Established
  <1> HIDE DEF r, next, rcvd, f
  <1>4. \/ wire' = wire /\ acks' = acks
        \/ wire' = wire \cup {Packet(0, 0, f, <<>>)} /\ acks' = acks \cup {<<f, rcvd>>}
    <2>1. CASE r.out = <<>>
      BY <1>1, <2>1, SendsNothing, Zenon
    <2>2. CASE r.out = <<Answer(next, rcvd, f)>>
      <3>1. /\ wire' = wire \cup {Packet(0, 0, f, <<>>)} /\ acks' = acks \cup {<<f, rcvd>>}
            /\ peer' = peer
        BY <1>1, <2>2, SendsAnswer, Zenon
      <3> QED  BY <3>1, Zenon
    <2> QED  BY <1>2, <2>1, <2>2, Zenon
  <1>5. \A i \in DOMAIN r.done : FALSE
    BY <1>2, SMTT(30)
  <1>6. taken' = taken /\ peer' = peer
    <2>1. taken' = Given(r.done) /\ peer' = peer
      BY <1>1, Zenon DEF Apply
    <2> QED  BY <1>5, <2>1, GivesNothing, Zenon
  <1>7. WritesDelivered' /\ wrote' \subseteq Nat
    <2>1. WritesDelivered /\ wrote \subseteq Nat /\ peer.got \in Nat
      BY <1>0, Zenon DEF StreamInv, StreamTypes, Peers
    <2> QED  BY <1>1, <1>5, <2>1, WritesStayDelivered, Zenon
  <1>8. ended' = ended
    <2>1. ~Eof(r)
      BY <1>5, Zenon DEF Eof, ReadsOf
    <2> QED  BY <1>1, <2>1, Zenon
  <1>9. wire' = wire \/ wire' = wire \cup {Packet(0, 0, f, <<>>)}
    BY <1>4, Zenon
  <1>10. acks' = acks \/ acks' = acks \cup {<<f, rcvd>>}
    BY <1>4, Zenon
  <1>11. conn' = [conn EXCEPT !.state = "Established", !.sent = Plus(@, 1), !.onConnect = NoOp,
                              !.rcvd = rcvd]
    BY <1>1, <1>2, <1>3, Zenon
  <1>12. UNCHANGED <<peer, taken, ended>>
    BY <1>6, <1>8, Zenon
  <1>13. rcvd = Plus(peer.isn, 1) /\ f = {"ack"}
    BY Zenon DEF rcvd, f
  <1> QED  BY <1>7, <1>9, <1>10, <1>11, <1>12, <1>13, HandshakeEnds, ZenonT(60)

\* handle_tcp_packet on whatever the network brings.
LEMMA ArrivesKeeps ==
    ASSUME StreamInv, StreamFlaws = {}, NEW p \in FromPeer, Arrives(p)
    PROVE  StreamInv'
  <1> DEFINE r == HandlePacket(conn, p)
             action == ActionForTcpPacket(conn, p)
  <1>0. /\ conn \in Connections /\ peer \in Peers /\ Open /\ StreamTypes
        /\ conn.state \in {"SynSent", "SynReceived", "Established", "LastAck"}
    BY SMTT(30) DEF StreamInv, StreamTypes, Arrives, Open, NoConn, Connections
  <1>1. /\ conn' = r.conn /\ Apply(r)
        /\ ended' = ended \cup (IF Is("rst", p) THEN {"reset"} ELSE {})
                          \cup (IF Eof(r) THEN {"eof"} ELSE {})
    BY Zenon DEF Arrives
  <1>2. /\ Is("fin", p) => p.seq = conn.rcvd
        /\ conn.state = "SynReceived" => p.seq \in {conn.rcvd, Plus(conn.rcvd, 1)}
    BY Zenon DEF Arrives
  <1>3. r = CASE action = "Close" -> HandleClose(conn)
              [] action \in {"Connect", "ConnectAck"} -> HandleConnect(conn, p, action)
              [] action = "Enqueue" -> HandleEnqueue(conn, p)
              [] action = "FinAck" -> HandleFin(conn, p)
              [] action = "Reset" -> HandleReset(conn, p)
    BY Zenon DEF HandlePacket
  <1>4. CASE action = "Close"
    <2>1. r = HandleClose(conn)
      BY <1>3, <1>4, Zenon
    <2>2. Is("rst", p) \/ conn.state = "LastAck"
      BY <1>0, <1>4, Zenon DEF ActionForTcpPacket
    <2> HIDE DEF r
    <2>3. /\ ended \subseteq ended' /\ ended' \subseteq ended \cup {"reset", "eof"}
          /\ "eof" \in ended' => "eof" \in ended \/ Eof(r)
          /\ conn.state = "LastAck" \/ "reset" \in ended'
      BY <1>1, <2>2, Zenon
    <2> QED  BY <1>0, <1>1, <2>1, <2>3, ClosingArrives, Zenon
  <1>5. CASE action # "Close"
    <2> USE <1>5
    <2>1. ~Is("rst", p) /\ conn.state # "LastAck"
      BY <1>0, Zenon DEF ActionForTcpPacket
    <2>2. ended' = ended \cup (IF Eof(r) THEN {"eof"} ELSE {})
      <3> HIDE DEF r
      <3> QED  BY <1>1, <2>1, Zenon
    <2>3. CASE action = "Reset" /\ conn.state # "SynSent"
      <3>1. r = HandleReset(conn, p)
        BY <1>3, <2>3, Zenon
      <3> HIDE DEF r
      <3> QED  BY <1>0, <1>1, <2>2, <2>3, <3>1, ResetArrives, Zenon
    <2>4. ASSUME action \in {"Connect", "ConnectAck"}, conn.state \in {"SynSent", "SynReceived"},
                 (IF action = "ConnectAck" THEN Plus(p.seq, 1) ELSE p.seq) = Plus(peer.isn, 1)
          PROVE  StreamInv'
      <3>1. r = HandleConnect(conn, p, action)
        BY <1>3, <2>4, Zenon
      <3> HIDE DEF r, action
      <3> QED  BY <1>1, <2>2, <2>4, <3>1, ConnectArrives, Zenon
    <2>5. CASE peer.state # "listen" /\ ~AnsweredSyn /\ p.flags = {"syn"}
      <3>1. conn.state # "SynSent"
        BY <2>5, Zenon DEF StreamInv, Opening, AnsweredSyn
      <3>2. action = "Reset"
        BY <1>0, <2>1, <2>5, <3>1, Zenon DEF ActionForTcpPacket, Is
      <3> QED  BY <2>3, <3>1, <3>2, Zenon
    <2>6. CASE AnsweredSyn /\ p.flags = {"syn", "ack"} /\ p.seq = peer.isn
      <3>1. conn.state # "SynReceived"
        BY <2>6, Zenon DEF StreamInv, Opening, AnsweredSyn
      <3>2. CASE conn.state = "SynSent"
        <4>1. action = "ConnectAck"
          BY <2>1, <2>6, <3>2, Zenon DEF ActionForTcpPacket, Is
        <4>2. (IF action = "ConnectAck" THEN Plus(p.seq, 1) ELSE p.seq) = Plus(peer.isn, 1)
          BY <2>6, <4>1, Zenon
        <4>3. action \in {"Connect", "ConnectAck"} /\ conn.state \in {"SynSent", "SynReceived"}
          BY <3>2, <4>1, Zenon
        <4> QED  BY <2>4, <4>2, <4>3, Zenon
      <3>3. CASE conn.state = "Established"
        <4>1. action = "Reset"
          BY <2>1, <2>6, <3>3, Zenon DEF ActionForTcpPacket, Is
        <4>2. conn.state # "SynSent"
          BY <3>3, Zenon
        <4> QED  BY <2>3, <4>1, <4>2, Zenon
      <3> QED  BY <1>0, <2>1, <3>1, <3>2, <3>3, Zenon
    <2>7. ASSUME NEW flags, flags \in {{"ack"}, {"ack", "fin"}}, peer.state \in {"open", "reset"},
                 flags = {"ack", "fin"} => peer.fin,
                 NEW i \in 0..peer.sent, NEW j \in 0..peer.sent, NEW n \in 0..peer.got,
                 Segment(p, flags, i, j, n), flags = {"ack", "fin"} => j = peer.sent
          PROVE  StreamInv'
      <3>1. conn.state # "SynSent"
        BY <2>7, Zenon DEF StreamInv, Opening
      <3>2. CASE conn.state = "SynReceived"
        <4>1. conn.rcvd = peer.isn
          BY <3>2, Zenon DEF StreamInv, Opening
        <4>2. p.seq = Plus(peer.isn, 1 + i) /\ p.flags = flags
          BY <2>7, Zenon DEF Segment
        <4>3. Plus(peer.isn, 1 + i) # peer.isn
          <5>1. i \in 0..SeqSpace - 2 /\ peer.isn \in Numbers
            BY <1>0, StreamAssumption, SpaceIsPositive, SMTT(30) DEF Peers
          <5> QED  BY <5>1, PlusOne, Zenon
        <4>4. p.seq = Plus(peer.isn, 1)
          BY <1>2, <3>2, <4>1, <4>2, <4>3, Zenon
        <4>5. flags = {"ack"}
          BY <1>2, <2>7, <4>1, <4>2, <4>3, Zenon DEF Is
        <4>6. action \in {"Connect", "Reset"}
          BY <2>1, <3>2, Zenon DEF ActionForTcpPacket
        <4>7. CASE action = "Reset"
          BY <2>3, <3>1, <4>7, Zenon
        <4>8. CASE action = "Connect"
          <5>1. (IF action = "ConnectAck" THEN Plus(p.seq, 1) ELSE p.seq) = Plus(peer.isn, 1)
            BY <4>4, <4>8, Zenon
          <5>2. action \in {"Connect", "ConnectAck"} /\ conn.state \in {"SynSent", "SynReceived"}
            BY <3>2, <4>8, Zenon
          <5> QED  BY <2>4, <5>1, <5>2, Zenon
        <4> QED  BY <4>6, <4>7, <4>8, Zenon
      <3>3. CASE conn.state = "Established" /\ flags = {"ack"}
        <4>1. action = "Enqueue"
          <5>1. p.flags = {"ack"}
            BY <2>7, <3>3, Zenon DEF Segment
          <5> QED  BY <2>1, <3>3, <5>1, Zenon DEF ActionForTcpPacket, Is
        <4>2. r = HandleEnqueue(conn, p)
          BY <1>3, <4>1, Zenon
        <4>3. Segment(p, {"ack"}, i, j, n)
          BY <2>7, <3>3, Zenon
        <4> HIDE DEF r
        <4> QED  BY <1>1, <2>2, <3>3, <4>2, <4>3, EnqueueArrives, Zenon
      <3>4. CASE conn.state = "Established" /\ flags = {"ack", "fin"}
        <4>0. p.flags = {"ack", "fin"}
          BY <2>7, <3>4, Zenon DEF Segment
        <4>1. action = "FinAck"
          BY <2>1, <3>4, <4>0, Zenon DEF ActionForTcpPacket, Is
        <4>2. r = HandleFin(conn, p)
          BY <1>3, <4>1, Zenon
        <4>3. Segment(p, {"ack", "fin"}, i, peer.sent, n) /\ peer.fin /\ p.seq = conn.rcvd
          BY <1>2, <2>7, <3>4, <4>0, Zenon DEF Is
        <4> HIDE DEF r
        <4> QED  BY <1>1, <2>2, <3>4, <4>2, <4>3, FinArrives, Zenon
      <3> QED  BY <1>0, <2>1, <2>7, <3>1, <3>2, <3>3, <3>4, Zenon
    <2>8. CASE /\ peer.state \in {"open", "reset"}
               /\ \E i, j \in 0..peer.sent, n \in 0..peer.got : Segment(p, {"ack"}, i, j, n)
      <3>1. PICK i \in 0..peer.sent, j \in 0..peer.sent, n \in 0..peer.got :
                    Segment(p, {"ack"}, i, j, n)
        BY <2>8, Zenon
      <3> DEFINE flags == {"ack"}
      <3>2. /\ flags \in {{"ack"}, {"ack", "fin"}} /\ (flags = {"ack", "fin"} => peer.fin)
            /\ (flags = {"ack", "fin"} => j = peer.sent) /\ Segment(p, flags, i, j, n)
            /\ peer.state \in {"open", "reset"}
        <4>1. "fin" \in {"ack", "fin"} /\ "fin" \notin {"ack"}
          BY Zenon
        <4>2. {"ack"} # {"ack", "fin"}
          BY <4>1, Zenon
        <4> QED  BY <2>8, <3>1, <4>2, Zenon
      <3> HIDE DEF flags
      <3> QED  BY <2>7, <3>2, Zenon
    <2>9. CASE /\ peer.state \in {"open", "reset"} /\ peer.fin
               /\ \E i \in 0..peer.sent, n \in 0..peer.got :
                     Segment(p, {"ack", "fin"}, i, peer.sent, n)
      <3>1. PICK i \in 0..peer.sent, n \in 0..peer.got : Segment(p, {"ack", "fin"}, i, peer.sent, n)
        BY <2>9, Zenon
      <3> DEFINE flags == {"ack", "fin"}
                 j == peer.sent
      <3>2. /\ flags \in {{"ack"}, {"ack", "fin"}} /\ (flags = {"ack", "fin"} => peer.fin)
            /\ (flags = {"ack", "fin"} => j = peer.sent) /\ Segment(p, flags, i, j, n)
            /\ peer.state \in {"open", "reset"}
        BY <2>9, <3>1, Zenon
      <3>3. j \in 0..peer.sent
        BY <1>0 DEF Peers
      <3> HIDE DEF flags, j
      <3> QED  BY <2>7, <3>2, <3>3, Zenon
    <2>10. ~(peer.state = "reset" /\ p.flags = {"rst"})
      BY <2>1, Zenon DEF Is
    <2> QED  BY <1>0, <2>5, <2>6, <2>8, <2>9, <2>10, PacketsOfPeer, ZenonT(60)
  <1> QED  BY <1>4, <1>5, Zenon

-----------------------------------------------------------------------------
(* The theorem *)

\* Every step keeps the invariant.
LEMMA StreamSteps ==
    ASSUME StreamInv, StreamFlaws = {}, [StreamNext]_streamVars
    PROVE  StreamInv'
  <1>1. CASE UNCHANGED streamVars
    BY <1>1, ZenonT(60) DEF streamVars, StreamInv, StreamTypes, PeerSilent, Opening, Outgoing, Incoming,
                Acknowledged, AtTheEnd, WritesDelivered, EofIsTheEnd, Open, Written, Kept
  <1>2. ASSUME NEW p \in wire, PeerReceives(p)
        PROVE  StreamInv'
    BY <1>2, PeerTakes, Zenon
  <1>3. CASE PeerWrites \/ PeerResets
    BY <1>3, PeerSends, Zenon
  <1>4. ASSUME NEW p \in FromPeer, Arrives(p)
        PROVE  StreamInv'
    BY <1>4, ArrivesKeeps, Zenon
  <1>5. ASSUME NEW n \in Chunks, TaskReads(n)
        PROVE  StreamInv'
    BY <1>5, TaskReadsKeeps, Zenon
  <1>6. ASSUME NEW n \in Chunks, TaskWrites(n)
        PROVE  StreamInv'
    BY <1>6, TaskWritesKeeps, Zenon
  <1>7. CASE TaskCloses
    BY <1>7, TaskClosesKeeps, Zenon
  <1> QED  BY <1>1, <1>2, <1>3, <1>4, <1>5, <1>6, <1>7, ZenonT(60) DEF StreamNext

\* The invariant gives the property.
LEMMA InvariantKeeps ==
    ASSUME StreamInv
    PROVE  StreamIsKept
  <1>1. ASSUME Open
        PROVE  /\ taken \o conn.data = Bytes(0, Kept) /\ Len(taken \o conn.data) = Kept
               /\ Kept <= peer.sent
    <2>1. /\ Len(taken) \in Nat /\ Kept \in Nat /\ Len(taken) <= Kept /\ 0 \in Nat
          /\ 0 <= Len(taken) /\ 0 <= Kept /\ Kept - 0 = Kept
      BY <1>1 DEF StreamInv, StreamTypes, Open, NoConn, Connections, Kept
    <2>2. taken = Bytes(0, Len(taken)) /\ conn.data = Bytes(Len(taken), Kept) /\ Kept <= peer.sent
      BY <1>1, Zenon DEF StreamInv, Incoming
    <2>3. Bytes(0, Len(taken)) \o Bytes(Len(taken), Kept) = Bytes(0, Kept)
      BY <2>1, RunJoins, Zenon
    <2>4. Len(Bytes(0, Kept)) = Kept - 0
      BY <2>1, Runs, Zenon
    <2> QED  BY <2>1, <2>2, <2>3, <2>4, Zenon
  <1>2. StreamInOrder
    BY <1>1, Zenon DEF StreamInv, StreamInOrder
  <1>3. AcksWhatItKeeps
    BY <1>1, Zenon DEF StreamInv, Acknowledged, AcksWhatItKeeps
  <1> QED  BY <1>2, <1>3, Zenon DEF StreamIsKept

\* A reader is given the other end's bytes in order, without a gap and none twice, whatever
\* the network does with packets, and what is acknowledged has been kept, when the task
\* waits for one read at a time, neither a FIN nor the end of the handshake is overtaken,
\* no FIN comes again with data and no SYN has the number 0
\* (handle_packet, process_ack, read, write and close of TcpConnection).
THEOREM StreamArrives ==
    ASSUME StreamFlaws = {}
    PROVE  StreamSpec => []StreamIsKept
  <1>1. StreamInit => StreamInv
    BY StreamStarts
  <1>2. StreamInv /\ [StreamNext]_streamVars => StreamInv'
    BY StreamSteps, Zenon
  <1>3. StreamInv => StreamIsKept
    BY InvariantKeeps, Zenon
  <1> QED  BY <1>1, <1>2, <1>3, PTL DEF StreamSpec

=============================================================================
