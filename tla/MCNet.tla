--------------------------------- MODULE MCNet ---------------------------------
(***************************************************************************)
(* The network: a TCP connection, the socket tables, the stack's resident  *)
(* task and the Ethernet driver.  They meet in queues each of them models  *)
(* on its own side; a behaviour is one of the component named by part.     *)
(***************************************************************************)
EXTENDS TcpStream, Sockets, NetStack, E1000

CONSTANT NetParts  \* the components in question

VARIABLE part

netSuiteVars == <<part, streamVars, socketVars, netVars, ethVars>>

NetInit ==
    /\ part \in NetParts
    /\ StreamInit /\ SocketsInit /\ NetStackInit /\ E1000Init
    /\ part = "stream" \/ conn.state = "SynSent"  \* one start for the parts that do not look at it

StreamPart == part = "stream" /\ StreamNext /\ UNCHANGED <<part, socketVars, netVars, ethVars>>
SocketsPart == part = "sockets" /\ SocketsNext /\ UNCHANGED <<part, streamVars, netVars, ethVars>>
StackPart == part = "stack" /\ NetStackNext /\ UNCHANGED <<part, streamVars, socketVars, ethVars>>
EthPart == part = "ethernet" /\ E1000Next /\ UNCHANGED <<part, streamVars, socketVars, netVars>>

NetNext == StreamPart \/ SocketsPart \/ StackPart \/ EthPart

NetSpec == NetInit /\ [][NetNext]_netSuiteVars

NetSymmetry == Permutations(Hosts) \cup Permutations(FarNames)
=============================================================================
