SPECIFICATION NetSpec
CONSTANTS
    NetParts = {"stream", "sockets", "stack", "ethernet"}
    SeqSpace = 8
    MSS = 1
    NoOp = noop
    ISNs = {6}
    MaxIn = 2
    MaxOut = 2
    Chunks = {1, 2}
    StreamFlaws = {}
    LocalPorts = {1}
    EphemeralPorts = {2}
    Hosts = {h1, h2}
    HostISNs = {3}
    MaxSockets = 4
    MaxOps = 3
    MaxDatagrams = 1
    SocketCpus = 1
    SocketFlaws = {}
    Servers = {s1, s2}
    NearHosts = {near}
    FarNames = {n1, n2}
    Gateway = gw
    NetPackets = 2
    MaxWakers = 2
    StackCpus = 1
    NetFlaws = {}
    RxDescs = 3
    TxDescs = 3
    MaxFrames = 4
    EthFlaws = {}
SYMMETRY NetSymmetry
INVARIANTS
    StreamIsKept
    SocketsServe
    NothingLeftUndone FramesArrive
CHECK_DEADLOCK FALSE
