SPECIFICATION IoSpec
CONSTANTS
    CpuCounts = {1, 3}
    None = none
    Parts = {"messages", "files", "pipe", "child", "irq", "keyboard", "windows", "terminal"}
    Senders = {s1, s2}
    Receiver = r
    Expiries = {1, 2}
    MaxTicks = 1
    MaxSends = 2
    MaxReads = 2
    FileTasks = {p, c}
    Mortal = {c}
    Discipline = {"idle", "share", "exit"}
    Cleaner = cleaner
    Slots = {1, 2}
    IoIndexes = {1, 2}
    Instances = {1}
    OpIds = {1, 2}
    BufferSize = 3
    Lengths = {1, 2, 3}
    MaxBytes = 5
    Early = {TRUE, FALSE}
    MaxChildReads = 2
    Lines = {1, 2}
    Drivers = {"kbd", "mouse", "log"}
    LineOf <- MCLineOf
    MaxSignals = 1
    KeyRing = 4
    InputRing = 10
    WordSize = 4
    KeyProfiles <- MCKeyProfiles
    MaxUnread = 2
    MaxWakes = 1
    ReadLengths = {1, 2}
    MaxRequests = 1
    InputFlaws = {}
    MaxTiled = 2
    MaxConsoles = 3
    MaxKeys = 2
    WindowFlaws = {}
    Cols = 2
    Rows = 2
    Scrollback = 2
    ByteWidth = 16
    MaxParams = 3
    TerminalFlaws = {}
SYMMETRY SenderSymmetry
INVARIANTS
    MailArrives
    HandlesMatch
    BytesInOrder ExitIsReported NobodyWaitsOnActive
    TypedIsRead WindowsAreRight ShowsThePage
CHECK_DEADLOCK FALSE
