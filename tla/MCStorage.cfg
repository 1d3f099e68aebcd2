SPECIFICATION StorageSpec
CONSTANTS
    StorageParts = {"cache", "volume", "floppy", "ata", "audio", "clock", "paths", "lines", "shell",
                    "machine", "dosfiles", "dosconsole"}
    CacheSlots = 3
    Readahead = 2
    Buckets = 4
    LastLba = 3
    CacheFlaws = {}
    FatNames = {"a", "d"}
    DirNames = {"d"}
    RootEntries = 3
    ClusterCells = 2
    MaxCluster = 4
    FatSlots = 5
    MaxHolds = 2
    MaxRefs = 1
    MaxFiles = 2
    MaxSize = 4
    WriteSizes = {3}
    FatCareless = {}
    Drives = {0, 1}
    SectorCells = 2
    TrackSectors = 3
    PageSectors = 2
    Cylinders = 2
    FloppyOffsets = {1, 4, 10}
    FloppySizes = {1, 2, 7}
    FloppyFlaws = {}
    AtaDrives = {0, 1}
    AtaSectors = 6
    AtaCells = 2
    CountLimit = 4
    Segment = 4
    AtaOffsets = {0, 1, 4}
    AtaSizes = {1, 4, 5, 8}
    Buffers = {0, 3}
    AtaFlaws = {}
    MaxStreams = 2
    RingSamples = 4
    HalfSamples = 2
    WriteLengths = {3}
    MaxOpens = 3
    MaxSamples = 6
    AudioFlaws = {}
    DayRanges <- MCDayRanges
    Divider = 4
    MaxTicks2 = 3
    ClockFlaws = {}
    PathLength = 5
    PathFlaws = {}
    LineLength = 4
    CwdSize = 10
    OutSize = 6
    ShellFlaws = {}
    FileNames = {"A", "B", "D", "E", "S.BAT", "T.BAT", "P.ELF"}
    OnSecond = {"D"}
    StartDisks <- MCDisks
    TypedLines <- MCTyped
    BufUnits = 4
    MaxUnits = 6
    MaxTyped = 2
    MaxFaults = 1
    MaxOpened = 3
    MaxDepth = 2
    TimerPerTick = 2
    TimerThreshold = 11
    StackWords = 8
    FirstSp = {1}
    MaxNest = 2
    MachineFlaws = {}
    MaxDosFiles = 7
    UsedHandles = {0, 5, 6, 7}
    IdosHandles = {4, 5, 6}
    DosNames = {na, nb}
    DosBytes = {1, 2}
    MaxDosLen = 2
    DosFaults = TRUE
    FileFlaws = {}
    BiosKeys = {8, 9}
    OtherKeys = {81}
    MaxBuffer = 6
    MaxKeyEvents = 4
    DacValues = {0, 21, 63}
    MaxBuffers = 2
    ConsoleFlaws = {}
SYMMETRY DosSymmetry
INVARIANTS
    CacheIsTheDisk FilesIntact VolumePassesCheck
    FloppyKeepsBytes AtaServes HeardInOrder ClockIsRight PathsAreRight ShellIsRight
    MachineIsRight DosServes
CHECK_DEADLOCK FALSE
