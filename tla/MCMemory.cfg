SPECIFICATION MemorySpec
CONSTANTS
    MemoryParts = {"map", "paging", "heap", "libc", "slab", "stdio", "text", "strings",
                   "loader"}
    Width = 16
    PageSize = 2
    Upper = 8
    Sizes = {1, 3, 4, 6}
    Careless = {}
    MaxRegions = 3
    Users = {a, b}
    Driver = d
    PagingCpus = 1
    NFrames = 3
    FilePages = {0, 2}
    MaxMaps = 2
    MaxLends = 2
    MaxUses = 3
    HeapPage = 16
    AllocSizes = {2, 6, 20}
    Alignments = {1, 8}
    MaxHeap = 48
    LibcPage = 8
    MallocSizes = {1, 9}
    MapGaps = {0, 8}
    LibcPages = 3
    Slots <- MCSlots
    LargePages = {1, 2}
    MaxPages = 4
    MaxHeld = 3
    BufSize = 2
    MaxFiles = 5
    Files = {fa, fb}
    Chars = {1, 2}
    Newline = 2
    NoFile = NoFile
    MaxLen = 2
    StreamFlaws = {}
    LongBits = 8
    TextFlaws = {}
    DirBufSize = 4
    Listings <- MCListings
    DirFlaws = {}
    LoadPage = 32
    LoadTop = 256
    StackBytes = 64
    InfoData = 12
    FlatBase = 64
    MaxHeaders = 3
    LoaderFiles <- MCLoaderFiles
    Programs <- MCPrograms
    ArgLists <- MCArgLists
    PathLengths = {3, 16}
    MaxFailures = 2
    LoadFlaws = {}
SYMMETRY UserSymmetry
INVARIANTS
    MapIsRight FramesAreRight
    HeapTiled BlocksTile PagesPartitioned
    LibcIsRight
PROPERTIES StreamsAreFiles
CHECK_DEADLOCK FALSE
