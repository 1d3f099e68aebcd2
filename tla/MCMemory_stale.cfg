SPECIFICATION MemorySpec
CONSTANTS
    MemoryParts = {"paging"}
    Width = 16
    PageSize = 2
    Upper = 6
    Sizes = {2}
    Careless = {"pages"}
    MaxRegions = 1
    Users = {a, b}
    Driver = d
    PagingCpus = 1
    NFrames = 3
    FilePages = {0, 2}
    MaxMaps = 2
    MaxLends = 1
    MaxUses = 3
    HeapPage = 16
    AllocSizes = {2}
    Alignments = {1}
    MaxHeap = 16
    LibcPage = 8
    MallocSizes = {1}
    MapGaps = {0}
    LibcPages = 1
    Slots <- MCSlots
    LargePages = {1}
    MaxPages = 1
    MaxHeld = 1
    BufSize = 2
    MaxFiles = 5
    Files = {fa, fb}
    Chars = {1, 2}
    Newline = 2
    NoFile = NoFile
    MaxLen = 1
    StreamFlaws = {}
    LongBits = 8
    TextFlaws = {}
    DirBufSize = 4
    Listings <- MCListings
    DirFlaws = {}
    LoadPage = 32
    LoadTop = 256
    StackBytes = 64
    InfoData = 12
    FlatBase = 64
    MaxHeaders = 3
    LoaderFiles <- MCLoaderFiles
    Programs <- MCPrograms
    ArgLists <- MCArgLists
    PathLengths = {3, 16}
    MaxFailures = 2
    LoadFlaws = {}
SYMMETRY UserSymmetry
INVARIANTS MappedIsAllocated
CHECK_DEADLOCK FALSE
