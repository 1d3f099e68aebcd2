---------------------------- MODULE ProgramLoader ----------------------------
(***************************************************************************)
(* Starting a program: kernel/src/exec.rs maps a loader into a new task,   *)
(* with a stack and a page of information, and ELFLOAD                     *)
(* (components/programs/elfload) then maps the program's segments, clears  *)
(* what the file does not fill, and hands the arguments over.              *)
(*                                                                         *)
(* A file's bytes are numbered.  A place asked for and not free is given   *)
(* elsewhere by the memory map (MappedMemory), which neither the kernel    *)
(* nor ELFLOAD looks at.                                                   *)
(***************************************************************************)
EXTENDS Naturals, Sequences, FiniteSets, SequencesExt, TLC

CONSTANTS
    LoadPage,     \* bytes of a page
    LoadTop,      \* STACK_TOP, the end of user space
    StackBytes,   \* STACK_PAGES pages
    InfoData,     \* LOAD_INFO_DATA_START
    FlatBase,     \* FLAT_BINARY_LOAD_VADDR
    MaxHeaders,   \* MAX_PROGRAM_HEADERS
    LoaderFiles,  \* the program headers of "ELFLOAD" and "DOSLAYER"
    Programs,     \* files to run: [magic, com, size, headers]
    ArgLists,     \* arguments given to the task
    PathLengths,  \* lengths of the program's path
    MaxFailures,  \* bound on the starts that fail
    LoadFlaws     \* what the passing run leaves out: "retry": a task is used again after
                  \* exec failed half way; "overlap": a segment on pages already in use;
                  \* "many": more arguments than the stack page has room for; "bss": a
                  \* loader that its file does not fill

ASSUME LoaderAssumption ==
    /\ LoadPage \in Nat \ {0} /\ LoadTop % LoadPage = 0 /\ StackBytes % LoadPage = 0
    /\ InfoData >= 12 /\ FlatBase % LoadPage = 0

VARIABLES
    program,        \* the file to run
    arguments,      \* Task::args
    pathLength,
    execPc,         \* how far the start has come
    taskRun,        \* the new task's run state
    loaderCache,    \* LOADER_CACHE: loaders parsed before
    callerHandles,  \* file handles open in the task that called exec_program
    taskMap,        \* the new task's regions
    poked,          \* what was stored in its memory
    entryRegs,      \* EIP, ESP and EBX the task starts with
    headerNo,       \* program headers ELFLOAD has gone through
    failures        \* starts that failed

loadVars == <<program, arguments, pathLength, execPc, taskRun, loaderCache, callerHandles, taskMap,
              poked, entryRegs, headerNo, failures>>

Word == 2  \* bytes of a word; a byte holds 256 values

Placing == INSTANCE MappedMemory WITH
    Width <- 2 * LoadTop, PageSize <- LoadPage, Upper <- LoadTop, Sizes <- {}, Careless <- {},
    MaxRegions <- 0, regions <- taskMap, promised <- <<>>

PageDown(a) == a - (a % LoadPage)
PageUp(a) == PageDown(a + LoadPage - 1)
WordDown(n) == n - (n % Word)

LoaderByte(loader, k) == (IF loader = "ELFLOAD" THEN 1000 ELSE 2000) + k
FileByte(k) == 10 + k

\* map_memory: where the region went, and the map with it.
MappedAt(regs, at, size, backing) ==
    IF size = 0 \/ at = Placing!NoSpace THEN [ok |-> FALSE, at |-> 0, regs |-> regs]
    ELSE [ok |-> TRUE, at |-> at,
          regs |-> Placing!Insert(regs, [address |-> at, size |-> size, backing |-> backing])]
Mapping(regs, addr, size, backing) == MappedAt(regs, Placing!LocationFor(regs, addr, size), size, backing)

BackedBy(kind, offset) == [kind |-> kind, offset |-> offset]
ZeroPages == BackedBy("free", 0)

\* What the task reads at an address.
TaskSees(a) ==
    IF a \in DOMAIN poked THEN poked[a]
    ELSE LET rs == {r \in taskMap : Placing!HasAddress(r, a)}
             r == CHOOSE r \in rs : TRUE
             k == r.backing.offset + a - r.address
         IN  IF rs = {} THEN 9999
             ELSE CASE r.backing.kind \in DOMAIN LoaderFiles -> LoaderByte(r.backing.kind, k)
                    [] r.backing.kind = "program" -> FileByte(k)
                    [] OTHER -> 0

WordAt(a) == TaskSees(a) + 256 * TaskSees(a + 1)
StoredWord(a, v) == (a :> v % 256) @@ (a + 1 :> v \div 256)
StoredBytes(a, bytes) == [b \in a..(a + Len(bytes) - 1) |-> bytes[b - a + 1]]
Cleared(cells) == [a \in cells |-> 0]

\* ExecArgs::add
RawArgs == FlattenSeq([i \in 1..Len(arguments) |-> Append(arguments[i], 0)])

LoadInit ==
    /\ program \in Programs /\ arguments \in ArgLists /\ pathLength \in PathLengths
    /\ execPc = "exec"
    /\ taskRun \in {"uninitialized", "running"}
    /\ loaderCache \in {{}, DOMAIN LoaderFiles}
    /\ callerHandles = 0
    /\ taskMap = {} /\ poked = <<>>
    /\ entryRegs = [eip |-> 0, esp |-> 0, ebx |-> 0]
    /\ headerNo = 0 /\ failures = 0

loadInputs == <<program, arguments, pathLength>>

Fail == /\ execPc' = "failed" /\ failures' = failures + 1
        /\ UNCHANGED <<loadInputs, taskRun, entryRegs, headerNo>>
Proceed(from, to) == execPc = from /\ execPc' = to /\ UNCHANGED <<loadInputs, headerNo, failures>>

-----------------------------------------------------------------------------
(* exec_program *)

\* The task is new and the file can be opened.
ExecOpen ==
    /\ program.magic # "flat"
    /\ taskRun = "uninitialized"
    /\ Proceed("exec", "magic")
    /\ callerHandles' = callerHandles + 1
    /\ UNCHANGED <<taskRun, loaderCache, taskMap, poked, entryRegs>>

\* A task that has a program already is left alone.
ExecRefused ==
    /\ execPc = "exec" /\ taskRun # "uninitialized" /\ Fail
    /\ UNCHANGED <<loaderCache, callerHandles, taskMap, poked>>

\* The file, or the loader's, cannot be opened or read: the handle stays.
ExecUnreadable ==
    /\ \/ execPc = "exec" /\ program.magic # "flat" /\ taskRun = "uninitialized"
          /\ callerHandles' = callerHandles + 1
       \/ execPc = "magic" /\ UNCHANGED callerHandles
       \/ execPc \in {"ELFLOAD", "DOSLAYER"} /\ execPc \notin loaderCache
          /\ callerHandles' \in {callerHandles, callerHandles + 1}
    /\ Fail
    /\ UNCHANGED <<loaderCache, taskMap, poked>>

LoaderFor == IF program.magic = "elf" THEN "ELFLOAD"
             ELSE IF program.magic = "mz" \/ program.com THEN "DOSLAYER" ELSE "none"

\* The format picks the loader.
ExecMagic ==
    /\ IF LoaderFor = "none" THEN execPc = "magic" /\ Fail
       ELSE Proceed("magic", LoaderFor) /\ UNCHANGED <<taskRun, entryRegs>>
    /\ callerHandles' = callerHandles - 1
    /\ UNCHANGED <<loaderCache, taskMap, poked>>

\* The slip of not letting a segment that is merged reach further.
AddSegment_Short(segs, ph) ==
    LET at == PageDown(ph.vaddr)
        seg == [vaddr |-> at, offset |-> PageDown(ph.offset), size |-> PageUp(ph.vaddr + ph.memsz) - at]
    IN  IF segs # <<>> /\ at < Last(segs).vaddr + Last(segs).size THEN segs
        ELSE Append(segs, seg)

\* parse_and_cache_loader for one PT_LOAD header: a segment on a page of the one before
\* is merged with it.
AddSegment(segs, ph) ==
    LET at == PageDown(ph.vaddr)
        seg == [vaddr |-> at, offset |-> PageDown(ph.offset), size |-> PageUp(ph.vaddr + ph.memsz) - at]
        prev == Last(segs)
    IN  IF segs # <<>> /\ at < prev.vaddr + prev.size
        THEN [segs EXCEPT ![Len(segs)].size =
                 Placing!Larger(@, at + seg.size - prev.vaddr)]
        ELSE Append(segs, seg)

LoadHeaders(headers) == SelectSeq(headers, LAMBDA ph : ph.load)
ParseAndCacheLoader(headers) == FoldLeft(AddSegment, <<>>, LoadHeaders(headers))

\* map_cached_loader
MapCachedLoader(loader) ==
    FoldLeft(LAMBDA m, seg : IF m.ok THEN Mapping(m.regs, seg.vaddr, seg.size, BackedBy(loader, seg.offset)) ELSE m,
             [ok |-> TRUE, at |-> 0, regs |-> taskMap], ParseAndCacheLoader(LoaderFiles[loader]))

\* map_loader_for_task
MapLoaderForTask ==
    \E loader \in DOMAIN LoaderFiles \cap {execPc} : \E m \in {MapCachedLoader(loader)} :
        /\ loaderCache' = loaderCache \cup (IF m.ok THEN {loader} ELSE {})
        /\ taskMap' = m.regs
        /\ IF m.ok THEN Proceed(loader, "stack") /\ UNCHANGED <<taskRun, entryRegs>> ELSE Fail
        /\ UNCHANGED <<callerHandles, poked>>

Stacked(regs) == Mapping(regs, LoadTop - StackBytes, StackBytes, ZeroPages)

SetupStack ==
  \E m \in {Stacked(taskMap)} :
    /\ execPc = "stack"
    /\ taskMap' = m.regs
    /\ IF m.ok THEN Proceed("stack", "info") /\ UNCHANGED <<taskRun, entryRegs>> ELSE Fail
    /\ UNCHANGED <<loaderCache, callerHandles, poked>>

PathByte(i) == 200 + (i % 50)

\* Where path and arguments go in the page of information.
PathEnd == InfoData + pathLength
ArgvOffset == WordDown(PathEnd + 1 + Word - 1)
InfoFits == PathEnd < LoadPage /\ ArgvOffset + Len(RawArgs) < LoadPage

\* The page of information at an address: the header, the path and the arguments.
InfoPage(at) ==
    StoredWord(at, 77) @@ StoredWord(at + Word, InfoData)
    @@ StoredWord(at + 2 * Word, pathLength) @@ StoredWord(at + 3 * Word, Len(arguments))
    @@ StoredWord(at + 4 * Word, ArgvOffset) @@ StoredWord(at + 5 * Word, Len(RawArgs))
    @@ StoredBytes(at + InfoData, [i \in 1..pathLength |-> PathByte(i)])
    @@ StoredBytes(at + ArgvOffset, RawArgs)

\* setup_load_info_page, then the registers.  The loader starts at EIP with the page in
\* EBX.  Without a frame, or without room, the mapping stays and exec fails; what the page
\* then holds nobody reads.
SetupLoadInfoPage ==
    \E m \in {Mapping(taskMap, Placing!NoSpace, LoadPage, ZeroPages)} :
        /\ execPc = "info"
        /\ taskMap' = m.regs
        /\ \/ /\ m.ok /\ InfoFits
              /\ poked' = InfoPage(m.at)
              /\ entryRegs' = [eip |-> "loader", esp |-> LoadTop, ebx |-> m.at]
              /\ taskRun' = "running"
              /\ Proceed("info", IF LoaderFor = "ELFLOAD" THEN "start" ELSE "dos")
           \/ UNCHANGED poked /\ Fail
        /\ UNCHANGED <<loaderCache, callerHandles>>

\* exec_flat_binary: the drivers the boot loader left in memory.
ExecFlatBinary ==
    \E whole \in {Mapping(taskMap, FlatBase, PageUp(program.size + LoadPage), ZeroPages)} :
    \E stack \in {Stacked(whole.regs)} :
        /\ execPc = "exec" /\ program.magic = "flat" /\ taskRun = "uninitialized"
        /\ taskMap' = IF whole.ok THEN stack.regs ELSE whole.regs
        /\ \/ /\ whole.ok /\ stack.ok
              /\ poked' = [a \in FlatBase..(FlatBase + PageUp(program.size) - 1) |->
                             IF a - FlatBase < program.size THEN FileByte(a - FlatBase) ELSE 0]
              /\ entryRegs' = [eip |-> FlatBase, esp |-> LoadTop - Word, ebx |-> 0]
              /\ taskRun' = "running"
              /\ Proceed("exec", "running")
           \/ UNCHANGED poked /\ Fail
        /\ UNCHANGED <<loaderCache, callerHandles>>

\* Another program for a task whose first one could not be started.
Retry ==
    /\ execPc = "failed" /\ taskRun = "uninitialized" /\ failures < MaxFailures
    /\ taskMap # {} => "retry" \in LoadFlaws
    /\ program' \in Programs
    /\ execPc' = "exec"
    /\ UNCHANGED <<arguments, pathLength, taskRun, loaderCache, callerHandles, taskMap, poked, entryRegs, headerNo, failures>>

-----------------------------------------------------------------------------
(* ELFLOAD *)

kernelSide == <<loadInputs, taskRun, loaderCache, callerHandles, failures>>

Terminate ==
    /\ execPc' = "ended"
    /\ UNCHANGED <<kernelSide, taskMap, poked, entryRegs, headerNo>>

\* The path is in the page EBX names.
PathRead == LET at == entryRegs.ebx
            IN  [i \in 1..WordAt(at + 2 * Word) |-> TaskSees(at + WordAt(at + Word) + i - 1)]

\* loader_start: the file is opened by the path in the page, and its header read.
LoaderStart ==
    /\ execPc = "start"
    /\ \/ /\ WordAt(entryRegs.ebx) = 77
          /\ PathRead = [i \in 1..pathLength |-> PathByte(i)]
          /\ Len(program.headers) <= MaxHeaders
          /\ execPc' = "map"
          /\ UNCHANGED <<kernelSide, taskMap, poked, entryRegs, headerNo>>
       \/ Terminate

FileEnd(ph) == PageUp(ph.vaddr + ph.filesz)
SegmentEnd(ph) == PageUp(ph.vaddr + ph.memsz)
HasBssPages(ph) == ph.memsz > ph.filesz /\ SegmentEnd(ph) > FileEnd(ph)

MapFilePages(ph) ==
    Mapping(taskMap, PageDown(ph.vaddr), FileEnd(ph) - PageDown(ph.vaddr), BackedBy("program", PageDown(ph.offset)))
MapBssPages(ph, mapped) ==
    IF HasBssPages(ph) THEN Mapping(mapped.regs, FileEnd(ph), SegmentEnd(ph) - FileEnd(ph), ZeroPages) ELSE mapped

\* What is cleared: the rest of the last page of the file, and the pages after it.
BssCells(ph, rest) ==
    (IF ph.memsz > ph.filesz THEN (ph.vaddr + ph.filesz)..FileEnd(ph) - 1 ELSE {})
    \cup (IF HasBssPages(ph) /\ rest.ok THEN rest.at..(rest.at + SegmentEnd(ph) - FileEnd(ph) - 1) ELSE {})

\* map_load_segment: the pages the file reaches into show it; the rest of the last one is
\* cleared, and further pages are mapped and cleared.
MapLoadSegment(ph) ==
    \E mapped \in {MapFilePages(ph)} : \E rest \in {MapBssPages(ph, mapped)} :
        IF FileEnd(ph) > PageDown(ph.vaddr) /\ ~mapped.ok THEN Terminate
        ELSE /\ taskMap' = rest.regs
             /\ poked' = Cleared(BssCells(ph, rest)) @@ poked
             /\ headerNo' = headerNo + 1
             /\ UNCHANGED <<kernelSide, execPc, entryRegs>>

LoaderMaps ==
    /\ execPc = "map" /\ headerNo < Len(program.headers)
    /\ LET ph == program.headers[headerNo + 1] IN
       \/ ph.load /\ MapLoadSegment(ph)
       \/ ~ph.load /\ headerNo' = headerNo + 1 /\ UNCHANGED <<kernelSide, execPc, taskMap, poked, entryRegs>>
       \/ Terminate

\* The slip of stepping over an argument without its terminator.
ArgPlaces_NoTerminator(raw, count) ==
    LET place[i \in 0..count] ==
          IF i = 0 THEN 0
          ELSE LET from == place[i - 1]
                   ends == {j \in from..Len(raw) : j = Len(raw) \/ raw[j + 1] = 0}
               IN  CHOOSE j \in ends : \A k \in ends : j <= k
    IN  [i \in 1..count |-> place[i - 1]]

\* Where each argument starts among the raw bytes.
ArgPlaces(raw, count) ==
    LET place[i \in 0..count] ==
          IF i = 0 THEN 0
          ELSE LET from == place[i - 1]
                   ends == {j \in from..Len(raw) : j = Len(raw) \/ raw[j + 1] = 0}
               IN  1 + CHOOSE j \in ends : \A k \in ends : j <= k
    IN  [i \in 1..count |-> place[i - 1]]

\* The array of pointers to the arguments, with its terminator, up to the strings at top.
Pointers(top, argc, places) ==
    LET array == top - (argc + 1) * Word
    IN  [a \in array..top - 1 |->
            LET i == 1 + (a - array) \div Word
                v == IF i > argc THEN 0 ELSE top + places[i]
            IN  IF (a - array) % Word = 0 THEN v % 256 ELSE v \div 256]

\* do_write_argv_and_jump, from what the page of information holds.
WriteArgvAndJump ==
    /\ execPc = "map" /\ headerNo = Len(program.headers)
    /\ \E info \in {entryRegs.ebx} :
       \E argc \in {WordAt(info + 3 * Word)}, total \in {WordAt(info + 5 * Word)},
          argv \in {info + WordAt(info + 4 * Word)} :
       \E raw \in {[i \in 1..total |-> TaskSees(argv + i - 1)]},
          strings \in {IF total > 0 THEN WordDown(LoadPage - total) ELSE LoadPage - Word} :
       \E top \in {LoadTop - LoadPage + strings} :
          IF strings < (argc + 2) * Word
          THEN /\ "many" \in LoadFlaws
               /\ execPc' = "wild" /\ UNCHANGED <<poked, entryRegs>>
          ELSE /\ poked' = StoredWord(top - (argc + 2) * Word, argc) @@ Pointers(top, argc, ArgPlaces(raw, argc))
                           @@ StoredBytes(top, raw) @@ poked
               /\ entryRegs' = [entryRegs EXCEPT !.eip = "program", !.esp = top - (argc + 2) * Word]
               /\ execPc' = "running"
    /\ UNCHANGED <<kernelSide, taskMap, headerNo>>

LoadNext ==
    \/ ExecOpen \/ ExecRefused \/ ExecUnreadable \/ ExecMagic \/ MapLoaderForTask \/ SetupStack
    \/ SetupLoadInfoPage \/ ExecFlatBinary \/ Retry
    \/ LoaderStart \/ LoaderMaps \/ WriteArgvAndJump

LoadSpec == LoadInit /\ [][LoadNext]_loadVars

-----------------------------------------------------------------------------
(* What programs look like *)

PagesOn(ph) == {PageDown(a) : a \in ph.vaddr..(ph.vaddr + Placing!Larger(ph.memsz, 1) - 1)}

\* A file that a linker makes and that keeps clear of what is mapped already.
Fitting(file) ==
    LET segs == ToSet(LoadHeaders(file.headers)) IN
    /\ \A ph \in segs : ph.vaddr % LoadPage = ph.offset % LoadPage /\ ph.filesz <= ph.memsz
    /\ \A ph \in segs : ph.write \/ ph.filesz = ph.memsz
    /\ "overlap" \notin LoadFlaws =>
          /\ \A ph \in segs : ph.vaddr + ph.memsz <= LoadTop - StackBytes - LoadPage
          /\ \A ph \in segs : \A loader \in ToSet(LoaderFiles["ELFLOAD"]) : PagesOn(ph) \cap PagesOn(loader) = {}
          /\ \A ph, other \in segs : ph # other => PagesOn(ph) \cap PagesOn(other) = {}

-----------------------------------------------------------------------------

\* A segment is in memory as its header says, zeros where the file ends.
SegmentShown(ph, Byte(_)) ==
    \A k \in 0..ph.memsz - 1 : TaskSees(ph.vaddr + k) = IF k < ph.filesz THEN Byte(ph.offset + k) ELSE 0

ArgumentAt(a) ==
    LET ends == {n \in 0..LoadPage : TaskSees(a + n) = 0}
        n == CHOOSE n \in ends : \A m \in ends : n <= m
    IN  [i \in 1..n |-> TaskSees(a + i - 1)]

\* argc, argv and its terminator are where the program's start looks for them.
ArgumentsHandedOver ==
    /\ WordAt(entryRegs.esp) = Len(arguments)
    /\ \A i \in 1..Len(arguments) : ArgumentAt(WordAt(entryRegs.esp + i * Word)) = arguments[i]
    /\ WordAt(entryRegs.esp + (Len(arguments) + 1) * Word) = 0

\* A program that runs has every segment in place, and the arguments it was given; the
\* loader that got it there was whole while it ran, whatever it mapped meanwhile; and
\* exec_program leaves its caller no handle, but one for each start that failed.
ProgramIsLoaded ==
    /\ execPc \in {"start", "map", "dos"} =>
          \A ph \in ToSet(LoadHeaders(LoaderFiles[LoaderFor])) : SegmentShown(ph, LAMBDA k : LoaderByte(LoaderFor, k))
    /\ execPc = "running" /\ program.magic = "elf" =>
          /\ \A ph \in ToSet(LoadHeaders(program.headers)) : SegmentShown(ph, FileByte)
          /\ ArgumentsHandedOver
    /\ execPc = "running" /\ program.magic = "flat" =>
          /\ SegmentShown([vaddr |-> FlatBase, offset |-> 0, filesz |-> program.size,
                           memsz |-> program.size + LoadPage], FileByte)
          /\ WordAt(entryRegs.esp) = 0
    /\ execPc # "wild"
    /\ callerHandles <= failures + (IF execPc = "magic" THEN 1 ELSE 0)

=============================================================================
