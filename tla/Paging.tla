-------------------------------- MODULE Paging --------------------------------
(***************************************************************************)
(* Physical frames and page tables: frames are found in a bitmap and       *)
(* counted in a tracker (memory/physical), pages are filled on demand from *)
(* a task's map (task/paging.rs), shared file pages are found again in a   *)
(* global table (task/memory.rs), and a buffer is lent to a driver by      *)
(* mapping its frames there (memory/shared.rs).                            *)
(*                                                                         *)
(* A task inside the kernel keeps its CPU until it yields, and paging in a *)
(* file yields.  On one CPU a kernel path runs alone from one such point   *)
(* to the next; on more, other tasks come in wherever two of its steps     *)
(* share no lock.                                                          *)
(***************************************************************************)
EXTENDS MappedMemory

CONSTANTS
    Users,     \* the tasks with memory of their own
    Driver,    \* the task buffers are lent to
    PagingCpus, \* processors of the machine
    NFrames,   \* frames of physical memory
    FilePages, \* the offsets of the file's pages
    MaxMaps,   \* regions mapped in all, at most
    MaxLends,  \* buffers lent in all, at most
    MaxUses    \* bound on both together

VARIABLES
    memory_mapping,  \* task -> its regions
    page_table,      \* task -> page -> [frame, present, write]
    bitmap,          \* the frames in use
    refs,            \* FRAME_REF_TRACKER: frame -> count, 0 for not tracked
    file_pages,      \* FILE_BACKED_PAGE_TRACKER: file offset -> frame, 0 for none
    contents,        \* frame -> what the kernel or the file's driver put in it
    fault,           \* task -> the page it waits for, an empty set or one record
    lending,         \* task -> the lending it is in the middle of, likewise
    inside,          \* task -> the rest of its kernel path, likewise
    down,            \* the kernel panicked
    buffers,         \* the buffers the driver was told of
    used             \* how many regions were mapped and buffers lent

pagingVars == <<memory_mapping, page_table, bitmap, refs, file_pages, contents, fault, lending, inside, down,
                buffers, used>>

Frames == 1 .. NFrames
Pages == PagesOf(0, Upper)
PagingTasks == Users \union {Driver}

\* What a frame holds: what it held at boot, zeroes, or a page of the file.
Filled(with, at) == [with |-> with, at |-> at]

EmptyTable == [a \in Pages |-> [frame |-> 0, present |-> FALSE, write |-> FALSE]]

PagingInit ==
    /\ memory_mapping = [t \in PagingTasks |-> {}]
    /\ page_table = [t \in PagingTasks |-> EmptyTable]
    /\ bitmap = {} /\ refs = [f \in Frames |-> 0]
    /\ file_pages = [k \in FilePages |-> 0]
    /\ contents = [f \in Frames |-> Filled("boot", 0)]
    /\ fault = [t \in PagingTasks |-> {}]
    /\ lending = [t \in PagingTasks |-> {}]
    /\ inside = [t \in PagingTasks |-> {}] /\ down = FALSE
    /\ buffers = {}
    /\ used = [maps |-> 0, lends |-> 0]

-----------------------------------------------------------------------------
(* Frames. *)

\* find_free_range: the lowest run of n free frames.
Runs(n) == {f \in Frames : f + n - 1 <= NFrames /\ (f .. f + n - 1) \intersect bitmap = {}}

FirstRun(n) == CHOOSE f \in Runs(n) : \A g \in Runs(n) : f <= g

AddReferenceIfExists_Never(counts, f) == counts

AddReferenceIfExists(counts, f) == IF counts[f] = 0 THEN counts ELSE [counts EXCEPT ![f] = @ + 1]

\* What is left when a set of page table entries is dropped: every tracked
\* frame loses a reference for each of them.
Dropped(entries, f) == Cardinality({e \in entries : e.frame = f})

ReleasedRefs(entries) ==
    [f \in Frames |-> Minus(refs[f], Dropped(entries, f))]

Freed(entries) == {f \in Frames : refs[f] > 0 /\ Dropped(entries, f) >= refs[f]}

-----------------------------------------------------------------------------
(* Page tables.  Mapping a page sets flags of its entry and clears none;     *)
(* unmapping it clears only the present flag (and leaves a dead address).    *)

MapEntry(table, a, f, write) ==
    [table EXCEPT ![a] = [frame |-> f, present |-> TRUE, write |-> @.write \/ write]]

WriteAccess(r) == ~(r.backing.kind = "file" /\ r.backing.shared)

RegionAt(t, a) == {r \in memory_mapping[t] : HasAddress(r, a)}

Blocked(t) == fault[t] # {}

\* A CPU is left for a task outside the kernel.
CpuLeft == Cardinality({t \in PagingTasks : inside[t] # {}}) < PagingCpus

MayRun(t) == CpuLeft /\ inside[t] = {} /\ ~Blocked(t)

FileOffset(r, a) == r.backing.offset + (a - r.address)

-----------------------------------------------------------------------------
(* map_memory and map_file: the page table is not touched.                   *)

Backing(kind, offset, shared) == [kind |-> kind, offset |-> offset, shared |-> shared]

\* What is asked for: a page of memory, two pages for a device, a file of its
\* own in two pages, shared file pages.
Requests ==
    {<<Backing("free", 0, FALSE), PageSize>>,
     <<Backing("dma", 0, FALSE), 2 * PageSize>>,
     <<Backing("file", 0, FALSE), 2 * PageSize>>}
        \union {<<Backing("file", k, TRUE), size>> : k \in FilePages, size \in {PageSize, 2 * PageSize}}

\* A careful task maps a shared file one page at a time, at pages that were
\* never writable.
MapRegion(t, backing, size) ==
    LET at == LocationFor(memory_mapping[t], NoSpace, size)
        r == [address |-> at, size |-> size, backing |-> backing]
    IN  /\ MayRun(t) /\ lending[t] = {}
        /\ used.maps < MaxMaps /\ used.maps + used.lends < MaxUses
        /\ used' = [used EXCEPT !.maps = @ + 1]
        /\ HasRoom(memory_mapping[t], size)
        /\ backing.kind = "file" => backing.offset + size - PageSize \in FilePages
        /\ backing.shared => /\ "pages" \in Careless \/ size = PageSize
                             /\ \/ "reuse" \in Careless
                                \/ \A a \in RegionPages(r) : ~page_table[t][a].write
        /\ memory_mapping' = [memory_mapping EXCEPT ![t] = Insert(@, r)]
        /\ UNCHANGED <<page_table, bitmap, refs, file_pages, contents, fault, lending, inside, down, buffers>>

-----------------------------------------------------------------------------
(* page_on_demand. *)

PageFree(t, a, r) ==
    LET f == FirstRun(1)
    IN  /\ r.backing.kind = "free" /\ Runs(1) # {}
        /\ bitmap' = bitmap \union {f}
        /\ refs' = [refs EXCEPT ![f] = @ + 1]
        /\ contents' = [contents EXCEPT ![f] = Filled("zero", 0)]
        /\ page_table' = [page_table EXCEPT ![t] = MapEntry(@, a, f, TRUE)]
        /\ UNCHANGED <<file_pages, fault, inside>>

\* The whole region at once, from one run of frames that are not tracked.
PageDma(t, a, r) ==
    LET pages == RegionPages(r)
        n == Cardinality(pages)
        FrameOf(b) == FirstRun(n) + (b - r.address) \div PageSize
    IN  /\ r.backing.kind = "dma" /\ Runs(n) # {}
        /\ bitmap' = bitmap \union {FrameOf(b) : b \in pages}
        /\ page_table' = [page_table EXCEPT ![t] =
              [b \in Pages |-> IF b \in pages THEN MapEntry(@, b, FrameOf(b), TRUE)[b] ELSE @[b]]]
        /\ UNCHANGED <<refs, contents, file_pages, fault, inside>>

\* The page is in the table already.
PageShared(t, a, r) ==
    LET f == file_pages[FileOffset(r, a)]
    IN  /\ r.backing.kind = "file" /\ r.backing.shared /\ f # 0
        /\ inside' = [inside EXCEPT ![t] = {[step |-> "map", page |-> a, frame |-> f, region |-> r]}]
        /\ UNCHANGED <<page_table, bitmap, refs, contents, file_pages, fault>>

\* A frame is taken and the driver asked to fill it; the task blocks.
PageFile(t, a, r) ==
    LET f == FirstRun(1)
    IN  /\ r.backing.kind = "file" /\ Runs(1) # {}
        /\ ~(r.backing.shared /\ file_pages[FileOffset(r, a)] # 0)
        /\ bitmap' = bitmap \union {f}
        /\ refs' = [refs EXCEPT ![f] = @ + 1]
        /\ fault' = [fault EXCEPT ![t] = {[page |-> a, frame |-> f, region |-> r]}]
        /\ UNCHANGED <<page_table, contents, file_pages, inside>>

PageOnDemand(t, a) ==
    /\ MayRun(t) /\ ~page_table[t][a].present
    /\ \A l \in lending[t] : l.page = a
    /\ \E r \in RegionAt(t, a) :
          \/ PageFree(t, a, r)
          \/ PageDma(t, a, r)
          \/ PageShared(t, a, r)
          \/ PageFile(t, a, r)
    /\ UNCHANGED <<memory_mapping, lending, down, buffers, used>>

\* The rest of PageShared, after the table's lock is gone.
MapShared(t) == \E w \in {w \in inside[t] : w.step = "map"} :
    /\ refs' = AddReferenceIfExists(refs, w.frame)
    /\ page_table' = [page_table EXCEPT ![t] = MapEntry(@, w.page, w.frame, WriteAccess(w.region))]
    /\ inside' = [inside EXCEPT ![t] = {}]
    /\ UNCHANGED <<memory_mapping, bitmap, file_pages, contents, fault, lending, down, buffers, used>>

\* There is no frame left for the page: the kernel panics.
OutOfFrames(t, a) ==
    /\ MayRun(t) /\ ~page_table[t][a].present
    /\ \A l \in lending[t] : l.page = a
    /\ \E r \in RegionAt(t, a) :
          /\ Runs(IF r.backing.kind = "dma" THEN Cardinality(RegionPages(r)) ELSE 1) = {}
          /\ ~(r.backing.shared /\ file_pages[FileOffset(r, a)] # 0)
    /\ down' = TRUE
    /\ UNCHANGED <<memory_mapping, page_table, bitmap, refs, file_pages, contents, fault, lending,
                   inside, buffers, used>>

\* The driver's answer.
PagedIn(t) == \E w \in fault[t] :
    LET k == FileOffset(w.region, w.page)
    IN  /\ CpuLeft
        /\ contents' = [contents EXCEPT ![w.frame] = Filled("file", k)]
        /\ file_pages' = IF w.region.backing.shared THEN [file_pages EXCEPT ![k] = w.frame] ELSE file_pages
        /\ page_table' = [page_table EXCEPT ![t] = MapEntry(@, w.page, w.frame, WriteAccess(w.region))]
        /\ fault' = [fault EXCEPT ![t] = {}]
        /\ UNCHANGED <<memory_mapping, bitmap, refs, lending, inside, down, buffers, used>>

\* It failed: the frame is released and the task's access fails; share_buffer takes the
\* page for granted and panics.
PageInFailed(t) == \E w \in fault[t] :
    /\ CpuLeft
    /\ bitmap' = bitmap \ Freed({w})
    /\ refs' = ReleasedRefs({w})
    /\ fault' = [fault EXCEPT ![t] = {}]
    /\ down' = (lending[t] # {})
    /\ UNCHANGED <<memory_mapping, page_table, file_pages, contents, lending, inside, buffers, used>>

-----------------------------------------------------------------------------
(* unmap_memory: the entries of the parts that go are dropped.  A frame that *)
(* is freed by it is forgotten as a file page, at the offset of the part.    *)

Entries(t, parts) ==
    UNION {{[page |-> a, frame |-> page_table[t][a].frame, part |-> p] :
              a \in {a \in RegionPages(p) : page_table[t][a].present}} : p \in parts}

Untracked(entries) ==
    {e.part.backing.offset : e \in {e \in entries :
        /\ e.frame \in Freed(entries)
        /\ e.part.backing.kind = "file" /\ e.part.backing.shared}}

Release(t, parts) ==
    LET entries == Entries(t, parts)
        gone == Untracked(entries)
    IN  /\ bitmap' = bitmap \ Freed(entries)
        /\ refs' = ReleasedRefs(entries)
        /\ inside' = [inside EXCEPT ![t] = IF gone = {} THEN {} ELSE {[step |-> "untrack", offsets |-> gone]}]
        /\ UNCHANGED file_pages

\* The rest of Release, after the frames are free.
Untrack(t) == \E w \in {w \in inside[t] : w.step = "untrack"} :
    /\ file_pages' = [k \in FilePages |-> IF k \in w.offsets THEN 0 ELSE file_pages[k]]
    /\ inside' = [inside EXCEPT ![t] = {}]
    /\ UNCHANGED <<memory_mapping, page_table, bitmap, refs, contents, fault, lending, down, buffers, used>>

ClearPresent(table, parts) ==
    [a \in Pages |-> IF \E p \in parts : a \in RegionPages(p)
                     THEN [table[a] EXCEPT !.present = FALSE, !.frame = 0] ELSE table[a]]

UnmapRange(t, addr, length) ==
    LET parts == UnmappedParts(memory_mapping[t], addr, length)
    IN  /\ Release(t, parts)
        /\ page_table' = [page_table EXCEPT ![t] = ClearPresent(@, parts)]
        /\ memory_mapping' = [memory_mapping EXCEPT ![t] = RegionsLeft(@, addr, length)]

\* A careful task unmaps no file page that a driver still has.
NotLent(t, parts) ==
    \/ "outlive" \in Careless
    \/ \A e \in Entries(t, parts) : e.part.backing.shared => \A b \in buffers : b.frame # e.frame

\* Neither does it cut anything off the start of a region.
UnmapUser(t, addr, length) ==
    /\ MayRun(t) /\ lending[t] = {} /\ addr + length <= Upper
    /\ \A r \in Touched(memory_mapping[t], addr, addr + length) : EndOf(r) <= addr + length
    /\ Touched(memory_mapping[t], addr, addr + length) # {}
    /\ NotLent(t, UnmappedParts(memory_mapping[t], addr, length))
    /\ UnmapRange(t, addr, length)
    /\ UNCHANGED <<contents, fault, lending, down, buffers, used>>

\* unmap_task_memory, region by region; the page directory goes with the task
\* and the next task has one of its own.
ExitUser(t) ==
    /\ MayRun(t) /\ lending[t] = {} /\ memory_mapping[t] # {}
    /\ NotLent(t, memory_mapping[t])
    /\ Release(t, memory_mapping[t])
    /\ page_table' = [page_table EXCEPT ![t] = EmptyTable]
    /\ memory_mapping' = [memory_mapping EXCEPT ![t] = {}]
    /\ UNCHANGED <<contents, fault, lending, down, buffers, used>>

-----------------------------------------------------------------------------
(* share_buffer: a place is found in the driver's map, the page is brought   *)
(* in, and then it is mapped at that place, or as near as it can be; the     *)
(* driver is told of the place that was found.                               *)

\* A careful task lends nothing to a driver while another is about to.
DriverIsFree(t) == "overlap" \in Careless \/ \A u \in Users \ {t} : lending[u] = {}

LendCounts ==
    /\ used.lends < MaxLends /\ used.maps + used.lends < MaxUses
    /\ used' = [used EXCEPT !.lends = @ + 1]

LendAt(t, a, told) ==
    LET f == page_table[t][a].frame
        at == LocationFor(memory_mapping[Driver], told, PageSize)
        r == [address |-> at, size |-> PageSize,
              backing |-> [kind |-> "direct", offset |-> f, shared |-> FALSE]]
    IN  /\ at # NoSpace
        /\ memory_mapping' = [memory_mapping EXCEPT ![Driver] = Insert(@, r)]
        /\ page_table' = [page_table EXCEPT ![Driver] = MapEntry(@, at, f, TRUE)]
        /\ refs' = AddReferenceIfExists(refs, f)
        /\ buffers' = buffers \union {[at |-> told, frame |-> f]}
        /\ UNCHANGED <<bitmap, file_pages, contents, fault, inside, down>>

ShareBuffer(t, a) ==
    /\ MayRun(t) /\ lending[t] = {} /\ DriverIsFree(t)
    /\ page_table[t][a].present
    /\ HasRoom(memory_mapping[Driver], PageSize)
    /\ LendAt(t, a, FindFreeMappingSpace(memory_mapping[Driver], PageSize))
    /\ LendCounts
    /\ UNCHANGED lending

\* The page is one of a file and not present: the place is found first.
ShareBufferFile(t, a) ==
    /\ MayRun(t) /\ lending[t] = {} /\ DriverIsFree(t)
    /\ ~page_table[t][a].present
    /\ \E r \in RegionAt(t, a) : r.backing.kind = "file"
    /\ HasRoom(memory_mapping[Driver], PageSize)
    /\ lending' = [lending EXCEPT ![t] = {[page |-> a, told |-> FindFreeMappingSpace(memory_mapping[Driver], PageSize)]}]
    /\ LendCounts
    /\ UNCHANGED <<memory_mapping, page_table, bitmap, refs, file_pages, contents, fault, inside, down, buffers>>

ShareBufferResumes(t) == \E l \in lending[t] :
    /\ MayRun(t) /\ page_table[t][l.page].present
    /\ LendAt(t, l.page, l.told)
    /\ lending' = [lending EXCEPT ![t] = {}]
    /\ UNCHANGED used

\* release_buffer, by the driver.
ReleaseBuffer == \E b \in buffers :
    /\ MayRun(Driver)
    /\ UnmapRange(Driver, b.at, PageSize)
    /\ buffers' = buffers \ {b}
    /\ UNCHANGED <<contents, fault, lending, down, used>>

PagingStep ==
    \/ \E t \in Users, q \in Requests : MapRegion(t, q[1], q[2])
    \/ \E t \in Users, a \in Pages : PageOnDemand(t, a)
    \/ \E t \in Users, a \in Pages : OutOfFrames(t, a)
    \/ \E t \in Users : MapShared(t)
    \/ \E t \in PagingTasks : Untrack(t)
    \/ \E t \in Users : PagedIn(t)
    \/ \E t \in Users : PageInFailed(t)
    \/ \E t \in Users, a \in Pages, length \in {PageSize, 2 * PageSize} : UnmapUser(t, a, length)
    \/ \E t \in Users : ExitUser(t)
    \/ \E t \in Users, a \in Pages : ShareBuffer(t, a)
    \/ \E t \in Users, a \in Pages : ShareBufferFile(t, a)
    \/ \E t \in Users : ShareBufferResumes(t)
    \/ ReleaseBuffer

PagingNext == ~down /\ PagingStep

PagingSpec == PagingInit /\ [][PagingNext]_pagingVars

-----------------------------------------------------------------------------
Present(t) == {a \in Pages : page_table[t][a].present}

MappedFrames == UNION {{page_table[t][a].frame : a \in Present(t)} : t \in PagingTasks}

BeingUntracked(k) == \E t \in PagingTasks : \E w \in inside[t] : w.step = "untrack" /\ k \in w.offsets

\* No page of any task shows a frame that the allocator may hand out again, and
\* the file page table leads to none: unmap_memory clears "the re-use cache" before
\* it is done.
MappedIsAllocated ==
    /\ MappedFrames \subseteq bitmap
    /\ \A k \in FilePages : file_pages[k] # 0 => file_pages[k] \in bitmap \/ BeingUntracked(k)

\* The tracker counts the page table entries of a frame and the page-ins on
\* their way, in every task: none is freed early and none is lost, so what is
\* mapped is allocated.
RefsCountEntries ==
    /\ MappedIsAllocated
    /\ \A f \in Frames : refs[f] > 0 =>
          refs[f] = Cardinality({<<t, a>> \in PagingTasks \X Pages :
                                   page_table[t][a].present /\ page_table[t][a].frame = f})
                    + Cardinality({t \in Users : \E w \in fault[t] : w.frame = f})

\* A present page of a shared file mapping shows that page of the file, and one
\* of free memory shows zeroes (until its task stores to it, which is left out
\* here): never what an earlier owner left in the frame.
ReadsItsFile ==
    \A t \in Users : \A r \in memory_mapping[t] : \A a \in RegionPages(r) \intersect Present(t) :
        LET shown == contents[page_table[t][a].frame]
        IN  /\ (r.backing.kind = "file" /\ r.backing.shared) => shown = Filled("file", FileOffset(r, a))
            /\ r.backing.kind = "free" => shown.with = "zero"

\* Frames are counted as they are used, and each shows what its page stands for.
FramesAreRight == RefsCountEntries /\ ReadsItsFile
=============================================================================
