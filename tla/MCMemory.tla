------------------------------- MODULE MCMemory -------------------------------
(***************************************************************************)
(* Memory and what runs in it: a task's map, frames and page tables, the   *)
(* three heaps (the kernel's, the C library's and the one of Rust          *)
(* programs), the start of a program, and the C library's streams, text    *)
(* and strings.  They share no state; a behaviour is one of the component  *)
(* named by part.                                                          *)
(***************************************************************************)
EXTENDS Paging, KernelHeap, LibcHeap, SlabAllocator, Stdio, LibcText,
        ProgramLoader

CONSTANT MemoryParts  \* the components in question

VARIABLE part

memoryVars == <<part, mapVars, pagingVars, heapVars, libcVars, slabVars, stdioVars, textVars, stringsVars, loadVars>>

MCSlots == <<2, 1>>

MCListings == UNION {[1..n -> {<<1>>, <<2, 1>>, <<>>, <<1, 2, 1, 1>>}] : n \in 0..3}

Header(load, vaddr, offset, filesz, more, write) ==
    [load |-> load, vaddr |-> vaddr, offset |-> offset, filesz |-> filesz, memsz |-> filesz + more, write |-> write]

\* The loaders' segments follow each other in the file and in memory, as their linker
\* scripts have it.
MCLoaderFiles ==
    LET more == IF "bss" \in LoadFlaws THEN 3 ELSE 0 IN
    [ELFLOAD |-> <<Header(FALSE, 0, 0, 8, 0, FALSE), Header(TRUE, 36, 4, 20, 0, FALSE), Header(TRUE, 56, 24, 18, more, TRUE)>>,
     DOSLAYER |-> <<Header(TRUE, 36, 4, 40, 0, FALSE), Header(TRUE, 96, 64, 9, more, TRUE)>>]

MCSegments == {Header(TRUE, v, (v % 32) + 32, f, m, m > 0) :
                 v \in {96, 107}, f \in {5, 32}, m \in {0, 4, 30}}
              \cup {Header(TRUE, 128, 32, 0, 20, TRUE)}

ElfFile(headers) == [magic |-> "elf", com |-> FALSE, size |-> 99, headers |-> headers]

MCPrograms ==
    {f \in {ElfFile(<<a>>) : a \in MCSegments}
           \cup {ElfFile(<<Header(TRUE, 107, 11, 5, 4, TRUE), Header(FALSE, 96, 0, 5, 0, FALSE), b>>) :
                    b \in MCSegments} : Fitting(f)}
      \cup {[magic |-> m, com |-> c, size |-> n, headers |-> <<>>] :
               m \in {"mz", "none"}, c \in BOOLEAN, n \in {31}}
      \cup {[magic |-> "flat", com |-> FALSE, size |-> n, headers |-> <<>>] : n \in 31..33}
      \cup {ElfFile([i \in 1..4 |-> Header(FALSE, 0, 0, 1, 0, FALSE)])}

MCArgLists == {<<>>, <<<<>>, <<5, 6, 7>>, <<8>>>>, [i \in 1..8 |-> <<>>],
               <<[i \in 1..15 |-> 5]>>}
                \cup (IF "many" \in LoadFlaws THEN {[i \in 1..14 |-> <<>>]} ELSE {})

UserSymmetry == Permutations(Users) \cup Permutations(Files)

MemoryInit ==
    /\ part \in MemoryParts
    /\ MapInit /\ PagingInit /\ HeapInit /\ LibcInit /\ SlabInit
    /\ IF part = "stdio" THEN StdioInit
       ELSE /\ disk = [n \in Files \cup {Con} |-> NoFile] /\ file = [f \in Table |-> Zeroed]
            /\ given = <<>> /\ moving = Idle
    /\ TextInit /\ StringsInit
    /\ IF part = "loader" THEN LoadInit
       ELSE /\ program = <<>> /\ arguments = <<>> /\ pathLength = 0 /\ execPc = "exec"
            /\ taskRun = "running" /\ loaderCache = {} /\ callerHandles = 0 /\ taskMap = {}
            /\ poked = <<>> /\ entryRegs = <<>> /\ headerNo = 0 /\ failures = 0

MapPart == part = "map" /\ MapNext /\ UNCHANGED <<part, pagingVars, heapVars, libcVars, slabVars, stdioVars, textVars, stringsVars, loadVars>>
PagingPart == part = "paging" /\ PagingNext /\ UNCHANGED <<part, mapVars, heapVars, libcVars, slabVars, stdioVars, textVars, stringsVars, loadVars>>
HeapPart == part = "heap" /\ HeapNext /\ UNCHANGED <<part, mapVars, pagingVars, libcVars, slabVars, stdioVars, textVars, stringsVars, loadVars>>
LibcPart == part = "libc" /\ LibcNext /\ UNCHANGED <<part, mapVars, pagingVars, heapVars, slabVars, stdioVars, textVars, stringsVars, loadVars>>
SlabPart == part = "slab" /\ SlabNext /\ UNCHANGED <<part, mapVars, pagingVars, heapVars, libcVars, stdioVars, textVars, stringsVars, loadVars>>
StdioPart == part = "stdio" /\ StdioNext /\ UNCHANGED <<part, mapVars, pagingVars, heapVars, libcVars, slabVars, textVars, stringsVars, loadVars>>
TextPart == part = "text" /\ TextNext /\ UNCHANGED <<part, mapVars, pagingVars, heapVars, libcVars, slabVars, stdioVars, stringsVars, loadVars>>
StringsPart == part = "strings" /\ StringsNext /\ UNCHANGED <<part, mapVars, pagingVars, heapVars, libcVars, slabVars, stdioVars, textVars, loadVars>>
LoaderPart == part = "loader" /\ LoadNext /\ UNCHANGED <<part, mapVars, pagingVars, heapVars, libcVars, slabVars, stdioVars, textVars, stringsVars>>

MemoryNext ==
    \/ MapPart \/ PagingPart \/ HeapPart \/ LibcPart \/ SlabPart \/ StdioPart \/ TextPart \/ StringsPart
    \/ LoaderPart

MemorySpec == MemoryInit /\ [][MemoryNext]_memoryVars

\* What is mapped stays as it was promised, and the algorithms that place and cut
\* regions agree with their definitions in every map that comes about; and a program
\* that is started has been mapped as its file says (ProgramIsLoaded).
MapIsRight ==
    /\ part = "map" => PagesKeepTheirOffset /\ RangesAreRight
    /\ part = "loader" => ProgramIsLoaded

\* The C library does what the C language says: streams keep their table and their errors
\* (StdioIsRight), text is formatted and scanned as its directives say (TextIsRight), and
\* strings, sorting, searching and directories are as specified (StringsAreRight).
LibcIsRight ==
    /\ part = "stdio" => StdioIsRight
    /\ part = "text" => TextIsRight
    /\ part = "strings" => StringsAreRight
=============================================================================
