----------------------------- MODULE SlabAllocator -----------------------------
(***************************************************************************)
(* The allocator of Rust programs (sdk/src/allocator): pages cut into      *)
(* slots of one size class, and runs of pages for what is larger.  The     *)
(* notes about large allocations and about free pages are themselves kept  *)
(* in slots of the smallest class, so each part calls the other.           *)
(***************************************************************************)
EXTENDS Naturals, FiniteSets, Sequences, SequencesExt, TLC

CONSTANTS
    Slots,      \* class -> usable slots of a page (slot 0 holds the header)
    LargePages, \* the sizes of large allocations, in pages
    MaxPages,   \* pages map_memory gives out at most
    MaxHeld     \* slots the program holds at most

Classes == DOMAIN Slots
NoteClass == 1  \* the class of the notes, the smallest

VARIABLES
    heap        \* everything the allocator keeps, see SlabInit

slabVars == <<heap>>

(* heap.slabs: page -> [class, free], the free slots in list order           *)
(* heap.partial: class -> the pages on its partial list, first one first     *)
(* heap.large, heap.free: the lists of [addr, size, note] in list order      *)
(* heap.mapped: pages taken from the kernel; they are numbered from 1        *)
(* heap.held: the slots the program holds, as <<page, slot>>                 *)
(* A slot that was handed out by the last operation is in heap.got.          *)
SlabInit ==
    heap = [slabs |-> << >>, partial |-> [c \in Classes |-> << >>], large |-> << >>,
            free |-> << >>, mapped |-> 0, held |-> {}, got |-> <<0, 0>>]

-----------------------------------------------------------------------------
(* The operations are functions of the state h, so that one can call another. *)

\* Push the slot; a page that was full goes to the front of the partial list.
SlabDealloc(h, slot) ==
    LET page == slot[1]
        c == h.slabs[page].class
        wasFull == h.slabs[page].free = << >>
    IN  [h EXCEPT !.slabs[page].free = <<slot[2]>> \o @,
                  !.partial[c] = IF wasFull THEN <<page>> \o @ ELSE @]

\* The entry that is used up stays on the list.
AcquirePage_Kept(h) ==
    IF h.free # << >>
    THEN LET e == Head(h.free)
         IN  [page |-> e.addr, heap |-> [h EXCEPT !.free = <<[e EXCEPT !.addr = @ + 1]>> \o Tail(@)]]
    ELSE [page |-> h.mapped + 1, heap |-> [h EXCEPT !.mapped = @ + 1]]

\* A page from the first entry of the free list, which every entry can serve;
\* else a new one.  The note of an entry that is used up is freed.
AcquirePage(h) ==
    IF h.free # << >>
    THEN LET e == Head(h.free)
         IN  IF e.size = 1
             THEN [page |-> e.addr, heap |-> SlabDealloc([h EXCEPT !.free = Tail(@)], e.note)]
             ELSE [page |-> e.addr,
                   heap |-> [h EXCEPT !.free = <<[e EXCEPT !.addr = @ + 1, !.size = @ - 1]>> \o Tail(@)]]
    ELSE [page |-> h.mapped + 1, heap |-> [h EXCEPT !.mapped = @ + 1]]

NewSlabPage(h, c) ==
    LET a == AcquirePage(h)
    IN  [a.heap EXCEPT !.slabs = (a.page :> [class |-> c, free |-> [i \in 1 .. Slots[c] |-> i]]) @@ @,
                       !.partial[c] = <<a.page>> \o @]

\* Pop a slot of the first partial page; a page that is full leaves the list.
SlabAlloc(h, c) ==
    LET g == IF h.partial[c] = << >> THEN NewSlabPage(h, c) ELSE h
        page == Head(g.partial[c])
        rest == Tail(g.slabs[page].free)
    IN  [g EXCEPT !.slabs[page].free = rest,
                  !.partial[c] = IF rest = << >> THEN Tail(@) ELSE @,
                  !.got = <<page, Head(g.slabs[page].free)>>]

\* First fit in the free list; what is left of an entry stays, a used-up one
\* goes with its note.  Then the allocation is noted.
LargeAlloc(h, n) ==
    LET fits == {i \in DOMAIN h.free : h.free[i].size >= n}
        i == CHOOSE j \in fits : \A k \in fits : j <= k
        e == h.free[i]
        addr == IF fits = {} THEN h.mapped + 1 ELSE e.addr
        taken == IF fits = {} THEN [h EXCEPT !.mapped = @ + n]
                 ELSE IF e.size > n
                 THEN [h EXCEPT !.free[i] = [@ EXCEPT !.addr = @ + n, !.size = @ - n]]
                 ELSE SlabDealloc([h EXCEPT !.free = RemoveAt(@, i)], e.note)
        noted == SlabAlloc(taken, NoteClass)
    IN  [noted EXCEPT !.large = <<[addr |-> addr, size |-> n, note |-> noted.got]>> \o @]

\* The note is freed, the pages are put on the free list with a note of its own.
LargeDealloc(h, i) ==
    LET e == h.large[i]
        g == SlabDealloc([h EXCEPT !.large = RemoveAt(@, i)], e.note)
        noted == SlabAlloc(g, NoteClass)
    IN  [noted EXCEPT !.free = <<[addr |-> e.addr, size |-> e.size, note |-> noted.got]>> \o @]

-----------------------------------------------------------------------------
\* What the program does: alloc and dealloc of a slot or of pages.
AllocSmall(c) ==
    LET h == SlabAlloc(heap, c)
    IN  /\ Cardinality(heap.held) < MaxHeld /\ heap' = [h EXCEPT !.held = @ \union {h.got}, !.got = <<0, 0>>]
        /\ h.mapped <= MaxPages

DeallocSmall(slot) ==
    heap' = [SlabDealloc(heap, slot) EXCEPT !.held = @ \ {slot}, !.got = <<0, 0>>]

AllocLarge(n) ==
    /\ heap' = [LargeAlloc(heap, n) EXCEPT !.got = <<0, 0>>]
    /\ LargeAlloc(heap, n).mapped <= MaxPages

DeallocLarge(i) ==
    /\ heap' = [LargeDealloc(heap, i) EXCEPT !.got = <<0, 0>>]
    /\ LargeDealloc(heap, i).mapped <= MaxPages

SlabNext ==
    \/ \E c \in Classes : AllocSmall(c)
    \/ \E slot \in heap.held : DeallocSmall(slot)
    \/ \E n \in LargePages : AllocLarge(n)
    \/ \E i \in DOMAIN heap.large : DeallocLarge(i)

SlabSpec == SlabInit /\ [][SlabNext]_slabVars

-----------------------------------------------------------------------------
PagesOfRun(e) == e.addr .. e.addr + e.size - 1

Notes(list) == {list[i].note : i \in DOMAIN list}

\* In every slab page each slot is free, held by the program or the note of one
\* entry, and only one of these.
SlotsPartitioned ==
    \A p \in DOMAIN heap.slabs :
        LET free == {<<p, heap.slabs[p].free[i]>> : i \in DOMAIN heap.slabs[p].free}
            notes == Notes(heap.large) \union Notes(heap.free)
            mine == {s \in heap.held \union notes : s[1] = p}
        IN  /\ free \intersect mine = {} /\ heap.held \intersect notes = {}
            /\ Cardinality(free) = Len(heap.slabs[p].free)
            /\ Cardinality(notes) = Len(heap.large) + Len(heap.free)
            /\ free \union mine = {<<p, i>> : i \in 1 .. Slots[heap.slabs[p].class]}

\* The partial list of a class has exactly its pages with a free slot, once.
PartialIsPartial ==
    \A c \in Classes :
        /\ ToSet(heap.partial[c]) = {p \in DOMAIN heap.slabs : heap.slabs[p].class = c /\ heap.slabs[p].free # << >>}
        /\ IsInjective(heap.partial[c])

\* Every page the allocator mapped is a slab page, part of one large allocation
\* or part of one free entry, and only one of these; and so is every slot of a
\* slab page free, held or a note, with the partial lists saying where.
PagesPartitioned ==
    LET runs == {<<"large", i>> : i \in DOMAIN heap.large} \union {<<"free", i>> : i \in DOMAIN heap.free}
        RunPages(r) == PagesOfRun(IF r[1] = "large" THEN heap.large[r[2]] ELSE heap.free[r[2]])
    IN  /\ DOMAIN heap.slabs \union UNION {RunPages(r) : r \in runs} = 1 .. heap.mapped
        /\ \A r \in runs : /\ RunPages(r) \intersect DOMAIN heap.slabs = {} /\ RunPages(r) # {}
                           /\ \A s \in runs \ {r} : RunPages(r) \intersect RunPages(s) = {}
        /\ SlotsPartitioned /\ PartialIsPartial
=============================================================================
