------------------------------- MODULE LibcHeap -------------------------------
(***************************************************************************)
(* malloc, free and realloc of the C library (libc/src/allocator.rs): a    *)
(* list of free blocks in order of address, fed by map_memory.  Addresses  *)
(* and sizes are in units of 8 bytes, to which malloc rounds.              *)
(***************************************************************************)
EXTENDS Integers, FiniteSets, Sequences, SequencesExt, TLC

CONSTANTS
    LibcPage,    \* units of a page
    MallocSizes, \* the sizes asked for, rounded to units
    MapGaps,     \* how far from the hint map_memory may place a piece, above or below
    LibcPages    \* pages the heap may grow to

BlockHeaderSize == 1
MinAlloc == 2
HeapStartHint == 4 * LibcPage
LowestPiece == HeapStartHint - LibcPage  \* bound: no piece is placed below

VARIABLES
    heap_end,   \* HEAP_END, 0 before the first call
    blocks,     \* address of a block -> its size, the header not counted
    free_blocks,\* the list that starts at FREE_LIST
    pieces      \* the pieces of memory mapped so far, as <<start, end>>

libcVars == <<heap_end, blocks, free_blocks, pieces>>

LibcInit ==
    /\ heap_end = 0
    /\ blocks = << >>
    /\ free_blocks = << >>
    /\ pieces = {}

BlockEnd(bs, b) == b + BlockHeaderSize + bs[b]

\* The block before is extended by the size the block had before it took in the
\* one that follows.
InsertFree_Stale(bs, list, b) ==
    LET before == SelectSeq(list, LAMBDA c : c < b)
        after == SelectSeq(list, LAMBDA c : c > b)
        joinsNext == after # << >> /\ BlockEnd(bs, b) = Head(after)
        grown == IF joinsNext THEN [bs EXCEPT ![b] = @ + BlockHeaderSize + bs[Head(after)]] ELSE bs
        rest == IF joinsNext THEN Tail(after) ELSE after
        joinsPrev == before # << >> /\ BlockEnd(bs, Last(before)) = b
        sized == IF joinsPrev THEN [grown EXCEPT ![Last(before)] = @ + BlockHeaderSize + bs[b]] ELSE grown
        gone == (IF joinsNext THEN {Head(after)} ELSE {}) \union (IF joinsPrev THEN {b} ELSE {})
    IN  [blocks |-> [c \in DOMAIN bs \ gone |-> sized[c]],
         list |-> before \o (IF joinsPrev THEN << >> ELSE <<b>>) \o rest]

\* insert_free: into place by address, merged with the block that follows and
\* with the one before when they touch.
InsertFree(bs, list, b) ==
    LET before == SelectSeq(list, LAMBDA c : c < b)
        after == SelectSeq(list, LAMBDA c : c > b)
        joinsNext == after # << >> /\ BlockEnd(bs, b) = Head(after)
        grown == IF joinsNext THEN [bs EXCEPT ![b] = @ + BlockHeaderSize + bs[Head(after)]] ELSE bs
        rest == IF joinsNext THEN Tail(after) ELSE after
        joinsPrev == before # << >> /\ BlockEnd(bs, Last(before)) = b
        sized == IF joinsPrev THEN [grown EXCEPT ![Last(before)] = @ + BlockHeaderSize + grown[b]] ELSE grown
        gone == (IF joinsNext THEN {Head(after)} ELSE {}) \union (IF joinsPrev THEN {b} ELSE {})
    IN  [blocks |-> [c \in DOMAIN bs \ gone |-> sized[c]],
         list |-> before \o (IF joinsPrev THEN << >> ELSE <<b>>) \o rest]

\* What is left of a block that takes size, when it is worth a block.
Splits(bs, b, size) == bs[b] - size > BlockHeaderSize + MinAlloc

Split(bs, b, size) ==
    [bs EXCEPT ![b] = size]
        @@ ((b + BlockHeaderSize + size) :> (bs[b] - size - BlockHeaderSize))

Rounded(size) == IF size < MinAlloc THEN MinAlloc ELSE size

\* First fit.
MallocFit(size) ==
    LET i == CHOOSE j \in DOMAIN free_blocks :
                /\ blocks[free_blocks[j]] >= size
                /\ \A h \in 1 .. j - 1 : blocks[free_blocks[h]] < size
        b == free_blocks[i]
    IN  /\ \E j \in DOMAIN free_blocks : blocks[free_blocks[j]] >= size
        /\ IF Splits(blocks, b, size)
           THEN /\ blocks' = Split(blocks, b, size)
                /\ free_blocks' = ReplaceAt(free_blocks, i, b + BlockHeaderSize + size)
           ELSE /\ blocks' = blocks
                /\ free_blocks' = RemoveAt(free_blocks, i)
        /\ UNCHANGED <<heap_end, pieces>>

\* grow_heap: the kernel places the piece at the hint or as near as it can.
Overlaps(start, end) == \E p \in pieces : start < p[2] /\ p[1] < end

MallocGrow(size) ==
    LET grow == LibcPage * ((size + BlockHeaderSize + LibcPage - 1) \div LibcPage)
        hint == IF heap_end = 0 THEN HeapStartHint ELSE heap_end
        places == {hint + gap : gap \in MapGaps} \union {hint - grow - gap : gap \in MapGaps}
    IN  /\ \A j \in DOMAIN free_blocks : blocks[free_blocks[j]] < size
        /\ \E at \in places :
              LET fresh == (at :> (grow - BlockHeaderSize)) @@ blocks
                  added == IF Splits(fresh, at, size)
                           THEN InsertFree(Split(fresh, at, size), free_blocks, at + BlockHeaderSize + size)
                           ELSE [blocks |-> fresh, list |-> free_blocks]
              IN  /\ at \in LowestPiece .. LowestPiece + LibcPage * LibcPages - grow
                  /\ ~Overlaps(at, at + grow)
                  /\ heap_end' = IF at + grow > heap_end THEN at + grow ELSE heap_end
                  /\ pieces' = pieces \union {<<at, at + grow>>}
                  /\ blocks' = added.blocks
                  /\ free_blocks' = added.list

Allocated == DOMAIN blocks \ ToSet(free_blocks)

\* free; realloc of a block that must grow is a malloc and then a free, and
\* otherwise leaves the block as it is.  calloc is a malloc of the product of its
\* arguments.
Free(b) ==
    LET f == InsertFree(blocks, free_blocks, b)
    IN  /\ blocks' = f.blocks
        /\ free_blocks' = f.list
        /\ UNCHANGED <<heap_end, pieces>>

LibcNext ==
    \/ \E size \in {Rounded(s) : s \in MallocSizes} : MallocFit(size)
    \/ \E size \in {Rounded(s) : s \in MallocSizes} : MallocGrow(size)
    \/ \E b \in Allocated : Free(b)

LibcSpec == LibcInit /\ [][LibcNext]_libcVars

-----------------------------------------------------------------------------
BlockUnits(b) == b .. BlockEnd(blocks, b) - 1

\* Every unit of the memory the library mapped belongs to exactly one block,
\* allocated or free: no two allocations overlap and none is lost.  The free
\* list is in order of address, and "adjacent free blocks are merged".
BlocksTile ==
    /\ UNION {BlockUnits(b) : b \in DOMAIN blocks} = UNION {p[1] .. p[2] - 1 : p \in pieces}
    /\ \A b, c \in DOMAIN blocks : b # c => BlockUnits(b) \intersect BlockUnits(c) = {}
    /\ \A i \in 2 .. Len(free_blocks) : BlockEnd(blocks, free_blocks[i - 1]) < free_blocks[i]

=============================================================================
