------------------------------ MODULE KernelHeap ------------------------------
(***************************************************************************)
(* The kernel's heap (memory/heap): nodes laid end to end, each with a     *)
(* header, and a list of the free ones in order of address.  Addresses and *)
(* sizes are in 32-bit words; the magic numbers are left out.              *)
(***************************************************************************)
EXTENDS Naturals, FiniteSets, Sequences, SequencesExt, TLC

CONSTANTS
    HeapPage,    \* words of a page
    AllocSizes,  \* the sizes asked for
    Alignments,  \* and the alignments
    MaxHeap      \* words the heap may grow to

HeapStart == HeapPage      \* where the heap begins, an address other than 0
HeaderSize == 2            \* the magic number and the size

VARIABLES
    heap_size,
    nodes,       \* address of a node -> [size, used]
    free_list,   \* the list that starts at first_free
    live         \* the allocations: [ptr, size, align, node]

heapVars == <<heap_size, nodes, free_list, live>>

HeapInit ==
    /\ heap_size = HeapPage
    /\ nodes = [a \in {HeapStart} |-> [size |-> HeapPage, used |-> FALSE]]
    /\ free_list = <<HeapStart>>
    /\ live = {}

\* The data follows the header and at least one word that says how long the
\* padding is.
AlignedStart(node, align) ==
    LET start == node + HeaderSize + 1 IN align * ((start + align - 1) \div align)

NodeFits(ns, node, size, align) == node + ns[node].size >= AlignedStart(node, align) + size

\* The last node of the list takes in the pages that are added, size \div page
\* + 1 of them, as often as it takes to fit.
Expanded(k, size) ==
    [nodes EXCEPT ![Last(free_list)].size = @ + k * HeapPage * (size \div HeapPage + 1)]

Expansions(size, align) ==
    CHOOSE k \in 0 .. 3 :
        /\ \E i \in DOMAIN free_list : NodeFits(Expanded(k, size), free_list[i], size, align)
        /\ \A j \in 0 .. k - 1 :
              \A i \in DOMAIN free_list : ~NodeFits(Expanded(j, size), free_list[i], size, align)

\* The free list once the i-th node was taken: a tail worth keeping takes its
\* place.  Without one the list goes on after it, or in a page of its own, and
\* the nodes before it are no longer on it.
Relinked(i, tail, end) ==
    IF tail # 0 THEN ReplaceAt(free_list, i, tail)
    ELSE IF i = Len(free_list) THEN <<end>>
    ELSE SubSeq(free_list, i + 1, Len(free_list))

HeapAlloc(size, align) ==
    LET k == Expansions(size, align)
        ns == Expanded(k, size)
        i == CHOOSE j \in DOMAIN free_list :
                /\ NodeFits(ns, free_list[j], size, align)
                /\ \A h \in 1 .. j - 1 : ~NodeFits(ns, free_list[h], size, align)
        node == free_list[i]
        ptr == AlignedStart(node, align)
        tail == IF node + ns[node].size - (ptr + size) > 4 THEN ptr + size ELSE 0
        grown == heap_size + k * HeapPage * (size \div HeapPage + 1)
        end == HeapStart + grown
        taken == [ns EXCEPT ![node] = [size |-> IF tail = 0 THEN @.size ELSE tail - node, used |-> TRUE]]
        added == IF tail # 0 THEN (tail :> [size |-> node + ns[node].size - tail, used |-> FALSE])
                 ELSE IF i = Len(free_list) THEN (end :> [size |-> HeapPage, used |-> FALSE])
                 ELSE << >>
    IN  /\ grown + HeapPage <= MaxHeap
        /\ nodes' = taken @@ added
        /\ free_list' = Relinked(i, tail, end)
        /\ heap_size' = IF tail = 0 /\ i = Len(free_list) THEN grown + HeapPage ELSE grown
        /\ live' = live \union {[ptr |-> ptr, size |-> size, align |-> align, node |-> node]}

\* Neighbours in the list become one, whether or not they are adjacent.
Merged_Blind(ns, list) ==
    [nodes |-> [a \in DOMAIN ns \ {list[i] : i \in 2 .. Len(list)} |->
                  IF a = list[1] THEN [size |-> Last(list) + ns[Last(list)].size - a, used |-> FALSE]
                  ELSE ns[a]],
     list |-> <<list[1]>>]

\* Adjacent nodes of the list become one.
Merged(ns, list) ==
    LET EndOfNode(i) == list[i] + ns[list[i]].size
        heads == {i \in DOMAIN list : i = 1 \/ EndOfNode(i - 1) # list[i]}
        LastOf(i) == CHOOSE j \in i .. Len(list) :
                        /\ \A h \in i + 1 .. j : h \notin heads
                        /\ j = Len(list) \/ j + 1 \in heads
        gone == {list[i] : i \in DOMAIN list \ heads}
        sized == [a \in DOMAIN ns \ gone |->
                    IF \E i \in heads : list[i] = a
                    THEN [size |-> EndOfNode(LastOf(CHOOSE i \in heads : list[i] = a)) - a, used |-> FALSE]
                    ELSE ns[a]]
    IN  [nodes |-> sized, list |-> SelectSeq(list, LAMBDA a : a \notin gone)]

HeapDealloc(a) ==
    LET ns == [nodes EXCEPT ![a.node].used = FALSE]
        before == SelectSeq(free_list, LAMBDA b : b < a.node)
        after == SelectSeq(free_list, LAMBDA b : b > a.node)
        m == Merged(ns, before \o <<a.node>> \o after)
    IN  /\ nodes' = m.nodes
        /\ free_list' = m.list
        /\ live' = live \ {a}
        /\ UNCHANGED heap_size

HeapNext ==
    \/ \E size \in AllocSizes, align \in Alignments : HeapAlloc(size, align)
    \/ \E a \in live : HeapDealloc(a)

HeapSpec == HeapInit /\ [][HeapNext]_heapVars

-----------------------------------------------------------------------------
Words(a) == a .. a + nodes[a].size - 1

\* The nodes lie end to end from the start of the heap to its end, whatever was
\* allocated, split, merged and expanded; every allocation lies aligned within a
\* node of its own that is marked as used; the list holds free nodes in order of
\* address, and its last one ends where the heap does: expand grows that node by
\* the pages it adds there.
HeapTiled ==
    /\ UNION {Words(a) : a \in DOMAIN nodes} = HeapStart .. HeapStart + heap_size - 1
    /\ \A a, b \in DOMAIN nodes : a # b => Words(a) \intersect Words(b) = {}
    /\ \A l \in live : /\ l.node \in DOMAIN nodes /\ nodes[l.node].used /\ l.ptr % l.align = 0
                       /\ l.ptr - l.node > HeaderSize
                       /\ (l.ptr .. l.ptr + l.size - 1) \subseteq Words(l.node)
    /\ \A l, m \in live : l.node = m.node => l = m
    /\ free_list # << >>
    /\ \A i \in DOMAIN free_list : free_list[i] \in DOMAIN nodes /\ ~nodes[free_list[i]].used
    /\ \A i \in 2 .. Len(free_list) : free_list[i - 1] < free_list[i]
    /\ Last(free_list) + nodes[Last(free_list)].size = HeapStart + heap_size

=============================================================================
