----------------------------- MODULE MappedMemory -----------------------------
(***************************************************************************)
(* A task's memory map (task/memory.rs): the set of regions it has mapped, *)
(* how a place is found for a new one and what unmapping a range leaves.   *)
(* Addresses are 32-bit numbers in the code; here they wrap at Width, a    *)
(* page is PageSize of them and user space ends at Upper.                  *)
(***************************************************************************)
EXTENDS Naturals, FiniteSets, Sequences, SequencesExt, TLC

CONSTANTS
    Width,      \* addresses and sizes are taken modulo this
    PageSize,
    Upper,      \* the end of user space (the const parameter U)
    Sizes,      \* the sizes callers ask for
    Careless,   \* what callers do not take care of: "room", "bounds", "tail",
                \* "wrap" (a length that takes the end of the range past 2^32)
    MaxRegions  \* regions a map holds at most

ASSUME MemoryAssumption ==
    /\ {Width, PageSize, Upper} \subseteq Nat \ {0}
    /\ Width % PageSize = 0 /\ Upper % PageSize = 0 /\ Upper < Width
    /\ Sizes \subseteq 0 .. Width - 1

NoSpace == Width  \* Option::None of an address

-----------------------------------------------------------------------------
(* 32-bit addresses: + wraps, - saturates. *)

Plus(a, n) == (a + n) % Width

Minus(a, b) == IF a >= b THEN a - b ELSE 0

PrevPage(a) == a - (a % PageSize)

NextPage(a) == IF a % PageSize = 0 THEN a ELSE PrevPage(Plus(a, PageSize))

PagesOf(start, end) == {a \in start .. end - 1 : a % PageSize = 0}

Larger(a, b) == IF a > b THEN a ELSE b

Smaller(a, b) == IF a < b THEN a ELSE b

\* A region is [address, size, backing]; a backing has a kind, and an offset
\* (into the file, or the physical address of a direct mapping).
EndOf(r) == Plus(r.address, r.size)

HasAddress(r, a) == r.address <= a /\ a < EndOf(r)

RegionPages(r) == PagesOf(r.address, NextPage(EndOf(r)))

\* A BTreeMap has its regions in the order of their addresses.
Ascending(regs) ==
    [i \in 1 .. Cardinality(regs) |->
        CHOOSE r \in regs : Cardinality({s \in regs : s.address < r.address}) = i - 1]

RangesOverlap(s1, e1, s2, e2) ==
    Plus(Minus(e1, s1), Minus(e2, s2)) > Minus(Larger(e1, e2), Smaller(s1, s2))

CanFitRange(regs, start, end) ==
    \A r \in regs : ~RangesOverlap(r.address, EndOf(r), start, end)

-----------------------------------------------------------------------------
(* Finding a place. *)

\* The gaps between consecutive regions, before the first (the null page is
\* skipped) and after the last.
Gaps(regs) ==
    LET s == Ascending(regs)
        n == Len(s)
        From(i) == IF i = 0 THEN PageSize ELSE NextPage(EndOf(s[i]))
        To(i) == IF i = n THEN Upper ELSE s[i + 1].address
    IN  {[from |-> From(i), to |-> To(i)] : i \in 0 .. n}

PlaceIn(gap, hint, size) ==
    IF hint >= gap.from /\ Plus(hint, size) <= gap.to THEN hint
    ELSE IF hint < gap.from THEN gap.from
    ELSE PrevPage(gap.to - size)

Distance(a, b) == IF a >= b THEN a - b ELSE b - a

FindNearestFreeSpace(regs, hint, size) ==
    LET places == {PlaceIn(g, hint, size) :
                     g \in {g \in Gaps(regs) : g.to > g.from /\ g.to - g.from >= size}}
        Better(p, q) == \/ Distance(p, hint) < Distance(q, hint)
                        \/ Distance(p, hint) = Distance(q, hint) /\ p >= hint
    IN  IF places = {} THEN NoSpace
        ELSE CHOOSE p \in places : \A q \in places \ {p} : Better(p, q)

\* Downwards from the top; below the lowest region the space left is not
\* compared with the size.
FindFreeMappingSpace(regs, size) ==
    LET s == Ascending(regs)
        n == Len(s)
        Start(i) == IF i = n + 1 THEN Upper ELSE s[i].address
        fits == {i \in 1 .. n : Minus(Start(i + 1), NextPage(EndOf(s[i]))) >= size}
        top == IF fits = {} THEN Start(1) ELSE Start(1 + CHOOSE i \in fits : \A j \in fits : j <= i)
    IN  PrevPage(Minus(top, size))

RoundedSize(size) == PrevPage(Plus(size, PageSize - 1))

\* Where map_memory puts a region: addr is an address or NoSpace for none.
LocationFor(regs, addr, size) ==
    IF addr = NoSpace THEN FindFreeMappingSpace(regs, RoundedSize(size))
    ELSE IF CanFitRange(regs, addr, Plus(addr, RoundedSize(size))) THEN addr
    ELSE FindNearestFreeSpace(regs, addr, RoundedSize(size))

\* A BTreeMap: inserting at an address replaces the region that starts there.
Insert(regs, r) == {s \in regs : s.address # r.address} \union {r}

-----------------------------------------------------------------------------
(* Unmapping a range. *)

Touched(regs, addr, end) ==
    {r \in regs : r.address < end /\ EndOf(r) > addr}

Shifted(backing, by) == [backing EXCEPT !.offset = @ + by]

\* The parts that go, each with the backing of its own first byte.
UnmappedParts(regs, addr, length) ==
    LET end == Plus(addr, length)
        Part(r) == LET from == Larger(r.address, addr)
                   IN  [address |-> from, size |-> Smaller(EndOf(r), end) - from,
                        backing |-> Shifted(r.backing, from - r.address)]
    IN  {Part(r) : r \in Touched(regs, addr, end)}

\* Only the first region that the range touches is cut.
RegionsLeft_First(regs, addr, length) ==
    LET end == Plus(addr, length)
        all == Touched(regs, addr, end)
        touched == {r \in all : \A s \in all : r.address <= s.address}
        before == {[r EXCEPT !.size = addr - r.address] : r \in {r \in touched : r.address < addr}}
        after == {[r EXCEPT !.address = end, !.size = EndOf(r) - end] :
                     r \in {r \in touched : EndOf(r) > end}}
    IN  (regs \ touched) \union before \union after

\* What is left: the parts before and after the range keep the backing of the
\* region they were cut from, offset included.
RegionsLeft(regs, addr, length) ==
    LET end == Plus(addr, length)
        touched == Touched(regs, addr, end)
        before == {[r EXCEPT !.size = addr - r.address] : r \in {r \in touched : r.address < addr}}
        after == {[r EXCEPT !.address = end, !.size = EndOf(r) - end] :
                     r \in {r \in touched : EndOf(r) > end}}
    IN  (regs \ touched) \union before \union after

-----------------------------------------------------------------------------
(* One task's map. *)

VARIABLES
    regions,  \* the map
    promised  \* the file offset each mapped page was mapped at

mapVars == <<regions, promised>>

MapInit == regions = {} /\ promised = [a \in {} |-> 0]

Mapped == UNION {RegionPages(r) : r \in regions}

MapMemory(addr, size, offset) ==
    LET at == LocationFor(regions, addr, size)
        r == [address |-> at, size |-> size, backing |-> [kind |-> "file", offset |-> offset]]
    IN  /\ size # 0
        /\ addr = NoSpace \/ addr % PageSize = 0
        /\ at # NoSpace
        /\ regions' = Insert(regions, r)
        /\ promised' = [a \in RegionPages(r) |-> offset + (a - at)] @@ promised

\* A range whose end wraps passes the check; a region it reaches would fail the
\* assertion on its part.
UnmapMemory(addr, length) ==
    /\ length % PageSize = 0
    /\ addr < Upper /\ Plus(addr, length) <= Upper
    /\ addr + length < Width \/ Touched(regions, addr, Plus(addr, length)) = {}
    /\ regions' = RegionsLeft(regions, addr, length)
    /\ promised' = [a \in DOMAIN promised \ PagesOf(addr, addr + length) |-> promised[a]]

\* What a careful caller sees to: a size that leaves room for the region below
\* Upper, an explicit range inside user space.
Fits(regs, start, size) ==
    /\ start + RoundedSize(size) <= Upper
    /\ \A r \in regs : RegionPages(r) \intersect PagesOf(start, start + RoundedSize(size)) = {}

HasRoom(regs, size) == \E a \in PagesOf(0, Upper) : Fits(regs, a, size)

Map ==
    \E addr \in PagesOf(0, Upper) \union {NoSpace}, size \in Sizes, offset \in {0, PageSize} :
        /\ Cardinality(regions) < MaxRegions
        /\ "room" \in Careless \/ HasRoom(regions, size)
        /\ \/ "bounds" \in Careless
           \/ addr = NoSpace
           \/ addr + RoundedSize(size) <= Upper /\ size <= RoundedSize(size)
        /\ MapMemory(addr, size, offset)

\* A careful caller cuts nothing off the start of a region.
Unmap ==
    \E addr \in PagesOf(0, Upper),
       length \in PagesOf(PageSize, IF "wrap" \in Careless THEN Width ELSE Upper + 1) :
        /\ \/ "tail" \in Careless
           \/ \A r \in Touched(regions, addr, addr + length) : EndOf(r) <= addr + length
        /\ UnmapMemory(addr, length)

MapNext == Map \/ Unmap

MapSpec == MapInit /\ [][MapNext]_mapVars

-----------------------------------------------------------------------------
\* Every page still mapped shows the part of the file it was mapped at, and
\* nothing else is mapped: unmap_memory leaves the parts that do not intersect
\* "behind as new mappings".  Regions start on a page and share none.
PagesKeepTheirOffset ==
    /\ DOMAIN promised = Mapped
    /\ \A r \in regions :
          /\ r.size > 0 /\ r.address % PageSize = 0 /\ EndOf(r) <= Upper
          /\ \A a \in RegionPages(r) : promised[a] = r.backing.offset + (a - r.address)
          /\ \A s \in regions \ {r} : RegionPages(r) \intersect RegionPages(s) = {}

\* The parts handed out for clean-up are exactly the mapped pages of the range,
\* each with its own place in the file.
UnmappedIsRight ==
    \A addr \in PagesOf(0, Upper), length \in PagesOf(PageSize, Upper + 1) :
        addr + length <= Upper =>
            LET parts == UnmappedParts(regions, addr, length)
            IN  /\ UNION {RegionPages(p) : p \in parts} = Mapped \intersect PagesOf(addr, addr + length)
                /\ \A p \in parts : p.backing.offset = promised[p.address]

\* Without an address a region goes to the highest place that is free.
HighestPlace ==
    \A size \in Sizes \ {0} : HasRoom(regions, size) =>
        LET at == LocationFor(regions, NoSpace, size)
        IN  /\ Fits(regions, at, size)
            /\ \A a \in PagesOf(at + 1, Upper) : ~Fits(regions, a, size)

\* With an address that is taken, no free place is nearer than the one found;
\* of two as near, the one above is taken.
NearestPlace ==
    \A hint \in PagesOf(0, Upper), size \in Sizes \ {0} :
        LET at == LocationFor(regions, hint, size)
            free == {a \in PagesOf(PageSize, Upper) : Fits(regions, a, size)}
        IN  (hint + RoundedSize(size) <= Upper /\ ~Fits(regions, hint, size)) =>
                IF free = {} THEN at = NoSpace
                ELSE /\ at \in free
                     /\ \A a \in free : \/ Distance(at, hint) < Distance(a, hint)
                                        \/ Distance(at, hint) = Distance(a, hint) /\ at >= a

\* The three algorithms on the map of regions against their definitions: what
\* an unmapping takes out, and where a region goes with and without an address.
RangesAreRight == UnmappedIsRight /\ HighestPlace /\ NearestPlace
=============================================================================
