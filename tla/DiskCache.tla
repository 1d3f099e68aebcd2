------------------------------ MODULE DiskCache ------------------------------
(***************************************************************************)
(* The FAT driver's sector cache, fatdriver/src/disk.rs: slots found        *)
(* through a hash table with open addressing, filled by readahead, evicted  *)
(* by age, written back when they are evicted or flushed.  Of a sector's    *)
(* bytes a copy has those last written or not; of ages only their order     *)
(* is looked at, so they are kept as ranks.                                 *)
(***************************************************************************)
EXTENDS Integers, Sequences, SequencesExt, FiniteSetsExt

CONSTANTS
    CacheSlots,  \* get_max_cache_entries
    Readahead,   \* READAHEAD_SECTORS
    Buckets,     \* HASH_TABLE_SIZE
    LastLba,     \* the device's last sector
    CacheFlaws   \* what the passing run leaves out: "fail": the device refuses a read or a write

ASSUME CacheAssumption ==
    /\ Readahead \in 1..CacheSlots /\ Buckets > CacheSlots
    /\ CacheFlaws \subseteq {"fail"}

VARIABLES
    slots,   \* cache_entries by slot; latest: the buffer has the bytes last written
    hash,    \* hash_table
    device   \* by sector: the device has the bytes last written

cacheVars == <<slots, hash, device>>

Lbas == 0..LastLba
Empty == 0

DiskCacheInit ==
    /\ slots = <<>> /\ hash = [b \in 0..Buckets - 1 |-> Empty]
    /\ device = [lba \in Lbas |-> TRUE]

-----------------------------------------------------------------------------
(* The hash table *)

HashLba(lba) == (3 * lba) % Buckets
Probe(lba, k) == (HashLba(lba) + k) % Buckets
Steps == 0..Buckets - 1

\* The number of steps to lba's bucket; none if an empty bucket comes first.
Hits(h, ss, lba) ==
    {k \in Steps : /\ h[Probe(lba, k)] # Empty /\ ss[h[Probe(lba, k)]].lba = lba
                   /\ \A j \in 0..k - 1 : /\ h[Probe(lba, j)] # Empty
                                          /\ ss[h[Probe(lba, j)]].lba # lba}

HashLookup(h, ss, lba) ==
    IF Hits(h, ss, lba) = {} THEN Empty ELSE h[Probe(lba, Min(Hits(h, ss, lba)))]

HashInsert(h, lba, slot) ==
    LET open == {k \in Steps : h[Probe(lba, k)] = Empty} IN
    IF open = {} THEN h ELSE [h EXCEPT ![Probe(lba, Min(open))] = slot]

HashRemove_NoRehash(h, ss, lba) ==
    IF Hits(h, ss, lba) = {} THEN h ELSE [h EXCEPT ![Probe(lba, Min(Hits(h, ss, lba)))] = Empty]

\* The entries up to the next empty bucket are taken out and put back.
HashRemove(h, ss, lba) ==
    LET gap == Probe(lba, Min(Hits(h, ss, lba)))
        Rehash(acc, k) ==
            LET b == (gap + k) % Buckets IN
            IF ~acc.go \/ acc.h[b] = Empty THEN [acc EXCEPT !.go = FALSE]
            ELSE [acc EXCEPT !.h = HashInsert([acc.h EXCEPT ![b] = Empty], ss[acc.h[b]].lba, acc.h[b])]
    IN IF Hits(h, ss, lba) = {} THEN h
       ELSE FoldLeft(Rehash, [h |-> [h EXCEPT ![gap] = Empty], go |-> TRUE],
                     [k \in 1..Buckets - 1 |-> k]).h

-----------------------------------------------------------------------------
(* Slots *)

Newest(ss) == Max({0} \cup {ss[i].age : i \in DOMAIN ss})

\* Ages, renumbered without gaps.
Ranked(ss) ==
    [i \in DOMAIN ss |-> [ss[i] EXCEPT !.age = Cardinality({ss[j].age : j \in DOMAIN ss} \cap 1..ss[i].age)]]

Oldest(ss) == Min({i \in DOMAIN ss : \A j \in DOMAIN ss : ss[i].age <= ss[j].age})

\* The sectors the device refuses; nobody looks.
Refusals == IF "fail" \in CacheFlaws THEN SUBSET Lbas ELSE {{}}

\* A dirty sector goes to the device.
WriteBack(dev, entry, refused) ==
    IF entry.dirty /\ entry.lba \in Lbas \ refused THEN [dev EXCEPT ![entry.lba] = entry.latest] ELSE dev

AllocateSlot(c, lba, age) ==
    LET entry == [lba |-> lba, age |-> age, dirty |-> FALSE, latest |-> FALSE]
        i == Oldest(c.slots) IN
    IF Len(c.slots) < CacheSlots
    THEN [c EXCEPT !.slots = Append(@, entry), !.hash = HashInsert(@, lba, Len(c.slots) + 1)]
    ELSE [c EXCEPT !.device = WriteBack(@, c.slots[i], c.refused),
                   !.hash = HashInsert(HashRemove(@, c.slots, c.slots[i].lba), lba, i),
                   !.slots = [@ EXCEPT ![i] = entry]]

\* Once the slots of the sectors in lbas hold what the device has, or what was in the
\* staging area before.
Filled(c, lbas) ==
    [c EXCEPT !.slots = [i \in DOMAIN @ |->
        IF @[i].lba \in lbas
        THEN [@[i] EXCEPT !.latest = c.slots[i].lba \in Lbas \ c.refused /\ c.device[c.slots[i].lba]]
        ELSE @[i]]]

\* The consecutive sectors from start that are not cached get slots, then one read of
\* the device fills them.
ReadAhead(c, start, age) ==
    LET cached == {k \in 0..Readahead - 1 : HashLookup(c.hash, c.slots, start + k) # Empty}
        count == IF cached = {} THEN Readahead ELSE Min(cached)
    IN  Filled(FoldLeft(LAMBDA acc, k : AllocateSlot(acc, start + k - 1, age), c, [k \in 1..count |-> k]),
               start..start + count - 1)

\* The cache once lba is in it, at the newest age.
CacheSector(lba, refused) ==
    LET c == [slots |-> slots, hash |-> hash, device |-> device, refused |-> refused]
        age == Newest(slots) + 1
        hit == HashLookup(hash, slots, lba)
        r == IF hit # Empty THEN [c EXCEPT !.slots[hit].age = age] ELSE ReadAhead(c, lba, age)
    IN [r EXCEPT !.slots = Ranked(@)]

-----------------------------------------------------------------------------
(* What the rest of the driver calls, one sector at a time *)

ReadBytesFromDisk ==
    \E lba \in Lbas, refused \in Refusals : \E c \in {CacheSector(lba, refused)} :
        /\ slots' = c.slots /\ hash' = c.hash /\ device' = c.device

WriteBytesToDisk ==
    \E lba \in Lbas, refused \in Refusals :
    \E c \in {CacheSector(lba, refused)} : \E i \in {HashLookup(c.hash, c.slots, lba)} :
        LET Outdate(j) == c.slots[j].latest /\ c.slots[j].lba # lba IN
        /\ slots' = [j \in DOMAIN c.slots |->
                         IF j = i THEN [c.slots[j] EXCEPT !.dirty = TRUE]
                         ELSE [c.slots[j] EXCEPT !.latest = Outdate(j)]]
        /\ hash' = c.hash
        /\ device' = [c.device EXCEPT ![lba] = FALSE]

\* What the device refuses stays unwritten, but counts as clean.
FlushAll ==
    \E refused \in Refusals :
        /\ device' = FoldLeft(LAMBDA dev, e : WriteBack(dev, e, refused), device, slots)
        /\ slots' = [i \in DOMAIN slots |-> [slots[i] EXCEPT !.dirty = FALSE]]
        /\ UNCHANGED hash

DiskCacheNext == ReadBytesFromDisk \/ WriteBytesToDisk \/ FlushAll

-----------------------------------------------------------------------------
(* Properties *)

\* A read returns what was last written, whether it is answered by a slot or has to go
\* to the device; and every slot's sector is found, in that slot.  Eviction, readahead
\* over a sector that was just evicted and deletion from a probe sequence all have to
\* keep to this (disk.rs cache_sector, allocate_slot, hash_remove).
CacheIsTheDisk ==
    /\ \A i \in DOMAIN slots : HashLookup(hash, slots, slots[i].lba) = i
    /\ \A lba \in Lbas : LET i == HashLookup(hash, slots, lba) IN
           IF i = Empty THEN device[lba] ELSE slots[i].latest

=============================================================================
