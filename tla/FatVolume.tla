------------------------------ MODULE FatVolume ------------------------------
(***************************************************************************)
(* The FAT driver above its sector cache: the allocation table, the root    *)
(* directory and directories in cluster chains, open files with their own   *)
(* copy of the directory entry and of the chain, and file mappings.         *)
(* The driver answers one request at a time, so a request is one action.    *)
(* A cell stands for the bytes of one directory entry, or for as many bytes *)
(* of a file; sizes and offsets count cells.  Both copies of the table are  *)
(* always written together and are one here.                                *)
(***************************************************************************)
EXTENDS Integers, Sequences, SequencesExt, FiniteSets, FiniteSetsExt, Functions

CONSTANTS
    FatNames,      \* names in paths; "." and ".." are not among them
    DirNames,      \* those that directories are made under; the others name what is in them
    RootEntries,   \* root_directory_entries
    ClusterCells,  \* cells in a cluster
    MaxCluster,    \* the volume's clusters are 2..MaxCluster
    FatSlots,      \* the table's sectors have room for the clusters 2..FatSlots
    MaxHolds, MaxRefs, MaxFiles, MaxSize, WriteSizes,
                   \* bounds: handles and mappings together, references to a mapping,
                   \* files at a time, cells of a file and of a write
    FatCareless    \* what callers may do that the passing run leaves out:
                   \* "two": write a file that is open twice or mapped, "remove": unlink or
                   \* rename one that is open or mapped, "full": go on when a directory or
                   \* the disk is full, "gap": write past the end, "zero": write no bytes,
                   \* "into": move a directory into itself, "empty": read a file that has
                   \* no cluster yet, or page it in

VARIABLES
    vol,      \* the volume as the cache shows it: [fat, cells]; cells[0] is the root directory
    handles,  \* open_handle_map
    maps,     \* mapping_tokens with mapping_files, by path
    length,   \* by file: how many cells were written to it; -1 if there is no such file
    unsaved   \* some cached sector is dirty

fatVars == <<vol, handles, maps, length, unsaved>>

Eof == 4095
Media == 4088  \* what mkfs puts into entry 0 of the table
Table == 2..FatSlots
Clusters == 2..MaxCluster
FileIds == 1..MaxFiles
NoEntry == [name |-> "free", dir |-> FALSE, first |-> 0, size |-> 0, id |-> 0]
Deleted == [NoEntry EXCEPT !.name = "deleted"]
Data(id, u) == [NoEntry EXCEPT !.name = "data", !.size = u, !.id = id]
Junk == Data(0, 0)  \* what is in a cluster nobody uses
NoHandle == [kind |-> "none", entry |-> NoEntry, at |-> <<0, 0>>, cache |-> <<>>]
Fail == <<>>

\* A volume as mkfs leaves it: nothing allocated, the root directory empty.
FreshVolume == [fat |-> [c \in Table |-> 0],
                cells |-> [d \in {0} \cup Table |->
                              IF d = 0 THEN [i \in 1..RootEntries |-> NoEntry]
                              ELSE [i \in 1..ClusterCells |-> Junk]]]

FatInit ==
    /\ vol = FreshVolume /\ length = [f \in FileIds |-> -1] /\ unsaved = FALSE
    /\ handles = [h \in 1..MaxHolds |-> NoHandle] /\ maps = <<>>

-----------------------------------------------------------------------------
(* The allocation table *)

\* The clusters from c on to the one whose entry ends the chain.
RECURSIVE Follow(_, _)
Follow(fat, s) == LET next == fat[s[Len(s)]] IN
                  IF next \in Table /\ Len(s) < FatSlots THEN Follow(fat, Append(s, next)) ELSE s
Chain(fat, c) == Follow(fat, <<c>>)

SetClusterEntry(v, c, value) == [v EXCEPT !.fat[c] = value]

\* The first free entry of the table, whether the volume has that cluster or not.
FreeClusters(v) == {c \in Table : v.fat[c] = 0}
AllocateCluster(v) == LET c == Min(FreeClusters(v)) IN [vol |-> SetClusterEntry(v, c, Eof), c |-> c]

Fill(v, c, e) == [v EXCEPT !.cells[c] = [i \in 1..ClusterCells |-> e]]

\* What stays in the clusters counts as junk.
FreeChain_First(v, c) == Fill(SetClusterEntry(v, c, 0), c, Junk)

FreeChain(v, c) == FoldLeft(LAMBDA w, x : Fill(SetClusterEntry(w, x, 0), x, Junk), v, Chain(v.fat, c))

-----------------------------------------------------------------------------
(* Directories: 0 is the root, any other is known by its first cluster.  A place is *)
(* <<0 or a cluster, cell>>, the disk offset of an entry.                            *)

Cell(v, at) == v.cells[at[1]][at[2]]
SetCell(v, at, e) == [v EXCEPT !.cells[at[1]][at[2]] = e]
CellsOf(c, n) == [i \in 1..n |-> <<c, i>>]

Places(v, d) ==
    LET ch == Chain(v.fat, d) IN
    IF d = 0 THEN CellsOf(0, RootEntries)
    ELSE [i \in 1..Len(ch) * ClusterCells |->
             <<ch[((i - 1) \div ClusterCells) + 1], ((i - 1) % ClusterCells) + 1>>]

FirstWhere(s, P(_)) == LET hits == SelectSeq(s, P) IN IF hits = <<>> THEN Fail ELSE hits[1]

\* The places iteration yields.  In the root it stops at a deleted entry as at a free one,
\* and before the last entry; elsewhere it passes over deleted entries.
Listed(v, d) ==
    LET s == Places(v, d)
        ends == IF d = 0 THEN {"free", "deleted"} ELSE {"free"}
        n == Min({Len(s) + IF d = 0 THEN 0 ELSE 1} \cup {i \in DOMAIN s : Cell(v, s[i]).name \in ends})
    IN SelectSeq(SubSeq(s, 1, n - 1), LAMBDA at : Cell(v, at).name # "deleted")

FindEntry(v, d, name) == FirstWhere(Listed(v, d), LAMBDA at : Cell(v, at).name = name)

\* remove_entry passes over deleted entries in every directory.
RemoveEntry(v, d, name) ==
    LET s == Places(v, d)
        n == Min({Len(s) + 1} \cup {i \in DOMAIN s : Cell(v, s[i]).name = "free"})
    IN FirstWhere(SubSeq(s, 1, n - 1), LAMBDA at : Cell(v, at).name = name)

\* The volume with e in the first free or deleted cell of d, and that cell; a directory
\* in clusters grows by one when it has none.
WriteEntry(v, d, e) ==
    LET open == FirstWhere(Places(v, d), LAMBDA at : Cell(v, at).name \in {"free", "deleted"})
        a == AllocateCluster(v)
        grown == Fill(SetClusterEntry(a.vol, Last(Chain(v.fat, d)), a.c), a.c, NoEntry) IN
    IF open # Fail THEN [vol |-> SetCell(v, open, e), at |-> open]
    ELSE IF d = 0 \/ FreeClusters(v) = {} THEN [vol |-> v, at |-> Fail]
    ELSE [vol |-> SetCell(grown, <<a.c, 1>>, e), at |-> <<a.c, 1>>]

Entry(name, dir, first, id) == [name |-> name, dir |-> dir, first |-> first, size |-> 0, id |-> id]

\* The parent directory of a path, -1 if a component is missing or is a file.
RECURSIVE Descend(_, _, _)
Descend(v, d, path) ==
    IF Len(path) = 1 THEN d
    ELSE LET at == FindEntry(v, d, path[1]) IN
         IF at = Fail \/ ~Cell(v, at).dir THEN -1 ELSE Descend(v, Cell(v, at).first, Tail(path))
Parent(v, path) == Descend(v, 0, path)

\* Where a path's entry is.
Resolve(v, path) == LET d == Parent(v, path) IN IF d = -1 THEN Fail ELSE FindEntry(v, d, Last(path))

\* Every cell of d is free, deleted or one of the two dots, up to the first that is free.
IsSubdirEmpty(v, d) ==
    LET s == Places(v, d) IN
    \A i \in DOMAIN s : Cell(v, s[i]).name \in {"free", "deleted", ".", ".."}
                        \/ \E j \in 1..i - 1 : Cell(v, s[j]).name = "free"

Paths == {<<n>> : n \in FatNames} \cup {<<n, m>> : n \in DirNames, m \in FatNames \ DirNames}

-----------------------------------------------------------------------------
(* Requests.  A directory's handle is the listing taken at its first read and nothing *)
(* else depends on it; it is left out, as are requests that are refused.              *)

Allowed(what, careful) == careful \/ what \in FatCareless

\* Every cluster in use is one the volume has.
OnVolume(v) == \A c \in Table \ Clusters : v.fat[c] = 0

File(at) == [kind |-> "file", entry |-> Cell(vol, at), at |-> at, cache |-> <<>>]
IsOpen(at) == \E h \in DOMAIN handles : handles[h].kind = "file" /\ handles[h].at = at
IsMapped(at) == \E p \in DOMAIN maps : maps[p].file.at = at
FreeHandles == {h \in DOMAIN handles : handles[h].kind = "none"}
Holdable == Cardinality(FreeHandles) > Cardinality(DOMAIN maps)

\* SlotList::insert takes the first slot that is free.
Insert(file) == handles' = [handles EXCEPT ![Min(FreeHandles)] = file]

OpenFound(path) ==
    LET at == Resolve(vol, path) IN
    /\ Holdable /\ at # Fail /\ ~Cell(vol, at).dir
    /\ Insert(File(at))
    /\ UNCHANGED <<vol, maps, length, unsaved>>

OpenNew(path) ==
    LET unused == {f \in FileIds : length[f] = -1} IN
    /\ Holdable /\ unused # {}
    /\ \E d \in {Parent(vol, path)} :
          /\ d # -1 /\ FindEntry(vol, d, Last(path)) = Fail
          /\ \E w \in {WriteEntry(vol, d, Entry(Last(path), FALSE, 0, Min(unused)))} :
                /\ w.at # Fail /\ Allowed("full", OnVolume(w.vol))
                /\ vol' = w.vol
                /\ Insert([kind |-> "file", entry |-> Cell(w.vol, w.at), at |-> w.at, cache |-> <<>>])
    /\ unsaved' = FALSE
    /\ length' = [length EXCEPT ![Min(unused)] = 0]
    /\ UNCHANGED maps

\* File::read; what it returns is in ReadsBack.
ReadFile(f) == [f EXCEPT !.cache = IF @ = <<>> THEN Chain(vol.fat, f.entry.first) ELSE @]

\* Without a first cluster the chain is followed from entry 0 of the table to the entry its
\* medium is taken for, which is in the second copy of the table, c's.  If that is free the
\* chain leads back to entry 0 and is followed for ever.
ReadEmpty(f, c) ==
    IF vol.fat[c] = 0 THEN [f EXCEPT !.kind = "stuck"]
    ELSE [f EXCEPT !.cache = <<0, Media>> \o IF vol.fat[c] = Eof THEN <<>> ELSE Chain(vol.fat, vol.fat[c])]

AfterRead(f) ==
    IF f.entry.first # 0 \/ f.cache # <<>> THEN {ReadFile(f)}
    ELSE {ReadEmpty(f, c) : c \in IF Allowed("empty", FALSE) THEN Table ELSE {}}

\* The driver is in a request that does not end.
Stuck == \/ \E h \in DOMAIN handles : handles[h].kind = "stuck"
         \/ \E p \in DOMAIN maps : maps[p].file.kind = "stuck"

Read(h) ==
    /\ handles[h].kind = "file"
    /\ \E f \in AfterRead(handles[h]) : handles' = [handles EXCEPT ![h] = f]
    /\ UNCHANGED <<vol, maps, length, unsaved>>

\* The chain with enough clusters for k, as far as there are any.
Extend(v, cache, k) ==
    FoldLeft(LAMBDA acc, i :
                 IF Len(acc.cache) >= k \/ FreeClusters(acc.vol) = {} THEN acc
                 ELSE LET a == AllocateCluster(acc.vol) IN
                      [vol |-> IF acc.cache = <<>> THEN a.vol ELSE SetClusterEntry(a.vol, Last(acc.cache), a.c),
                       cache |-> Append(acc.cache, a.c)],
             [vol |-> v, cache |-> cache], [i \in 1..k - Len(cache) |-> i])

\* Where cell u is; the place of cluster 0 is in the root directory.
At(cache, u) == <<cache[(u \div ClusterCells) + 1], (u % ClusterCells) + 1>>

\* The chain a write starts from.
Known(f) == IF f.cache = <<>> /\ f.entry.first # 0 THEN Chain(vol.fat, f.entry.first) ELSE f.cache

\* Through the chain x.cache: [vol, file, count], count being what is returned.  A write
\* that runs out of clusters returns before the entry is brought up to date.
Written_KeepsEntry(f, off, n, x) ==
    LET units == {u \in off..off + n - 1 : u \div ClusterCells < Len(x.cache)}
        v == FoldSet(LAMBDA u, w : SetCell(w, At(x.cache, u), Data(f.entry.id, u)), x.vol, units)
        first == IF Known(f) = <<>> /\ x.cache # <<>> THEN x.cache[1] ELSE f.entry.first
        e == [f.entry EXCEPT !.first = first, !.size = Max({@, off + n})] IN
    [vol |-> v, file |-> [f EXCEPT !.entry = e, !.cache = x.cache], count |-> n]

Written(f, off, n, x) ==
    LET units == {u \in off..off + n - 1 : u \div ClusterCells < Len(x.cache)}
        v == FoldSet(LAMBDA u, w : SetCell(w, At(x.cache, u), Data(f.entry.id, u)), x.vol, units)
        first == IF Known(f) = <<>> /\ x.cache # <<>> THEN x.cache[1] ELSE f.entry.first
        whole == Cardinality(units) = n /\ x.cache # <<>>
        e == [f.entry EXCEPT !.first = first, !.size = IF whole THEN Max({@, off + n}) ELSE @] IN
    [vol |-> IF e.size # f.entry.size THEN SetCell(v, f.at, e) ELSE v,
     file |-> [f EXCEPT !.entry = e, !.cache = x.cache],
     count |-> Cardinality(units)]

\* File::write of n cells at off.
WriteFile(f, off, n) ==
    Written(f, off, n, Extend(vol, Known(f), Max({1, (off + n + ClusterCells - 1) \div ClusterCells})))

Write(h, off, n) ==
    LET f == handles[h] IN
    /\ f.kind = "file" /\ off + n <= MaxSize
    /\ Allowed("two", ~IsMapped(f.at) /\ \A g \in DOMAIN handles \ {h} : handles[g].at # f.at)
    /\ Allowed("gap", off <= f.entry.size) /\ Allowed("zero", n > 0)
    /\ \E w \in {WriteFile(f, off, n)} :
          /\ Allowed("full", OnVolume(w.vol) /\ w.count = n)
          /\ vol' = w.vol /\ unsaved' = TRUE
          /\ handles' = [handles EXCEPT ![h] = w.file]
          /\ length' = [length EXCEPT ![f.entry.id] = Max({@, off + w.count})]
    /\ UNCHANGED maps

Close(h) ==
    /\ handles[h].kind = "file"
    /\ handles' = [handles EXCEPT ![h] = NoHandle] /\ unsaved' = FALSE
    /\ UNCHANGED <<vol, maps, length>>

\* The new directory's cluster is cleared and given its two dots before its parent has
\* it.  Directories are made in the root; a rename may move one.
Mkdir(name) ==
    /\ FindEntry(vol, 0, name) = Fail /\ FreeClusters(vol) # {}
    /\ \E a \in {AllocateCluster(vol)} :
       \E v1 \in {WriteEntry(Fill(a.vol, a.c, NoEntry), a.c, Entry(".", TRUE, a.c, 0)).vol} :
       \E v2 \in {WriteEntry(v1, a.c, Entry("..", TRUE, 0, 0)).vol} :
       \E w \in {WriteEntry(v2, 0, Entry(name, TRUE, a.c, 0))} :
          /\ Allowed("full", w.at # Fail /\ OnVolume(w.vol))
          /\ vol' = w.vol /\ unsaved' = (w.at = Fail)
    /\ UNCHANGED <<handles, maps, length>>

Unlink(path) ==
    /\ \E found \in {Resolve(vol, path)} : found # Fail /\ ~Cell(vol, found).dir
    /\ \E at \in {RemoveEntry(vol, Parent(vol, path), Last(path))} : \E e \in {Cell(vol, at)} :
          /\ Allowed("remove", ~IsOpen(at) /\ ~IsMapped(at))
          /\ vol' = LET v == SetCell(vol, at, Deleted) IN IF e.first # 0 THEN FreeChain(v, e.first) ELSE v
          /\ length' = [length EXCEPT ![e.id] = IF IsOpen(at) \/ IsMapped(at) THEN @ ELSE -1]
    /\ unsaved' = FALSE
    /\ UNCHANGED <<handles, maps>>

Rmdir(path) ==
    /\ \E found \in {Resolve(vol, path)} :
          found # Fail /\ Cell(vol, found).dir /\ IsSubdirEmpty(vol, Cell(vol, found).first)
    /\ \E at \in {RemoveEntry(vol, Parent(vol, path), Last(path))} :
          vol' = FreeChain(SetCell(vol, at, Deleted), Cell(vol, at).first)
    /\ unsaved' = FALSE
    /\ UNCHANGED <<handles, maps, length>>

\* Both parents are found before the entry is taken out; when the new one has no room
\* the entry is gone.
Rename(old, new) ==
    /\ Resolve(vol, old) # Fail /\ Parent(vol, new) # -1 /\ Resolve(vol, new) = Fail
    /\ \E at \in {RemoveEntry(vol, Parent(vol, old), Last(old))} : \E e \in {Cell(vol, at)} :
          /\ Allowed("remove", ~IsOpen(at) /\ \A p \in DOMAIN maps : ~IsPrefix(old, p))
          /\ Allowed("into", ~(e.dir /\ IsPrefix(old, new)))
          /\ \E w \in {WriteEntry(SetCell(vol, at, Deleted), Parent(vol, new), [e EXCEPT !.name = Last(new)])} :
                /\ Allowed("full", w.at # Fail /\ OnVolume(w.vol))
                /\ vol' = w.vol /\ unsaved' = (w.at = Fail)
    /\ UNCHANGED <<handles, maps, length>>

\* A path that is mapped already gets the same token, whatever file it names by now.
CreateMapping(path) ==
    LET at == Resolve(vol, path) IN
    /\ IF path \in DOMAIN maps
       THEN maps[path].refs < MaxRefs /\ maps' = [maps EXCEPT ![path].refs = @ + 1]
       ELSE /\ at # Fail /\ ~Cell(vol, at).dir /\ Holdable
            /\ maps' = maps @@ (path :> [refs |-> 1, file |-> File(at)])
    /\ UNCHANGED <<vol, handles, length, unsaved>>

RemoveMapping(path) ==
    /\ path \in DOMAIN maps
    /\ maps' = IF maps[path].refs > 1 THEN [maps EXCEPT ![path].refs = @ - 1]
               ELSE Restrict(maps, DOMAIN maps \ {path})
    /\ UNCHANGED <<vol, handles, length, unsaved>>

PageInMapping(path) ==
    /\ path \in DOMAIN maps
    /\ \E f \in AfterRead(maps[path].file) : maps' = [maps EXCEPT ![path].file = f]
    /\ UNCHANGED <<vol, handles, length, unsaved>>

HandleRequest ==
    /\ ~Stuck
    /\ \/ \E path \in Paths : OpenFound(path) \/ OpenNew(path) \/ Unlink(path) \/ Rmdir(path)
                              \/ CreateMapping(path) \/ RemoveMapping(path) \/ PageInMapping(path)
       \/ \E name \in DirNames : Mkdir(name)
       \/ \E old, new \in Paths : Rename(old, new)
       \/ \E h \in DOMAIN handles : Read(h) \/ Close(h) \/ \E off \in 0..MaxSize, n \in WriteSizes : Write(h, off, n)

-----------------------------------------------------------------------------
(* Properties *)

\* A read of cell u through a chain finds what was written there.
ReadsBack(cache, id, u) ==
    /\ u \div ClusterCells < Len(cache) /\ At(cache, u)[1] \in DOMAIN vol.cells
    /\ Cell(vol, At(cache, u)) = Data(id, u)

Intact(f) == /\ f.entry.size = length[f.entry.id]
             /\ f.entry.size > 0 => LET cache == ReadFile(f).cache IN
                                     \A u \in 0..f.entry.size - 1 : ReadsBack(cache, f.entry.id, u)

\* The directories that hang together with the root, and the entries in them.
LiveIn(d) == {at \in ToSet(Places(vol, d)) : Cell(vol, at).name \in FatNames}
RECURSIVE Reach(_)
Reach(ds) == LET more == {Cell(vol, at).first : at \in {at \in UNION {LiveIn(d) : d \in ds} : Cell(vol, at).dir}} IN
             IF more \subseteq ds THEN ds ELSE Reach(ds \cup more)
LiveFiles == {at \in UNION {LiveIn(d) : d \in Reach({0})} : ~Cell(vol, at).dir}

\* Every file on the volume, every open file and every mapped one has the length and the
\* bytes that were written to it: no other file, directory or mapping shares its clusters,
\* and the copies of its entry and chain that handles and mappings keep are true.  With no
\* file open all of this is on the device; and every request is answered.
FilesIntact ==
    /\ ~Stuck
    /\ \A at \in LiveFiles : Intact(File(at))
    /\ \A h \in DOMAIN handles : handles[h].kind = "file" => Intact(handles[h])
    /\ \A p \in DOMAIN maps : Intact(maps[p].file)
    /\ (\A h \in DOMAIN handles : handles[h].kind = "none") => ~unsaved

\* A test of the driver says of a rename "New location should have the content"
\* (tests/integration.rs): the file is found under its new path.
RenamedIsFound ==
    [][\A old, new \in Paths : Rename(old, new) => Resolve(vol', new) # Fail]_fatVars

-----------------------------------------------------------------------------
(* DISKCHK, the volume checker, reads what the driver leaves on the volume and changes *)
(* nothing; its result is the number of errors it counts.                              *)

IsEnd(value) == value \in {Eof, 0}

\* 3. Entries that point out of the volume.
BadLinks(v) == {c \in Clusters : ~IsEnd(v.fat[c]) /\ v.fat[c] \notin Clusters}

\* follow_chain: the clusters from c on are marked as owner's until the chain ends, meets
\* another owner's cluster, leaves the volume or has been followed for too long.  A chain
\* may end in a cluster that is free.
RECURSIVE FollowChain(_, _, _, _, _, _)
FollowChain(v, used, c, owner, count, steps) ==
    IF steps > MaxCluster THEN [used |-> used, count |-> count, errors |-> 1]
    ELSE IF c \notin Clusters THEN [used |-> used, count |-> count, errors |-> 0]
    ELSE IF used[c] \notin {0, owner} THEN [used |-> used, count |-> count, errors |-> 1]
    ELSE LET marked == [used EXCEPT ![c] = owner] IN
         IF IsEnd(v.fat[c]) THEN [used |-> marked, count |-> count + 1, errors |-> 0]
         ELSE FollowChain(v, marked, v.fat[c], owner, count + 1, steps + 1)

SizeMismatch(e, count) == ~e.dir /\ e.first >= 2 /\ count # (e.size + ClusterCells - 1) \div ClusterCells

\* One entry of a directory: its chain is followed, its size compared, a directory pushed.
ScanEntry(v, s, e) ==
    LET f == FollowChain(v, s.used, e.first, s.owner, 0, 0) IN
    [used |-> f.used, owner |-> s.owner + 1,
     errors |-> s.errors + f.errors + IF SizeMismatch(e, f.count) THEN 1 ELSE 0,
     stack |-> IF e.dir /\ e.first >= 2 THEN Append(s.stack, e.first) ELSE s.stack]

RECURSIVE ScanEntries(_, _, _)
ScanEntries(v, s, places) ==
    IF places = <<>> \/ Cell(v, places[1]).name = "free" THEN s
    ELSE LET e == Cell(v, places[1]) IN
         ScanEntries(v, IF e.name \in {"deleted", ".", ".."} THEN s ELSE ScanEntry(v, s, e), Tail(places))

\* The stack of directories is worked off from its end.
RECURSIVE ScanTree(_, _)
ScanTree(v, s) ==
    IF s.stack = <<>> THEN s
    ELSE ScanTree(v, ScanEntries(v, [s EXCEPT !.stack = Front(@)], Places(v, Last(s.stack))))

\* 5. Clusters in use that no entry leads to.
LostClusters(v, used) == {c \in Clusters : v.fat[c] # 0 /\ used[c] = 0}

ErrorsFound(v) ==
    LET s0 == [used |-> [c \in Clusters |-> 0], owner |-> 1, errors |-> 0, stack |-> <<>>]
        s == ScanTree(v, ScanEntries(v, s0, Places(v, 0))) IN
    Cardinality(BadLinks(v)) + s.errors + Cardinality(LostClusters(v, s.used))

-----------------------------------------------------------------------------
\* After every request the checker finds no error on the volume: no cluster belongs to
\* two entries, none is lost, every chain is as long as its file.
VolumePassesCheck == ErrorsFound(vol) = 0

=============================================================================
