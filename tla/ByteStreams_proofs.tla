------------------------- MODULE ByteStreams_proofs -------------------------
(***************************************************************************)
(* Stdio implements ByteStreams: a program that uses the streams as C asks *)
(* cannot tell them from places in files without buffers, except when the  *)
(* error indicator is set.                                                 *)
(*                                                                         *)
(* The inductive invariant Inv is Proper with where a rename is. A program *)
(* has one stream open at a time. A rename to another drive has two, and   *)
(* between its calls the copy is what was read of the original (AtRead,    *)
(* AtWrite), all of it once both streams are closed (AtUnlink).            *)
(***************************************************************************)
EXTENDS Stdio_proofs

-----------------------------------------------------------------------------
(* rename across drives, call by call *)

\* At most one stream is open.
Single(F) == \A f, g \in Table : F[f].open /\ F[g].open => f = g

\* The stream f is open on the file n and holds nothing back.
Holds(F, f, n) ==
    /\ f \in Table /\ F[f].open /\ F[f].name = n
    /\ F[f].wbuf = <<>> /\ F[f].unget = NoFile

Only(F, S) == \A f \in Table \ S : ~F[f].open

Calling == {"idle", "src", "dst", "read", "write", "close", "close dst", "unlink", "abort", "abort dst"}

Plan == [pc : Calling, old : Files \cup {NoFile}, new : Files \cup {NoFile},
         src : Table \cup {0}, dst : Table \cup {0}, buf : Text]

\* What rename_cross_device has done so far: the new file has the bytes of the old one up
\* to the place of the stream that is read, and all of them when it is closed.
AtSrc(m, d, F) == m.pc = "src" /\ m.dst = 0 /\ d[m.new] = NoFile /\ Only(F, {})
AtDst(m, d, F) ==
    /\ m.pc = "dst" /\ m.dst = 0 /\ d[m.new] = NoFile
    /\ Holds(F, m.src, m.old) /\ Only(F, {m.src})
    /\ F[m.src].pos = 0
Both(m, F) == Holds(F, m.src, m.old) /\ Holds(F, m.dst, m.new) /\ Only(F, {m.src, m.dst})
AtRead(m, d, F) ==
    /\ m.pc = "read" /\ Both(m, F)
    /\ F[m.dst].pos = F[m.src].pos
    /\ d[m.new] = SubSeq(d[m.old], 1, F[m.src].pos)
AtWrite(m, d, F) ==
    /\ m.pc = "write" /\ Both(m, F)
    /\ F[m.src].pos = F[m.dst].pos + 1
    /\ d[m.new] = SubSeq(d[m.old], 1, F[m.dst].pos)
    /\ m.buf = <<d[m.old][F[m.src].pos]>>
AtClose(m, d, F) == m.pc = "close" /\ Both(m, F) /\ d[m.new] = d[m.old]
AtCloseDst(m, d, F) ==
    /\ m.pc = "close dst" /\ Holds(F, m.dst, m.new) /\ Only(F, {m.dst})
    /\ d[m.new] = d[m.old]
AtUnlink(m, d, F) == m.pc = "unlink" /\ Only(F, {}) /\ d[m.new] = d[m.old]
AtAbort(m, d, F) ==
    /\ m.pc = "abort"
    /\ \/ m.dst = 0 /\ Holds(F, m.src, m.old) /\ Only(F, {m.src})
       \/ m.dst # 0 /\ Both(m, F)
AtAbortDst(m, d, F) == m.pc = "abort dst" /\ Holds(F, m.dst, m.new) /\ Only(F, {m.dst})

Going(m, d) ==
    /\ m \in Plan /\ m.old \in Files /\ m.new \in Files /\ m.old # m.new /\ d[m.old] \in Text

Phase(m, d, F) ==
    \/ AtSrc(m, d, F) \/ AtDst(m, d, F) \/ AtRead(m, d, F) \/ AtWrite(m, d, F) \/ AtClose(m, d, F)
    \/ AtCloseDst(m, d, F) \/ AtUnlink(m, d, F) \/ AtAbort(m, d, F) \/ AtAbortDst(m, d, F)

\* Between two calls of the program at most one stream is open; within a rename the two of
\* the copy are.
Moved(m, d, F) ==
    \/ m = Idle /\ Single(F)
    \/ Going(m, d) /\ Phase(m, d, F)

Inv(m, d, F) == Proper(d, F) /\ Moved(m, d, F)

\* Changes of the plan.
Replanned(q, m, pc, src, dst, buf) ==
    /\ q \in Plan /\ q.pc = pc /\ q.old = m.old /\ q.new = m.new
    /\ q.src = src /\ q.dst = dst /\ q.buf = buf

\* The steps of rename_cross_device change where it is, a stream or the buffer, and keep the
\* two names.
LEMMA Replans ==
    ASSUME NEW m \in Plan, NEW p \in Calling
    PROVE  /\ Replanned([m EXCEPT !.pc = p], m, p, m.src, m.dst, m.buf)
           /\ \A f \in Table : Replanned([m EXCEPT !.pc = p, !.src = f], m, p, f, m.dst, m.buf)
           /\ \A f \in Table : Replanned([m EXCEPT !.pc = p, !.dst = f], m, p, m.src, f, m.buf)
           /\ \A b \in Text : Replanned([m EXCEPT !.pc = p, !.buf = b], m, p, m.src, m.dst, b)
           /\ \A b \in Text : Replanned([m EXCEPT !.buf = b, !.pc = p], m, p, m.src, m.dst, b)
  <1>1. Replanned([m EXCEPT !.pc = p], m, p, m.src, m.dst, m.buf)
    BY Zenon DEF Replanned, Plan
  <1>2. ASSUME NEW f \in Table PROVE Replanned([m EXCEPT !.pc = p, !.src = f], m, p, f, m.dst, m.buf)
    BY Zenon DEF Replanned, Plan
  <1>3. ASSUME NEW f \in Table PROVE Replanned([m EXCEPT !.pc = p, !.dst = f], m, p, m.src, f, m.buf)
    BY Zenon DEF Replanned, Plan
  <1>4. ASSUME NEW b \in Text PROVE Replanned([m EXCEPT !.pc = p, !.buf = b], m, p, m.src, m.dst, b)
    BY Zenon DEF Replanned, Plan
  <1>5. ASSUME NEW b \in Text PROVE Replanned([m EXCEPT !.buf = b, !.pc = p], m, p, m.src, m.dst, b)
    BY Zenon DEF Replanned, Plan
  <1> QED  BY <1>1, <1>2, <1>3, <1>4, <1>5, ZenonT(60)

\* The plan of a rename that begins.
Begun(q, old, new) ==
    q \in Plan /\ q.pc = "src" /\ q.old = old /\ q.new = new /\ q.dst = 0

\* rename of stdio.rs begins with one.
LEMMA Begins ==
    ASSUME NEW old \in Files, NEW new \in Files
    PROVE  Begun([Idle EXCEPT !.pc = "src", !.old = old, !.new = new], old, new)
  <1>1. Idle \in Plan /\ Idle.dst = 0
    <2>1. NoFile \in Files \cup {NoFile} /\ 0 \in Table \cup {0} /\ <<>> \in Text
      BY Empty, Zenon
    <2>2. "idle" \in Calling
      BY Zenon DEF Calling
    <2> QED  BY <2>1, <2>2, Zenon DEF Idle, Plan
  <1> HIDE DEF Idle
  <1> DEFINE one == [Idle EXCEPT !.pc = "src"]
             two == [one EXCEPT !.old = old]
  <1>2. one \in Plan /\ one.dst = 0 /\ one.pc = "src"
    <2>0. "src" \in Calling
      BY Zenon DEF Calling
    <2>1. Replanned(one, Idle, "src", Idle.src, Idle.dst, Idle.buf)
      BY <1>1, <2>0, Replans, Zenon DEF one
    <2> QED  BY <1>1, <2>1, Zenon DEF Replanned
  <1> HIDE DEF one
  <1>3. two \in Plan /\ two.dst = 0 /\ two.pc = "src" /\ two.old = old
    BY <1>2, Zenon DEF Plan
  <1> HIDE DEF two
  <1>4. Begun([two EXCEPT !.new = new], old, new)
    BY <1>3, Zenon DEF Begun, Plan
  <1> QED  BY <1>4, Zenon DEF one, two

\* One byte more, and all of them.
LEMMA Longer ==
    ASSUME NEW s \in Text, NEW n \in Nat, n < Len(s)
    PROVE  SubSeq(s, 1, n) \o <<s[n + 1]>> = SubSeq(s, 1, n + 1)
  <1>1. Len(s) \in Nat /\ n \in 0..Len(s) /\ n + 1 \in 0..Len(s) /\ n + 1 \in 1..Len(s)
    BY Empty
  <1> DEFINE a == SubSeq(s, 1, n)
             b == SubSeq(s, 1, n + 1)
  <1>2. a \in Text /\ Len(a) = n /\ \A i \in 1..n : a[i] = s[i]
    BY <1>1, Cut, Zenon
  <1>3. b \in Text /\ Len(b) = n + 1 /\ \A i \in 1..n + 1 : b[i] = s[i]
    BY <1>1, Cut, Zenon
  <1>4. s[n + 1] \in Chars
    BY <1>1 DEF Text
  <1> HIDE DEF a, b
  <1> DEFINE c == <<s[n + 1]>>
  <1>5. c \in Text /\ Len(c) = 1 /\ c[1] = s[n + 1]
    BY <1>4, One, Zenon
  <1> HIDE DEF c
  <1>6. /\ a \o c \in Text /\ Len(a \o c) = n + 1
        /\ \A i \in 1..n + 1 : (a \o c)[i] = IF i > n THEN c[i - n] ELSE a[i]
    <2>1. /\ a \o c \in Text /\ Len(a \o c) = Len(a) + Len(c)
          /\ \A i \in 1..Len(a) + Len(c) : (a \o c)[i] = IF i > Len(a) THEN c[i - Len(a)] ELSE a[i]
      BY <1>2, <1>5, Joined, ZenonT(60)
    <2> QED  BY <1>2, <1>5, <2>1, ZenonT(60)
  <1>7. ASSUME NEW i \in 1..n + 1 PROVE (a \o c)[i] = b[i]
    <2>1. CASE i > n
      <3>1. i = n + 1 /\ i - n = 1
        BY <2>1, SMTT(30)
      <3> QED  BY <1>3, <1>5, <1>6, <2>1, <3>1, ZenonT(60)
    <2>2. CASE ~(i > n)
      <3>1. i \in 1..n
        BY <2>2
      <3> QED  BY <1>2, <1>3, <1>6, <2>2, <3>1, ZenonT(60)
    <2> QED  BY <2>1, <2>2, Zenon
  <1>8. a \o c = b
    BY <1>3, <1>6, <1>7, SameText, ZenonT(60)
  <1> QED  BY <1>8, Zenon DEF a, b, c

\* All the bytes of a text, and none of them.
LEMMA Whole ==
    ASSUME NEW s \in Text
    PROVE  SubSeq(s, 1, Len(s)) = s /\ SubSeq(s, 1, 0) = <<>>
  BY DEF Text

\* With nothing in the buffer, reading one byte takes it from the file or finds the end.
ReadsOne(f, r) ==
    LET d == disk[file[f].name]
        at == file[f].pos IN
    /\ disk' = disk /\ file' = [file EXCEPT ![f] = r]
    /\ r.open /\ r.name = file[f].name /\ r.wbuf = <<>> /\ r.unget = NoFile
    /\ \/ at = Len(d) /\ given' = <<>> /\ r.pos = at
       \/ at < Len(d) /\ given' = <<d[at + 1]>> /\ r.pos = at + 1

\* fread of one byte, of a stream with nothing in its buffer.
LEMMA ReadOne ==
    ASSUME StreamFlaws = {}, Proper(disk, file), NEW f \in Table, NEW n, Holds(file, f, n), FreadCall(f, 1)
    PROVE  \E r : ReadsOne(f, r)
  <1> DEFINE q == file[f]
             d == disk[q.name]
             at == q.pos
             rest == SubSeq(d, at + 1, Len(d))
             want == IF Len(rest) < 1 THEN Len(rest) ELSE 1
             After(got) == IF got < 0 THEN [q EXCEPT !.error = TRUE]
                           ELSE IF got = 0 THEN [q EXCEPT !.eof = TRUE]
                           ELSE [q EXCEPT !.pos = @ + got]
  <1>1. /\ q.open /\ q.wbuf = <<>> /\ q.unget = NoFile /\ q \in Entry
        /\ d \in Text /\ at \in 0..Len(d) /\ Len(d) \in Nat
    BY NoBuffer, Zenon DEF Holds
  <1>2. rest \in Text /\ Len(rest) = Len(d) - at /\ at \in Nat
        /\ \A i \in 1..Len(d) - at : rest[i] = d[at + i]
    BY <1>1, Cut, EntryIs, ZenonT(60)
  <1> HIDE DEF rest, d
  <1>3. Len(rest) \in Nat /\ want \in Nat /\ ~(want < 0)
    BY <1>1, <1>2, Empty, SMTT(20)
  <1>4. Leave(f, disk, After(want), SubSeq(rest, 1, want))
    <2>1. \A k : FlushWbuf(disk, q, k) = [d |-> disk, r |-> q, ok |-> TRUE]
      BY <1>1, Zenon DEF FlushWbuf
    <2>2. \A k : FlushWbuf(disk, q, k).d = disk /\ FlushWbuf(disk, q, k).r = q
      BY <2>1, SMTT(30)
    <2>3. \E got \in ReadResults(want) :
            Leave(f, disk, After(got), IF got < 0 THEN <<NoFile>> ELSE SubSeq(rest, 1, got))
      BY <2>2, ZenonT(60) DEF FreadCall, rest, d
    <2>4. ReadResults(want) = {want}
      BY <1>3, Results, Zenon
    <2> HIDE DEF want, After
    <2> QED  BY <1>3, <2>3, <2>4, ZenonT(60)
  <1>5. CASE rest = <<>>
    <2>1. Len(rest) = 0 /\ SubSeq(<<>>, 1, 0) = <<>>
      BY <1>5, Empty, SMTT(30)
    <2>2. want = 0 /\ at = Len(d) /\ ~(0 < 0)
      BY <1>1, <1>2, <2>1, SMTT(30)
    <2> HIDE DEF want
    <2>3. Leave(f, disk, [q EXCEPT !.eof = TRUE], <<>>)
      BY <1>4, <1>5, <2>1, <2>2, ZenonT(60)
    <2> DEFINE r == [q EXCEPT !.eof = TRUE]
    <2>4. Altered(r, q, q.pos, q.unget, q.error)
      BY <1>1, Alterations, ZenonT(60)
    <2> HIDE DEF r
    <2>5. ReadsOne(f, r)
      BY <1>1, <2>2, <2>3, <2>4, ZenonT(60) DEF ReadsOne, Altered, Leave, r, d
    <2> QED  BY <2>5, Zenon
  <1>6. CASE rest # <<>>
    <2>1. Len(rest) >= 1 /\ SubSeq(rest, 1, 1) = <<rest[1]>>
      BY <1>2, <1>6, First, ZenonT(60)
    <2>2. want = 1 /\ at < Len(d) /\ 1 \in 1..Len(d) - at /\ at + 1 \in Nat /\ ~(1 < 0) /\ 1 # 0
      BY <1>1, <1>2, <1>3, <2>1, SMTT(20)
    <2> HIDE DEF want
    <2> DEFINE r == [q EXCEPT !.pos = at + 1]
    <2>3. Leave(f, disk, r, <<d[at + 1]>>)
      BY <1>2, <1>4, <2>1, <2>2, ZenonT(60)
    <2>4. Altered(r, q, at + 1, q.unget, q.error)
      BY <1>1, <2>2, Alterations, ZenonT(60)
    <2> HIDE DEF r
    <2>5. ReadsOne(f, r)
      BY <1>1, <2>2, <2>3, <2>4, ZenonT(60) DEF ReadsOne, Altered, Leave, d
    <2> QED  BY <2>5, Zenon
  <1> QED  BY <1>5, <1>6, ZenonT(60)

\* With nothing in the buffer, writing one byte adds it to the file at the place of the
\* stream, or fails and leaves the file alone.
WritesOne(f, b, r) ==
    LET d == disk[file[f].name]
        at == file[f].pos IN
    /\ file' = [file EXCEPT ![f] = r]
    /\ r.open /\ r.name = file[f].name /\ r.wbuf = <<>> /\ r.unget = NoFile
    /\ \/ disk' = disk /\ given' = <<NoFile>>
       \/ /\ disk' = [disk EXCEPT ![file[f].name] = Over(d, at, <<b>>)]
          /\ given' = <<b>> /\ r.pos = at + 1

\* fwrite of one byte, to a stream with nothing in its buffer.
LEMMA WriteOne ==
    ASSUME StreamFlaws = {}, Proper(disk, file), NEW f \in Table, NEW n, Holds(file, f, n),
           NEW b \in Chars, FwriteCall(f, <<b>>)
    PROVE  \E r : WritesOne(f, b, r)
  <1> DEFINE q == file[f]
             d == disk[q.name]
             at == q.pos
             s == <<b>>
  <1>1. /\ q.open /\ q.wbuf = <<>> /\ q.unget = NoFile /\ q \in Entry /\ Placed(disk, q)
        /\ disk \in [Names -> Text \cup {NoFile}]
    BY NoBuffer, Zenon DEF Holds, Proper
  <1>2. s \in Text /\ Len(s) = 1 /\ SubSeq(s, 1, 1) = s
    <2>1. s \in Text /\ Len(s) = 1 /\ s[1] = b /\ s # <<>>
      BY One, Zenon
    <2>2. SubSeq(s, 1, 1) = <<s[1]>>
      BY <2>1, First, ZenonT(60)
    <2> QED  BY <2>1, <2>2, Zenon
  <1>3. at \in Nat /\ at + 1 \in Nat
    <2>1. at \in Nat
      BY <1>1, EntryIs, Zenon
    <2> QED  BY <2>1
  <1> HIDE DEF s
  <1>4. PICK got \in WriteResults(Len(s)) :
            IF got < 0 THEN Leave(f, disk, [q EXCEPT !.error = TRUE], <<NoFile>>)
            ELSE Leave(f, WriteAt(disk, q.name, at, SubSeq(s, 1, got)), [q EXCEPT !.pos = @ + got], SubSeq(s, 1, got))
    <2>1. \A k : FlushWbuf(disk, q, k) = [d |-> disk, r |-> q, ok |-> TRUE]
      BY <1>1, Zenon DEF FlushWbuf
    <2>2. \A k : FlushWbuf(disk, q, k).d = disk /\ FlushWbuf(disk, q, k).r = q /\ FlushWbuf(disk, q, k).ok
      BY <2>1, SMTT(30)
    <2> QED  BY <2>2, Zenon DEF FwriteCall, s
  <1>5. CASE got < 0
    <2> DEFINE r == [q EXCEPT !.error = TRUE]
    <2>1. Leave(f, disk, r, <<NoFile>>)
      BY <1>4, <1>5, Zenon
    <2>2. r.open = q.open /\ r.name = q.name /\ r.wbuf = q.wbuf /\ r.unget = q.unget
      BY <1>1, Zenon DEF Entry
    <2> HIDE DEF r
    <2>3. WritesOne(f, b, r)
      BY <1>1, <2>1, <2>2, ZenonT(60) DEF WritesOne, Leave
    <2> QED  BY <2>3, Zenon
  <1>6. CASE ~(got < 0)
    <2>1. got = 1
      <3>1. got \in WriteResults(1) /\ 1 \in Nat
        BY <1>2, Zenon
      <3>2. got = 1 \/ got = -1
        BY <3>1, Results, ZenonT(60)
      <3> QED  BY <1>6, <3>2, SMTT(30)
    <2> DEFINE r == [q EXCEPT !.pos = at + 1]
    <2>2. Leave(f, WriteAt(disk, q.name, at, s), r, s)
      BY <1>2, <1>4, <1>6, <2>1, ZenonT(60)
    <2>3. Altered(r, q, at + 1, q.unget, q.error)
      BY <1>1, <1>3, Alterations, ZenonT(60)
    <2> HIDE DEF r
    <2>4. WriteAt(disk, q.name, at, s) = [disk EXCEPT ![q.name] = Over(d, at, s)]
      <3>1. Written(disk, q, s)
        BY <1>1, <1>2, WriteAtIs, ZenonT(60)
      <3> QED  BY <3>1, Zenon DEF Written
    <2>5. WritesOne(f, b, r)
      BY <1>1, <2>2, <2>3, <2>4, ZenonT(60) DEF WritesOne, Altered, Leave, s
    <2> QED  BY <2>5, Zenon
  <1> QED  BY <1>5, <1>6, Zenon

\* What is done when a call of the rename begins.
LEMMA PhaseIs ==
    ASSUME Moved(moving, disk, file), moving.pc # "idle"
    PROVE  /\ Going(moving, disk)
           /\ moving.pc = "src" => AtSrc(moving, disk, file)
           /\ moving.pc = "dst" => AtDst(moving, disk, file)
           /\ moving.pc = "read" => AtRead(moving, disk, file)
           /\ moving.pc = "write" => AtWrite(moving, disk, file)
           /\ moving.pc = "close" => AtClose(moving, disk, file)
           /\ moving.pc = "close dst" => AtCloseDst(moving, disk, file)
           /\ moving.pc = "unlink" => AtUnlink(moving, disk, file)
           /\ moving.pc = "abort" => AtAbort(moving, disk, file)
           /\ moving.pc = "abort dst" => AtAbortDst(moving, disk, file)
  <1>1. moving # Idle
    BY DEF Idle
  <1>2. Going(moving, disk) /\ Phase(moving, disk, file)
    BY <1>1, Zenon DEF Moved
  <1> QED  BY <1>2, Zenon DEF Phase, AtSrc, AtDst, AtRead, AtWrite, AtClose, AtCloseDst, AtUnlink, AtAbort, AtAbortDst

\* A step that keeps the invariant and is a step of ByteStreams.
Maps == Inv(moving', disk', file') /\ Streams!StreamsNext

\* What goes with a change of the plan within a rename that goes on.
LEMMA GoesOn ==
    ASSUME Going(moving, disk), NEW pc, NEW src, NEW dst, NEW buf,
           Replanned(moving', moving, pc, src, dst, buf), disk'[moving.old] = disk[moving.old]
    PROVE  Going(moving', disk')
  BY Zenon DEF Going, Replanned

\* With no stream open the rename may be over.
LEMMA Over0 ==
    ASSUME NEW d, NEW F, Only(F, {})
    PROVE  Moved(Idle, d, F)
  BY Zenon DEF Only, Moved, Single

\* fopen for the rename.
LEMMA MoveOpens ==
    ASSUME StreamFlaws = {}, Inv(moving, disk, file), MoveOpen
    PROVE  Maps
  <1> DEFINE old == moving.old
             new == moving.new
             a == AllocFile
  <1>0. Proper(disk, file) /\ Moved(moving, disk, file)
    BY Zenon DEF Inv
  <1>1. CASE moving.pc = "src"
    <2>1. Going(moving, disk) /\ AtSrc(moving, disk, file)
      BY <1>0, <1>1, PhaseIs, ZenonT(60)
    <2>2. /\ moving \in Plan /\ old \in Files /\ new \in Files /\ old # new /\ disk[old] \in Text
          /\ moving.dst = 0 /\ disk[new] = NoFile /\ \A f \in Table : ~file[f].open
      BY <2>1, Zenon DEF Going, AtSrc, Only
    <2>3. FopenCall(old, "r") /\ moving' = IF given' = <<>> THEN [moving EXCEPT !.pc = "dst", !.src = a] ELSE Idle
      BY <1>1, Zenon DEF MoveOpen
    <2>4. Opens(old, "r")
      <3>1. "r" \in Modes
        BY Zenon DEF Modes
      <3> QED  BY <1>0, <2>2, <2>3, <3>1, FopenMaps, ZenonT(60)
    <2>5. CASE given' = <<NoFile>> /\ UNCHANGED <<disk, file>>
      <3>1. moving' = Idle
        <4>1. <<NoFile>> # <<>>
          BY Zenon
        <4> QED  BY <2>3, <2>5, <4>1, ZenonT(60)
      <3>2. Moved(Idle, disk', file')
        BY <2>1, <2>5, Over0, ZenonT(60) DEF AtSrc
      <3> QED  BY <2>4, <3>1, <3>2, ZenonT(60) DEF Maps, Inv, Opens
    <2>6. CASE ~(given' = <<NoFile>> /\ UNCHANGED <<disk, file>>)
      <3>1. /\ given' = <<>> /\ a \in Table /\ ~file[a].open
            /\ disk' = [disk EXCEPT ![old] = IF disk[old] = NoFile THEN <<>> ELSE disk[old]]
            /\ \E at \in Nat : /\ file' = [file EXCEPT ![a] = Opened(old, at)]
                               /\ "r" # "a" => at = 0
        BY <2>4, <2>6, ZenonT(60) DEF Opens
      <3>2. file' = [file EXCEPT ![a] = Opened(old, 0)]
        BY <3>1, Zenon
      <3>3. disk' = disk
        <4>1. disk[old] # NoFile
          BY <2>2, StdioAssumption, ZenonT(60) DEF Text
        <4>2. disk = [disk EXCEPT ![old] = disk[old]]
          BY <1>0, <2>2, ZenonT(60) DEF Proper
        <4> QED  BY <3>1, <4>1, <4>2, ZenonT(60)
      <3>4. OpenedAt(Opened(old, 0), old, 0)
        <4>1. 0 \in Nat
          BY Zenon
        <4> QED  BY <2>2, <4>1, OpenedIs, ZenonT(60)
      <3>5. Replanned(moving', moving, "dst", a, moving.dst, moving.buf)
        <4>1. "dst" \in Calling
          BY Zenon DEF Calling
        <4> QED  BY <2>2, <2>3, <3>1, <4>1, Replans, ZenonT(60)
      <3>6. file \in [Table -> Entry] /\ file'[a] = Opened(old, 0) /\ \A f \in Table \ {a} : file'[f] = file[f]
        BY <1>0, <3>1, <3>2, ZenonT(60) DEF Proper
      <3>7. Holds(file', a, old) /\ Only(file', {a}) /\ file'[a].pos = 0
        BY <2>2, <3>1, <3>4, <3>6, ZenonT(60) DEF Holds, Only, OpenedAt
      <3>8. AtDst(moving', disk', file')
        BY <2>2, <3>3, <3>5, <3>7, ZenonT(60) DEF AtDst, Replanned
      <3>9. Going(moving', disk')
        BY <2>1, <3>3, <3>5, GoesOn, ZenonT(60)
      <3> QED  BY <2>4, <3>8, <3>9, ZenonT(60) DEF Maps, Inv, Moved, Phase, Opens
    <2> QED  BY <2>5, <2>6, ZenonT(60)
  <1>2. CASE moving.pc = "dst"
    <2>1. Going(moving, disk) /\ AtDst(moving, disk, file)
      BY <1>0, <1>2, PhaseIs, ZenonT(60)
    <2> DEFINE src == moving.src
    <2>2. /\ moving \in Plan /\ old \in Files /\ new \in Files /\ old # new /\ disk[old] \in Text
          /\ moving.dst = 0 /\ disk[new] = NoFile
          /\ Holds(file, src, old) /\ Only(file, {src}) /\ file[src].pos = 0
      BY <2>1, Zenon DEF Going, AtDst
    <2>3. FopenCall(new, "w") /\ moving' = IF given' = <<>> THEN [moving EXCEPT !.pc = "read", !.dst = a]
                                           ELSE [moving EXCEPT !.pc = "abort"]
      BY <1>2, Zenon DEF MoveOpen
    <2>4. Opens(new, "w")
      <3>1. "w" \in Modes
        BY Zenon DEF Modes
      <3>2. \A g \in Table : file[g].open => file[g].name # new
        BY <2>2, Zenon DEF Holds, Only
      <3> QED  BY <1>0, <2>2, <2>3, <3>1, <3>2, FopenMaps, ZenonT(60)
    <2>5. CASE given' = <<NoFile>> /\ UNCHANGED <<disk, file>>
      <3>1. moving' = [moving EXCEPT !.pc = "abort"]
        <4>1. <<NoFile>> # <<>>
          BY Zenon
        <4> QED  BY <2>3, <2>5, <4>1, ZenonT(60)
      <3>2. Replanned(moving', moving, "abort", src, moving.dst, moving.buf)
        <4>1. "abort" \in Calling
          BY Zenon DEF Calling
        <4> QED  BY <2>2, <3>1, <4>1, Replans, ZenonT(60)
      <3>3. AtAbort(moving', disk', file')
        BY <2>2, <2>5, <3>2, ZenonT(60) DEF AtAbort, Replanned
      <3>4. Going(moving', disk')
        BY <2>1, <2>5, <3>2, GoesOn, ZenonT(60)
      <3> QED  BY <2>4, <3>3, <3>4, ZenonT(60) DEF Maps, Inv, Moved, Phase, Opens
    <2>6. CASE ~(given' = <<NoFile>> /\ UNCHANGED <<disk, file>>)
      <3>1. /\ given' = <<>> /\ a \in Table /\ ~file[a].open
            /\ disk' = [disk EXCEPT ![new] = IF disk[new] = NoFile THEN <<>> ELSE disk[new]]
            /\ \E at \in Nat : /\ file' = [file EXCEPT ![a] = Opened(new, at)]
                               /\ "w" # "a" => at = 0
        BY <2>4, <2>6, ZenonT(60) DEF Opens
      <3>2. file' = [file EXCEPT ![a] = Opened(new, 0)]
        BY <3>1, Zenon
      <3>3. disk'[new] = <<>> /\ disk'[old] = disk[old]
        BY <1>0, <2>2, <3>1, ZenonT(60) DEF Proper, Names
      <3>4. OpenedAt(Opened(new, 0), new, 0)
        <4>1. 0 \in Nat
          BY Zenon
        <4> QED  BY <2>2, <4>1, OpenedIs, ZenonT(60)
      <3>5. Replanned(moving', moving, "read", src, a, moving.buf)
        <4>1. "read" \in Calling
          BY Zenon DEF Calling
        <4> QED  BY <2>2, <2>3, <3>1, <4>1, Replans, ZenonT(60)
      <3>6. file \in [Table -> Entry] /\ file'[a] = Opened(new, 0) /\ \A f \in Table \ {a} : file'[f] = file[f]
        BY <1>0, <3>1, <3>2, ZenonT(60) DEF Proper
      <3>7. src # a /\ src \in Table
        BY <2>2, <3>1, ZenonT(60) DEF Holds
      <3>8. Holds(file', src, old) /\ Holds(file', a, new) /\ Only(file', {src, a})
            /\ file'[a].pos = 0 /\ file'[src].pos = 0
        BY <2>2, <3>1, <3>4, <3>6, <3>7, ZenonT(60) DEF Holds, Only, OpenedAt
      <3>9. SubSeq(disk'[old], 1, 0) = <<>>
        BY <2>2, <3>3, Whole, ZenonT(60)
      <3>10. AtRead(moving', disk', file')
        BY <3>3, <3>5, <3>8, <3>9, ZenonT(60) DEF AtRead, Both, Replanned
      <3>11. Going(moving', disk')
        BY <2>1, <3>3, <3>5, GoesOn, ZenonT(60)
      <3> QED  BY <2>4, <3>10, <3>11, ZenonT(60) DEF Maps, Inv, Moved, Phase, Opens
    <2> QED  BY <2>5, <2>6, Zenon
  <1> QED  BY <1>1, <1>2, ZenonT(60) DEF MoveOpen

\* A call on a stream keeps what the table and the files have in common.
LEMMA DoneIs ==
    ASSUME Proper(disk, file), NEW f \in Table, file[f].open,
           \E x, r : Does(f, x, r) /\ Streams!StreamsNext
    PROVE  /\ Proper(disk', file') /\ Streams!StreamsNext
           /\ \A g \in Table : file'[g].open = file[g].open
  <1>1. PICK x, r : Does(f, x, r) /\ Streams!StreamsNext
    BY Zenon
  <1>2. Mapped(f, x, r)
    BY <1>1, CallMaps, ZenonT(60)
  <1>3. file \in [Table -> Entry] /\ r \in Entry /\ r.open /\ file' = [file EXCEPT ![f] = r]
    BY <1>1, Zenon DEF Does, Proper
  <1>4. ASSUME NEW g \in Table PROVE file'[g].open = file[g].open
    <2>1. CASE g = f
      <3>1. file'[g] = r /\ file[g] \in Entry
        BY <1>3, <2>1, ZenonT(60)
      <3>2. r.open \in BOOLEAN /\ file[g].open \in BOOLEAN
        BY <1>3, <3>1, ZenonT(60) DEF Entry
      <3> QED  BY <1>3, <2>1, <3>1, <3>2, ZenonT(60)
    <2>2. CASE g # f
      BY <1>3, <2>2, ZenonT(60)
    <2> QED  BY <2>1, <2>2, ZenonT(60)
  <1> QED  BY <1>1, <1>2, <1>4, ZenonT(60) DEF Mapped

\* fread for the rename: one byte more in the buffer, or the whole file is copied.
LEMMA MoveReads ==
    ASSUME StreamFlaws = {}, Inv(moving, disk, file), MoveRead
    PROVE  Maps
  <1> DEFINE old == moving.old
             new == moving.new
             src == moving.src
             dst == moving.dst
             d == disk[old]
             at == file[src].pos
  <1>0. Proper(disk, file) /\ Moved(moving, disk, file) /\ moving.pc = "read" /\ FreadCall(src, 1)
        /\ moving' = IF given' \in {<<>>, <<NoFile>>} THEN [moving EXCEPT !.pc = "close"]
                     ELSE [moving EXCEPT !.pc = "write", !.buf = given']
    BY Zenon DEF Inv, MoveRead
  <1>1. Going(moving, disk) /\ AtRead(moving, disk, file)
    BY <1>0, PhaseIs, ZenonT(60)
  <1>2. /\ moving \in Plan /\ old \in Files /\ new \in Files /\ old # new /\ d \in Text
        /\ Holds(file, src, old) /\ Holds(file, dst, new) /\ Only(file, {src, dst})
        /\ file[dst].pos = at /\ disk[new] = SubSeq(d, 1, at)
    BY <1>1, Zenon DEF Going, AtRead, Both
  <1>3. src \in Table /\ dst \in Table /\ src # dst /\ file[src].open /\ file[src].name = old
        /\ file[src].unget = NoFile /\ file[src].wbuf = <<>>
    BY <1>2, Zenon DEF Holds
  <1>4. ~file[src].is_console
    <2>1. Placed(disk, file[src])
      BY <1>0, <1>3, OpenIs, ZenonT(60)
    <2> QED  BY <1>2, <1>3, <2>1, StdioAssumption, ZenonT(60) DEF Placed
  <1>5. Proper(disk', file') /\ Streams!StreamsNext
    <2>1. 1 \in Nat \ {0}
      OBVIOUS
    <2>2. \E x, r : Does(src, x, r) /\ Streams!StreamsNext
      BY <1>0, <1>3, <1>4, <2>1, FreadMaps, ZenonT(60)
    <2> QED  BY <1>0, <1>3, <2>2, DoneIs, ZenonT(60)
  <1>6. PICK r : ReadsOne(src, r)
    BY <1>0, <1>2, <1>3, ReadOne, ZenonT(60)
  <1>7. /\ disk' = disk /\ file' = [file EXCEPT ![src] = r]
        /\ r.open /\ r.name = old /\ r.wbuf = <<>> /\ r.unget = NoFile
        /\ \/ at = Len(d) /\ given' = <<>> /\ r.pos = at
           \/ at < Len(d) /\ given' = <<d[at + 1]>> /\ r.pos = at + 1
    BY <1>3, <1>6, ZenonT(60) DEF ReadsOne
  <1>8. file'[src] = r /\ \A f \in Table \ {src} : file'[f] = file[f]
    BY <1>0, <1>3, <1>7, ZenonT(60) DEF Proper
  <1>9. Holds(file', src, old) /\ Holds(file', dst, new) /\ Only(file', {src, dst})
        /\ file'[dst].pos = at /\ file'[src].pos = r.pos
    BY <1>2, <1>3, <1>7, <1>8, ZenonT(60) DEF Holds, Only
  <1>10. CASE at = Len(d) /\ given' = <<>> /\ r.pos = at
    <2>1. Replanned(moving', moving, "close", src, dst, moving.buf)
      <3>1. "close" \in Calling
        BY Zenon DEF Calling
      <3> QED  BY <1>0, <1>2, <1>10, <3>1, Replans, ZenonT(60)
    <2>2. disk[new] = d
      BY <1>2, <1>10, Whole, ZenonT(60)
    <2>3. AtClose(moving', disk', file')
      BY <1>7, <1>9, <2>1, <2>2, ZenonT(60) DEF AtClose, Both, Replanned
    <2>4. Going(moving', disk')
      BY <1>1, <1>7, <2>1, GoesOn, ZenonT(60)
    <2> QED  BY <1>5, <2>3, <2>4, ZenonT(60) DEF Maps, Inv, Moved, Phase
  <1>11. CASE at < Len(d) /\ given' = <<d[at + 1]>> /\ r.pos = at + 1
    <2>1. d[at + 1] \in Chars
      <3>1. at \in Nat /\ Len(d) \in Nat
        BY <1>0, <1>2, <1>3, OpenIs, Empty, ZenonT(60)
      <3>2. at + 1 \in 1..Len(d)
        BY <1>11, <3>1, SMTT(30)
      <3> HIDE DEF d, at
      <3> QED  BY <1>2, <3>2, SMTT(30) DEF Text
    <2>2. given' \in Text /\ given' # <<>> /\ given' # <<NoFile>>
      <3>1. <<d[at + 1]>> \in Text /\ <<d[at + 1]>> # <<>> /\ <<d[at + 1]>>[1] = d[at + 1]
        BY <2>1, One, Zenon
      <3>2. <<NoFile>>[1] = NoFile
        BY Zenon
      <3>3. d[at + 1] # NoFile
        BY <2>1, StdioAssumption, ZenonT(60)
      <3> HIDE DEF d, at
      <3> QED  BY <1>11, <3>1, <3>2, <3>3, ZenonT(60)
    <2>3. Replanned(moving', moving, "write", src, dst, given')
      <3>1. "write" \in Calling
        BY Zenon DEF Calling
      <3>2. moving' = [moving EXCEPT !.pc = "write", !.buf = given']
        BY <1>0, <2>2, ZenonT(60)
      <3> QED  BY <1>2, <2>2, <3>1, <3>2, Replans, ZenonT(60)
    <2>4. AtWrite(moving', disk', file')
      <3>1. /\ moving'.pc = "write" /\ moving'.src = src /\ moving'.dst = dst
            /\ moving'.old = old /\ moving'.new = new /\ moving'.buf = <<d[at + 1]>>
        BY <1>11, <2>3, ZenonT(60) DEF Replanned
      <3>2. file'[src].pos = file'[dst].pos + 1 /\ disk'[new] = SubSeq(d, 1, file'[dst].pos)
            /\ <<d[at + 1]>> = <<disk'[old][file'[src].pos]>>
        BY <1>2, <1>7, <1>9, <1>11, ZenonT(60)
      <3> QED  BY <1>7, <1>9, <3>1, <3>2, ZenonT(60) DEF AtWrite, Both
    <2>5. Going(moving', disk')
      BY <1>1, <1>7, <2>3, GoesOn, ZenonT(60)
    <2> QED  BY <1>5, <2>4, <2>5, ZenonT(60) DEF Maps, Inv, Moved, Phase
  <1> QED  BY <1>7, <1>10, <1>11, ZenonT(60)

\* fwrite for the rename: the copy has caught up, or it failed.
LEMMA MoveWrites ==
    ASSUME StreamFlaws = {}, Inv(moving, disk, file), MoveWrite
    PROVE  Maps
  <1> DEFINE old == moving.old
             new == moving.new
             src == moving.src
             dst == moving.dst
             d == disk[old]
             at == file[dst].pos
             b == d[at + 1]
  <1>0. Proper(disk, file) /\ Moved(moving, disk, file) /\ moving.pc = "write" /\ FwriteCall(dst, moving.buf)
        /\ moving' = [moving EXCEPT !.buf = <<>>, !.pc = IF given' = moving.buf THEN "read" ELSE "abort"]
    BY Zenon DEF Inv, MoveWrite
  <1>1. Going(moving, disk) /\ AtWrite(moving, disk, file)
    BY <1>0, PhaseIs, ZenonT(60)
  <1>2. /\ moving \in Plan /\ old \in Files /\ new \in Files /\ old # new /\ d \in Text
        /\ Holds(file, src, old) /\ Holds(file, dst, new) /\ Only(file, {src, dst})
        /\ file[src].pos = at + 1 /\ disk[new] = SubSeq(d, 1, at) /\ moving.buf = <<d[file[src].pos]>>
    BY <1>1, Zenon DEF Going, AtWrite, Both
  <1>3. src \in Table /\ dst \in Table /\ src # dst /\ file[dst].open /\ file[dst].name = new
        /\ file[dst].unget = NoFile /\ file[dst].wbuf = <<>> /\ file[src].open /\ file[src].name = old
    BY <1>2, Zenon DEF Holds
  <1>4. moving.buf = <<b>>
    BY <1>2, Zenon
  <1>5. at \in Nat /\ Len(d) \in Nat /\ at < Len(d) /\ at + 1 \in 1..Len(d)
    <2>1. at \in Nat /\ Len(d) \in Nat /\ file[src].pos \in 0..Len(d)
      BY <1>0, <1>2, <1>3, OpenIs, Empty, ZenonT(60)
    <2> HIDE DEF d, at
    <2> QED  BY <1>2, <2>1, SMTT(30)
  <1>6. b \in Chars
    <2> HIDE DEF d, at
    <2> QED  BY <1>2, <1>5, SMTT(30) DEF Text
  <1>7. <<b>> \in Text /\ Len(<<b>>) = 1
    BY <1>6, One, ZenonT(60)
  <1>8. Proper(disk', file') /\ Streams!StreamsNext
    <2>1. 1 \in 1..MaxLen
      BY StdioAssumption, SMTT(30)
    <2>2. FwriteCall(dst, <<b>>) /\ Len(<<b>>) \in 1..MaxLen
      BY <1>0, <1>4, <1>7, <2>1, ZenonT(60)
    <2> HIDE DEF b
    <2>3. \E x, r : Does(dst, x, r) /\ Streams!StreamsNext
      BY <1>0, <1>3, <1>7, <2>2, FwriteMaps, ZenonT(60)
    <2> QED  BY <1>0, <1>3, <2>3, DoneIs, ZenonT(60)
  <1>9. PICK r : WritesOne(dst, b, r)
    <2>1. FwriteCall(dst, <<b>>)
      BY <1>0, <1>4, Zenon
    <2> HIDE DEF b
    <2> QED  BY <1>0, <1>2, <1>3, <1>6, <2>1, WriteOne, ZenonT(60)
  <1>10. /\ file' = [file EXCEPT ![dst] = r]
         /\ r.open /\ r.name = new /\ r.wbuf = <<>> /\ r.unget = NoFile
         /\ \/ disk' = disk /\ given' = <<NoFile>>
            \/ /\ disk' = [disk EXCEPT ![new] = Over(disk[new], at, <<b>>)]
               /\ given' = <<b>> /\ r.pos = at + 1
    BY <1>3, <1>9, Zenon DEF WritesOne
  <1>11. file'[dst] = r /\ \A f \in Table \ {dst} : file'[f] = file[f]
    BY <1>0, <1>3, <1>10, ZenonT(60) DEF Proper
  <1>12. Holds(file', src, old) /\ Holds(file', dst, new) /\ Only(file', {src, dst})
         /\ file'[dst].pos = r.pos /\ file'[src].pos = at + 1
    BY <1>2, <1>3, <1>10, <1>11, ZenonT(60) DEF Holds, Only
  <1>13. "read" \in Calling /\ "abort" \in Calling /\ <<>> \in Text
    BY Empty, Zenon DEF Calling
  <1>14. CASE disk' = disk /\ given' = <<NoFile>>
    <2>1. given' # moving.buf
      <3>1. <<b>>[1] = b /\ <<NoFile>>[1] = NoFile /\ b # NoFile
        <4>1. <<b>>[1] = b
          BY <1>6, One, ZenonT(60)
        <4>2. <<NoFile>>[1] = NoFile
          BY Zenon
        <4> QED  BY <1>6, <4>1, <4>2, StdioAssumption, ZenonT(60)
      <3> QED  BY <1>4, <1>14, <3>1, ZenonT(60)
    <2>2. Replanned(moving', moving, "abort", src, dst, <<>>)
      <3>1. moving' = [moving EXCEPT !.buf = <<>>, !.pc = "abort"]
        BY <1>0, <2>1, ZenonT(60)
      <3> QED  BY <1>2, <1>13, <3>1, Replans, ZenonT(60)
    <2>3. dst # 0
      BY <1>3, StdioAssumption, SMTT(30) DEF Table, Stdout
    <2>4. AtAbort(moving', disk', file')
      BY <1>12, <2>2, <2>3, ZenonT(60) DEF AtAbort, Both, Replanned
    <2>5. Going(moving', disk')
      BY <1>1, <1>14, <2>2, GoesOn, ZenonT(60)
    <2> QED  BY <1>8, <2>4, <2>5, ZenonT(60) DEF Maps, Inv, Moved, Phase
  <1>15. CASE /\ disk' = [disk EXCEPT ![new] = Over(disk[new], at, <<b>>)]
              /\ given' = <<b>> /\ r.pos = at + 1
    <2>1. Replanned(moving', moving, "read", src, dst, <<>>)
      <3>1. moving' = [moving EXCEPT !.buf = <<>>, !.pc = "read"]
        BY <1>0, <1>4, <1>15, ZenonT(60)
      <3> QED  BY <1>2, <1>13, <3>1, Replans, ZenonT(60)
    <2>2. disk[new] \in Text /\ Len(disk[new]) = at
      <3>1. at \in 0..Len(d)
        BY <1>5, SMTT(30)
      <3> QED  BY <1>2, <3>1, Cut, ZenonT(60)
    <2>3. Over(disk[new], at, <<b>>) = SubSeq(d, 1, at + 1)
      <3>1. Over(disk[new], Len(disk[new]), <<b>>) = disk[new] \o <<b>>
        BY <1>7, <2>2, OverEnd, ZenonT(60)
      <3>2. SubSeq(d, 1, at) \o <<b>> = SubSeq(d, 1, at + 1)
        BY <1>2, <1>5, Longer, ZenonT(60)
      <3> QED  BY <1>2, <2>2, <3>1, <3>2, ZenonT(60)
    <2>4. disk'[new] = SubSeq(d, 1, at + 1) /\ disk'[old] = d
      BY <1>0, <1>2, <1>15, <2>3, ZenonT(60) DEF Proper, Names
    <2>5. AtRead(moving', disk', file')
      <3>1. /\ moving'.pc = "read" /\ moving'.src = src /\ moving'.dst = dst
            /\ moving'.old = old /\ moving'.new = new
        BY <2>1, Zenon DEF Replanned
      <3>2. file'[dst].pos = file'[src].pos /\ disk'[new] = SubSeq(disk'[old], 1, file'[src].pos)
        BY <1>12, <1>15, <2>4, ZenonT(60)
      <3> QED  BY <1>12, <3>1, <3>2, ZenonT(60) DEF AtRead, Both
    <2>6. Going(moving', disk')
      BY <1>1, <2>1, <2>4, GoesOn, ZenonT(60)
    <2> QED  BY <1>8, <2>5, <2>6, ZenonT(60) DEF Maps, Inv, Moved, Phase
  <1> QED  BY <1>10, <1>14, <1>15, ZenonT(60)

\* fclose of a stream that holds nothing back changes no file.
Closes(f) ==
    /\ Proper(disk', file') /\ Streams!StreamsNext /\ disk' = disk
    /\ ~file'[f].open /\ \A g \in Table \ {f} : file'[g] = file[g]

\* The streams of a rename are of that kind.
LEMMA CloseHeld ==
    ASSUME StreamFlaws = {}, Proper(disk, file), NEW f, NEW n, Holds(file, f, n), FcloseCall(f)
    PROVE  Closes(f)
  <1>1. f \in Table /\ file[f].open /\ file[f].wbuf = <<>> /\ file \in [Table -> Entry]
    BY Zenon DEF Holds, Proper
  <1>2. /\ Proper(disk', file') /\ Streams!StreamsNext
        /\ file' = [file EXCEPT ![f] = Zeroed]
        /\ disk' = [disk EXCEPT ![file[f].name] = View(disk, file[f])]
    BY <1>1, FcloseMaps, ZenonT(60)
  <1>3. disk' = disk
    BY <1>1, <1>2, NoBuffer, ZenonT(60)
  <1>4. file'[f] = Zeroed /\ \A g \in Table \ {f} : file'[g] = file[g]
    BY <1>1, <1>2, ZenonT(60)
  <1>5. ~file'[f].open
    BY <1>4, ZeroedIs, ZenonT(60)
  <1> QED  BY <1>2, <1>3, <1>4, <1>5, ZenonT(60) DEF Closes

\* fclose for the rename.
LEMMA MoveCloses ==
    ASSUME StreamFlaws = {}, Inv(moving, disk, file), MoveClose
    PROVE  Maps
  <1> DEFINE old == moving.old
             new == moving.new
             src == moving.src
             dst == moving.dst
  <1>0. Proper(disk, file) /\ Moved(moving, disk, file)
    BY Zenon DEF Inv
  <1>s. \A f \in Table : f # 0
    BY StdioAssumption, SMTT(30) DEF Table, Stdout
  <1>1. CASE moving.pc = "close" /\ FcloseCall(src) /\ Goto("close dst")
    <2>1. Going(moving, disk) /\ AtClose(moving, disk, file)
      BY <1>0, <1>1, PhaseIs, ZenonT(60)
    <2>2. moving \in Plan /\ old # new /\ Holds(file, src, old) /\ Holds(file, dst, new)
          /\ Only(file, {src, dst}) /\ disk[new] = disk[old]
      BY <2>1, Zenon DEF Going, AtClose, Both
    <2>3. Closes(src)
      BY <1>0, <1>1, <2>2, CloseHeld, ZenonT(60)
    <2>4. Replanned(moving', moving, "close dst", src, dst, moving.buf)
      <3>1. "close dst" \in Calling
        BY Zenon DEF Calling
      <3> QED  BY <1>1, <2>2, <3>1, Replans, ZenonT(60) DEF Goto
    <2>5. Holds(file', dst, new) /\ Only(file', {dst}) /\ disk' = disk
      BY <2>2, <2>3, ZenonT(60) DEF Holds, Only, Closes
    <2>6. AtCloseDst(moving', disk', file')
      BY <2>2, <2>4, <2>5, ZenonT(60) DEF AtCloseDst, Replanned
    <2>7. Going(moving', disk')
      BY <2>1, <2>4, <2>5, GoesOn, ZenonT(60)
    <2> QED  BY <2>3, <2>6, <2>7, ZenonT(60) DEF Maps, Inv, Moved, Phase, Closes
  <1>2. CASE moving.pc = "close dst" /\ FcloseCall(dst) /\ Goto("unlink")
    <2>1. Going(moving, disk) /\ AtCloseDst(moving, disk, file)
      BY <1>0, <1>2, PhaseIs, ZenonT(60)
    <2>2. moving \in Plan /\ Holds(file, dst, new) /\ Only(file, {dst}) /\ disk[new] = disk[old]
      BY <2>1, Zenon DEF Going, AtCloseDst
    <2>3. Closes(dst)
      BY <1>0, <1>2, <2>2, CloseHeld, ZenonT(60)
    <2>4. Replanned(moving', moving, "unlink", src, dst, moving.buf)
      <3>1. "unlink" \in Calling
        BY Zenon DEF Calling
      <3> QED  BY <1>2, <2>2, <3>1, Replans, ZenonT(60) DEF Goto
    <2>5. Only(file', {}) /\ disk' = disk
      BY <2>2, <2>3, ZenonT(60) DEF Only, Closes
    <2>6. AtUnlink(moving', disk', file')
      BY <2>2, <2>4, <2>5, ZenonT(60) DEF AtUnlink, Replanned
    <2>7. Going(moving', disk')
      BY <2>1, <2>4, <2>5, GoesOn, ZenonT(60)
    <2> QED  BY <2>3, <2>6, <2>7, ZenonT(60) DEF Maps, Inv, Moved, Phase, Closes
  <1>3. CASE moving.pc = "abort" /\ FcloseCall(src)
             /\ IF dst = 0 THEN moving' = Idle ELSE Goto("abort dst")
    <2>1. Going(moving, disk) /\ AtAbort(moving, disk, file)
      BY <1>0, <1>3, PhaseIs, ZenonT(60)
    <2>2. moving \in Plan /\ old # new /\ Holds(file, src, old)
      BY <2>1, ZenonT(60) DEF Going, AtAbort, Both
    <2>3. Closes(src)
      BY <1>0, <1>3, <2>2, CloseHeld, ZenonT(60)
    <2>4. CASE dst = 0
      <3>1. Only(file, {src})
        BY <2>1, <2>4, ZenonT(60) DEF AtAbort
      <3>2. Only(file', {}) /\ moving' = Idle
        BY <1>3, <2>3, <2>4, <3>1, ZenonT(60) DEF Only, Closes
      <3>3. Moved(moving', disk', file')
        BY <3>2, Over0, ZenonT(60)
      <3> QED  BY <2>3, <3>3, ZenonT(60) DEF Maps, Inv, Closes
    <2>5. CASE dst # 0
      <3>1. Holds(file, dst, new) /\ Only(file, {src, dst})
        BY <2>1, <2>5, ZenonT(60) DEF AtAbort, Both
      <3>2. Replanned(moving', moving, "abort dst", src, dst, moving.buf)
        <4>1. "abort dst" \in Calling
          BY Zenon DEF Calling
        <4> QED  BY <1>3, <2>2, <2>5, <4>1, Replans, ZenonT(60) DEF Goto
      <3>3. Holds(file', dst, new) /\ Only(file', {dst}) /\ disk' = disk
        BY <2>2, <2>3, <3>1, ZenonT(60) DEF Holds, Only, Closes
      <3>4. AtAbortDst(moving', disk', file')
        BY <3>2, <3>3, ZenonT(60) DEF AtAbortDst, Replanned
      <3>5. Going(moving', disk')
        BY <2>1, <3>2, <3>3, GoesOn, ZenonT(60)
      <3> QED  BY <2>3, <3>4, <3>5, ZenonT(60) DEF Maps, Inv, Moved, Phase, Closes
    <2> QED  BY <2>4, <2>5, ZenonT(60)
  <1>4. CASE moving.pc = "abort dst" /\ FcloseCall(dst) /\ moving' = Idle
    <2>1. AtAbortDst(moving, disk, file)
      BY <1>0, <1>4, PhaseIs, ZenonT(60)
    <2>2. Holds(file, dst, new) /\ Only(file, {dst})
      BY <2>1, ZenonT(60) DEF AtAbortDst
    <2>3. Closes(dst)
      BY <1>0, <1>4, <2>2, CloseHeld, ZenonT(60)
    <2>4. Only(file', {})
      BY <2>2, <2>3, ZenonT(60) DEF Only, Closes
    <2>5. Moved(moving', disk', file')
      BY <1>4, <2>4, Over0, ZenonT(60)
    <2> QED  BY <2>3, <2>5, ZenonT(60) DEF Maps, Inv, Closes
  <1> QED  BY <1>1, <1>2, <1>3, <1>4, ZenonT(60) DEF MoveClose

\* unlink for the rename.
LEMMA MoveUnlinks ==
    ASSUME StreamFlaws = {}, Inv(moving, disk, file), MoveUnlink
    PROVE  Maps
  <1>0. Proper(disk, file) /\ Moved(moving, disk, file) /\ moving.pc = "unlink"
        /\ UnlinkCall(moving.old) /\ moving' = Idle
    BY Zenon DEF Inv, MoveUnlink
  <1>1. Going(moving, disk) /\ AtUnlink(moving, disk, file)
    BY <1>0, PhaseIs, ZenonT(60)
  <1>2. moving.old \in Files /\ disk[moving.old] # NoFile /\ \A f \in Table : ~file[f].open
    BY <1>1, StdioAssumption, ZenonT(60) DEF Going, AtUnlink, Only, Text
  <1>3. Proper(disk', file') /\ Streams!StreamsNext
    BY <1>0, <1>2, UnlinkMaps, ZenonT(60)
  <1>4. Only(file', {})
    BY <1>0, <1>2, ZenonT(60) DEF Only, UnlinkCall
  <1>5. Moved(moving', disk', file')
    BY <1>0, <1>4, Over0, ZenonT(60)
  <1> QED  BY <1>3, <1>5, ZenonT(60) DEF Maps, Inv

\* rename: refused, done by the kernel, or the first step of a copy.
LEMMA RenameMaps ==
    ASSUME StreamFlaws = {}, Inv(moving, disk, file), NEW old \in Files, NEW new \in Files,
           NEW across \in BOOLEAN, Rename(old, new, across)
    PROVE  Maps
  <1>0. Proper(disk, file) /\ Moved(moving, disk, file) /\ disk \in [Names -> Text \cup {NoFile}]
    BY Zenon DEF Inv, Proper
  <1>1. moving = Idle /\ (\A f \in Table : ~file[f].open) /\ old # new /\ disk[new] = NoFile
        /\ old \in Names /\ new \in Names
    BY Zenon DEF Rename, Alone, Spared, Flawed, Names
  <1>o. Only(file, {})
    BY <1>1, Zenon DEF Only
  <1>2. CASE given' = <<NoFile>> /\ UNCHANGED <<disk, file>>
    <2>1. Streams!Refuse
      BY <1>2, Mapping, ZenonT(60) DEF Streams!Refuse
    <2>2. Streams!StreamsNext
      BY <2>1, ZenonT(60) DEF Streams!StreamsNext
    <2>3. CASE moving' = moving
      <3>1. Moved(moving', disk', file')
        BY <1>1, <1>2, <1>o, <2>3, Over0, ZenonT(60)
      <3> QED  BY <1>0, <1>2, <2>2, <3>1, ZenonT(60) DEF Maps, Inv
    <2>4. CASE moving' # moving
      <3>1. moving' = [Idle EXCEPT !.pc = "src", !.old = old, !.new = new] /\ disk[old] # NoFile
        BY <2>4, Zenon DEF Rename
      <3>2. Begun(moving', old, new)
        BY <3>1, Begins, ZenonT(60)
      <3>3. Going(moving', disk')
        BY <1>0, <1>1, <1>2, <3>1, <3>2, ZenonT(60) DEF Going, Begun
      <3>4. AtSrc(moving', disk', file')
        BY <1>1, <1>2, <1>o, <3>2, ZenonT(60) DEF AtSrc, Begun
      <3> QED  BY <1>0, <1>2, <2>2, <3>3, <3>4, ZenonT(60) DEF Maps, Inv, Moved, Phase
    <2> QED  BY <2>3, <2>4, ZenonT(60)
  <1>3. CASE ~(given' = <<NoFile>> /\ UNCHANGED <<disk, file>>)
    <2>1. /\ disk' = [disk EXCEPT ![new] = disk[old], ![old] = NoFile] /\ disk[old] # NoFile
          /\ given' = <<>> /\ file' = file /\ moving' = moving
      BY <1>3, ZenonT(60) DEF Rename
    <2>2. disk[old] \in Text
      BY <1>0, <1>1, <2>1, ZenonT(60)
    <2>3. disk' \in [Names -> Text \cup {NoFile}]
      BY <1>0, <1>1, <2>1, <2>2, ZenonT(60)
    <2>4. Proper(disk', file')
      BY <1>0, <1>1, <2>1, <2>3, ZenonT(60) DEF Proper
    <2>5. \A d, m : SeenIn(d, file, m) = d[m]
      BY <1>1, SeenClosed, ZenonT(60)
    <2>6. /\ Bytes(disk, file)[old] # NoFile /\ Bytes(disk, file)[new] = NoFile
          /\ Bytes(disk', file') = [Bytes(disk, file) EXCEPT ![new] = Bytes(disk, file)[old], ![old] = NoFile]
      <3>1. Bytes(disk, file) = disk /\ Bytes(disk', file') = disk'
        BY <1>0, <2>1, <2>3, <2>5, ZenonT(60) DEF Bytes
      <3> QED  BY <1>1, <2>1, <3>1, SMTT(20)
    <2>7. Streams!Move(old, new)
      BY <2>1, <2>6, Mapping, ZenonT(60) DEF Streams!Move
    <2>8. Streams!StreamsNext
      BY <1>1, <2>7, ZenonT(60) DEF Streams!StreamsNext, Names
    <2>9. Moved(moving', disk', file')
      BY <1>1, <1>o, <2>1, Over0, ZenonT(60)
    <2> QED  BY <2>4, <2>8, <2>9, ZenonT(60) DEF Maps, Inv
  <1> QED  BY <1>2, <1>3, ZenonT(60)

-----------------------------------------------------------------------------
(* The program's calls, and all steps *)

\* A program that has a call on an open stream is not in a rename.
LEMMA IdleIs ==
    ASSUME Inv(moving, disk, file), moving = Idle
    PROVE  Proper(disk, file) /\ Single(file)
  <1>1. Idle.pc = "idle"
    BY Zenon DEF Idle
  <1>2. "idle" \notin {"src", "dst", "read", "write", "close", "close dst", "unlink", "abort", "abort dst"}
    BY Zenon
  <1>3. ~Phase(moving, disk, file)
    BY <1>1, <1>2, ZenonT(60) DEF Phase, AtSrc, AtDst, AtRead, AtWrite, AtClose, AtCloseDst, AtUnlink,
       AtAbort, AtAbortDst
  <1> QED  BY <1>3, ZenonT(60) DEF Inv, Moved

\* A call that leaves its stream open leaves the others as they were.
LEMMA CallDone ==
    ASSUME Inv(moving, disk, file), moving = Idle, moving' = moving, NEW f \in Table, file[f].open,
           \E x, r : Does(f, x, r) /\ Streams!StreamsNext
    PROVE  Maps
  <1>1. Proper(disk, file) /\ Single(file)
    BY IdleIs, Zenon
  <1>2. /\ Proper(disk', file') /\ Streams!StreamsNext
        /\ \A g \in Table : file'[g].open = file[g].open
    BY <1>1, DoneIs, ZenonT(60)
  <1>3. Single(file')
    BY <1>1, <1>2, ZenonT(60) DEF Single
  <1> QED  BY <1>2, <1>3, ZenonT(60) DEF Maps, Inv, Moved

\* fopen, with no stream open.
LEMMA OpenStep ==
    ASSUME StreamFlaws = {}, Inv(moving, disk, file), NEW n \in Files, NEW mode \in Modes, Fopen(n, mode)
    PROVE  Maps
  <1>1. moving = Idle /\ moving' = moving /\ (\A f \in Table : ~file[f].open) /\ FopenCall(n, mode)
    BY Zenon DEF Fopen, Spared, Flawed, Alone
  <1>2. Proper(disk, file)
    BY Zenon DEF Inv
  <1>3. Opens(n, mode)
    BY <1>1, <1>2, FopenMaps, ZenonT(60)
  <1>4. Single(file')
    <2>1. CASE file' = file
      BY <1>1, <2>1, ZenonT(60) DEF Single
    <2>2. CASE \E q : file' = [file EXCEPT ![AllocFile] = q]
      <3>1. \A g \in Table \ {AllocFile} : file'[g] = file[g]
        BY <1>2, <2>2, ZenonT(60) DEF Proper
      <3> QED  BY <1>1, <3>1, ZenonT(60) DEF Single
    <2> QED  BY <1>3, <2>1, <2>2, ZenonT(60) DEF Opens
  <1> QED  BY <1>1, <1>3, <1>4, ZenonT(60) DEF Maps, Inv, Moved, Opens

\* fclose.
LEMMA CloseStep ==
    ASSUME StreamFlaws = {}, Inv(moving, disk, file), NEW f \in Table, Fclose(f)
    PROVE  Maps
  <1>1. moving = Idle /\ moving' = moving /\ file[f].open /\ FcloseCall(f)
    BY Zenon DEF Fclose, Calls
  <1>2. Proper(disk, file) /\ Single(file)
    BY <1>1, IdleIs, ZenonT(60)
  <1>3. Proper(disk', file') /\ Streams!StreamsNext /\ file' = [file EXCEPT ![f] = Zeroed]
    BY <1>1, <1>2, FcloseMaps, ZenonT(60)
  <1>4. ~file'[f].open /\ \A g \in Table \ {f} : file'[g] = file[g]
    BY <1>2, <1>3, ZeroedIs, ZenonT(60) DEF Proper
  <1>5. Single(file')
    BY <1>2, <1>4, ZenonT(60) DEF Single
  <1> QED  BY <1>1, <1>3, <1>5, ZenonT(60) DEF Maps, Inv, Moved

\* freopen of stdout.
LEMMA ReopenStep ==
    ASSUME StreamFlaws = {}, Inv(moving, disk, file), NEW n \in Files, NEW mode, Freopen(Stdout, n, mode)
    PROVE  Maps
  <1>1. moving = Idle /\ file[Stdout].open /\ Stdout \in Table
    BY Zenon DEF Freopen, Calls, Table
  <1>2. Proper(disk, file) /\ Single(file)
    BY <1>1, IdleIs, ZenonT(60)
  <1>3. \A g \in Table \ {Stdout} : ~file[g].open
    BY <1>1, <1>2, ZenonT(60) DEF Single
  <1>4. /\ Proper(disk', file') /\ Streams!StreamsNext
        /\ moving' = moving /\ \A g \in Table \ {Stdout} : ~file'[g].open
    BY <1>1, <1>2, <1>3, FreopenMaps, ZenonT(60)
  <1>5. Single(file')
    BY <1>4, ZenonT(60) DEF Single
  <1> QED  BY <1>1, <1>4, <1>5, ZenonT(60) DEF Maps, Inv, Moved

\* fread of some bytes.
LEMMA ReadStep ==
    ASSUME StreamFlaws = {}, Inv(moving, disk, file), NEW f \in Table, NEW n \in 1..MaxLen, Fread(f, n)
    PROVE  Maps
  <1>1. /\ moving = Idle /\ moving' = moving /\ file[f].open /\ ~file[f].is_console
        /\ file[f].unget = NoFile /\ FreadCall(f, n)
    BY Zenon DEF Fread, Calls, Spared, Flawed
  <1>2. n \in Nat \ {0}
    BY StdioAssumption, SMTT(30)
  <1>3. Proper(disk, file)
    BY Zenon DEF Inv
  <1>4. \E x, r : Does(f, x, r) /\ Streams!StreamsNext
    BY <1>1, <1>2, <1>3, FreadMaps, ZenonT(60)
  <1> QED  BY <1>1, <1>4, CallDone, ZenonT(60)

\* fwrite of some bytes.
LEMMA WriteStep ==
    ASSUME StreamFlaws = {}, Inv(moving, disk, file), NEW f \in Table,
           NEW k \in 1..MaxLen, NEW s \in [1..k -> Chars], Fwrite(f, s)
    PROVE  Maps
  <1>1. moving = Idle /\ moving' = moving /\ file[f].open /\ file[f].unget = NoFile /\ FwriteCall(f, s)
    BY Zenon DEF Fwrite, MayPut, Calls
  <1>2. s \in Text /\ Len(s) \in 1..MaxLen
    BY StdioAssumption, SMTT(30) DEF Text
  <1>3. Proper(disk, file)
    BY Zenon DEF Inv
  <1>4. \E x, r : Does(f, x, r) /\ Streams!StreamsNext
    BY <1>1, <1>2, <1>3, FwriteMaps, ZenonT(60)
  <1> QED  BY <1>1, <1>4, CallDone, ZenonT(60)

\* The calls with nothing to be told of a rename are those of a program that is not in one.
LEMMA StreamStep ==
    ASSUME StreamFlaws = {}, Inv(moving, disk, file), NEW f \in Table,
           \/ Fclose(f) \/ Fgetc(f) \/ Rewind(f) \/ Ftell(f) \/ Clearerr(f) \/ Fflush(f)
           \/ \E n \in 1..MaxLen : Fread(f, n)
           \/ \E s \in UNION {[1..k -> Chars] : k \in 1..MaxLen} : Fwrite(f, s)
           \/ \E b \in Chars : Fputc(f, b) \/ Ungetc(f, b)
           \/ \E n \in 2..MaxLen + 1 : Fgets(f, n)
           \/ \E from \in {"set", "cur", "end"}, by \in {-1, 1} : Fseek(f, from, by)
    PROVE  Maps
  <1>0. Proper(disk, file)
    BY Zenon DEF Inv
  <1> DEFINE Done == /\ moving = Idle /\ moving' = moving /\ file[f].open
                     /\ \E x, r : Does(f, x, r) /\ Streams!StreamsNext
  <1>d. Done => Maps
    BY CallDone, Zenon
  <1>1. CASE Fclose(f)
    BY <1>1, CloseStep, ZenonT(60)
  <1>2. CASE Fgetc(f)
    <2>1. moving = Idle
      BY <1>2, ZenonT(60) DEF Fgetc, MayGet, Calls
    <2> QED  BY <1>0, <1>2, <1>d, <2>1, FgetcMaps, ZenonT(60)
  <1>3. CASE Rewind(f)
    <2>1. moving = Idle
      BY <1>3, ZenonT(60) DEF Rewind, Calls
    <2> QED  BY <1>0, <1>3, <1>d, <2>1, RewindMaps, ZenonT(60)
  <1>4. CASE Ftell(f)
    <2>1. UNCHANGED <<disk, file, moving>> /\ Streams!StreamsNext
      BY <1>0, <1>4, FtellMaps, ZenonT(60)
    <2> QED  BY <2>1, ZenonT(60) DEF Maps
  <1>5. CASE Clearerr(f)
    <2>1. moving = Idle
      BY <1>5, ZenonT(60) DEF Clearerr, Calls
    <2> QED  BY <1>0, <1>5, <1>d, <2>1, ClearerrMaps, ZenonT(60)
  <1>6. CASE Fflush(f)
    <2>1. moving = Idle
      BY <1>6, ZenonT(60) DEF Fflush, Calls
    <2> QED  BY <1>0, <1>6, <1>d, <2>1, FflushMaps, ZenonT(60)
  <1>7. ASSUME NEW n \in 1..MaxLen, Fread(f, n)
        PROVE  Maps
    BY <1>7, ReadStep, ZenonT(60)
  <1>8. ASSUME NEW s \in UNION {[1..k -> Chars] : k \in 1..MaxLen}, Fwrite(f, s)
        PROVE  Maps
    <2>1. PICK k \in 1..MaxLen : s \in [1..k -> Chars]
      BY Zenon
    <2> QED  BY <1>8, <2>1, WriteStep, ZenonT(60)
  <1>9. ASSUME NEW b \in Chars, Fputc(f, b)
        PROVE  Maps
    <2>1. moving = Idle
      BY <1>9, Zenon DEF Fputc, MayPut, Calls
    <2> QED  BY <1>0, <1>9, <1>d, <2>1, FputcMaps, ZenonT(60)
  <1>10. ASSUME NEW b \in Chars, Ungetc(f, b)
         PROVE  Maps
    <2>1. moving = Idle
      BY <1>10, ZenonT(60) DEF Ungetc, MayGet, Calls
    <2> QED  BY <1>0, <1>10, <1>d, <2>1, UngetcMaps, ZenonT(60)
  <1>11. ASSUME NEW n \in 2..MaxLen + 1, Fgets(f, n)
         PROVE  Maps
    <2>1. moving = Idle
      BY <1>11, ZenonT(60) DEF Fgets, MayGet, Calls
    <2> QED  BY <1>0, <1>11, <1>d, <2>1, FgetsMaps, ZenonT(60)
  <1>12. ASSUME NEW from \in {"set", "cur", "end"}, NEW by \in {-1, 1}, Fseek(f, from, by)
         PROVE  Maps
    <2>1. moving = Idle
      BY <1>12, ZenonT(60) DEF Fseek, Calls
    <2> QED  BY <1>0, <1>12, <1>d, <2>1, FseekMaps, ZenonT(60)
  <1> QED
    BY <1>1, <1>2, <1>3, <1>4, <1>5, <1>6, <1>7, <1>8, <1>9, <1>10, <1>11, <1>12, ZenonT(60)

\* Every step, of a program or of a rename.
LEMMA NextMaps ==
    ASSUME StreamFlaws = {}, Inv(moving, disk, file), StdioNext
    PROVE  Maps
  <1>1. CASE Exit
    <2>1. /\ Proper(disk', file') /\ Streams!StreamsNext
          /\ moving = Idle /\ moving' = moving /\ \A f \in Table : ~file'[f].open
      BY <1>1, ExitMaps, ZenonT(60) DEF Inv
    <2> QED  BY <2>1, Zenon DEF Maps, Inv, Moved, Single
  <1>2. ASSUME NEW n \in Files, Unlink(n)
        PROVE  Maps
    <2>1. /\ moving = Idle /\ moving' = moving /\ disk[n] # NoFile /\ UnlinkCall(n)
          /\ \A f \in Table : ~file[f].open
      BY <1>2, ZenonT(60) DEF Unlink, Alone
    <2>2. Proper(disk', file') /\ Streams!StreamsNext
      BY <2>1, UnlinkMaps, ZenonT(60) DEF Inv
    <2>3. file' = file
      BY <2>1, ZenonT(60) DEF UnlinkCall
    <2> QED  BY <2>1, <2>2, <2>3, ZenonT(60) DEF Maps, Inv, Moved, Single
  <1>3. ASSUME NEW n \in Files, NEW m \in Files, NEW across \in BOOLEAN, Rename(n, m, across)
        PROVE  Maps
    BY <1>3, RenameMaps, ZenonT(60)
  <1>4. ASSUME NEW n \in Files, NEW mode \in Modes, Fopen(n, mode)
        PROVE  Maps
    BY <1>4, OpenStep, ZenonT(60)
  <1>5. ASSUME NEW n \in Files, NEW mode, Freopen(Stdout, n, mode)
        PROVE  Maps
    BY <1>5, ReopenStep, ZenonT(60)
  <1> QED
    BY <1>1, <1>2, <1>3, <1>4, <1>5, MoveOpens, MoveReads, MoveWrites, MoveCloses, MoveUnlinks,
       StreamStep, ZenonT(60) DEF StdioNext, Modes

\* The streams a program starts with.
LEMMA InitMaps ==
    ASSUME StdioInit
    PROVE  Inv(moving, disk, file) /\ Streams!StreamsInit
  <1> DEFINE F == [f \in Table |-> IF f = Stdout THEN Console ELSE Zeroed]
  <1>1. disk \in [Names -> Text \cup {NoFile}]
    <2>1. [1..MaxLen -> Chars] \subseteq Text
      BY StdioAssumption, SMTT(30) DEF Text
    <2>2. <<>> \in Text
      BY Empty, Zenon
    <2> QED  BY <2>1, <2>2, ZenonT(60) DEF StdioInit, Names
  <1>2. \A f \in Table : file[f] = Zeroed \/ (file[f] = Console /\ f = Stdout /\ disk[Con] = <<>>)
    <2>1. CASE file = [f \in Table |-> Zeroed]
      BY <2>1, ZenonT(60)
    <2>2. CASE /\ disk \in [Files \cup {Con} -> {NoFile, <<>>}]
               /\ disk[Con] # NoFile
               /\ file = F
      <3>1. disk[Con] = <<>>
        BY <2>2, Zenon
      <3>2. \A f \in Table : file[f] = IF f = Stdout THEN Console ELSE Zeroed
        BY <2>2, Zenon
      <3> QED  BY <3>1, <3>2, ZenonT(60)
    <2> QED  BY <2>1, <2>2, ZenonT(60) DEF StdioInit
  <1>3. file \in [Table -> Entry]
    <2>1. Zeroed \in Entry /\ Console \in Entry
      BY ZeroedIs, ConsoleIs, ZenonT(60)
    <2>2. \A f \in Table : F[f] \in Entry
      BY <2>1, Zenon
    <2> QED  BY <2>1, <2>2, ZenonT(60) DEF StdioInit
  <1>4. \A f \in Table : file[f].open => f = Stdout /\ file[f] = Console /\ disk[Con] = <<>>
    BY <1>2, ZeroedIs, ZenonT(60)
  <1>5. disk[Con] = <<>> => Placed(disk, Console)
    BY ConsoleIs, Empty, SMTT(30) DEF Placed, Names
  <1>6. Proper(disk, file)
    BY <1>1, <1>3, <1>4, <1>5, ZenonT(60) DEF Proper
  <1>7. Single(file)
    BY <1>4, ZenonT(60) DEF Single
  <1>8. Inv(moving, disk, file)
    BY <1>6, <1>7, ZenonT(60) DEF Inv, Moved, StdioInit
  <1>9. \A f \in Table : Cursors(file)[f] \in {NoFile} \cup {Streams!At(n, 0) : n \in Names}
    <2>1. CursorOf(Zeroed) = NoFile
      BY ZeroedIs, ZenonT(60) DEF CursorOf
    <2>2. CursorOf(Console) = Streams!At(Con, 0)
      <3>1. Console.pos + Len(Console.wbuf) = 0
        BY ConsoleIs, Empty, SMTT(30)
      <3> QED  BY <3>1, ConsoleIs, ZenonT(60) DEF CursorOf, Streams!At
    <2>3. Con \in Names
      BY Zenon DEF Names
    <2>4. \A f \in Table : Cursors(file)[f] \in {CursorOf(Zeroed), CursorOf(Console)}
      BY <1>2, Zenon DEF Cursors
    <2> QED  BY <2>1, <2>2, <2>3, <2>4, ZenonT(60)
  <1>10. \A n \in Names : Bytes(disk, file)[n] \in {NoFile} \cup Text
    <2> TAKE n \in Names
    <2>1. CASE \A f \in Table : file[f].open => file[f].name # n
      <3>1. SeenIn(disk, file, n) = disk[n]
        BY <2>1, SeenClosed, ZenonT(60)
      <3> QED  BY <1>1, <3>1, ZenonT(60) DEF Bytes
    <2>2. ASSUME NEW f \in Table, file[f].open, file[f].name = n
          PROVE  Bytes(disk, file)[n] \in {NoFile} \cup Text
      <3>1. file[f] \in Entry /\ file[f].wbuf = <<>>
        BY <1>3, <1>4, <2>2, ConsoleIs, ZenonT(60)
      <3>2. \A g \in Table : file[g].open => file[g].wbuf = <<>>
        BY <1>4, ConsoleIs, ZenonT(60)
      <3>3. SeenIn(disk, file, n) = disk[n]
        BY <3>2, Zenon DEF SeenIn
      <3> QED  BY <1>1, <3>3, ZenonT(60) DEF Bytes
    <2> QED  BY <2>1, <2>2, ZenonT(60)
  <1>11. Bytes(disk, file) \in [Names -> {NoFile} \cup Text]
         /\ Cursors(file) \in [Table -> {NoFile} \cup {Streams!At(n, 0) : n \in Names}]
    BY <1>9, <1>10, ZenonT(60) DEF Bytes, Cursors
  <1>12. Streams!StreamsInit
    BY <1>11, Mapping, ZenonT(60) DEF Streams!StreamsInit, StdioInit, Names, Text
  <1> QED  BY <1>8, <1>12, ZenonT(60)

\* A step that changes nothing changes nothing that is seen.
LEMMA StillMaps ==
    ASSUME Inv(moving, disk, file), UNCHANGED stdioVars
    PROVE  Inv(moving, disk, file)' /\ UNCHANGED Streams!streamVars
  <1>1. disk' = disk /\ file' = file /\ given' = given /\ moving' = moving
    BY Zenon DEF stdioVars
  <1>2. Bytes(disk', file') = Bytes(disk, file) /\ Cursors(file') = Cursors(file)
    BY <1>1, ZenonT(60)
  <1>3. UNCHANGED Streams!streamVars
    BY <1>1, <1>2, Mapping, ZenonT(60) DEF Streams!streamVars
  <1> QED  BY <1>1, <1>3, ZenonT(60)

\* No call and no failure of those StreamFlaws names.  Left out of what C allows: fread, or
\* fseek from where the stream is, with a byte pushed back ("pushed"), ftell with bytes in
\* the buffer or one pushed back ("tell"), exit ("exit") and freopen ("reopen") with bytes in
\* the buffer, freopen that creates its file ("reopen"), a second stream ("shared") and a
\* rename onto a file that is there ("onto").  Left out of what the kernel may do: reads that
\* fail ("badread"), writes cut short ("short"), and failures of the last write of fclose
\* and rewind ("badflush").  What C does not allow is a read after a write with no call that
\* positions the stream between them ("mix").
NoFlaws == StreamFlaws = {}

\* What the steps keep.
StdioInv == Inv(moving, disk, file)

\* The inductive invariant of the streams: an open stream has its place in a file that is
\* there, no two of them share a file, and a rename that copies has copied what it says.
THEOREM StreamsStayProper ==
    ASSUME NoFlaws
    PROVE  StdioSpec => []StdioInv
  <1> USE DEF NoFlaws
  <1>1. StdioInit => StdioInv
    BY InitMaps, ZenonT(60) DEF StdioInv
  <1>2. StdioInv /\ [StdioNext]_stdioVars => StdioInv'
    <2>1. ASSUME StdioInv, StdioNext PROVE StdioInv'
      BY <2>1, NextMaps, ZenonT(60) DEF StdioInv, Maps
    <2>2. ASSUME StdioInv, UNCHANGED stdioVars PROVE StdioInv'
      BY <2>2, StillMaps, ZenonT(60) DEF StdioInv
    <2> QED  BY <2>1, <2>2, ZenonT(60)
  <1> QED  BY <1>1, <1>2, PTL DEF StdioSpec

\* fopen, fread, fwrite, fputc, fgetc, fgets, ungetc, fseek, rewind, ftell, fflush, fclose,
\* freopen, rename and exit of stdio.rs are the calls of ByteStreams: what a program put is in
\* the file and what it reads is what comes next.  NoFlaws leaves out what C allows and the
\* library gets wrong, and what C does not allow: see there.
THEOREM BuffersAreInvisible ==
    ASSUME NoFlaws
    PROVE  StdioSpec => StreamsAreFiles
  <1> USE DEF NoFlaws
  <1>1. StdioInit => Streams!StreamsInit
    BY InitMaps, Zenon
  <1>2. StdioInv /\ [StdioNext]_stdioVars => [Streams!StreamsNext]_(Streams!streamVars)
    <2>1. ASSUME StdioInv, StdioNext PROVE Streams!StreamsNext
      BY <2>1, NextMaps, ZenonT(60) DEF StdioInv, Maps
    <2>2. ASSUME StdioInv, UNCHANGED stdioVars PROVE UNCHANGED Streams!streamVars
      BY <2>2, StillMaps, ZenonT(60) DEF StdioInv
    <2> QED  BY <2>1, <2>2, ZenonT(60)
  <1>3. StdioSpec => []StdioInv
    BY StreamsStayProper, Zenon
  <1> QED  BY <1>1, <1>2, <1>3, PTL DEF StdioSpec, StreamsAreFiles, Streams!StreamsSpec

\* rename_cross_device of stdio.rs deletes the original only when the copy has all of it,
\* whatever writes to the other drive fail.  It does not when a read of the original fails,
\* or when the new name is that of a longer file: NoFlaws leaves both out.
THEOREM RenameLosesNothing ==
    ASSUME NoFlaws
    PROVE  StdioSpec => []MoveKeepsBytes
  <1>1. StdioInv => MoveKeepsBytes
    <2> SUFFICES ASSUME StdioInv, moving.pc = "unlink"
                 PROVE  disk[moving.new] = disk[moving.old]
      BY Zenon DEF MoveKeepsBytes
    <2>1. moving.pc # "idle"
      BY Zenon
    <2>2. AtUnlink(moving, disk, file)
      BY <2>1, PhaseIs, Zenon DEF StdioInv, Inv
    <2> QED  BY <2>2, Zenon DEF AtUnlink
  <1>2. StdioSpec => []StdioInv
    BY StreamsStayProper, Zenon
  <1> QED  BY <1>1, <1>2, PTL

=============================================================================
