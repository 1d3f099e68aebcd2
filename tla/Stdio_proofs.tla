---------------------------- MODULE Stdio_proofs ----------------------------
(***************************************************************************)
(* The calls of stdio.rs as steps of ByteStreams, for every buffer size,   *)
(* every set of files and bytes and every size of the table of streams.    *)
(*                                                                         *)
(* The argument is about one stream at a time. Proper says what the table  *)
(* and the files have in common: an open stream has its place within a     *)
(* file that is there, the console's stream at its end, and no two streams *)
(* have the same file. What the program sees of a file is then the file    *)
(* with the buffer of its one stream written over it (SeenOpen), and a     *)
(* call, which changes one entry and the bytes of one file, changes what   *)
(* is seen of that file only (OneStep). Emptying a buffer changes nothing  *)
(* that is seen (Flush). What remains for each call is that writing twice  *)
(* in a row is writing once (OverOver).                                    *)
(***************************************************************************)
EXTENDS Stdio, WellFoundedInduction, TLAPS

Names == Files \cup {Con}
Text == Seq(Chars)
Over(f, at, s) == Streams!Over(f, at, s)

-----------------------------------------------------------------------------
(* Numbers and bytes *)

\* A set of numbers that is not empty has a least one.
LEMMA HasLeast ==
    ASSUME NEW T, T \subseteq Nat, T # {}
    PROVE  \E x \in T : \A y \in T : x <= y
  <1> DEFINE R == OpToRel(<, Nat)
  <1>1. IsWellFoundedOn(R, Nat)
    BY NatLessThanWellFounded, Zenon
  <1>2. \A x, y \in Nat : y < x => <<y, x>> \in R
    BY Zenon DEF OpToRel
  <1> HIDE DEF R
  <1>3. PICK x \in T : \A y \in T : ~ (<<y, x>> \in R)
    BY <1>1, WFMin, Zenon
  <1>4. \A y \in T : ~(y < x)
    BY <1>2, <1>3, Zenon
  <1> QED  BY <1>4

\* Bytes that agree at every place are the same.
LEMMA SameText ==
    ASSUME NEW s \in Text, NEW t \in Text, Len(s) = Len(t), \A i \in 1..Len(s) : s[i] = t[i]
    PROVE  s = t
  BY DEF Text

\* The text without a byte.
LEMMA Empty ==
    /\ <<>> \in Text /\ Len(<<>>) = 0
    /\ \A s \in Text : Len(s) \in Nat /\ (Len(s) = 0 <=> s = <<>>)
  BY DEF Text

\* The first n bytes of a text, and what is left from there on.
LEMMA Cut ==
    ASSUME NEW s \in Text, NEW n \in 0..Len(s)
    PROVE  /\ SubSeq(s, 1, n) \in Text /\ Len(SubSeq(s, 1, n)) = n
           /\ \A i \in 1..n : SubSeq(s, 1, n)[i] = s[i]
           /\ SubSeq(s, n + 1, Len(s)) \in Text /\ Len(SubSeq(s, n + 1, Len(s))) = Len(s) - n
           /\ \A i \in 1..Len(s) - n : SubSeq(s, n + 1, Len(s))[i] = s[n + i]
  BY DEF Text

\* One text behind another.
LEMMA Joined ==
    ASSUME NEW s \in Text, NEW t \in Text
    PROVE  /\ s \o t \in Text /\ Len(s \o t) = Len(s) + Len(t) /\ Len(s) \in Nat /\ Len(t) \in Nat
           /\ \A i \in 1..Len(s) + Len(t) : (s \o t)[i] = IF i > Len(s) THEN t[i - Len(s)] ELSE s[i]
  BY DEF Text

\* A text of one byte.
LEMMA One ==
    ASSUME NEW b \in Chars
    PROVE  <<b>> \in Text /\ Len(<<b>>) = 1 /\ <<b>>[1] = b /\ <<b>> # <<>>
  BY DEF Text

\* Its first byte is the beginning of a text.
LEMMA First ==
    ASSUME NEW s \in Text, s # <<>>
    PROVE  s[1] \in Chars /\ Len(s) >= 1 /\ SubSeq(s, 1, 1) = <<s[1]>>
  <1>1. Len(s) \in Nat /\ Len(s) >= 1
    BY Empty
  <1>2. s[1] \in Chars
    BY <1>1 DEF Text
  <1>3. 1 \in 0..Len(s) /\ 1 \in 1..1
    BY <1>1
  <1>4. SubSeq(s, 1, 1) \in Text /\ Len(SubSeq(s, 1, 1)) = 1 /\ SubSeq(s, 1, 1)[1] = s[1]
    BY <1>3, Cut, Zenon
  <1>5. <<s[1]>> \in Text /\ Len(<<s[1]>>) = 1 /\ <<s[1]>>[1] = s[1]
    BY <1>2, One, Zenon
  <1>6. \A i \in 1..1 : i = 1
    OBVIOUS
  <1>7. SubSeq(s, 1, 1) = <<s[1]>>
    BY <1>4, <1>5, <1>6, SameText, Zenon
  <1> QED  BY <1>1, <1>2, <1>7, Zenon

\* A text behind one byte, and behind none.
LEMMA Behind ==
    ASSUME NEW s \in Text
    PROVE  /\ <<>> \o s = s
           /\ \A b \in Chars : /\ <<b>> \o s \in Text /\ Len(<<b>> \o s) = 1 + Len(s)
                               /\ (<<b>> \o s)[1] = b
  <1>1. <<>> \o s = s
    BY DEF Text
  <1>2. ASSUME NEW b \in Chars
        PROVE  <<b>> \o s \in Text /\ Len(<<b>> \o s) = 1 + Len(s) /\ (<<b>> \o s)[1] = b
    <2>1. <<b>> \in Text /\ Len(<<b>>) = 1 /\ <<b>>[1] = b
      BY One, Zenon
    <2>2. Len(s) \in Nat
      BY Empty, Zenon
    <2>3. <<b>> \o s \in Text /\ Len(<<b>> \o s) = Len(<<b>>) + Len(s)
          /\ \A i \in 1..Len(<<b>>) + Len(s) :
               (<<b>> \o s)[i] = IF i > Len(<<b>>) THEN s[i - Len(<<b>>)] ELSE <<b>>[i]
      BY <2>1, Joined, Zenon
    <2>4. 1 \in 1..1 + Len(s) /\ ~(1 > 1)
      BY <2>2
    <2> QED  BY <2>1, <2>3, <2>4, Zenon
  <1> QED  BY <1>1, <1>2, Zenon

\* What n bytes from place a on leave of a text of m bytes.
LEMMA Lengths ==
    ASSUME NEW a \in Nat, NEW n \in Nat, NEW m \in Nat, a <= m
    PROVE  LET r == IF a + n <= m THEN m - (a + n) ELSE 0
           IN  r \in Nat /\ (a + n) + r = IF a + n > m THEN a + n ELSE m
  OBVIOUS

\* What writing s over f from place at on leaves.
LEMMA OverIs ==
    ASSUME NEW f \in Text, NEW at \in 0..Len(f), NEW s \in Text
    PROVE  /\ Over(f, at, s) \in Text
           /\ Len(Over(f, at, s)) = IF at + Len(s) > Len(f) THEN at + Len(s) ELSE Len(f)
           /\ \A i \in 1..Len(Over(f, at, s)) :
                Over(f, at, s)[i] = IF i > at /\ i <= at + Len(s) THEN s[i - at] ELSE f[i]
  <1> DEFINE left == SubSeq(f, 1, at)
             right == SubSeq(f, at + Len(s) + 1, Len(f))
             half == left \o s
  <1>0. Len(f) \in Nat /\ Len(s) \in Nat /\ at \in Nat /\ at <= Len(f)
    BY DEF Text
  <1>1. left \in Text /\ Len(left) = at /\ \A i \in 1..at : left[i] = f[i]
    BY Cut, Zenon
  <1>2. /\ right \in Text
        /\ Len(right) = IF at + Len(s) <= Len(f) THEN Len(f) - (at + Len(s)) ELSE 0
        /\ \A i \in 1..Len(right) : right[i] = f[at + Len(s) + i]
    <2>1. CASE at + Len(s) <= Len(f)
      <3>1. at + Len(s) \in 0..Len(f)
        BY <1>0, <2>1
      <3> QED  BY <2>1, <3>1, Cut
    <2>2. CASE ~(at + Len(s) <= Len(f))
      <3>1. right = <<>>
        BY <1>0, <2>2 DEF Text
      <3> QED  BY <2>2, <3>1 DEF Text
    <2> QED  BY <2>1, <2>2, Zenon
  <1> HIDE DEF left, right
  <1>3. /\ half \in Text /\ Len(half) = at + Len(s)
        /\ \A i \in 1..at + Len(s) : half[i] = IF i > at THEN s[i - at] ELSE left[i]
    BY <1>1, Joined, Zenon
  <1> HIDE DEF half
  <1>4. Over(f, at, s) = half \o right
    BY Zenon DEF Over, Streams!Over, left, right, half
  <1>5. /\ half \o right \in Text /\ Len(half \o right) = Len(half) + Len(right)
        /\ \A i \in 1..Len(half) + Len(right) :
             (half \o right)[i] = IF i > Len(half) THEN right[i - Len(half)] ELSE half[i]
    BY <1>2, <1>3, Joined, Zenon
  <1>l. Len(right) = (IF at + Len(s) <= Len(f) THEN Len(f) - (at + Len(s)) ELSE 0)
        /\ Len(half) = at + Len(s)
    BY <1>2, <1>3, Zenon
  <1>6. Len(right) \in Nat
        /\ Len(half) + Len(right) = IF at + Len(s) > Len(f) THEN at + Len(s) ELSE Len(f)
    <2>1. LET r == IF at + Len(s) <= Len(f) THEN Len(f) - (at + Len(s)) ELSE 0
          IN  r \in Nat /\ (at + Len(s)) + r = IF at + Len(s) > Len(f) THEN at + Len(s) ELSE Len(f)
      BY <1>0, Lengths, ZenonT(60)
    <2> QED  BY <1>l, <2>1, Zenon
  <1>7. ASSUME NEW i \in 1..Len(half) + Len(right)
        PROVE  (half \o right)[i] = IF i > at /\ i <= at + Len(s) THEN s[i - at] ELSE f[i]
    <2>0. i \in Nat /\ i >= 1 /\ Len(right) \in Nat /\ i <= at + Len(s) + Len(right)
      <3>1. Len(half) \in Nat
        BY <1>0, <1>l
      <3>2. i \in Nat /\ i >= 1 /\ i <= Len(half) + Len(right)
        BY <1>6, <3>1
      <3> QED  BY <1>6, <1>l, <3>2, Zenon
    <2>1. CASE i > at + Len(s)
      <3>1. (half \o right)[i] = right[i - (at + Len(s))]
        BY <1>3, <1>5, <2>1, Zenon
      <3>2. i - (at + Len(s)) \in 1..Len(right) /\ at + Len(s) + (i - (at + Len(s))) = i
        BY <1>0, <2>0, <2>1
      <3>3. right[i - (at + Len(s))] = f[i]
        BY <1>2, <3>2, Zenon
      <3> QED  BY <1>0, <2>0, <2>1, <3>1, <3>3
    <2>2. CASE i <= at + Len(s)
      <3>1. (half \o right)[i] = IF i > at THEN s[i - at] ELSE left[i]
        BY <1>0, <1>3, <1>5, <2>0, <2>2
      <3>2. ~(i > at) => left[i] = f[i]
        BY <1>0, <1>1, <2>0
      <3> QED  BY <2>2, <3>1, <3>2, Zenon
    <2> QED  BY <1>0, <2>0, <2>1, <2>2, SMTT(20)
  <1> QED  BY <1>4, <1>5, <1>6, <1>7, Zenon

\* Writing nothing changes nothing.
LEMMA OverNothing ==
    ASSUME NEW f \in Text, NEW at \in 0..Len(f)
    PROVE  Over(f, at, <<>>) = f
  <1>1. <<>> \in Text /\ Len(<<>>) = 0 /\ Len(f) \in Nat /\ at \in Nat /\ at <= Len(f)
    BY DEF Text
  <1> DEFINE o == Over(f, at, <<>>)
  <1>2. /\ o \in Text /\ Len(o) = IF at + Len(<<>>) > Len(f) THEN at + Len(<<>>) ELSE Len(f)
        /\ \A i \in 1..Len(o) : o[i] = IF i > at /\ i <= at + Len(<<>>) THEN <<>>[i - at] ELSE f[i]
    BY <1>1, OverIs, Zenon
  <1> HIDE DEF o
  <1>3. Len(o) = Len(f) /\ \A i \in 1..Len(o) : o[i] = f[i]
    BY <1>1, <1>2
  <1> QED  BY <1>2, <1>3, SameText, Zenon DEF o

\* Writing at the end appends.
LEMMA OverEnd ==
    ASSUME NEW f \in Text, NEW s \in Text
    PROVE  Over(f, Len(f), s) = f \o s
  <1> DEFINE o == Over(f, Len(f), s)
  <1>0. Len(f) \in 0..Len(f) /\ Len(f) \in Nat /\ Len(s) \in Nat
    BY DEF Text
  <1>1. f \o s \in Text /\ Len(f \o s) = Len(f) + Len(s)
        /\ \A i \in 1..Len(f) + Len(s) : (f \o s)[i] = IF i > Len(f) THEN s[i - Len(f)] ELSE f[i]
    BY Joined, Zenon
  <1>2. /\ o \in Text /\ Len(o) = IF Len(f) + Len(s) > Len(f) THEN Len(f) + Len(s) ELSE Len(f)
        /\ \A i \in 1..Len(o) : o[i] = IF i > Len(f) /\ i <= Len(f) + Len(s) THEN s[i - Len(f)] ELSE f[i]
    BY <1>0, OverIs, Zenon
  <1> HIDE DEF o
  <1>3. Len(o) = Len(f \o s) /\ \A i \in 1..Len(o) : o[i] = (f \o s)[i]
    BY <1>0, <1>1, <1>2
  <1> QED  BY <1>1, <1>2, <1>3, SameText, Zenon DEF o

\* Writing twice in a row is writing once.
LEMMA OverOver ==
    ASSUME NEW f \in Text, NEW at \in 0..Len(f), NEW s \in Text, NEW t \in Text
    PROVE  Over(Over(f, at, s), at + Len(s), t) = Over(f, at, s \o t)
  <1> DEFINE one == Over(f, at, s)
             two == Over(one, at + Len(s), t)
             all == Over(f, at, s \o t)
  <1>1. s \o t \in Text /\ Len(s \o t) = Len(s) + Len(t)
        /\ \A i \in 1..Len(s) + Len(t) : (s \o t)[i] = IF i > Len(s) THEN t[i - Len(s)] ELSE s[i]
    BY DEF Text
  <1>2. /\ one \in Text
        /\ Len(one) = IF at + Len(s) > Len(f) THEN at + Len(s) ELSE Len(f)
        /\ \A i \in 1..Len(one) : one[i] = IF i > at /\ i <= at + Len(s) THEN s[i - at] ELSE f[i]
    BY OverIs, Zenon
  <1>3. at + Len(s) \in 0..Len(one)
    BY <1>2 DEF Text
  <1> HIDE DEF one
  <1>4. /\ two \in Text
        /\ Len(two) = IF at + Len(s) + Len(t) > Len(one) THEN at + Len(s) + Len(t) ELSE Len(one)
        /\ \A i \in 1..Len(two) :
             two[i] = IF i > at + Len(s) /\ i <= at + Len(s) + Len(t) THEN t[i - (at + Len(s))] ELSE one[i]
    BY <1>2, <1>3, OverIs, Zenon
  <1>5. /\ all \in Text
        /\ Len(all) = IF at + Len(s \o t) > Len(f) THEN at + Len(s \o t) ELSE Len(f)
        /\ \A i \in 1..Len(all) :
             all[i] = IF i > at /\ i <= at + Len(s \o t) THEN (s \o t)[i - at] ELSE f[i]
    BY <1>1, OverIs, Zenon
  <1> HIDE DEF two, all
  <1>6. Len(two) = Len(all)
    <2>1. /\ Len(s \o t) = Len(s) + Len(t)
          /\ Len(one) = IF at + Len(s) > Len(f) THEN at + Len(s) ELSE Len(f)
          /\ Len(two) = IF at + Len(s) + Len(t) > Len(one) THEN at + Len(s) + Len(t) ELSE Len(one)
          /\ Len(all) = IF at + Len(s \o t) > Len(f) THEN at + Len(s \o t) ELSE Len(f)
      BY <1>1, <1>2, <1>4, <1>5, Zenon
    <2>2. Len(s) \in Nat /\ Len(t) \in Nat /\ Len(f) \in Nat /\ at \in Nat
      BY DEF Text
    <2> QED  BY <2>1, <2>2
  <1>7. ASSUME NEW i \in 1..Len(two) PROVE two[i] = all[i]
    <2>0. Len(s) \in Nat /\ Len(t) \in Nat /\ Len(f) \in Nat /\ at \in Nat /\ i \in Nat
      BY <1>4, SMTT(30) DEF Text
    <2>1. CASE i > at + Len(s) /\ i <= at + Len(s) + Len(t)
      <3>1. two[i] = t[i - (at + Len(s))]
        BY <1>4, <2>1, Zenon
      <3>2. all[i] = (s \o t)[i - at] /\ i - at \in 1..Len(s) + Len(t) /\ i - at > Len(s)
        <4>1. Len(s \o t) = Len(s) + Len(t) /\ i \in 1..Len(all)
          BY <1>1, <1>6, Zenon
        <4>2. i > at /\ i <= at + Len(s \o t) /\ i - at \in 1..Len(s) + Len(t) /\ i - at > Len(s)
          BY <2>0, <2>1, <4>1
        <4> QED  BY <1>5, <4>1, <4>2, Zenon
      <3>3. (i - at) - Len(s) = i - (at + Len(s))
        BY <2>0
      <3> QED  BY <1>1, <3>1, <3>2, <3>3, Zenon
    <2>2. CASE i > at /\ i <= at + Len(s)
      <3>1. two[i] = one[i]
        BY <1>4, <2>0, <2>2
      <3>2. i \in 1..Len(one)
        BY <1>2, <2>0, <2>2
      <3>3. all[i] = (s \o t)[i - at] /\ i - at \in 1..Len(s) + Len(t) /\ ~(i - at > Len(s))
        <4>1. Len(s \o t) = Len(s) + Len(t) /\ i \in 1..Len(all)
          BY <1>1, <1>6, Zenon
        <4>2. i > at /\ i <= at + Len(s \o t) /\ i - at \in 1..Len(s) + Len(t) /\ ~(i - at > Len(s))
          BY <2>0, <2>2, <4>1
        <4> QED  BY <1>5, <4>1, <4>2, Zenon
      <3> QED  BY <1>1, <1>2, <2>2, <3>1, <3>2, <3>3, Zenon
    <2>3. CASE i <= at \/ i > at + Len(s) + Len(t)
      <3>1. two[i] = one[i] /\ all[i] = f[i]
        <4>1. Len(s \o t) = Len(s) + Len(t) /\ i \in 1..Len(all)
          BY <1>1, <1>6, Zenon
        <4>2. ~(i > at + Len(s) /\ i <= at + Len(s) + Len(t)) /\ ~(i > at /\ i <= at + Len(s \o t))
          BY <2>0, <2>3, <4>1
        <4> QED  BY <1>4, <1>5, <4>1, <4>2, Zenon
      <3>2. i \in 1..Len(one)
        BY <1>2, <1>4, <2>0, <2>3
      <3>3. ~(i > at /\ i <= at + Len(s))
        BY <2>0, <2>3
      <3> QED  BY <1>2, <3>1, <3>2, <3>3, Zenon
    <2> QED  BY <2>0, <2>1, <2>2, <2>3
  <1> QED  BY <1>4, <1>5, <1>6, <1>7, SameText, Zenon DEF one, two, all

-----------------------------------------------------------------------------
(* What is seen of a table of streams over files *)

Entry == [open : BOOLEAN, name : Names \cup {NoFile}, pos : Nat, error : BOOLEAN, eof : BOOLEAN,
          is_console : BOOLEAN, unget : Chars \cup {NoFile}, wbuf : Text]

\* The stream r has a place in a file that is there.
Placed(d, r) ==
    /\ r.name \in Names
    /\ d[r.name] \in Text
    /\ r.pos <= Len(d[r.name])
    /\ r.is_console <=> r.name = Con
    /\ r.name = Con => r.pos = Len(d[Con])

Proper(d, F) ==
    /\ d \in [Names -> Text \cup {NoFile}]
    /\ F \in [Table -> Entry]
    /\ \A f \in Table : F[f].open => Placed(d, F[f])
    /\ \A f, g \in Table : F[f].open /\ F[g].open /\ F[f].name = F[g].name => f = g

\* An entry with another place and another buffer.
Changed(r, at, w) == [r EXCEPT !.pos = at, !.wbuf = w]

Resembles(q, r, at, w) ==
    /\ q \in Entry /\ q.open = r.open /\ q.name = r.name /\ q.pos = at /\ q.wbuf = w
    /\ q.error = r.error /\ q.is_console = r.is_console /\ q.unget = r.unget

\* The two fields take their new values and the others stay.
LEMMA ChangedIs ==
    ASSUME NEW r \in Entry, NEW at \in Nat, NEW w \in Text
    PROVE  Resembles(Changed(r, at, w), r, at, w)
  BY Zenon DEF Changed, Resembles, Entry

\* Seen and Cursor of the files d and the table F.
SeenIn(d, F, n) ==
    LET holding == {f \in Table : F[f].open /\ F[f].name = n /\ F[f].wbuf # <<>>} IN
    IF holding = {} THEN d[n]
    ELSE LET r == F[CHOOSE f \in holding : TRUE] IN WriteAt(d, n, r.pos, r.wbuf)[n]

CursorOf(r) ==
    IF ~r.open THEN NoFile
    ELSE [name |-> r.name, at |-> r.pos + Len(r.wbuf), back |-> r.unget, failed |-> r.error]

Bytes(d, F) == [n \in Names |-> SeenIn(d, F, n)]
Cursors(F) == [f \in Table |-> CursorOf(F[f])]

\* What a stream's file is to the program: its buffer written over it.
View(d, r) == Over(d[r.name], r.pos, r.wbuf)

\* A file that has no open stream is seen as it is.
LEMMA SeenClosed ==
    ASSUME NEW d, NEW F, NEW n, \A f \in Table : F[f].open => F[f].name # n
    PROVE  SeenIn(d, F, n) = d[n]
  BY Zenon DEF SeenIn

\* A file that has one is seen with what the stream holds back written over it.
LEMMA SeenOpen ==
    ASSUME NEW d, NEW F, Proper(d, F), NEW f \in Table, F[f].open
    PROVE  SeenIn(d, F, F[f].name) = View(d, F[f])
  <1> DEFINE r == F[f]
             n == r.name
             holding == {g \in Table : F[g].open /\ F[g].name = n /\ F[g].wbuf # <<>>}
  <1>1. Placed(d, r) /\ r \in Entry
    BY Zenon DEF Proper
  <1>2. \A g \in Table : F[g].open /\ F[g].name = n => g = f
    BY Zenon DEF Proper
  <1>3. r.pos \in 0..Len(d[n]) /\ d[n] \in Text /\ r.wbuf \in Text
    BY <1>1 DEF Placed, Entry, Text
  <1>4. CASE r.wbuf = <<>>
    <2>1. holding = {}
      BY <1>2, <1>4, Zenon
    <2>2. SeenIn(d, F, n) = d[n]
      BY <2>1, Zenon DEF SeenIn
    <2>3. Over(d[n], r.pos, <<>>) = d[n]
      BY <1>3, OverNothing, Zenon
    <2> QED  BY <1>4, <2>2, <2>3, Zenon DEF View
  <1>5. CASE r.wbuf # <<>>
    <2>1. f \in holding /\ \A g \in holding : g = f
      BY <1>2, <1>5, Zenon
    <2>2. holding # {} /\ (CHOOSE g \in holding : TRUE) = f
      BY <2>1, Zenon
    <2>3. SeenIn(d, F, n) = WriteAt(d, n, r.pos, r.wbuf)[n]
      BY <2>2, Zenon DEF SeenIn
    <2>4. n \in DOMAIN d
      BY <1>1, Zenon DEF Proper, Placed
    <2>5. CASE n = Con
      <3>1. SeenIn(d, F, n) = d[n] \o r.wbuf /\ r.pos = Len(d[n])
        BY <1>1, <2>3, <2>4, <2>5, Zenon DEF WriteAt, Placed
      <3> QED  BY <1>3, <3>1, OverEnd, Zenon DEF View
    <2>6. CASE n # Con
      BY <2>3, <2>4, <2>6, Zenon DEF WriteAt, View, Over, Streams!Over
    <2> QED  BY <2>5, <2>6, Zenon
  <1> QED  BY <1>4, <1>5, Zenon

\* The place of an open stream is none of NoFile's.
LEMMA CursorIs ==
    ASSUME NEW r \in Entry, r.name \in Names
    PROVE  r.open <=> CursorOf(r) # NoFile
  <1>1. r.pos + Len(r.wbuf) \in Nat /\ r.unget \in Chars \cup {NoFile} /\ r.error \in BOOLEAN
    BY DEF Entry, Text
  <1>2. [name |-> r.name, at |-> r.pos + Len(r.wbuf), back |-> r.unget, failed |-> r.error]
          \in [name : Names, at : Nat, back : Chars \cup {NoFile}, failed : BOOLEAN]
    BY <1>1, Zenon
  <1> QED  BY <1>2, StdioAssumption, Zenon DEF CursorOf, Names

\* Every call changes one entry and the bytes of one file; that file is seen differently
\* and no other one.
Stepped(d, F, f, n, x, r) ==
    /\ Proper([d EXCEPT ![n] = x], [F EXCEPT ![f] = r])
    /\ Cursors([F EXCEPT ![f] = r]) = [Cursors(F) EXCEPT ![f] = CursorOf(r)]
    /\ Bytes([d EXCEPT ![n] = x], [F EXCEPT ![f] = r])
         = [Bytes(d, F) EXCEPT ![n] = IF r.open THEN Over(x, r.pos, r.wbuf) ELSE x]

\* A call that leaves the entry r and the bytes x keeps the table proper and changes one
\* cursor and one file of what is seen.
LEMMA OneStep ==
    ASSUME NEW d, NEW F, Proper(d, F), NEW f \in Table, NEW r \in Entry,
           NEW n \in Names, NEW x \in Text \cup {NoFile},
           F[f].open => F[f].name = n,
           \A g \in Table \ {f} : F[g].open => F[g].name # n,
           r.open => r.name = n /\ Placed([d EXCEPT ![n] = x], r)
    PROVE  Stepped(d, F, f, n, x, r)
  <1> DEFINE d2 == [d EXCEPT ![n] = x]
             F2 == [F EXCEPT ![f] = r]
  <1>1. d2 \in [Names -> Text \cup {NoFile}] /\ d2[n] = x /\ \A m \in Names \ {n} : d2[m] = d[m]
    BY Zenon DEF Proper
  <1>2. F2 \in [Table -> Entry] /\ F2[f] = r /\ \A g \in Table \ {f} : F2[g] = F[g]
    BY Zenon DEF Proper
  <1>3. Cursors(F2) = [Cursors(F) EXCEPT ![f] = CursorOf(r)]
    BY <1>2, Zenon DEF Cursors
  <1> HIDE DEF d2, F2
  <1>4. \A g \in Table \ {f} : F2[g].open => F2[g].name # n /\ Placed(d2, F2[g])
    <2> SUFFICES ASSUME NEW g \in Table \ {f}, F2[g].open
                 PROVE  F2[g].name # n /\ Placed(d2, F2[g])
      BY Zenon
    <2>1. F2[g] = F[g] /\ F[g].open /\ F[g].name # n /\ Placed(d, F[g])
      BY <1>2, Zenon DEF Proper
    <2>2. F[g].name \in Names \ {n}
      BY <2>1, Zenon DEF Placed
    <2>3. d2[F[g].name] = d[F[g].name] /\ (F[g].name = Con => d2[Con] = d[Con])
      BY <1>1, <2>2, Zenon
    <2> QED  BY <2>1, <2>3, Zenon DEF Placed
  <1>5. Proper(d2, F2)
    <2>1. \A g \in Table : F2[g].open => Placed(d2, F2[g])
      BY <1>2, <1>4, Zenon DEF d2
    <2>2. ASSUME NEW g \in Table, NEW h \in Table, F2[g].open, F2[h].open, F2[g].name = F2[h].name
          PROVE  g = h
      <3>1. CASE g = f \/ h = f
        BY <1>2, <1>4, <2>2, <3>1, Zenon
      <3>2. CASE g # f /\ h # f
        BY <1>2, <2>2, <3>2, Zenon DEF Proper
      <3> QED  BY <3>1, <3>2, Zenon
    <2> QED  BY <1>1, <1>2, <2>1, <2>2, Zenon DEF Proper
  <1>6. SeenIn(d2, F2, n) = IF r.open THEN Over(x, r.pos, r.wbuf) ELSE x
    <2>1. CASE r.open
      <3>1. F2[f].open /\ F2[f].name = n
        BY <1>2, <2>1, Zenon
      <3>2. SeenIn(d2, F2, F2[f].name) = View(d2, F2[f])
        BY <1>5, <3>1, SeenOpen, Zenon
      <3>3. SeenIn(d2, F2, n) = Over(x, r.pos, r.wbuf)
        BY <1>1, <1>2, <3>1, <3>2, Zenon DEF View
      <3> QED  BY <2>1, <3>3, Zenon
    <2>2. CASE ~r.open
      <3>1. \A g \in Table : F2[g].open => F2[g].name # n
        BY <1>2, <1>4, <2>2, Zenon
      <3>2. SeenIn(d2, F2, n) = d2[n]
        BY <3>1, SeenClosed
      <3> QED  BY <1>1, <2>2, <3>2, Zenon
    <2> QED  BY <2>1, <2>2, Zenon
  <1>7. ASSUME NEW m \in Names \ {n} PROVE SeenIn(d2, F2, m) = SeenIn(d, F, m)
    <2>1. CASE \E g \in Table : F[g].open /\ F[g].name = m
      <3>1. PICK g \in Table : F[g].open /\ F[g].name = m
        BY <2>1, Zenon
      <3>2. g # f /\ F2[g] = F[g]
        BY <1>2, <3>1, Zenon
      <3>3. SeenIn(d, F, m) = View(d, F[g]) /\ SeenIn(d2, F2, m) = View(d2, F2[g])
        <4>1. SeenIn(d, F, F[g].name) = View(d, F[g])
          BY <3>1, SeenOpen, Zenon
        <4>2. SeenIn(d2, F2, F2[g].name) = View(d2, F2[g])
          BY <1>5, <3>1, <3>2, SeenOpen, ZenonT(60)
        <4> QED  BY <3>1, <3>2, <4>1, <4>2, Zenon
      <3> QED  BY <1>1, <3>1, <3>2, <3>3, Zenon DEF View
    <2>2. CASE \A g \in Table : F[g].open => F[g].name # m
      <3>1. \A g \in Table : F2[g].open => F2[g].name # m
        BY <1>2, <2>2, Zenon
      <3>2. SeenIn(d2, F2, m) = d2[m] /\ SeenIn(d, F, m) = d[m]
        BY <2>2, <3>1, SeenClosed
      <3> QED  BY <1>1, <3>2, Zenon
    <2> QED  BY <2>1, <2>2, Zenon
  <1>8. Bytes(d2, F2) = [Bytes(d, F) EXCEPT ![n] = IF r.open THEN Over(x, r.pos, r.wbuf) ELSE x]
    BY <1>6, <1>7, Zenon DEF Bytes
  <1> QED  BY <1>3, <1>5, <1>8, Zenon DEF Stepped, d2, F2

\* What the kernel answers to a program that asks no more of it than it does well.
LEMMA Results ==
    ASSUME StreamFlaws = {}, NEW n \in Nat
    PROVE  /\ \A k \in WriteResults(n) : k = n \/ (n > 0 /\ k = -1)
           /\ ReadResults(n) = {n}
  BY Zenon DEF WriteResults, ReadResults, Flawed

\* The kernel's write is the same for the console and for files.
Written(d, r, s) == WriteAt(d, r.name, r.pos, s) = [d EXCEPT ![r.name] = Over(d[r.name], r.pos, s)]

\* A write at the place of a proper stream writes over the file there.
LEMMA WriteAtIs ==
    ASSUME NEW d \in [Names -> Text \cup {NoFile}], NEW r \in Entry, Placed(d, r), NEW s \in Text
    PROVE  Written(d, r, s)
  <1>1. CASE r.name = Con
    <2>1. Over(d[r.name], r.pos, s) = d[r.name] \o s
      BY <1>1, OverEnd, Zenon DEF Placed
    <2> QED  BY <1>1, <2>1, Zenon DEF Written, WriteAt
  <1>2. CASE r.name # Con
    BY <1>2, Zenon DEF Written, WriteAt, Over, Streams!Over
  <1> QED  BY <1>1, <1>2, Zenon

\* After a write the stream is placed behind what was written.
Replaced(d, r, s, q) ==
    /\ Over(d[r.name], r.pos, s) \in Text
    /\ Placed([d EXCEPT ![r.name] = Over(d[r.name], r.pos, s)], q)
    /\ Over(Over(d[r.name], r.pos, s), q.pos, <<>>) = Over(d[r.name], r.pos, s)

\* The entry with its place moved behind the bytes is in order again.
LEMMA WritePlaced ==
    ASSUME NEW d \in [Names -> Text \cup {NoFile}], NEW r \in Entry, Placed(d, r), NEW s \in Text,
           NEW q \in Entry, q.name = r.name, q.is_console = r.is_console, q.pos = r.pos + Len(s)
    PROVE  Replaced(d, r, s, q)
  <1> DEFINE x == Over(d[r.name], r.pos, s)
  <1>1. r.pos \in 0..Len(d[r.name]) /\ d[r.name] \in Text /\ r.name \in Names
    BY DEF Placed, Entry, Text
  <1>2. x \in Text
        /\ Len(x) = IF r.pos + Len(s) > Len(d[r.name]) THEN r.pos + Len(s) ELSE Len(d[r.name])
    BY <1>1, OverIs, Zenon
  <1> HIDE DEF x
  <1>3. Len(s) \in Nat /\ Len(d[r.name]) \in Nat /\ Len(x) \in Nat
    BY <1>1, <1>2 DEF Text
  <1>4. q.pos \in 0..Len(x)
    BY <1>1, <1>2, <1>3
  <1>5. r.name = Con => q.pos = Len(x)
    BY <1>1, <1>2, <1>3 DEF Placed
  <1>6. [d EXCEPT ![r.name] = x][r.name] = x
    BY <1>1, Zenon
  <1>7. Placed([d EXCEPT ![r.name] = x], q)
    BY <1>1, <1>2, <1>4, <1>5, <1>6 DEF Placed
  <1>8. Over(x, q.pos, <<>>) = x
    BY <1>2, <1>4, OverNothing, Zenon
  <1> QED  BY <1>2, <1>7, <1>8, Zenon DEF Replaced, x

\* A flush that goes well changes nothing that is seen; one that fails drops what the
\* buffer holds and sets the error indicator.
FlushIs(d, r, fl) ==
    /\ fl.r \in Entry /\ fl.r.open /\ fl.r.name = r.name /\ fl.r.wbuf = <<>>
    /\ fl.r.is_console = r.is_console /\ fl.r.unget = r.unget
    /\ Placed(fl.d, fl.r)
    /\ fl.d[r.name] \in Text /\ fl.d = [d EXCEPT ![r.name] = fl.d[r.name]]
    /\ \/ /\ fl.ok /\ fl.d[r.name] = View(d, r)
          /\ fl.r.pos = r.pos + Len(r.wbuf) /\ fl.r.error = r.error
       \/ ~fl.ok /\ fl.r.error

\* flush_wbuf of stdio.rs does one or the other.
LEMMA Flush ==
    ASSUME StreamFlaws = {}, NEW d \in [Names -> Text \cup {NoFile}],
           NEW r \in Entry, r.open, Placed(d, r),
           NEW k \in WriteResults(Len(r.wbuf))
    PROVE  FlushIs(d, r, FlushWbuf(d, r, k))
  <1> DEFINE fl == FlushWbuf(d, r, k)
             q == [r EXCEPT !.pos = r.pos + Len(r.wbuf), !.wbuf = <<>>]
             bad == [r EXCEPT !.error = TRUE, !.wbuf = <<>>]
  <1>1. r.pos \in 0..Len(d[r.name]) /\ d[r.name] \in Text /\ r.wbuf \in Text /\ r.pos \in Nat
        /\ r.name \in Names /\ Len(r.wbuf) \in Nat
    BY DEF Placed, Entry, Text
  <1>2. q \in Entry /\ q.open /\ q.name = r.name /\ q.wbuf = <<>> /\ q.is_console = r.is_console
        /\ q.pos = r.pos + Len(r.wbuf) /\ q.unget = r.unget /\ q.error = r.error
    <2>1. r.pos + Len(r.wbuf) \in Nat
      BY <1>1
    <2>2. q = Changed(r, r.pos + Len(r.wbuf), <<>>)
      BY Zenon DEF Changed
    <2> HIDE DEF q
    <2>3. Resembles(q, r, r.pos + Len(r.wbuf), <<>>)
      BY <2>1, <2>2, Empty, ChangedIs, Zenon
    <2> QED  BY <2>3, Zenon DEF Resembles
  <1>3. bad \in Entry /\ bad.open /\ bad.name = r.name /\ bad.wbuf = <<>>
        /\ bad.pos = r.pos /\ bad.is_console = r.is_console /\ bad.unget = r.unget /\ bad.error
    BY <1>1, Empty, Zenon DEF Entry
  <1>b. Placed(d, bad)
    BY <1>3, Zenon DEF Placed
  <1>4. View(d, r) \in Text /\ Placed([d EXCEPT ![r.name] = View(d, r)], q)
    <2> HIDE DEF q
    <2>1. Replaced(d, r, r.wbuf, q)
      BY <1>1, <1>2, WritePlaced, Zenon
    <2> QED  BY <2>1, Zenon DEF Replaced, View
  <1>5. d = [d EXCEPT ![r.name] = d[r.name]] /\ [d EXCEPT ![r.name] = View(d, r)][r.name] = View(d, r)
    BY <1>1, Zenon
  <1> HIDE DEF q, bad, fl
  <1>g. ASSUME fl.d = [d EXCEPT ![r.name] = View(d, r)], fl.r = q, fl.ok
        PROVE  FlushIs(d, r, fl)
    BY <1>2, <1>4, <1>5, <1>g, Zenon DEF FlushIs
  <1>6. CASE r.wbuf = <<>>
    <2>1. View(d, r) = d[r.name]
      <3>1. Over(d[r.name], r.pos, <<>>) = d[r.name]
        BY <1>1, OverNothing, Zenon
      <3> QED  BY <1>6, <3>1, Zenon DEF View
    <2>2. q = r
      <3>1. r.pos + Len(r.wbuf) = r.pos
        BY <1>1, <1>6, Empty
      <3>2. q = [r EXCEPT !.pos = r.pos, !.wbuf = r.wbuf]
        BY <1>6, <3>1, Zenon DEF q
      <3> QED  BY <3>2, Zenon DEF Entry
    <2>3. fl = [d |-> d, r |-> r, ok |-> TRUE]
      BY <1>6, Zenon DEF FlushWbuf, fl
    <2>4. fl.d = [d EXCEPT ![r.name] = View(d, r)] /\ fl.r = q /\ fl.ok
      BY <1>5, <2>1, <2>2, <2>3, Zenon
    <2> QED  BY <1>g, <2>4, Zenon DEF fl
  <1>7. CASE r.wbuf # <<>> /\ k < 0
    <2>1. fl.d = d /\ fl.r = bad /\ ~fl.ok
      BY <1>7, Zenon DEF FlushWbuf, fl, bad
    <2> QED  BY <1>1, <1>3, <1>b, <1>5, <2>1, Zenon DEF FlushIs, fl
  <1>8. CASE r.wbuf # <<>> /\ ~(k < 0)
    <2>1. k = Len(r.wbuf) /\ SubSeq(r.wbuf, 1, k) = r.wbuf
      BY <1>1, <1>8, Results, SMTT(30) DEF Text
    <2>2. fl = [d |-> WriteAt(d, r.name, r.pos, r.wbuf),
                r |-> [r EXCEPT !.pos = @ + k, !.wbuf = <<>>], ok |-> TRUE]
      BY <1>8, <2>1, Zenon DEF FlushWbuf, fl
    <2>3. WriteAt(d, r.name, r.pos, r.wbuf) = [d EXCEPT ![r.name] = View(d, r)]
      <3>1. r.wbuf \in Text
        BY <1>1, Zenon
      <3>2. Written(d, r, r.wbuf)
        BY <3>1, WriteAtIs, Zenon
      <3> QED  BY <3>2, Zenon DEF Written, View
    <2>4. fl.d = [d EXCEPT ![r.name] = View(d, r)] /\ fl.r = q /\ fl.ok
      BY <2>1, <2>2, <2>3, Zenon DEF q
    <2> QED  BY <1>g, <2>4, Zenon DEF fl
  <1> QED  BY <1>6, <1>7, <1>8, Zenon DEF fl

-----------------------------------------------------------------------------
(* Calls as steps of ByteStreams *)

\* The refinement mapping, in terms of the files and the table.
LEMMA Mapping ==
    /\ [n \in Files \cup {Con} |-> Seen(n)] = Bytes(disk, file)
    /\ [f \in Table |-> Cursor(f)] = Cursors(file)
    /\ [n \in Files \cup {Con} |-> Seen(n)]' = Bytes(disk', file')
    /\ [f \in Table |-> Cursor(f)]' = Cursors(file')
  <1>1. \A n : Seen(n) = SeenIn(disk, file, n)
    BY Zenon DEF Seen, SeenIn
  <1>2. \A n : Seen(n)' = SeenIn(disk', file', n)
    BY Zenon DEF Seen, SeenIn
  <1>3. \A f : Cursor(f) = CursorOf(file[f]) /\ Cursor(f)' = CursorOf(file'[f])
    BY Zenon DEF Cursor, CursorOf
  <1> QED  BY <1>1, <1>2, <1>3, Zenon DEF Bytes, Cursors, Names

\* What is known of the entry and the file of an open stream.
LEMMA OpenIs ==
    ASSUME Proper(disk, file), NEW f \in Table, file[f].open
    PROVE  /\ file[f] \in Entry /\ Placed(disk, file[f]) /\ file[f].name \in Names
           /\ disk \in [Names -> Text \cup {NoFile}] /\ disk[file[f].name] \in Text
           /\ disk = [disk EXCEPT ![file[f].name] = disk[file[f].name]]
           /\ file[f].wbuf \in Text /\ Len(file[f].wbuf) \in Nat
           /\ file[f].pos \in Nat /\ file[f].pos \in 0..Len(disk[file[f].name])
           /\ \A g \in Table \ {f} : file[g].open => file[g].name # file[f].name
  <1>1. file[f] \in Entry /\ Placed(disk, file[f]) /\ file[f].name \in Names
        /\ disk \in [Names -> Text \cup {NoFile}]
        /\ disk = [disk EXCEPT ![file[f].name] = disk[file[f].name]]
        /\ \A g \in Table \ {f} : file[g].open => file[g].name # file[f].name
    BY Zenon DEF Proper, Placed
  <1>2. file[f].wbuf \in Text /\ file[f].pos \in Nat /\ disk[file[f].name] \in Text
        /\ file[f].pos <= Len(disk[file[f].name])
    BY <1>1, Zenon DEF Entry, Placed
  <1>3. file[f].pos \in 0..Len(disk[file[f].name]) /\ Len(file[f].wbuf) \in Nat
    BY <1>2, Empty
  <1> QED  BY <1>1, <1>2, <1>3, Zenon

\* A flush as part of a call on the stream f.
LEMMA Flushed ==
    ASSUME StreamFlaws = {}, Proper(disk, file), NEW f \in Table, file[f].open,
           NEW k \in WriteResults(Len(file[f].wbuf))
    PROVE  FlushIs(disk, file[f], FlushWbuf(disk, file[f], k))
  <1>1. file[f] \in Entry /\ Placed(disk, file[f]) /\ disk \in [Names -> Text \cup {NoFile}]
    BY OpenIs, Zenon
  <1> QED  BY <1>1, Flush, Zenon

\* A call on the stream f leaves its entry r and the bytes x of its file.
Does(f, x, r) ==
    /\ r \in Entry /\ r.open /\ r.name = file[f].name
    /\ x \in Text
    /\ Placed([disk EXCEPT ![file[f].name] = x], r)
    /\ disk' = [disk EXCEPT ![file[f].name] = x]
    /\ file' = [file EXCEPT ![f] = r]

\* What such a call does to what is seen.
Mapped(f, x, r) ==
    /\ Proper(disk', file')
    /\ file[f] \in Entry /\ Placed(disk, file[f]) /\ file[f].name \in Names
    /\ Cursors(file)[f] = CursorOf(file[f]) /\ CursorOf(file[f]) # NoFile
    /\ CursorOf(r) # NoFile
    /\ Cursors(file') = [Cursors(file) EXCEPT ![f] = CursorOf(r)]
    /\ Bytes(disk, file)[file[f].name] = View(disk, file[f])
    /\ Bytes(disk', file') = [Bytes(disk, file) EXCEPT ![file[f].name] = Over(x, r.pos, r.wbuf)]

\* A call on an open stream shows in its cursor and its file only.
LEMMA CallMaps ==
    ASSUME Proper(disk, file), NEW f \in Table, file[f].open, NEW x, NEW r, Does(f, x, r)
    PROVE  Mapped(f, x, r)
  <1>1. file[f] \in Entry /\ Placed(disk, file[f]) /\ file[f].name \in Names
    BY Zenon DEF Proper, Placed
  <1>2. \A g \in Table \ {f} : file[g].open => file[g].name # file[f].name
    BY Zenon DEF Proper
  <1>3. /\ Proper(disk', file')
        /\ Cursors(file') = [Cursors(file) EXCEPT ![f] = CursorOf(r)]
        /\ Bytes(disk', file') = [Bytes(disk, file) EXCEPT ![file[f].name] = Over(x, r.pos, r.wbuf)]
    <2>1. r \in Entry /\ r.open /\ r.name = file[f].name /\ x \in Text \cup {NoFile}
          /\ Placed([disk EXCEPT ![file[f].name] = x], r)
          /\ disk' = [disk EXCEPT ![file[f].name] = x] /\ file' = [file EXCEPT ![f] = r]
      BY Zenon DEF Does
    <2>2. Stepped(disk, file, f, file[f].name, x, r)
      BY <1>1, <1>2, <2>1, OneStep, Zenon
    <2> QED  BY <2>1, <2>2, Zenon DEF Stepped
  <1>4. Cursors(file)[f] = CursorOf(file[f])
    BY Zenon DEF Cursors
  <1>5. CursorOf(file[f]) # NoFile /\ CursorOf(r) # NoFile
    BY <1>1, CursorIs, Zenon DEF Does
  <1>6. Bytes(disk, file)[file[f].name] = View(disk, file[f])
    BY <1>1, SeenOpen, Zenon DEF Bytes
  <1> QED  BY <1>1, <1>3, <1>4, <1>5, <1>6, Zenon DEF Mapped

\* A step of an open stream is a step of ByteStreams.
LEMMA StreamCall ==
    ASSUME NEW f \in Table, Cursors(file)[f] # NoFile,
           \/ Streams!Take(f, given') \/ Streams!Put(f, given') \/ Streams!Tell(f)
           \/ Streams!Close(f) \/ Streams!Rewind(f) \/ Streams!ClearError(f) \/ Streams!Fail(f)
           \/ \E b \in Chars : Streams!PushBack(f, b)
           \/ \E from \in {"set", "cur", "end"}, by \in {-1, 1} : Streams!Seek(f, from, by)
           \/ \E n \in Names, create \in BOOLEAN : Streams!Reopen(f, n, create)
    PROVE  Streams!StreamsNext
  BY Mapping, Zenon DEF Streams!StreamsNext, Names

\* A call that leaves the error indicator set may leave anything in its file.
LEMMA FailMaps ==
    ASSUME Proper(disk, file), NEW f \in Table, file[f].open, NEW x, NEW r, Does(f, x, r), r.error
    PROVE  Streams!StreamsNext
  <1>1. /\ file[f] \in Entry /\ Placed(disk, file[f])
        /\ Cursors(file)[f] = CursorOf(file[f]) /\ CursorOf(file[f]) # NoFile /\ CursorOf(r) # NoFile
        /\ Cursors(file') = [Cursors(file) EXCEPT ![f] = CursorOf(r)]
        /\ Bytes(disk', file') = [Bytes(disk, file) EXCEPT ![file[f].name] = Over(x, r.pos, r.wbuf)]
    <2>1. Mapped(f, x, r)
      BY CallMaps, Zenon
    <2> QED  BY <2>1, Zenon DEF Mapped
  <1>2. f \in DOMAIN Cursors(file) /\ DOMAIN Bytes(disk, file) = Names
    BY Zenon DEF Cursors, Bytes
  <1>3. Cursors(file')[f] = CursorOf(r) /\ \A t \in Table \ {f} : Cursors(file')[t] = Cursors(file)[t]
    BY <1>1, <1>2, Zenon DEF Cursors
  <1>4. \A n \in Names \ {file[f].name} : Bytes(disk', file')[n] = Bytes(disk, file)[n]
    BY <1>1, <1>2, Zenon
  <1>5. CursorOf(r).name = CursorOf(file[f]).name /\ CursorOf(r).failed
        /\ CursorOf(file[f]).name = file[f].name
    BY Zenon DEF CursorOf, Does
  <1>6. Streams!Fail(f)
    BY <1>1, <1>3, <1>4, <1>5, Mapping, SMTT(30) DEF Streams!Fail, Names
  <1> QED  BY <1>1, <1>6, StreamCall, Zenon

\* A call that puts s behind what the program sees before the stream's place.
Puts(f, x, r, s) ==
    /\ s \in Text /\ Len(s) \in 1..MaxLen /\ given' = s
    /\ file[f].unget = NoFile /\ r.unget = NoFile /\ r.error = file[f].error
    /\ r.pos + Len(r.wbuf) = file[f].pos + Len(file[f].wbuf) + Len(s)
    /\ Over(x, r.pos, r.wbuf) = Over(View(disk, file[f]), file[f].pos + Len(file[f].wbuf), s)

\* A call that puts bytes is a step of ByteStreams.
LEMMA PutMaps ==
    ASSUME Proper(disk, file), NEW f \in Table, file[f].open, NEW x, NEW r, Does(f, x, r),
           NEW s, Puts(f, x, r, s)
    PROVE  Streams!StreamsNext
  <1> DEFINE c == CursorOf(file[f])
  <1>0. /\ s \in Text /\ Len(s) \in 1..MaxLen /\ given' = s
        /\ file[f].unget = NoFile /\ r.unget = NoFile /\ r.error = file[f].error
        /\ r.pos + Len(r.wbuf) = file[f].pos + Len(file[f].wbuf) + Len(s)
        /\ Over(x, r.pos, r.wbuf) = Over(View(disk, file[f]), file[f].pos + Len(file[f].wbuf), s)
    BY Zenon DEF Puts
  <1>1. /\ Cursors(file)[f] = c /\ c # NoFile
        /\ Cursors(file') = [Cursors(file) EXCEPT ![f] = CursorOf(r)]
        /\ Bytes(disk, file)[file[f].name] = View(disk, file[f])
        /\ Bytes(disk', file') = [Bytes(disk, file) EXCEPT ![file[f].name] = Over(x, r.pos, r.wbuf)]
    <2>1. Mapped(f, x, r)
      BY CallMaps, Zenon
    <2> QED  BY <2>1, Zenon DEF Mapped
  <1>2. c.name = file[f].name /\ c.back = NoFile /\ c.at = file[f].pos + Len(file[f].wbuf)
        /\ CursorOf(r) = [c EXCEPT !.at = @ + Len(s)]
    BY <1>0, SMTT(30) DEF CursorOf, Does
  <1> HIDE DEF c
  <1>3. s \in UNION {[1..k -> Chars] : k \in 1..MaxLen}
    BY <1>0 DEF Text
  <1>4. Cursors(file') = [Cursors(file) EXCEPT ![f].at = @ + Len(s)]
    BY <1>1, <1>2, Zenon DEF Cursors
  <1>5. Bytes(disk', file') = [Bytes(disk, file) EXCEPT ![c.name] = Over(@, c.at, s)]
    <2>1. c.name = file[f].name
          /\ Over(Bytes(disk, file)[c.name], c.at, s) = Over(x, r.pos, r.wbuf)
      BY <1>0, <1>1, <1>2, Zenon
    <2> QED  BY <1>1, <2>1, Zenon
  <1>6. Streams!Put(f, given')
    BY <1>0, <1>1, <1>2, <1>3, <1>4, <1>5, Mapping, Zenon DEF Streams!Put, Streams!Runs, Over
  <1> QED  BY <1>1, <1>6, StreamCall, Zenon

\* What a read on the entry r still has before it.
Before(d, r) ==
    (IF r.unget = NoFile THEN <<>> ELSE <<r.unget>>)
        \o SubSeq(View(d, r), r.pos + Len(r.wbuf) + 1, Len(View(d, r)))

\* A stream that goes on to place a, and forgets the byte pushed back when it has read it.
TakesTo(F, f, n, u, e, a, got) ==
    [Cursors(F) EXCEPT ![f].at = a, ![f].back = IF got = <<>> THEN @ ELSE NoFile]
    = [Cursors(F) EXCEPT ![f] = [name |-> n, at |-> a, failed |-> e,
                                 back |-> IF got = <<>> THEN u ELSE NoFile]]

\* The two ways to say so agree.
LEMMA CursorTakes ==
    ASSUME NEW F, NEW f \in Table, NEW n, NEW p, NEW u, NEW e, NEW a, NEW got,
           Cursors(F)[f] = [name |-> n, at |-> p, back |-> u, failed |-> e]
    PROVE  TakesTo(F, f, n, u, e, a, got)
  <1> DEFINE C == Cursors(F)
             b == IF got = <<>> THEN u ELSE NoFile
             K == [C EXCEPT ![f].at = a]
             L == [name |-> n, at |-> a, back |-> u, failed |-> e]
  <1>0. [[name |-> n, at |-> p, back |-> u, failed |-> e] EXCEPT !.at = a] = L
    OBVIOUS
  <1>1. K = [C EXCEPT ![f] = L]
    BY <1>0, Zenon
  <1>2. f \in DOMAIN C
    BY Zenon DEF Cursors
  <1>3. K[f] = L
    BY <1>1, <1>2, Zenon
  <1>4. L.back = u /\ [L EXCEPT !.back = b] = [name |-> n, at |-> a, failed |-> e, back |-> b]
    OBVIOUS
  <1> HIDE DEF L, b
  <1>5. [K EXCEPT ![f].back = IF got = <<>> THEN @ ELSE NoFile] = [K EXCEPT ![f] = [L EXCEPT !.back = b]]
    BY <1>3, <1>4, Zenon DEF b
  <1>6. [[C EXCEPT ![f] = L] EXCEPT ![f] = [L EXCEPT !.back = b]] = [C EXCEPT ![f] = [L EXCEPT !.back = b]]
    BY Zenon DEF Cursors
  <1>7. [C EXCEPT ![f].at = a, ![f].back = IF got = <<>> THEN @ ELSE NoFile]
          = [K EXCEPT ![f].back = IF got = <<>> THEN @ ELSE NoFile]
    BY Zenon
  <1> QED  BY <1>1, <1>4, <1>5, <1>6, <1>7, Zenon DEF b, TakesTo

\* The place before a byte pushed back.
Back(at, u) == IF u = NoFile THEN at ELSE at - 1

\* A call that takes got from there.
Takes(f, x, r, got) ==
    /\ given' = got
    /\ Len(got) <= Len(Before(disk, file[f])) /\ got = SubSeq(Before(disk, file[f]), 1, Len(got))
    /\ got = <<>> => Before(disk, file[f]) = <<>>
    /\ r.error = file[f].error
    /\ r.unget = IF got = <<>> THEN file[f].unget ELSE NoFile
    /\ r.pos + Len(r.wbuf) = Back(file[f].pos + Len(file[f].wbuf), file[f].unget) + Len(got)
    /\ Over(x, r.pos, r.wbuf) = View(disk, file[f])

\* A call that takes bytes is a step of ByteStreams.
LEMMA TakeMaps ==
    ASSUME Proper(disk, file), NEW f \in Table, file[f].open, NEW x, NEW r, Does(f, x, r),
           NEW got, Takes(f, x, r, got)
    PROVE  Streams!StreamsNext
  <1>0. /\ given' = got
        /\ Len(got) <= Len(Before(disk, file[f])) /\ got = SubSeq(Before(disk, file[f]), 1, Len(got))
        /\ got = <<>> => Before(disk, file[f]) = <<>>
        /\ r.error = file[f].error
        /\ r.unget = IF got = <<>> THEN file[f].unget ELSE NoFile
        /\ r.pos + Len(r.wbuf) = Back(file[f].pos + Len(file[f].wbuf), file[f].unget) + Len(got)
        /\ Over(x, r.pos, r.wbuf) = View(disk, file[f])
    BY Zenon DEF Takes
  <1> DEFINE c == CursorOf(file[f])
             at == Back(c.at, c.back)
  <1>1. /\ Cursors(file)[f] = c /\ c # NoFile /\ file[f].name \in Names /\ file[f] \in Entry
        /\ Cursors(file') = [Cursors(file) EXCEPT ![f] = CursorOf(r)]
        /\ Bytes(disk, file)[file[f].name] = View(disk, file[f])
        /\ Bytes(disk', file') = [Bytes(disk, file) EXCEPT ![file[f].name] = Over(x, r.pos, r.wbuf)]
    <2>1. Mapped(f, x, r)
      BY CallMaps, Zenon
    <2> QED  BY <2>1, Zenon DEF Mapped
  <1>2. c.name = file[f].name /\ c.back = file[f].unget /\ c.at = file[f].pos + Len(file[f].wbuf)
        /\ c = [name |-> c.name, at |-> c.at, back |-> c.back, failed |-> c.failed]
        /\ CursorOf(r) = [name |-> c.name, at |-> at + Len(got), failed |-> c.failed,
                          back |-> IF got = <<>> THEN c.back ELSE NoFile]
    <2>1. c = [name |-> file[f].name, at |-> file[f].pos + Len(file[f].wbuf), back |-> file[f].unget,
               failed |-> file[f].error]
      BY Zenon DEF CursorOf
    <2>2. /\ c.name = file[f].name /\ c.back = file[f].unget /\ c.failed = file[f].error
          /\ c.at = file[f].pos + Len(file[f].wbuf)
      BY <2>1
    <2> HIDE DEF c
    <2>a. at = Back(file[f].pos + Len(file[f].wbuf), file[f].unget)
      BY <2>2, Zenon
    <2>3. r.open /\ r.name = c.name /\ r.pos + Len(r.wbuf) = at + Len(got)
          /\ r.unget = (IF got = <<>> THEN c.back ELSE NoFile) /\ r.error = c.failed
      BY <1>0, <2>2, <2>a, Zenon DEF Does
    <2>4. CursorOf(r) = [name |-> r.name, at |-> r.pos + Len(r.wbuf), back |-> r.unget, failed |-> r.error]
      BY <2>3, Zenon DEF CursorOf
    <2> HIDE DEF at
    <2> QED  BY <2>1, <2>2, <2>3, <2>4, Zenon
  <1>3. Before(disk, file[f]) = (IF c.back = NoFile THEN <<>> ELSE <<c.back>>)
            \o SubSeq(Bytes(disk, file)[c.name], c.at + 1, Len(Bytes(disk, file)[c.name]))
    BY <1>1, <1>2, Zenon DEF Before
  <1> HIDE DEF c
  <1>4. Cursors(file') = [Cursors(file) EXCEPT ![f].at = at + Len(got),
                                               ![f].back = IF got = <<>> THEN @ ELSE NoFile]
    <2>1. Cursors(file)[f] = [name |-> c.name, at |-> c.at, back |-> c.back, failed |-> c.failed]
      BY <1>1, <1>2, Zenon
    <2>2. TakesTo(file, f, c.name, c.back, c.failed, at + Len(got), got)
      BY <2>1, CursorTakes, Zenon
    <2>3. Cursors(file') = [Cursors(file) EXCEPT ![f] =
                              [name |-> c.name, at |-> at + Len(got), failed |-> c.failed,
                               back |-> IF got = <<>> THEN c.back ELSE NoFile]]
      BY <1>1, <1>2, Zenon
    <2> HIDE DEF at
    <2> QED  BY <2>2, <2>3, Zenon DEF TakesTo
  <1>5. Bytes(disk', file') = Bytes(disk, file)
    BY <1>0, <1>1, Zenon DEF Bytes
  <1>6. Streams!Take(f, given')
    BY <1>0, <1>1, <1>3, <1>4, <1>5, Mapping, ZenonT(60) DEF Streams!Take, Streams!Ahead, Streams!Place, Back
  <1> QED  BY <1>1, <1>6, StreamCall, Zenon

-----------------------------------------------------------------------------
(* The calls *)

\* An entry with another file.
Named(r, o, n, c) == [r EXCEPT !.open = o, !.name = n, !.is_console = c]

\* The three fields take their new values and the others stay.
LEMMA NamedIs ==
    ASSUME NEW r \in Entry, NEW o \in BOOLEAN, NEW n \in Names \cup {NoFile}, NEW c \in BOOLEAN
    PROVE  /\ Named(r, o, n, c) \in Entry /\ Named(r, o, n, c).open = o /\ Named(r, o, n, c).name = n
           /\ Named(r, o, n, c).is_console = c /\ Named(r, o, n, c).pos = r.pos
           /\ Named(r, o, n, c).error = r.error /\ Named(r, o, n, c).unget = r.unget
           /\ Named(r, o, n, c).wbuf = r.wbuf
  BY Zenon DEF Named, Entry

\* The entry of stdout.
LEMMA ConsoleIs ==
    /\ Console \in Entry /\ Console.open = TRUE /\ Console.name = Con /\ Console.pos = 0
    /\ Console.error = FALSE /\ Console.is_console = TRUE /\ Console.unget = NoFile
    /\ Console.wbuf = <<>>
  BY Empty, Zenon DEF Console, Entry, Names

\* An entry that is not open.
LEMMA ZeroedIs ==
    /\ Zeroed \in Entry /\ Zeroed.open = FALSE /\ Zeroed.wbuf = <<>> /\ Zeroed.unget = NoFile
    /\ Zeroed.pos = 0 /\ Zeroed.error = FALSE /\ Zeroed.is_console = FALSE
  <1>1. Zeroed = Named(Console, FALSE, NoFile, FALSE)
    BY Zenon DEF Zeroed, Named
  <1>2. FALSE \in BOOLEAN /\ NoFile \in Names \cup {NoFile}
    BY Zenon
  <1> HIDE DEF Zeroed, Console
  <1>3. /\ Zeroed \in Entry /\ Zeroed.open = FALSE /\ Zeroed.is_console = FALSE
        /\ Zeroed.pos = Console.pos /\ Zeroed.error = Console.error
        /\ Zeroed.unget = Console.unget /\ Zeroed.wbuf = Console.wbuf
    <2> DEFINE q == Named(Console, FALSE, NoFile, FALSE)
    <2>1. Console \in Entry
      BY ConsoleIs, Zenon
    <2>2. /\ q \in Entry /\ q.open = FALSE /\ q.name = NoFile /\ q.is_console = FALSE
          /\ q.pos = Console.pos /\ q.error = Console.error /\ q.unget = Console.unget
          /\ q.wbuf = Console.wbuf
      BY <1>2, <2>1, NamedIs, ZenonT(60)
    <2> QED  BY <1>1, <2>2, Zenon
  <1> QED  BY <1>3, ConsoleIs, Zenon

\* fclose: the buffer is emptied and the entry freed.
LEMMA FcloseMaps ==
    ASSUME StreamFlaws = {}, Proper(disk, file), NEW f \in Table, file[f].open, FcloseCall(f)
    PROVE  /\ Proper(disk', file')
           /\ Streams!StreamsNext
           /\ file' = [file EXCEPT ![f] = Zeroed]
           /\ disk' = [disk EXCEPT ![file[f].name] = View(disk, file[f])]
  <1> DEFINE n == file[f].name
             V == View(disk, file[f])
             Fl(k) == FlushWbuf(disk, file[f], k)
  <1>1. /\ file[f] \in Entry /\ n \in Names
        /\ \A g \in Table \ {f} : file[g].open => file[g].name # n
    BY OpenIs, Zenon
  <1>2. PICK k \in WriteResults(Len(file[f].wbuf)) :
            Spared("badflush", Fl(k).ok) /\ Leave(f, Fl(k).d, Zeroed, <<>>)
    BY Zenon DEF FcloseCall
  <1>3. Fl(k).ok
    BY <1>2, Zenon DEF Spared, Flawed
  <1>4. V \in Text /\ disk' = [disk EXCEPT ![n] = V] /\ file' = [file EXCEPT ![f] = Zeroed]
        /\ given' = <<>>
    <2>1. FlushIs(disk, file[f], Fl(k))
      BY Flushed, Zenon
    <2> HIDE DEF Fl
    <2>2. Fl(k).d[n] = V /\ Fl(k).d[n] \in Text /\ Fl(k).d = [disk EXCEPT ![n] = Fl(k).d[n]]
      BY <1>3, <2>1, Zenon DEF FlushIs
    <2> QED  BY <1>2, <2>2, Zenon DEF Leave
  <1> HIDE DEF V
  <1>5. Stepped(disk, file, f, n, V, Zeroed)
    BY <1>1, <1>4, ZeroedIs, OneStep, Zenon
  <1>6. /\ Proper(disk', file')
        /\ Cursors(file') = [Cursors(file) EXCEPT ![f] = CursorOf(Zeroed)]
        /\ Bytes(disk', file') = [Bytes(disk, file) EXCEPT ![n] = V]
    BY <1>4, <1>5, ZeroedIs, Zenon DEF Stepped
  <1>7. Bytes(disk', file') = Bytes(disk, file)
    <2>1. Bytes(disk, file)[n] = V
      BY <1>1, SeenOpen, Zenon DEF Bytes, V
    <2> QED  BY <1>6, <2>1, Zenon DEF Bytes
  <1>8. Cursors(file)[f] # NoFile /\ Cursors(file') = [Cursors(file) EXCEPT ![f] = NoFile]
    BY <1>1, <1>6, ZeroedIs, CursorIs, Zenon DEF CursorOf, Cursors
  <1>9. Streams!Close(f)
    BY <1>4, <1>7, <1>8, Mapping, Zenon DEF Streams!Close
  <1> QED  BY <1>4, <1>6, <1>8, <1>9, StreamCall, Zenon DEF V

\* fread: what is buffered is written first, then the next bytes of the file are taken.
LEMMA FreadMaps ==
    ASSUME StreamFlaws = {}, Proper(disk, file), NEW f \in Table, file[f].open,
           file[f].unget = NoFile, ~file[f].is_console, NEW n \in Nat \ {0}, FreadCall(f, n)
    PROVE  \E x, r : Does(f, x, r) /\ Streams!StreamsNext
  <1> DEFINE name == file[f].name
             V == View(disk, file[f])
             p == file[f].pos + Len(file[f].wbuf)
             Fl(k) == FlushWbuf(disk, file[f], k)
             Rest(k) == SubSeq(Fl(k).d[Fl(k).r.name], Fl(k).r.pos + 1, Len(Fl(k).d[Fl(k).r.name]))
             After(k, got) == IF got < 0 THEN [Fl(k).r EXCEPT !.error = TRUE]
                              ELSE IF got = 0 THEN [Fl(k).r EXCEPT !.eof = TRUE]
                              ELSE [Fl(k).r EXCEPT !.pos = @ + got]
  <1>1. name \in Names /\ name # Con /\ disk \in [Names -> Text \cup {NoFile}]
    BY OpenIs, Zenon DEF Placed
  <1>2. PICK k \in WriteResults(Len(file[f].wbuf)) :
          \E got \in ReadResults(IF Len(Rest(k)) < n THEN Len(Rest(k)) ELSE n) :
            Leave(f, Fl(k).d, After(k, got), IF got < 0 THEN <<NoFile>> ELSE SubSeq(Rest(k), 1, got))
    BY Zenon DEF FreadCall
  <1>3. FlushIs(disk, file[f], Fl(k))
    BY Flushed, Zenon
  <1> HIDE DEF Fl
  <1> DEFINE x == Fl(k).d[name]
             q == Fl(k).r
             rest == SubSeq(x, q.pos + 1, Len(x))
             got == IF Len(rest) < n THEN Len(rest) ELSE n
             r == IF got = 0 THEN [q EXCEPT !.eof = TRUE] ELSE [q EXCEPT !.pos = @ + got]
  <1>4. /\ q \in Entry /\ q.open /\ q.name = name /\ q.wbuf = <<>> /\ q.is_console = file[f].is_console
        /\ q.unget = NoFile /\ Placed(Fl(k).d, q) /\ x \in Text /\ Fl(k).d = [disk EXCEPT ![name] = x]
        /\ \/ Fl(k).ok /\ x = V /\ q.pos = p /\ q.error = file[f].error
           \/ ~Fl(k).ok /\ q.error
    BY <1>3, Zenon DEF FlushIs
  <1>5. q.pos \in Nat /\ q.pos \in 0..Len(x) /\ Len(x) \in Nat
    <2>1. q.pos \in Nat /\ q.pos <= Len(x)
      BY <1>4, Zenon DEF Placed, Entry
    <2> QED  BY <1>4, <2>1, Empty
  <1>6. Rest(k) = rest
    BY <1>4, Zenon
  <1> HIDE DEF x, q, Rest
  <1>7. rest \in Text /\ Len(rest) = Len(x) - q.pos
    BY <1>4, <1>5, Cut, Zenon
  <1> HIDE DEF rest
  <1>8. Len(rest) \in Nat /\ got \in Nat /\ got <= Len(rest) /\ (got = 0 <=> Len(rest) = 0) /\ ~(got < 0)
    BY <1>5, <1>7
  <1>9. disk' = Fl(k).d /\ file' = [file EXCEPT ![f] = r] /\ given' = SubSeq(rest, 1, got)
    <2>1. ReadResults(got) = {got}
      BY <1>8, Results, Zenon
    <2>2. got = IF Len(Rest(k)) < n THEN Len(Rest(k)) ELSE n
      BY <1>6, Zenon
    <2> HIDE DEF got, After
    <2>3. PICK g \in ReadResults(got) :
            Leave(f, Fl(k).d, After(k, g), IF g < 0 THEN <<NoFile>> ELSE SubSeq(rest, 1, g))
      BY <1>2, <1>6, <2>2, Zenon
    <2>4. Leave(f, Fl(k).d, After(k, got), IF got < 0 THEN <<NoFile>> ELSE SubSeq(rest, 1, got))
      BY <2>1, <2>3, Zenon
    <2> QED  BY <1>8, <2>4, Zenon DEF Leave, After, q
  <1> HIDE DEF got
  <1>10. r \in Entry /\ r.open /\ r.name = name /\ r.wbuf = <<>> /\ r.pos = q.pos + got
         /\ r.unget = NoFile /\ r.error = q.error /\ r.is_console = q.is_console
    <2>1. CASE got = 0
      <3>1. r \in Entry /\ r.open /\ r.name = name /\ r.wbuf = <<>> /\ r.pos = q.pos
            /\ r.unget = NoFile /\ r.error = q.error /\ r.is_console = q.is_console
        BY <1>4, <2>1, Zenon DEF Entry
      <3>2. q.pos + got = q.pos
        BY <1>5, <2>1
      <3> HIDE DEF r
      <3> QED  BY <3>1, <3>2, Zenon
    <2>2. CASE got # 0
      <3>1. q.pos + got \in Nat
        BY <1>5, <1>8, SMTT(30)
      <3>2. r = Changed(q, q.pos + got, q.wbuf)
        BY <1>4, <2>2, Zenon DEF Changed, Entry
      <3> HIDE DEF r
      <3>3. q \in Entry /\ q.wbuf \in Text
        BY <1>4, Empty, Zenon
      <3>4. Resembles(r, q, q.pos + got, q.wbuf)
        BY <3>1, <3>2, <3>3, ChangedIs, Zenon
      <3> QED  BY <1>4, <3>4, Zenon DEF Resembles
    <2> QED  BY <2>1, <2>2, Zenon
  <1> HIDE DEF r
  <1>11. r.pos \in 0..Len(x) /\ q.pos + got <= Len(x)
    BY <1>5, <1>7, <1>8, <1>10, SMTT(30)
  <1>12. Does(f, x, r)
    <2>1. Placed(Fl(k).d, r)
      BY <1>1, <1>4, <1>10, <1>11, Zenon DEF Placed, x
    <2> QED  BY <1>4, <1>9, <1>10, <2>1, Zenon DEF Does
  <1>13. CASE ~Fl(k).ok
    BY <1>4, <1>10, <1>12, <1>13, FailMaps, Zenon
  <1>14. CASE Fl(k).ok
    <2>1. x = V /\ q.pos = p /\ q.error = file[f].error
      BY <1>4, <1>14, Zenon
    <2>2. Before(disk, file[f]) = rest
      <3>1. Before(disk, file[f]) = <<>> \o rest
        BY <2>1, Zenon DEF Before, rest
      <3> QED  BY <1>7, <3>1 DEF Text
    <2>3. Over(x, r.pos, r.wbuf) = V
      BY <1>4, <1>10, <1>11, <2>1, OverNothing, Zenon
    <2> DEFINE g == SubSeq(rest, 1, got)
    <2>4. g \in Text /\ Len(g) = got
      BY <1>7, <1>8, Cut, SMTT(30)
    <2>5. g = <<>> => rest = <<>>
      BY <1>7, <1>8, <2>4, Empty, Zenon
    <2> HIDE DEF g
    <2>6. given' = g /\ g = SubSeq(rest, 1, Len(g)) /\ Len(g) <= Len(rest)
      BY <1>8, <1>9, <2>4, Zenon DEF g
    <2>7. r.pos + Len(r.wbuf) = Back(p, file[f].unget) + Len(g)
      <3>1. Back(p, file[f].unget) = p
        BY Zenon DEF Back
      <3>2. r.pos + Len(r.wbuf) = r.pos
        BY <1>10, <1>11, Empty, SMTT(30)
      <3> QED  BY <1>10, <2>1, <2>4, <3>1, <3>2, ZenonT(60)
    <2>8. r.unget = (IF g = <<>> THEN file[f].unget ELSE NoFile) /\ r.error = file[f].error
      BY <1>10, <2>1, Zenon
    <2>9. Streams!StreamsNext
      <3>1. Takes(f, x, r, g)
        BY <2>2, <2>3, <2>5, <2>6, <2>7, <2>8, ZenonT(60) DEF Takes
      <3> QED  BY <1>12, <3>1, TakeMaps, Zenon
    <2> QED  BY <1>12, <2>9, Zenon
  <1> QED  BY <1>13, <1>14, Zenon

\* fwrite: what is buffered is written first, then the bytes themselves.
LEMMA FwriteMaps ==
    ASSUME StreamFlaws = {}, Proper(disk, file), NEW f \in Table, file[f].open,
           file[f].unget = NoFile, NEW s \in Text, Len(s) \in 1..MaxLen, FwriteCall(f, s)
    PROVE  \E x, r : Does(f, x, r) /\ Streams!StreamsNext
  <1> DEFINE name == file[f].name
             V == View(disk, file[f])
             p == file[f].pos + Len(file[f].wbuf)
             Fl(k) == FlushWbuf(disk, file[f], k)
  <1>1. name \in Names /\ disk \in [Names -> Text \cup {NoFile}]
    BY OpenIs, Zenon
  <1>2. PICK k \in WriteResults(Len(file[f].wbuf)), got \in WriteResults(Len(s)) :
          IF ~Fl(k).ok THEN Leave(f, Fl(k).d, Fl(k).r, <<NoFile>>)
          ELSE IF got < 0 THEN Leave(f, Fl(k).d, [Fl(k).r EXCEPT !.error = TRUE], <<NoFile>>)
          ELSE Leave(f, WriteAt(Fl(k).d, Fl(k).r.name, Fl(k).r.pos, SubSeq(s, 1, got)),
                     [Fl(k).r EXCEPT !.pos = @ + got], SubSeq(s, 1, got))
    BY Zenon DEF FwriteCall
  <1>3. FlushIs(disk, file[f], Fl(k))
    BY Flushed, Zenon
  <1> HIDE DEF Fl
  <1> DEFINE fl == Fl(k)
             x == fl.d[name]
             q == fl.r
  <1>4. /\ q \in Entry /\ q.open /\ q.name = name /\ q.wbuf = <<>> /\ q.is_console = file[f].is_console
        /\ q.unget = NoFile /\ Placed(fl.d, q) /\ x \in Text /\ fl.d = [disk EXCEPT ![name] = x]
        /\ \/ fl.ok /\ x = V /\ q.pos = p /\ q.error = file[f].error
           \/ ~fl.ok /\ q.error
    BY <1>3, Zenon DEF FlushIs
  <1>5. fl.d \in [Names -> Text \cup {NoFile}] /\ q.pos \in Nat
    BY <1>1, <1>4, Zenon DEF Entry
  <1>6. CASE ~fl.ok
    <2>1. disk' = fl.d /\ file' = [file EXCEPT ![f] = q]
      BY <1>2, <1>6, Zenon DEF Leave
    <2>2. Does(f, x, q)
      BY <1>4, <2>1, Zenon DEF Does
    <2> QED  BY <1>4, <1>6, <2>2, FailMaps, Zenon
  <1>7. CASE fl.ok /\ got < 0
    <2> DEFINE r == [q EXCEPT !.error = TRUE]
    <2>1. disk' = fl.d /\ file' = [file EXCEPT ![f] = r]
      BY <1>2, <1>7, Zenon DEF Leave
    <2>2. r \in Entry /\ r.open /\ r.name = name /\ r.error /\ r.pos = q.pos /\ r.is_console = q.is_console
      BY <1>4, Zenon DEF Entry
    <2> HIDE DEF r, q, x
    <2>3. Placed(fl.d, r)
      BY <1>4, <2>2, Zenon DEF Placed
    <2>4. Does(f, x, r)
      BY <1>4, <2>1, <2>2, <2>3, Zenon DEF Does
    <2> QED  BY <2>2, <2>4, FailMaps, Zenon
  <1>8. CASE fl.ok /\ ~(got < 0)
    <2> DEFINE r == Changed(q, q.pos + Len(s), q.wbuf)
               y == Over(x, q.pos, s)
    <2>1. x = V /\ q.pos = p /\ q.error = file[f].error
      BY <1>4, <1>8, Zenon
    <2>2. got = Len(s) /\ SubSeq(s, 1, got) = s
      BY <1>8, Results, SMTT(30) DEF Text
    <2>3. r \in Entry /\ r.open /\ r.name = name /\ r.is_console = q.is_console /\ r.wbuf = <<>>
          /\ r.pos = q.pos + Len(s) /\ r.unget = NoFile /\ r.error = q.error
      <3>1. q.pos + Len(s) \in Nat
        BY <1>5, Empty, SMTT(30)
      <3> HIDE DEF q
      <3>2. q \in Entry /\ q.wbuf \in Text
        BY <1>4, Empty, Zenon
      <3>3. Resembles(r, q, q.pos + Len(s), q.wbuf)
        BY <3>1, <3>2, ChangedIs, Zenon
      <3> HIDE DEF r
      <3> QED  BY <1>4, <3>3, Zenon DEF Resembles
    <2>4. [q EXCEPT !.pos = @ + got] = r
      BY <1>4, <2>2, Zenon DEF Changed, Entry
    <2> HIDE DEF r, q, fl
    <2>5. WriteAt(fl.d, q.name, q.pos, s) = [fl.d EXCEPT ![name] = y]
      <3>1. Written(fl.d, q, s)
        BY <1>4, <1>5, WriteAtIs, Zenon
      <3> QED  BY <1>4, <3>1, Zenon DEF Written
    <2>6. y \in Text /\ Placed([fl.d EXCEPT ![q.name] = y], r) /\ Over(y, r.pos, <<>>) = y
      <3> HIDE DEF x
      <3>1. y = Over(fl.d[q.name], q.pos, s)
        BY <1>4, Zenon DEF x
      <3> HIDE DEF y
      <3>2. q \in Entry /\ r \in Entry /\ r.name = q.name /\ r.is_console = q.is_console
            /\ r.pos = q.pos + Len(s) /\ Placed(fl.d, q) /\ fl.d \in [Names -> Text \cup {NoFile}]
        BY <1>4, <1>5, <2>3, Zenon
      <3>3. Replaced(fl.d, q, s, r)
        BY <3>2, WritePlaced, Zenon
      <3> QED  BY <3>1, <3>3, Zenon DEF Replaced
    <2>7. [fl.d EXCEPT ![name] = y] = [disk EXCEPT ![name] = y]
      <3> HIDE DEF x, y
      <3> QED  BY <1>1, <1>4, Zenon
    <2> HIDE DEF x, y
    <2>8. disk' = [disk EXCEPT ![name] = y] /\ file' = [file EXCEPT ![f] = r] /\ given' = s
      BY <1>2, <1>8, <2>2, <2>4, <2>5, <2>7, ZenonT(60) DEF Leave, q, fl
    <2>9. Does(f, y, r)
      BY <1>4, <2>3, <2>6, <2>7, <2>8, Zenon DEF Does
    <2>10. r.pos + Len(r.wbuf) = p + Len(s)
      <3>1. r.pos + Len(r.wbuf) = r.pos
        BY <1>5, <2>3, Empty, SMTT(30)
      <3> QED  BY <2>1, <2>3, <3>1, Zenon
    <2>11. Over(y, r.pos, r.wbuf) = Over(V, p, s)
      BY <2>1, <2>3, <2>6, Zenon DEF y
    <2>12. Streams!StreamsNext
      <3>1. Puts(f, y, r, s)
        BY <2>1, <2>3, <2>8, <2>10, <2>11, Zenon DEF Puts
      <3> QED  BY <2>9, <3>1, PutMaps, Zenon
    <2> QED  BY <2>9, <2>12, Zenon
  <1> QED  BY <1>6, <1>7, <1>8, Zenon

\* fputc: the byte joins the buffer, which is emptied when it is full or, on the console,
\* when a line ends.
LEMMA FputcMaps ==
    ASSUME StreamFlaws = {}, Proper(disk, file), NEW f \in Table, NEW b \in Chars, Fputc(f, b)
    PROVE  file[f].open /\ moving' = moving /\ \E x, r : Does(f, x, r) /\ Streams!StreamsNext
  <1> DEFINE name == file[f].name
             V == View(disk, file[f])
             p == file[f].pos + Len(file[f].wbuf)
             w == file[f].wbuf
             q == [file[f] EXCEPT !.wbuf = Append(w, b)]
             y == Over(V, p, <<b>>)
  <1>0. file[f].open /\ moving' = moving /\ file[f].unget = NoFile
    BY Zenon DEF Fputc, MayPut, Calls
  <1>1. file[f] \in Entry /\ Placed(disk, file[f]) /\ name \in Names
        /\ disk \in [Names -> Text \cup {NoFile}] /\ disk = [disk EXCEPT ![name] = disk[name]]
    BY <1>0, Zenon DEF Proper, Placed
  <1>2. w \in Text /\ file[f].pos \in Nat /\ file[f].pos \in 0..Len(disk[name]) /\ disk[name] \in Text
        /\ <<b>> \in Text /\ Len(<<b>>) = 1 /\ Append(w, b) = w \o <<b>> /\ Append(w, b) \in Text
        /\ Len(Append(w, b)) = Len(w) + 1 /\ Len(w) \in Nat
    BY <1>1, SMTT(20) DEF Entry, Placed, Text
  <1>3. q \in Entry /\ q.open /\ q.name = name /\ q.wbuf = Append(w, b) /\ q.pos = file[f].pos
        /\ q.is_console = file[f].is_console /\ q.unget = NoFile /\ q.error = file[f].error
    BY <1>0, <1>1, <1>2, Zenon DEF Entry
  <1>4. Placed(disk, q)
    BY <1>1, <1>3, ZenonT(60) DEF Placed
  <1>5. View(disk, q) = y
    BY <1>2, <1>3, OverOver, SMTT(30) DEF View
  <1>6. 1 \in 1..MaxLen
    BY StdioAssumption
  <1>p. q.pos + Len(q.wbuf) = p + Len(<<b>>)
    <2>1. q.pos = file[f].pos /\ Len(q.wbuf) = Len(w) + 1 /\ Len(<<b>>) = 1
          /\ file[f].pos \in Nat /\ Len(w) \in Nat
      BY <1>2, <1>3, Zenon
    <2> HIDE DEF q
    <2> QED  BY <2>1
  <1>7. \/ Leave(f, disk, q, <<b>>)
        \/ \E k \in WriteResults(Len(q.wbuf)) :
             Leave(f, FlushWbuf(disk, q, k).d, FlushWbuf(disk, q, k).r,
                   IF FlushWbuf(disk, q, k).ok THEN <<b>> ELSE <<NoFile>>)
    BY Zenon DEF Fputc
  <1> HIDE DEF q, y
  <1>8. CASE Leave(f, disk, q, <<b>>)
    <2>1. Does(f, disk[name], q) /\ given' = <<b>>
      BY <1>1, <1>2, <1>3, <1>4, <1>8, Zenon DEF Does, Leave
    <2>2. Over(disk[name], q.pos, q.wbuf) = y
      BY <1>3, <1>5, Zenon DEF View
    <2>4. Streams!StreamsNext
      <3>1. Puts(f, disk[name], q, <<b>>)
        BY <1>0, <1>2, <1>3, <1>p, <1>6, <2>1, <2>2, ZenonT(60) DEF Puts, y
      <3> QED  BY <1>0, <2>1, <3>1, PutMaps, Zenon
    <2> QED  BY <1>0, <2>1, <2>4, Zenon
  <1>9. ASSUME NEW k \in WriteResults(Len(q.wbuf)),
               Leave(f, FlushWbuf(disk, q, k).d, FlushWbuf(disk, q, k).r,
                     IF FlushWbuf(disk, q, k).ok THEN <<b>> ELSE <<NoFile>>)
        PROVE  \E x, r : Does(f, x, r) /\ Streams!StreamsNext
    <2> DEFINE fl == FlushWbuf(disk, q, k)
               x == fl.d[name]
               r == fl.r
    <2>0. FlushIs(disk, q, fl)
      BY <1>1, <1>3, <1>4, Flush, Zenon
    <2> HIDE DEF fl
    <2>1. /\ r \in Entry /\ r.open /\ r.name = name /\ r.wbuf = <<>> /\ r.unget = NoFile
          /\ Placed(fl.d, r) /\ x \in Text /\ fl.d = [disk EXCEPT ![name] = x]
          /\ \/ fl.ok /\ x = y /\ r.pos = q.pos + Len(q.wbuf) /\ r.error = file[f].error
             \/ ~fl.ok /\ r.error
      BY <1>3, <1>5, <2>0, Zenon DEF FlushIs
    <2>2. disk' = fl.d /\ file' = [file EXCEPT ![f] = r] /\ (fl.ok => given' = <<b>>)
      BY <1>9, Zenon DEF Leave, fl
    <2>3. Does(f, x, r)
      BY <2>1, <2>2, Zenon DEF Does
    <2>4. r.pos \in Nat /\ r.pos <= Len(x)
      BY <2>1, Zenon DEF Placed, Entry
    <2> HIDE DEF x, r
    <2>5. CASE ~fl.ok
      BY <1>0, <2>1, <2>3, <2>5, FailMaps, Zenon
    <2>6. CASE fl.ok
      <3>1. x = y /\ r.pos = q.pos + Len(q.wbuf) /\ r.error = file[f].error /\ given' = <<b>>
        BY <2>1, <2>2, <2>6, Zenon
      <3>2. r.pos \in 0..Len(x) /\ r.pos + Len(r.wbuf) = r.pos
        BY <2>1, <2>4, Empty, SMTT(30)
      <3>3. Over(x, r.pos, r.wbuf) = y
        BY <2>1, <3>1, <3>2, OverNothing, Zenon
      <3>4. r.pos + Len(r.wbuf) = p + Len(<<b>>)
        BY <1>p, <3>1, <3>2, Zenon
      <3>5. Over(x, r.pos, r.wbuf) = Over(View(disk, file[f]), file[f].pos + Len(file[f].wbuf), <<b>>)
        BY <3>3, Zenon DEF y
      <3>6. <<b>> \in Text /\ Len(<<b>>) \in 1..MaxLen
        BY <1>2, <1>6, Zenon
      <3>7. Streams!StreamsNext
        <4>1. Puts(f, x, r, <<b>>)
          BY <1>0, <2>1, <3>1, <3>4, <3>5, <3>6, ZenonT(60) DEF Puts
        <4> QED  BY <1>0, <2>3, <4>1, PutMaps, ZenonT(60)
      <3> QED  BY <2>3, <3>7, Zenon
    <2> QED  BY <2>5, <2>6, Zenon
  <1> QED  BY <1>0, <1>7, <1>8, <1>9, Zenon

\* A stream with nothing in its buffer.
LEMMA NoBuffer ==
    ASSUME Proper(disk, file), NEW f \in Table, file[f].open, file[f].wbuf = <<>>
    PROVE  /\ file[f] \in Entry /\ Placed(disk, file[f]) /\ file[f].name \in Names
           /\ disk[file[f].name] \in Text /\ file[f].pos \in 0..Len(disk[file[f].name])
           /\ Len(disk[file[f].name]) \in Nat
           /\ View(disk, file[f]) = disk[file[f].name]
           /\ disk = [disk EXCEPT ![file[f].name] = disk[file[f].name]]
           /\ Len(file[f].wbuf) = 0
           /\ Before(disk, file[f]) = (IF file[f].unget = NoFile THEN <<>> ELSE <<file[f].unget>>)
                \o SubSeq(disk[file[f].name], file[f].pos + 1, Len(disk[file[f].name]))
  <1>1. file[f] \in Entry /\ Placed(disk, file[f]) /\ file[f].name \in Names
        /\ disk = [disk EXCEPT ![file[f].name] = disk[file[f].name]]
    BY Zenon DEF Proper, Placed
  <1>2. disk[file[f].name] \in Text /\ file[f].pos \in 0..Len(disk[file[f].name])
        /\ Len(disk[file[f].name]) \in Nat /\ Len(file[f].wbuf) = 0
        /\ file[f].pos + Len(file[f].wbuf) = file[f].pos
    BY <1>1, SMTT(30) DEF Placed, Entry, Text
  <1>3. View(disk, file[f]) = disk[file[f].name]
    <2>1. Over(disk[file[f].name], file[f].pos, <<>>) = disk[file[f].name]
      BY <1>2, OverNothing, Zenon
    <2> QED  BY <2>1, Zenon DEF View
  <1> QED  BY <1>1, <1>2, <1>3, Zenon DEF Before

\* A read that takes got from a stream with nothing in its buffer, and leaves the entry r.
Reads(f, r, got) ==
    /\ got \in Text /\ r \in Entry
    /\ r.open /\ r.name = file[f].name /\ r.is_console = file[f].is_console /\ r.wbuf = <<>>
    /\ r.error = file[f].error
    /\ r.unget = IF got = <<>> THEN file[f].unget ELSE NoFile
    /\ r.pos = Back(file[f].pos, file[f].unget) + Len(got)
    /\ r.pos <= Len(disk[file[f].name])
    /\ Len(got) <= Len(Before(disk, file[f])) /\ got = SubSeq(Before(disk, file[f]), 1, Len(got))
    /\ got = <<>> => Before(disk, file[f]) = <<>>
    /\ Leave(f, disk, r, got)

\* Such a read takes what comes next in ByteStreams.
LEMMA ReadMaps ==
    ASSUME Proper(disk, file), NEW f \in Table, file[f].open, file[f].wbuf = <<>>,
           ~file[f].is_console, NEW got, NEW r, Reads(f, r, got)
    PROVE  \E x, q : Does(f, x, q) /\ Streams!StreamsNext
  <1>0. /\ got \in Text /\ r \in Entry
        /\ r.open /\ r.name = file[f].name /\ r.is_console = file[f].is_console /\ r.wbuf = <<>>
        /\ r.pos = Back(file[f].pos, file[f].unget) + Len(got)
        /\ r.pos <= Len(disk[file[f].name])
        /\ Leave(f, disk, r, got)
    BY Zenon DEF Reads
  <1> DEFINE d == disk[file[f].name]
  <1>1. /\ file[f] \in Entry /\ Placed(disk, file[f]) /\ file[f].name \in Names /\ d \in Text
        /\ Len(d) \in Nat /\ View(disk, file[f]) = d /\ disk = [disk EXCEPT ![file[f].name] = d]
        /\ Len(file[f].wbuf) = 0 /\ file[f].pos \in Nat /\ r.pos \in Nat
    BY <1>0, NoBuffer, Zenon DEF Entry
  <1>2. Placed(disk, r)
    BY <1>0, <1>1, Zenon DEF Placed
  <1>3. Does(f, d, r) /\ given' = got
    BY <1>0, <1>1, <1>2, Zenon DEF Does, Leave
  <1>4. Over(d, r.pos, r.wbuf) = View(disk, file[f])
    <2>1. r.pos \in 0..Len(d) /\ d \in Text
      BY <1>0, <1>1
    <2>2. Over(d, r.pos, <<>>) = d
      BY <2>1, OverNothing, Zenon
    <2> QED  BY <1>0, <1>1, <2>2, ZenonT(60)
  <1>5. r.pos + Len(r.wbuf) = Back(file[f].pos + Len(file[f].wbuf), file[f].unget) + Len(got)
    <2>1. r.pos + Len(r.wbuf) = r.pos /\ file[f].pos + Len(file[f].wbuf) = file[f].pos
      BY <1>0, <1>1, Empty, SMTT(30)
    <2> QED  BY <1>0, <2>1, Zenon
  <1>6. Streams!StreamsNext
    <2>1. Takes(f, d, r, got)
      BY <1>3, <1>4, <1>5, Zenon DEF Takes, Reads
    <2> QED  BY <1>3, <2>1, TakeMaps, Zenon
  <1> QED  BY <1>3, <1>6, Zenon

\* What a guard that MayGet makes sure of.
LEMMA Gets ==
    ASSUME StreamFlaws = {}, NEW f \in Table, MayGet(f)
    PROVE  file[f].open /\ moving = Idle /\ ~file[f].is_console /\ file[f].wbuf = <<>>
  BY Zenon DEF MayGet, Calls, Spared, Flawed

\* An entry with another place, another byte pushed back and another error indicator.
Altered(q, r, at, back, err) ==
    /\ q \in Entry /\ q.open = r.open /\ q.name = r.name /\ q.is_console = r.is_console
    /\ q.wbuf = r.wbuf /\ q.pos = at /\ q.unget = back /\ q.error = err

\* The changes that fgetc, fgets, ungetc, clearerr, fseek and rewind make to an entry.
LEMMA Alterations ==
    ASSUME NEW r \in Entry
    PROVE  /\ Altered([r EXCEPT !.unget = NoFile], r, r.pos, NoFile, r.error)
           /\ Altered([r EXCEPT !.eof = TRUE], r, r.pos, r.unget, r.error)
           /\ Altered([r EXCEPT !.error = FALSE, !.eof = FALSE], r, r.pos, r.unget, FALSE)
           /\ \A at \in Nat : Altered([r EXCEPT !.pos = at], r, at, r.unget, r.error)
           /\ \A b \in Chars : Altered([r EXCEPT !.unget = b, !.eof = FALSE], r, r.pos, b, r.error)
           /\ \A at \in Nat : Altered([r EXCEPT !.eof = FALSE, !.unget = NoFile, !.pos = at],
                                      r, at, NoFile, r.error)
           /\ \A at \in Nat : Altered([r EXCEPT !.eof = FALSE, !.unget = NoFile, !.pos = at,
                                                !.error = FALSE], r, at, NoFile, FALSE)
           /\ \A at \in Nat, b \in Chars \cup {NoFile}, e \in BOOLEAN :
                    Altered([r EXCEPT !.pos = at, !.unget = b, !.eof = e], r, at, b, r.error)
  <1>1. Altered([r EXCEPT !.unget = NoFile], r, r.pos, NoFile, r.error)
    BY Zenon DEF Altered, Entry
  <1>2. Altered([r EXCEPT !.eof = TRUE], r, r.pos, r.unget, r.error)
    BY Zenon DEF Altered, Entry
  <1>3. Altered([r EXCEPT !.error = FALSE, !.eof = FALSE], r, r.pos, r.unget, FALSE)
    BY Zenon DEF Altered, Entry
  <1>4. ASSUME NEW at \in Nat PROVE Altered([r EXCEPT !.pos = at], r, at, r.unget, r.error)
    BY Zenon DEF Altered, Entry
  <1>5. ASSUME NEW b \in Chars
        PROVE  Altered([r EXCEPT !.unget = b, !.eof = FALSE], r, r.pos, b, r.error)
    BY Zenon DEF Altered, Entry
  <1>6. ASSUME NEW at \in Nat
        PROVE  Altered([r EXCEPT !.eof = FALSE, !.unget = NoFile, !.pos = at], r, at, NoFile, r.error)
    BY Zenon DEF Altered, Entry
  <1>7. ASSUME NEW at \in Nat
        PROVE  Altered([r EXCEPT !.eof = FALSE, !.unget = NoFile, !.pos = at, !.error = FALSE],
                       r, at, NoFile, FALSE)
    BY Zenon DEF Altered, Entry
  <1>8. ASSUME NEW at \in Nat, NEW b \in Chars \cup {NoFile}, NEW e \in BOOLEAN
        PROVE  Altered([r EXCEPT !.pos = at, !.unget = b, !.eof = e], r, at, b, r.error)
    BY Zenon DEF Altered, Entry
  <1> QED  BY <1>1, <1>2, <1>3, <1>4, <1>5, <1>6, <1>7, <1>8, ZenonT(60)

\* The place of a stream.
Spot(n, at, back, err) == [name |-> n, at |-> at, back |-> back, failed |-> err]

HasParts(n, at, back, err) ==
    /\ Spot(n, at, back, err).name = n /\ Spot(n, at, back, err).at = at
    /\ Spot(n, at, back, err).back = back

\* The fields of a place are what it was made of.
LEMMA SpotParts ==
    ASSUME NEW n, NEW at, NEW back, NEW err
    PROVE  HasParts(n, at, back, err)
  BY Zenon DEF HasParts, Spot

\* The place with another byte pushed back, with another error indicator, further on.
TakesBack(n, at, back, err, b) == [Spot(n, at, back, err) EXCEPT !.back = b] = Spot(n, at, b, err)
TakesFailed(n, at, back, err, e) == [Spot(n, at, back, err) EXCEPT !.failed = e] = Spot(n, at, back, e)
TakesAt(n, at, back, err, a) == [Spot(n, at, back, err) EXCEPT !.at = a] = Spot(n, a, back, err)

\* A byte pushed back changes that field only.
LEMMA SpotBack ==
    ASSUME NEW n, NEW at, NEW back, NEW err, NEW b
    PROVE  TakesBack(n, at, back, err, b)
  BY DEF TakesBack, Spot

\* A change of the error indicator changes that field only.
LEMMA SpotFailed ==
    ASSUME NEW n, NEW at, NEW back, NEW err, NEW e
    PROVE  TakesFailed(n, at, back, err, e)
  BY DEF TakesFailed, Spot

\* A move changes that field only.
LEMMA SpotAt ==
    ASSUME NEW n, NEW at, NEW back, NEW err, NEW a
    PROVE  TakesAt(n, at, back, err, a)
  BY DEF TakesAt, Spot

\* The place of a stream before and after.
Shifted(q, r, at, back, err) ==
    /\ CursorOf(r) = Spot(r.name, r.pos + Len(r.wbuf), r.unget, r.error)
    /\ CursorOf(q) = Spot(r.name, at + Len(r.wbuf), back, err)

\* A change of an entry shows in the stream's place as the same change.
LEMMA AlteredCursor ==
    ASSUME NEW q, NEW r, NEW at, NEW back, NEW err, r.open, Altered(q, r, at, back, err)
    PROVE  Shifted(q, r, at, back, err)
  BY Zenon DEF Altered, CursorOf, Spot, Shifted

\* The fields of an entry.
LEMMA EntryIs ==
    ASSUME NEW r \in Entry
    PROVE  /\ r.pos \in Nat /\ r.wbuf \in Text /\ r.unget \in Chars \cup {NoFile}
           /\ r.error \in BOOLEAN /\ r.eof \in BOOLEAN
  BY Zenon DEF Entry

\* fgetc: the byte pushed back or the next one of the file.
LEMMA FgetcMaps ==
    ASSUME StreamFlaws = {}, Proper(disk, file), NEW f \in Table, Fgetc(f)
    PROVE  file[f].open /\ moving' = moving /\ \E x, r : Does(f, x, r) /\ Streams!StreamsNext
  <1> DEFINE r == file[f]
             d == disk[r.name]
             rest == SubSeq(d, r.pos + 1, Len(d))
  <1>1. r.open /\ ~r.is_console /\ r.wbuf = <<>> /\ moving' = moving
    BY Gets, Zenon DEF Fgetc
  <1>2. /\ r \in Entry /\ d \in Text /\ r.pos \in 0..Len(d) /\ Len(d) \in Nat
        /\ Before(disk, r) = (IF r.unget = NoFile THEN <<>> ELSE <<r.unget>>) \o rest
    BY <1>1, NoBuffer, Zenon
  <1>3. rest \in Text /\ Len(rest) = Len(d) - r.pos /\ r.pos \in Nat /\ r.unget \in Chars \cup {NoFile}
    BY <1>2, Cut, EntryIs, Zenon
  <1>4. CASE r.unget # NoFile
    <2> DEFINE q == [r EXCEPT !.unget = NoFile]
               got == <<r.unget>>
    <2>1. Leave(f, disk, q, got)
      BY <1>4, Zenon DEF Fgetc
    <2>2. r.unget \in Chars
      BY <1>3, <1>4, Zenon
    <2>3. got \in Text /\ Len(got) = 1 /\ got # <<>>
      BY <2>2, One, Zenon
    <2>4. Altered(q, r, r.pos, NoFile, r.error)
      BY <1>2, Alterations, Zenon
    <2>5. Len(got) <= Len(Before(disk, r)) /\ got = SubSeq(Before(disk, r), 1, Len(got))
      <3>1. Before(disk, r) = got \o rest
        BY <1>2, <1>4, Zenon
      <3>2. Len(got \o rest) >= 1 /\ SubSeq(got \o rest, 1, 1) = got
        <4>1. got \o rest \in Text /\ Len(got \o rest) = 1 + Len(rest) /\ (got \o rest)[1] = r.unget
          BY <1>3, <2>2, Behind, ZenonT(60)
        <4>2. got \o rest # <<>>
          BY <1>3, <4>1, Empty, SMTT(30)
        <4> HIDE DEF rest
        <4> QED  BY <4>1, <4>2, First, Zenon
      <3>3. 1 <= Len(got \o rest)
        <4>1. Len(got \o rest) \in Nat
          BY <1>3, <2>3, Joined, Zenon
        <4> QED  BY <3>2, <4>1, Zenon
      <3> QED  BY <2>3, <3>1, <3>2, <3>3, Zenon
    <2>6. r.pos = Back(r.pos, r.unget) + Len(got) /\ r.pos <= Len(d)
      <3>1. Back(r.pos, r.unget) = r.pos - 1
        BY <1>4, ZenonT(60) DEF Back
      <3>2. r.pos = r.pos - 1 + 1 /\ r.pos <= Len(d)
        BY <1>2, <1>3, SMTT(30)
      <3> QED  BY <2>3, <3>1, <3>2, Zenon
    <2> HIDE DEF q, got
    <2>7. Reads(f, q, got)
      BY <1>1, <2>1, <2>3, <2>4, <2>5, <2>6, ZenonT(60) DEF Reads, Altered
    <2>8. \E x, z : Does(f, x, z) /\ Streams!StreamsNext
      BY <1>1, <2>7, ReadMaps, ZenonT(60)
    <2> QED  BY <1>1, <2>8, Zenon
  <1>5. CASE r.unget = NoFile /\ rest # <<>>
    <2> DEFINE q == [r EXCEPT !.pos = r.pos + 1]
               got == <<rest[1]>>
    <2>1. Leave(f, disk, q, got)
      <3>1. ReadResults(1) = {1} /\ 1 > 0
        BY Results
      <3> QED  BY <1>5, <3>1, Zenon DEF Fgetc
    <2>2. rest[1] \in Chars /\ Len(rest) >= 1 /\ SubSeq(rest, 1, 1) = got
      BY <1>3, <1>5, First, Zenon
    <2>3. got \in Text /\ Len(got) = 1 /\ got # <<>>
      <3>1. \A b \in Chars : <<b>> \in Text /\ Len(<<b>>) = 1 /\ <<b>> # <<>>
        BY One, Zenon
      <3> QED  BY <2>2, <3>1, Zenon
    <2>4. 1 <= Len(rest) /\ r.pos + 1 \in Nat /\ r.pos + 1 <= Len(d)
      <3>1. \A k, l \in Nat : l - k >= 1 => 1 <= l - k /\ k + 1 \in Nat /\ k + 1 <= l
        OBVIOUS
      <3>2. r.pos \in Nat /\ Len(d) \in Nat /\ Len(rest) = Len(d) - r.pos
        BY <1>2, <1>3, Zenon
      <3>3. Len(d) - r.pos >= 1
        BY <2>2, <3>2, Zenon
      <3>4. 1 <= Len(d) - r.pos /\ r.pos + 1 \in Nat /\ r.pos + 1 <= Len(d)
        BY <3>1, <3>2, <3>3, Zenon
      <3> QED  BY <3>2, <3>4, Zenon
    <2>5. Altered(q, r, r.pos + 1, r.unget, r.error)
      BY <1>2, <2>4, Alterations, Zenon
    <2>6. Before(disk, r) = rest
      BY <1>2, <1>3, <1>5, Behind, ZenonT(60)
    <2>7. r.pos + 1 = Back(r.pos, r.unget) + Len(got)
      BY <1>5, <2>3, Zenon DEF Back
    <2> HIDE DEF q, got
    <2>8. Reads(f, q, got)
      BY <1>1, <1>5, <2>1, <2>2, <2>3, <2>4, <2>5, <2>6, <2>7, ZenonT(60) DEF Reads, Altered
    <2>9. \E x, z : Does(f, x, z) /\ Streams!StreamsNext
      BY <1>1, <2>8, ReadMaps, Zenon
    <2> QED  BY <1>1, <2>9, Zenon
  <1>6. CASE r.unget = NoFile /\ rest = <<>>
    <2> DEFINE q == [r EXCEPT !.eof = TRUE]
               got == <<>>
    <2>1. Leave(f, disk, q, got)
      <3>1. ReadResults(0) = {0} /\ ~(0 > 0)
        BY Results
      <3> QED  BY <1>6, <3>1, Zenon DEF Fgetc
    <2>2. got \in Text /\ Len(got) = 0 /\ got = <<>>
      BY Empty, Zenon
    <2>3. Altered(q, r, r.pos, r.unget, r.error)
      BY <1>2, Alterations, Zenon
    <2>4. Before(disk, r) = got
      BY <1>2, <1>3, <1>6, Behind, Zenon
    <2>5. 0 <= 0 /\ SubSeq(<<>>, 1, 0) = <<>>
      BY SMTT(20)
    <2>6. r.pos = r.pos + 0 /\ r.pos <= Len(d)
      BY <1>2, <1>3, SMTT(30)
    <2>7. r.pos = Back(r.pos, r.unget) + Len(got)
      BY <1>6, <2>2, <2>6, Zenon DEF Back
    <2>8. Len(got) <= Len(Before(disk, r)) /\ got = SubSeq(Before(disk, r), 1, Len(got))
      BY <2>2, <2>4, <2>5, ZenonT(60)
    <2> HIDE DEF q, got
    <2>9. Reads(f, q, got)
      BY <1>1, <1>6, <2>1, <2>2, <2>3, <2>4, <2>6, <2>7, <2>8, ZenonT(60) DEF Reads, Altered
    <2>10. \E x, z : Does(f, x, z) /\ Streams!StreamsNext
      BY <1>1, <2>9, ReadMaps, ZenonT(60)
    <2> QED  BY <1>1, <2>10, Zenon
  <1> QED  BY <1>4, <1>5, <1>6, Zenon

\* fgets: the bytes up to the end of a line, n - 1 of them or all there are.
LEMMA FgetsMaps ==
    ASSUME StreamFlaws = {}, Proper(disk, file), NEW f \in Table, NEW n \in 2..MaxLen + 1, Fgets(f, n)
    PROVE  file[f].open /\ moving' = moving /\ \E x, r : Does(f, x, r) /\ Streams!StreamsNext
  <1> DEFINE r == file[f]
             d == disk[r.name]
             rest == SubSeq(d, r.pos + 1, Len(d))
             back == IF r.unget = NoFile THEN <<>> ELSE <<r.unget>>
             ahead == back \o rest
             ends == {i \in 1..Len(ahead) : ahead[i] = Newline \/ i = n - 1}
             k == IF ends = {} THEN Len(ahead) ELSE CHOOSE i \in ends : \A j \in ends : i <= j
             q == [r EXCEPT !.pos = @ + k - (IF k > 0 THEN Len(back) ELSE 0),
                            !.unget = IF k > 0 THEN NoFile ELSE @,
                            !.eof = @ \/ ends = {}]
             got == SubSeq(ahead, 1, k)
  <1>1. r.open /\ ~r.is_console /\ r.wbuf = <<>> /\ moving' = moving /\ Leave(f, disk, q, got)
    BY Gets, Zenon DEF Fgets
  <1>2. /\ r \in Entry /\ d \in Text /\ r.pos \in 0..Len(d) /\ Len(d) \in Nat /\ Before(disk, r) = ahead
    BY <1>1, NoBuffer, Zenon
  <1>3. rest \in Text /\ Len(rest) = Len(d) - r.pos /\ r.pos \in Nat /\ r.unget \in Chars \cup {NoFile}
        /\ r.eof \in BOOLEAN
    BY <1>2, Cut, EntryIs, Zenon
  <1>4. back \in Text /\ (r.unget = NoFile => Len(back) = 0) /\ (r.unget # NoFile => Len(back) = 1)
    <2>1. CASE r.unget = NoFile
      <3>1. back = <<>>
        BY <2>1, Zenon
      <3>2. <<>> \in Text /\ Len(<<>>) = 0
        BY Empty, Zenon
      <3>3. back \in Text /\ Len(back) = 0
        BY <3>1, <3>2, Zenon
      <3> QED  BY <2>1, <3>3, Zenon
    <2>2. CASE r.unget # NoFile
      <3>1. r.unget \in Chars
        BY <1>3, <2>2, Zenon
      <3>2. <<r.unget>> \in Text /\ Len(<<r.unget>>) = 1
        BY <3>1, One, Zenon
      <3> QED  BY <2>2, <3>2, Zenon
    <2> QED  BY <2>1, <2>2, Zenon
  <1>5. ahead \in Text /\ Len(ahead) = Len(back) + Len(rest) /\ Len(ahead) \in Nat
    <2>1. ahead \in Text /\ Len(ahead) = Len(back) + Len(rest)
      BY <1>3, <1>4, Joined, Zenon
    <2> QED  BY <2>1, Empty, Zenon
  <1> HIDE DEF rest, back, ahead
  <1>b. Len(back) = IF r.unget = NoFile THEN 0 ELSE 1
    BY <1>4, Zenon
  <1>6. k \in 0..Len(ahead) /\ (k = 0 => Len(ahead) = 0)
    <2>1. CASE ends = {}
      BY <1>5, <2>1, SMTT(30)
    <2>2. CASE ends # {}
      <3>1. ends \subseteq Nat
        OBVIOUS
      <3>2. PICK i \in ends : \A j \in ends : i <= j
        BY <2>2, <3>1, HasLeast, Zenon
      <3>3. k \in ends
        BY <2>2, <3>2, Zenon
      <3>4. k \in 1..Len(ahead)
        BY <3>3, Zenon
      <3> HIDE DEF k
      <3> QED  BY <1>5, <3>4, SMTT(30)
    <2> QED  BY <2>1, <2>2, Zenon
  <1>7. (ends = {}) \in BOOLEAN
    BY Zenon
  <1> HIDE DEF k, ends
  <1>8. got \in Text /\ Len(got) = k /\ (got = <<>> <=> k = 0)
    <2>1. got \in Text /\ Len(got) = k
      BY <1>5, <1>6, Cut, Zenon
    <2> QED  BY <2>1, Empty, Zenon
  <1> DEFINE at == r.pos + k - (IF k > 0 THEN Len(back) ELSE 0)
             byte == IF k > 0 THEN NoFile ELSE r.unget
  <1>9. at \in Nat /\ byte \in Chars \cup {NoFile} /\ (r.eof \/ ends = {}) \in BOOLEAN
    <2>1. at \in Nat
      BY <1>3, <1>b, <1>6, SMTT(30)
    <2> QED  BY <1>3, <2>1, Zenon
  <1>10. Altered(q, r, at, byte, r.error)
    BY <1>2, <1>9, Alterations, Zenon
  <1>11. byte = IF got = <<>> THEN r.unget ELSE NoFile
    <2>1. k = 0 <=> ~(k > 0)
      BY <1>6
    <2> QED  BY <1>8, <2>1, Zenon
  <1>12. at = Back(r.pos, r.unget) + Len(got) /\ at <= Len(d)
    <2>1. CASE r.unget = NoFile
      <3>1. Len(back) = 0
        BY <1>4, <2>1, ZenonT(60)
      <3>2. at = r.pos + k /\ at <= Len(d)
        BY <1>2, <1>3, <1>5, <1>6, <3>1, SMTT(30)
      <3> QED  BY <1>8, <2>1, <3>2, Zenon DEF Back
    <2>2. CASE r.unget # NoFile
      <3>1. Len(back) = 1
        BY <1>4, <2>2, ZenonT(60)
      <3>2. at = r.pos - 1 + k /\ at <= Len(d)
        BY <1>2, <1>3, <1>5, <1>6, <3>1, SMTT(60)
      <3> QED  BY <1>8, <2>2, <3>2, Zenon DEF Back
    <2> QED  BY <2>1, <2>2, Zenon
  <1>13. got = <<>> => ahead = <<>>
    BY <1>5, <1>6, <1>8, Empty, Zenon
  <1>14. Len(got) <= Len(ahead) /\ got = SubSeq(ahead, 1, Len(got))
    <2>1. k <= Len(ahead)
      BY <1>6, SMTT(30)
    <2> QED  BY <1>8, <2>1, Zenon
  <1> HIDE DEF q, got, at, byte
  <1>15. Reads(f, q, got)
    BY <1>1, <1>2, <1>8, <1>10, <1>11, <1>12, <1>13, <1>14, ZenonT(60) DEF Reads, Altered
  <1>16. \E x, z : Does(f, x, z) /\ Streams!StreamsNext
    BY <1>1, <1>15, ReadMaps, ZenonT(60)
  <1> QED  BY <1>1, <1>16, Zenon

\* A call that leaves what is seen of the files as it was.
Kept(f, r) ==
    /\ Cursors(file)[f] = CursorOf(file[f]) /\ CursorOf(file[f]) # NoFile
    /\ Cursors(file') = [Cursors(file) EXCEPT ![f] = CursorOf(r)]
    /\ Bytes(disk', file') = Bytes(disk, file)
    /\ Bytes(disk, file)[file[f].name] = View(disk, file[f])

\* Whatever the call does to the buffer, when the file with it is the same only the cursor
\* moves.
LEMMA CursorMaps ==
    ASSUME Proper(disk, file), NEW f \in Table, file[f].open, NEW x, NEW r, Does(f, x, r),
           Over(x, r.pos, r.wbuf) = View(disk, file[f])
    PROVE  Kept(f, r)
  <1>1. /\ Cursors(file)[f] = CursorOf(file[f]) /\ CursorOf(file[f]) # NoFile
        /\ Cursors(file') = [Cursors(file) EXCEPT ![f] = CursorOf(r)]
        /\ Bytes(disk, file)[file[f].name] = View(disk, file[f])
        /\ Bytes(disk', file') = [Bytes(disk, file) EXCEPT ![file[f].name] = Over(x, r.pos, r.wbuf)]
    <2>1. Mapped(f, x, r)
      BY CallMaps, Zenon
    <2> QED  BY <2>1, Zenon DEF Mapped
  <1>2. Bytes(disk', file') = Bytes(disk, file)
    BY <1>1, Zenon DEF Bytes
  <1> QED  BY <1>1, <1>2, Zenon DEF Kept

\* A call that leaves another byte pushed back or another error indicator, and nothing else.
Marks(f, r, back, err) ==
    /\ Does(f, disk[file[f].name], r) /\ Kept(f, r)
    /\ LET at == file[f].pos + Len(file[f].wbuf) IN
       /\ CursorOf(file[f]) = Spot(file[f].name, at, file[f].unget, file[f].error)
       /\ CursorOf(r) = Spot(file[f].name, at, back, err)

\* ungetc and clearerr do no more.
LEMMA MarkMaps ==
    ASSUME Proper(disk, file), NEW f \in Table, file[f].open, NEW r, NEW back, NEW err,
           Altered(r, file[f], file[f].pos, back, err), disk' = disk, file' = [file EXCEPT ![f] = r]
    PROVE  Marks(f, r, back, err)
  <1> DEFINE d == disk[file[f].name]
  <1>1. /\ file[f] \in Entry /\ Placed(disk, file[f]) /\ d \in Text
        /\ disk = [disk EXCEPT ![file[f].name] = d]
    BY Zenon DEF Proper, Placed
  <1>2. r \in Entry /\ r.open /\ r.name = file[f].name /\ r.is_console = file[f].is_console
        /\ r.wbuf = file[f].wbuf /\ r.pos = file[f].pos
    BY Zenon DEF Altered
  <1>3. Placed(disk, r)
    BY <1>1, <1>2, Zenon DEF Placed
  <1>4. Does(f, d, r)
    BY <1>1, <1>2, <1>3, ZenonT(60) DEF Does
  <1>5. Over(d, r.pos, r.wbuf) = View(disk, file[f])
    BY <1>2, Zenon DEF View
  <1>6. Kept(f, r)
    BY <1>4, <1>5, CursorMaps, Zenon
  <1>7. /\ CursorOf(file[f]) = Spot(file[f].name, file[f].pos + Len(file[f].wbuf), file[f].unget, file[f].error)
        /\ CursorOf(r) = Spot(file[f].name, file[f].pos + Len(file[f].wbuf), back, err)
    <2>1. Shifted(r, file[f], file[f].pos, back, err)
      BY AlteredCursor, Zenon
    <2> QED  BY <2>1, Zenon DEF Shifted
  <1> QED  BY <1>4, <1>6, <1>7, Zenon DEF Marks

\* ungetc: the byte is the next one to be read.
LEMMA UngetcMaps ==
    ASSUME StreamFlaws = {}, Proper(disk, file), NEW f \in Table, NEW b \in Chars, Ungetc(f, b)
    PROVE  file[f].open /\ moving' = moving /\ \E x, r : Does(f, x, r) /\ Streams!StreamsNext
  <1> DEFINE r == [file[f] EXCEPT !.unget = b, !.eof = FALSE]
             d == disk[file[f].name]
             c == CursorOf(file[f])
  <1>1. file[f].open /\ moving' = moving
        /\ file[f].unget = NoFile /\ Leave(f, disk, r, <<b>>)
    BY Gets, Zenon DEF Ungetc
  <1>2. file[f] \in Entry
    BY Zenon DEF Proper
  <1>3. Altered(r, file[f], file[f].pos, b, file[f].error)
    BY <1>2, Alterations, Zenon
  <1> HIDE DEF r
  <1>4. disk' = disk /\ file' = [file EXCEPT ![f] = r] /\ given' = <<b>>
    BY <1>1, Zenon DEF Leave
  <1>5. Marks(f, r, b, file[f].error)
    BY <1>1, <1>3, <1>4, MarkMaps, ZenonT(60)
  <1> DEFINE at == file[f].pos + Len(file[f].wbuf)
  <1>6. /\ Does(f, d, r) /\ Cursors(file)[f] = c /\ c # NoFile
        /\ Cursors(file') = [Cursors(file) EXCEPT ![f] = CursorOf(r)]
        /\ Bytes(disk', file') = Bytes(disk, file)
        /\ c = Spot(file[f].name, at, NoFile, file[f].error)
        /\ CursorOf(r) = Spot(file[f].name, at, b, file[f].error)
    BY <1>1, <1>5, Zenon DEF Marks, Kept
  <1>7. c.back = NoFile /\ CursorOf(r) = [c EXCEPT !.back = b]
    <2> DEFINE p == Spot(file[f].name, at, NoFile, file[f].error)
    <2>1. HasParts(file[f].name, at, NoFile, file[f].error)
      BY SpotParts, Zenon
    <2>2. TakesBack(file[f].name, at, NoFile, file[f].error, b)
      BY SpotBack, Zenon
    <2>3. p.back = NoFile /\ [p EXCEPT !.back = b] = Spot(file[f].name, at, b, file[f].error)
      BY <2>1, <2>2, Zenon DEF HasParts, TakesBack
    <2> HIDE DEF p
    <2> QED  BY <1>6, <2>3, Zenon DEF p
  <1> HIDE DEF c
  <1>8. Cursors(file') = [Cursors(file) EXCEPT ![f].back = b]
    BY <1>6, <1>7, Zenon
  <1>9. Streams!PushBack(f, b)
    BY <1>4, <1>6, <1>7, <1>8, Mapping, ZenonT(60) DEF Streams!PushBack
  <1>10. Streams!StreamsNext
    BY <1>6, <1>9, StreamCall, Zenon
  <1> QED  BY <1>1, <1>6, <1>10, Zenon

\* A call that clears the error indicator, or finds it clear.
Clears(f, r) ==
    /\ Kept(f, r) /\ given' = <<>>
    /\ CursorOf(r) = [CursorOf(file[f]) EXCEPT !.failed = FALSE]

\* Such a call is ClearError of ByteStreams.
LEMMA ClearMaps ==
    ASSUME NEW f \in Table, NEW r, Clears(f, r)
    PROVE  Streams!StreamsNext
  <1>1. /\ Cursors(file)[f] # NoFile
        /\ Cursors(file') = [Cursors(file) EXCEPT ![f].failed = FALSE]
        /\ Bytes(disk', file') = Bytes(disk, file)
    BY Zenon DEF Clears, Kept
  <1>2. Streams!ClearError(f)
    BY <1>1, Mapping, Zenon DEF Streams!ClearError, Clears
  <1> QED  BY <1>1, <1>2, StreamCall, Zenon

\* clearerr
LEMMA ClearerrMaps ==
    ASSUME Proper(disk, file), NEW f \in Table, Clearerr(f)
    PROVE  file[f].open /\ moving' = moving /\ \E x, r : Does(f, x, r) /\ Streams!StreamsNext
  <1> DEFINE r == [file[f] EXCEPT !.error = FALSE, !.eof = FALSE]
             d == disk[file[f].name]
             c == CursorOf(file[f])
  <1>1. file[f].open /\ moving' = moving /\ Leave(f, disk, r, <<>>)
    BY Zenon DEF Clearerr, Calls
  <1>2. file[f] \in Entry
    BY Zenon DEF Proper
  <1>3. Altered(r, file[f], file[f].pos, file[f].unget, FALSE)
    BY <1>2, Alterations, Zenon
  <1> HIDE DEF r
  <1>4. disk' = disk /\ file' = [file EXCEPT ![f] = r] /\ given' = <<>>
    BY <1>1, Zenon DEF Leave
  <1>5. Marks(f, r, file[f].unget, FALSE)
    BY <1>1, <1>3, <1>4, MarkMaps, Zenon
  <1>6. Does(f, d, r) /\ Kept(f, r)
    BY <1>5, Zenon DEF Marks
  <1>7. CursorOf(r) = [c EXCEPT !.failed = FALSE]
    <2> DEFINE at == file[f].pos + Len(file[f].wbuf)
    <2>1. /\ c = Spot(file[f].name, at, file[f].unget, file[f].error)
          /\ CursorOf(r) = Spot(file[f].name, at, file[f].unget, FALSE)
      BY <1>5, Zenon DEF Marks
    <2>2. TakesFailed(file[f].name, at, file[f].unget, file[f].error, FALSE)
      BY SpotFailed, Zenon
    <2> HIDE DEF c, at
    <2> QED  BY <2>1, <2>2, Zenon DEF TakesFailed
  <1>8. Clears(f, r)
    BY <1>4, <1>6, <1>7, ZenonT(60) DEF Clears
  <1>9. Streams!StreamsNext
    BY <1>8, ClearMaps, Zenon
  <1> QED  BY <1>1, <1>6, <1>9, Zenon

\* ftell
LEMMA FtellMaps ==
    ASSUME StreamFlaws = {}, Proper(disk, file), NEW f \in Table, Ftell(f)
    PROVE  UNCHANGED <<disk, file, moving>> /\ Streams!StreamsNext
  <1> DEFINE c == CursorOf(file[f])
  <1>1. file[f].open /\ file[f].wbuf = <<>> /\ file[f].unget = NoFile /\ given' = <<file[f].pos>>
        /\ UNCHANGED <<disk, file, moving>>
    BY Zenon DEF Ftell, Calls, Spared, Flawed
  <1>2. file[f] \in Entry /\ file[f].name \in Names
    BY <1>1, Zenon DEF Proper, Placed
  <1>3. Cursors(file)[f] = c /\ c # NoFile
    BY <1>1, <1>2, CursorIs, ZenonT(60) DEF Cursors
  <1>4. c.back = NoFile /\ c.at = file[f].pos
    BY <1>1, <1>2, SMTT(30) DEF CursorOf, Entry
  <1>5. Cursors(file') = Cursors(file) /\ Bytes(disk', file') = Bytes(disk, file)
    BY <1>1, Zenon
  <1>6. Streams!Tell(f)
    BY <1>1, <1>3, <1>4, <1>5, Mapping, ZenonT(60) DEF Streams!Tell, Streams!Place
  <1> QED  BY <1>1, <1>3, <1>6, StreamCall, ZenonT(60)

\* fflush: nothing is seen of it, unless it fails.
LEMMA FflushMaps ==
    ASSUME StreamFlaws = {}, Proper(disk, file), NEW f \in Table, Fflush(f)
    PROVE  file[f].open /\ moving' = moving /\ \E x, r : Does(f, x, r) /\ Streams!StreamsNext
  <1> DEFINE name == file[f].name
             c == CursorOf(file[f])
  <1>1. file[f].open /\ moving' = moving
    BY Zenon DEF Fflush, Calls
  <1>2. PICK k \in WriteResults(Len(file[f].wbuf)) :
            Leave(f, FlushWbuf(disk, file[f], k).d, FlushWbuf(disk, file[f], k).r,
                  IF FlushWbuf(disk, file[f], k).ok THEN <<>> ELSE <<NoFile>>)
    BY Zenon DEF Fflush
  <1> DEFINE fl == FlushWbuf(disk, file[f], k)
             x == fl.d[name]
             r == fl.r
  <1>f. FlushIs(disk, file[f], fl)
    BY <1>1, Flushed, Zenon
  <1> HIDE DEF fl
  <1>3. /\ r \in Entry /\ r.open /\ r.name = name /\ r.wbuf = <<>>
        /\ r.unget = file[f].unget /\ Placed(fl.d, r) /\ x \in Text /\ fl.d = [disk EXCEPT ![name] = x]
        /\ \/ /\ fl.ok /\ x = View(disk, file[f])
              /\ r.pos = file[f].pos + Len(file[f].wbuf) /\ r.error = file[f].error
           \/ ~fl.ok /\ r.error
    BY <1>f, Zenon DEF FlushIs
  <1>4. disk' = fl.d /\ file' = [file EXCEPT ![f] = r] /\ (fl.ok => given' = <<>>)
    BY <1>2, Zenon DEF Leave, fl
  <1>5. Does(f, x, r)
    BY <1>3, <1>4, Zenon DEF Does
  <1>6. CASE r.error
    BY <1>1, <1>5, <1>6, FailMaps, ZenonT(60)
  <1>7. CASE ~r.error
    <2>1. fl.ok /\ x = View(disk, file[f]) /\ r.pos = file[f].pos + Len(file[f].wbuf)
          /\ r.error = file[f].error
      BY <1>3, <1>7, Zenon
    <2>2. r.pos \in Nat /\ r.pos <= Len(x) /\ r.error \in BOOLEAN
      BY <1>3, EntryIs, Zenon DEF Placed
    <2> HIDE DEF x, r
    <2>3. r.pos \in 0..Len(x)
      <3>1. Len(x) \in Nat
        BY <1>3, Empty, Zenon
      <3> QED  BY <2>2, <3>1, SMTT(30)
    <2>4. Over(x, r.pos, r.wbuf) = View(disk, file[f])
      <3>1. Over(x, r.pos, <<>>) = x
        BY <1>3, <2>3, OverNothing, Zenon
      <3> QED  BY <1>3, <2>1, <3>1, ZenonT(60)
    <2>5. CursorOf(r) = [c EXCEPT !.failed = FALSE]
      <3>1. r.pos + Len(r.wbuf) = r.pos /\ r.error = FALSE
        <4>1. Len(r.wbuf) = 0
          BY <1>3, Empty, Zenon
        <4> QED  BY <1>7, <2>2, <4>1, SMTT(30)
      <3>2. c = Spot(name, r.pos, r.unget, FALSE)
        BY <1>1, <1>3, <2>1, <3>1, ZenonT(60) DEF CursorOf, Spot
      <3>3. CursorOf(r) = Spot(name, r.pos, r.unget, FALSE)
        BY <1>3, <3>1, Zenon DEF CursorOf, Spot
      <3> HIDE DEF c
      <3>4. TakesFailed(name, r.pos, r.unget, FALSE, FALSE)
        BY SpotFailed, Zenon
      <3> QED  BY <3>2, <3>3, <3>4, ZenonT(60) DEF TakesFailed
    <2>6. Kept(f, r)
      BY <1>1, <1>5, <2>4, CursorMaps, ZenonT(60)
    <2>7. Clears(f, r)
      BY <1>4, <2>1, <2>5, <2>6, ZenonT(60) DEF Clears
    <2>8. Streams!StreamsNext
      BY <2>7, ClearMaps, Zenon
    <2> QED  BY <1>1, <1>5, <2>8, Zenon
  <1> QED  BY <1>6, <1>7, Zenon

\* A positioning call, once the buffer is empty, leaves the stream at place at.
Positions(f, fl, at, r) ==
    /\ Does(f, fl.d[file[f].name], r)
    /\ fl.ok => Kept(f, r)
    /\ CursorOf(r) = Spot(file[f].name, at, NoFile, r.error)

\* fseek and rewind do so after their flush.
LEMMA PositionMaps ==
    ASSUME StreamFlaws = {}, Proper(disk, file), NEW f \in Table, file[f].open, ~file[f].is_console,
           NEW fl, FlushIs(disk, file[f], fl), NEW at \in 0..Len(fl.d[file[f].name]),
           NEW r, NEW err, Altered(r, fl.r, at, NoFile, err), disk' = fl.d, file' = [file EXCEPT ![f] = r]
    PROVE  Positions(f, fl, at, r)
  <1> DEFINE x == fl.d[file[f].name]
  <1>1. /\ x \in Text /\ Placed(fl.d, fl.r) /\ fl.r.open /\ fl.r.wbuf = <<>>
        /\ fl.r.name = file[f].name /\ fl.r.is_console = file[f].is_console
        /\ fl.d = [disk EXCEPT ![file[f].name] = x]
        /\ fl.ok => x = View(disk, file[f])
    BY Zenon DEF FlushIs
  <1>2. r \in Entry /\ r.open /\ r.name = file[f].name /\ ~r.is_console /\ r.wbuf = <<>>
        /\ r.unget = NoFile /\ r.pos = at
    BY <1>1, Zenon DEF Altered
  <1>3. at <= Len(x) /\ Len(x) \in Nat /\ at \in Nat
    BY <1>1, Empty, SMTT(30)
  <1>4. Placed(fl.d, r)
    BY <1>1, <1>2, <1>3, ZenonT(60) DEF Placed
  <1>5. Does(f, x, r)
    BY <1>1, <1>2, <1>4, Zenon DEF Does
  <1>6. fl.ok => Over(x, r.pos, r.wbuf) = View(disk, file[f])
    <2>1. Over(x, at, <<>>) = x
      BY <1>1, OverNothing, Zenon
    <2> QED  BY <1>1, <1>2, <2>1, Zenon
  <1>7. CursorOf(r) = Spot(file[f].name, at, NoFile, r.error)
    <2>1. at + Len(<<>>) = at
      BY <1>3, Empty, SMTT(30)
    <2> QED  BY <1>2, <2>1, Zenon DEF CursorOf, Spot
  <1>8. fl.ok => Kept(f, r)
    BY <1>5, <1>6, CursorMaps, Zenon
  <1> QED  BY <1>5, <1>7, <1>8, Zenon DEF Positions

\* rewind
LEMMA RewindMaps ==
    ASSUME StreamFlaws = {}, Proper(disk, file), NEW f \in Table, Rewind(f)
    PROVE  file[f].open /\ moving' = moving /\ \E x, r : Does(f, x, r) /\ Streams!StreamsNext
  <1> DEFINE Fl(k) == FlushWbuf(disk, file[f], k)
             After(k) == [Fl(k).r EXCEPT !.eof = FALSE, !.unget = NoFile, !.pos = 0, !.error = FALSE]
  <1>1. file[f].open /\ ~file[f].is_console /\ moving' = moving
    BY Zenon DEF Rewind, Calls
  <1>2. PICK k \in WriteResults(Len(file[f].wbuf)) : Fl(k).ok /\ Leave(f, Fl(k).d, After(k), <<>>)
    BY Zenon DEF Rewind, Spared, Flawed
  <1> DEFINE fl == Fl(k)
             r == After(k)
  <1>3. FlushIs(disk, file[f], fl)
    BY <1>1, Flushed, Zenon
  <1> HIDE DEF Fl
  <1>4. fl.r \in Entry /\ fl.d[file[f].name] \in Text
    BY <1>3, Zenon DEF FlushIs
  <1>5. 0 \in Nat /\ 0 \in 0..Len(fl.d[file[f].name])
    BY <1>4, Empty, SMTT(30)
  <1>6. Altered(r, fl.r, 0, NoFile, FALSE)
    BY <1>4, <1>5, Alterations, Zenon
  <1>7. disk' = fl.d /\ file' = [file EXCEPT ![f] = r] /\ given' = <<>> /\ fl.ok
    BY <1>2, Zenon DEF Leave
  <1> HIDE DEF r, fl
  <1>8. Positions(f, fl, 0, r)
    BY <1>1, <1>3, <1>5, <1>6, <1>7, PositionMaps, ZenonT(60)
  <1>9. /\ Does(f, fl.d[file[f].name], r) /\ Kept(f, r)
        /\ CursorOf(r) = Spot(file[f].name, 0, NoFile, FALSE)
    BY <1>6, <1>7, <1>8, ZenonT(60) DEF Positions, Altered
  <1>10. CursorOf(file[f]).name = file[f].name
    <2>1. CursorOf(file[f]) = Spot(file[f].name, file[f].pos + Len(file[f].wbuf), file[f].unget, file[f].error)
      BY <1>1, Zenon DEF CursorOf, Spot
    <2>2. HasParts(file[f].name, file[f].pos + Len(file[f].wbuf), file[f].unget, file[f].error)
      BY SpotParts, Zenon
    <2> QED  BY <2>1, <2>2, Zenon DEF HasParts
  <1>11. Cursors(file') = [Cursors(file) EXCEPT ![f] = Streams!At(@.name, 0)]
    BY <1>9, <1>10, Zenon DEF Kept, Streams!At, Spot
  <1>12. Streams!Rewind(f)
    BY <1>7, <1>9, <1>11, Mapping, ZenonT(60) DEF Streams!Rewind, Kept
  <1>13. Streams!StreamsNext
    BY <1>9, <1>12, StreamCall, ZenonT(60) DEF Kept
  <1> QED  BY <1>1, <1>9, <1>13, Zenon

\* fseek
LEMMA FseekMaps ==
    ASSUME StreamFlaws = {}, Proper(disk, file), NEW f \in Table,
           NEW from \in {"set", "cur", "end"}, NEW by \in {-1, 1}, Fseek(f, from, by)
    PROVE  file[f].open /\ moving' = moving /\ \E x, r : Does(f, x, r) /\ Streams!StreamsNext
  <1> DEFINE Fl(k) == FlushWbuf(disk, file[f], k)
             Base(k) == [set |-> 0, cur |-> Fl(k).r.pos, end |-> FileSize(Fl(k).d, Fl(k).r.name)]
             Pos(k) == by + Base(k)[from]
             After(k) == [Fl(k).r EXCEPT !.eof = FALSE, !.unget = NoFile, !.pos = Pos(k)]
             c == CursorOf(file[f])
             size == Len(Bytes(disk, file)[c.name])
             base == [set |-> 0, cur |-> IF c.back = NoFile THEN c.at ELSE c.at - 1, end |-> size]
  <1>1. file[f].open /\ ~file[f].is_console /\ moving' = moving
        /\ (file[f].unget = NoFile \/ from # "cur")
    BY Zenon DEF Fseek, Calls, Spared, Flawed
  <1>2. PICK k \in WriteResults(Len(file[f].wbuf)) :
            /\ Pos(k) \in 0..FileSize(Fl(k).d, Fl(k).r.name)
            /\ Leave(f, Fl(k).d, After(k), <<>>)
    BY Zenon DEF Fseek
  <1> DEFINE fl == Fl(k)
             at == Pos(k)
             r == After(k)
             x == fl.d[file[f].name]
  <1>3. FlushIs(disk, file[f], fl)
    BY <1>1, Flushed, Zenon
  <1> HIDE DEF Fl
  <1>4. /\ fl.r \in Entry /\ fl.r.name = file[f].name /\ x \in Text
        /\ \/ /\ fl.ok /\ x = View(disk, file[f])
              /\ fl.r.pos = file[f].pos + Len(file[f].wbuf) /\ fl.r.error = file[f].error
           \/ ~fl.ok /\ fl.r.error
    BY <1>3, Zenon DEF FlushIs
  <1>5. FileSize(fl.d, fl.r.name) = Len(x) /\ Len(x) \in Nat /\ fl.r.pos \in Nat
    BY <1>4, Empty, EntryIs, Zenon DEF FileSize
  <1>6. at \in 0..Len(x)
    BY <1>2, <1>5, Zenon
  <1>7. at = by + [set |-> 0, cur |-> fl.r.pos, end |-> Len(x)][from]
    BY <1>5, Zenon
  <1>8. disk' = fl.d /\ file' = [file EXCEPT ![f] = r] /\ given' = <<>>
    BY <1>2, Zenon DEF Leave
  <1> HIDE DEF Pos
  <1>9. Altered(r, fl.r, at, NoFile, fl.r.error)
    <2>1. at \in Nat
      BY <1>5, <1>6, SMTT(30)
    <2> QED  BY <1>4, <2>1, Alterations, ZenonT(60)
  <1> HIDE DEF r, fl, at
  <1>10. Positions(f, fl, at, r)
    BY <1>1, <1>3, <1>6, <1>8, <1>9, PositionMaps, ZenonT(60)
  <1>11. /\ Does(f, x, r) /\ (fl.ok => Kept(f, r)) /\ r.error = fl.r.error
         /\ CursorOf(r) = Spot(file[f].name, at, NoFile, r.error)
    BY <1>9, <1>10, Zenon DEF Positions, Altered
  <1>12. CASE ~fl.ok
    BY <1>1, <1>4, <1>11, <1>12, FailMaps, ZenonT(60)
  <1>13. CASE fl.ok
    <2>1. c = Spot(file[f].name, fl.r.pos, file[f].unget, r.error)
      BY <1>1, <1>4, <1>11, <1>13, ZenonT(60) DEF CursorOf, Spot
    <2>2. c.name = file[f].name /\ c.at = fl.r.pos /\ c.back = file[f].unget
          /\ [c EXCEPT !.at = at, !.back = NoFile] = CursorOf(r)
      <3> DEFINE p == Spot(file[f].name, fl.r.pos, file[f].unget, r.error)
      <3>1. p.name = file[f].name /\ p.at = fl.r.pos /\ p.back = file[f].unget
        <4>1. HasParts(file[f].name, fl.r.pos, file[f].unget, r.error)
          BY SpotParts, Zenon
        <4> QED  BY <4>1, Zenon DEF HasParts
      <3>2. [p EXCEPT !.at = at, !.back = NoFile] = Spot(file[f].name, at, NoFile, r.error)
        <4>1. TakesAt(file[f].name, fl.r.pos, file[f].unget, r.error, at)
          BY SpotAt, Zenon
        <4>2. TakesBack(file[f].name, at, file[f].unget, r.error, NoFile)
          BY SpotBack, Zenon
        <4> QED  BY <4>1, <4>2, Zenon DEF TakesAt, TakesBack
      <3> HIDE DEF p, c
      <3> QED  BY <1>11, <2>1, <3>1, <3>2, ZenonT(60) DEF p
    <2>3. size = Len(x)
      BY <1>4, <1>11, <1>13, <2>2, ZenonT(60) DEF Kept
    <2> HIDE DEF c, size, x
    <2>4. base[from] = [set |-> 0, cur |-> fl.r.pos, end |-> Len(x)][from] /\ base[from] \in Int
      <3>1. CASE from = "set"
        BY <3>1, SMTT(30)
      <3>2. CASE from = "cur"
        <4>1. base["cur"] = fl.r.pos
          BY <1>1, <2>2, <3>2, ZenonT(60)
        <4> HIDE DEF base
        <4> QED  BY <1>5, <3>2, <4>1, SMTT(20)
      <3>3. CASE from = "end"
        BY <1>5, <2>3, <3>3, SMTT(20)
      <3> QED  BY <3>1, <3>2, <3>3, ZenonT(60)
    <2>5. at = base[from] + by
      <3> HIDE DEF base
      <3>1. at = by + base[from]
        BY <1>7, <2>4, Zenon
      <3> QED  BY <2>4, <3>1, SMTT(30)
    <2>6. Cursors(file') = [Cursors(file) EXCEPT ![f].at = base[from] + by, ![f].back = NoFile]
      <3> HIDE DEF base
      <3>1. f \in DOMAIN Cursors(file)
        BY Zenon DEF Cursors
      <3>2. /\ Cursors(file') = [Cursors(file) EXCEPT ![f] = CursorOf(r)]
            /\ Cursors(file)[f] = c
        BY <1>11, <1>13, Zenon DEF Kept, c
      <3> HIDE DEF Cursors
      <3> QED  BY <2>2, <2>5, <3>1, <3>2, ZenonT(60)
    <2>7. /\ Cursors(file)[f] = c /\ c # NoFile /\ Bytes(disk', file') = Bytes(disk, file)
      BY <1>11, <1>13, Zenon DEF Kept, c
    <2>8. Streams!Seek(f, from, by)
      BY <1>8, <2>6, <2>7, Mapping, ZenonT(60) DEF Streams!Seek, Streams!Place, size
    <2>9. Streams!StreamsNext
      BY <2>7, <2>8, StreamCall, Zenon
    <2> QED  BY <1>1, <1>11, <2>9, ZenonT(60)
  <1> QED  BY <1>12, <1>13, Zenon

-----------------------------------------------------------------------------
(* Opening, renaming, removing, leaving *)

Modes == {"r", "w", "a", "wx"}

\* alloc_file finds an entry that is free.
LEMMA AllocFinds ==
    ASSUME FreeEntries # {}
    PROVE  AllocFile \in FreeEntries
  <1>1. FreeEntries \subseteq Nat
    BY StdioAssumption DEF FreeEntries, Table, Stdout
  <1>2. \E f \in FreeEntries : \A g \in FreeEntries : f <= g
    BY <1>1, HasLeast, Zenon
  <1> QED  BY <1>2, Zenon DEF AllocFile

\* The entry that fopen makes.
Opened(n, at) == [Zeroed EXCEPT !.open = TRUE, !.name = n, !.pos = at]

OpenedAt(r, n, at) ==
    /\ r \in Entry /\ r.open /\ r.name = n /\ r.pos = at /\ r.is_console = FALSE
    /\ r.wbuf = <<>> /\ r.unget = NoFile /\ r.error = FALSE
    /\ CursorOf(r) = Streams!At(n, at)
    /\ at = 0 => r = [Zeroed EXCEPT !.open = TRUE, !.name = n]

\* Its fields, and its cursor in ByteStreams.
LEMMA OpenedIs ==
    ASSUME NEW n \in Files, NEW at \in Nat
    PROVE  OpenedAt(Opened(n, at), n, at)
  <1> DEFINE one == Named(Zeroed, TRUE, n, FALSE)
             q == [one EXCEPT !.pos = at]
  <1>1. Zeroed \in Entry /\ n \in Names \cup {NoFile} /\ TRUE \in BOOLEAN /\ FALSE \in BOOLEAN
    BY ZeroedIs, Zenon DEF Names
  <1>2. /\ one \in Entry /\ one.open = TRUE /\ one.name = n /\ one.is_console = FALSE
        /\ one.error = Zeroed.error /\ one.unget = Zeroed.unget /\ one.wbuf = Zeroed.wbuf
        /\ one.pos = Zeroed.pos
    BY <1>1, NamedIs, ZenonT(60)
  <1>3. Altered(q, one, at, one.unget, one.error)
    BY <1>2, Alterations, Zenon
  <1>4. Opened(n, at) = q /\ (at = 0 => q = [Zeroed EXCEPT !.open = TRUE, !.name = n])
    <2>1. Zeroed.is_console = FALSE /\ Zeroed \in Entry /\ Zeroed.pos = 0
      BY ZeroedIs, Zenon
    <2> HIDE DEF Zeroed
    <2>2. one = [Zeroed EXCEPT !.open = TRUE, !.name = n]
      BY <2>1, Zenon DEF Named, Entry
    <2> HIDE DEF one
    <2>3. at = 0 => q = one
      BY <1>2, <2>1, Zenon DEF Entry
    <2> QED  BY <2>2, <2>3, Zenon DEF Opened
  <1> HIDE DEF one, q
  <1>5. /\ q \in Entry /\ q.open /\ q.name = n /\ q.pos = at /\ q.is_console = FALSE
        /\ q.wbuf = <<>> /\ q.unget = NoFile /\ q.error = FALSE
    BY <1>2, <1>3, ZeroedIs, Zenon DEF Altered
  <1>6. at + Len(<<>>) = at
    BY Empty
  <1>7. CursorOf(q) = Streams!At(n, at)
    BY <1>5, <1>6, Zenon DEF CursorOf, Streams!At
  <1> QED  BY <1>4, <1>5, <1>7, Zenon DEF OpenedAt

\* fopen of a file that no stream has: refused, or the file, made if need be, with a
\* stream at its start or its end.
Opens(n, mode) ==
    /\ Proper(disk', file') /\ Streams!StreamsNext
    /\ \/ given' = <<NoFile>> /\ UNCHANGED <<disk, file>>
       \/ /\ given' = <<>> /\ AllocFile \in Table /\ ~file[AllocFile].open
          /\ disk' = [disk EXCEPT ![n] = IF disk[n] = NoFile THEN <<>> ELSE disk[n]]
          /\ \E at \in Nat : /\ file' = [file EXCEPT ![AllocFile] = Opened(n, at)]
                             /\ mode # "a" => at = 0

\* fopen of stdio.rs is Open or Refuse of ByteStreams.
LEMMA FopenMaps ==
    ASSUME Proper(disk, file), NEW n \in Files, NEW mode \in Modes,
           \A g \in Table : file[g].open => file[g].name # n, FopenCall(n, mode)
    PROVE  Opens(n, mode)
  <1> DEFINE found == disk[n] # NoFile
             opens == IF found THEN mode # "wx" ELSE mode # "r"
             x == IF disk[n] = NoFile THEN <<>> ELSE disk[n]
             d == [disk EXCEPT ![n] = x]
             at == IF mode = "a" THEN Len(x) ELSE 0
             f == AllocFile
             r == Opened(n, at)
  <1>1. n \in Names /\ n # Con /\ disk \in [Names -> Text \cup {NoFile}] /\ n \in DOMAIN disk
    BY StdioAssumption, Zenon DEF Names, Proper
  <1>2. CASE FreeEntries = {} \/ ~opens
    <2>1. given' = <<NoFile>> /\ UNCHANGED <<disk, file>>
      BY <1>2, Zenon DEF FopenCall
    <2>2. Streams!Refuse
      BY <2>1, Mapping, Zenon DEF Streams!Refuse
    <2>3. Streams!StreamsNext
      BY <2>2, Zenon DEF Streams!StreamsNext
    <2> QED  BY <2>1, <2>3, Zenon DEF Opens
  <1>3. CASE FreeEntries # {} /\ opens
    <2>1. f \in Table /\ ~file[f].open
      BY <1>3, AllocFinds, Zenon DEF FreeEntries
    <2>2. x \in Text /\ <<>> \in Text
      BY <1>1, SMTT(30) DEF Text
    <2>3. d[n] = x /\ (found => d = disk)
      BY <1>1, Zenon
    <2>4. Len(x) \in Nat /\ at \in Nat /\ at \in 0..Len(x)
      BY <2>2 DEF Text
    <2>5. disk' = d /\ file' = [file EXCEPT ![f] = r] /\ given' = <<>>
      <3>1. (IF opens /\ ~found THEN [disk EXCEPT ![n] = <<>>] ELSE disk) = d
        BY <1>3, <2>3, Zenon
      <3>2. FileSize(d, n) = Len(x)
        BY <2>3, Zenon DEF FileSize
      <3> HIDE DEF d, x
      <3> QED  BY <1>3, <3>1, <3>2, ZenonT(60) DEF FopenCall, Leave, Opened
    <2>6. r \in Entry /\ r.open /\ r.name = n /\ r.pos = at /\ ~r.is_console /\ r.wbuf = <<>>
          /\ CursorOf(r) = Streams!At(n, at)
      <3>1. OpenedAt(Opened(n, at), n, at)
        BY <2>4, OpenedIs, ZenonT(60)
      <3> QED  BY <3>1, Zenon DEF OpenedAt
    <2> HIDE DEF r, x, f
    <2>7. Placed(d, r)
      BY <1>1, <2>2, <2>3, <2>4, <2>6, SMTT(20) DEF Placed
    <2>8. /\ Proper(d, [file EXCEPT ![f] = r])
          /\ Cursors([file EXCEPT ![f] = r]) = [Cursors(file) EXCEPT ![f] = CursorOf(r)]
          /\ Bytes(d, [file EXCEPT ![f] = r])
               = [Bytes(disk, file) EXCEPT ![n] = IF r.open THEN Over(x, r.pos, r.wbuf) ELSE x]
      <3>1. Stepped(disk, file, f, n, x, r)
        BY <1>1, <2>1, <2>2, <2>6, <2>7, OneStep, ZenonT(60) DEF d
      <3> QED  BY <3>1, Zenon DEF Stepped
    <2>9. Over(x, r.pos, r.wbuf) = x
      <3>1. Over(x, at, <<>>) = x
        BY <2>2, <2>4, OverNothing, ZenonT(60)
      <3> QED  BY <2>6, <3>1, Zenon
    <2>10. Bytes(disk, file)[n] = disk[n] /\ DOMAIN Bytes(disk, file) = Names
      BY <1>1, SeenClosed, Zenon DEF Bytes
    <2>11. Bytes(disk', file') = (IF disk[n] = NoFile THEN [Bytes(disk, file) EXCEPT ![n] = <<>>]
                                  ELSE Bytes(disk, file))
           /\ Bytes(disk', file')[n] = x
      <3>1. Bytes(disk', file') = [Bytes(disk, file) EXCEPT ![n] = x]
        BY <2>5, <2>6, <2>8, <2>9, ZenonT(60)
      <3>2. Bytes(disk', file')[n] = x
        BY <1>1, <2>10, <3>1, ZenonT(60)
      <3>3. CASE disk[n] = NoFile
        BY <3>1, <3>2, <3>3, ZenonT(60) DEF x
      <3>4. CASE disk[n] # NoFile
        <4>1. x = Bytes(disk, file)[n]
          BY <2>10, <3>4, Zenon DEF x
        <4>2. [Bytes(disk, file) EXCEPT ![n] = x] = Bytes(disk, file)
          BY <4>1, Zenon DEF Bytes
        <4> QED  BY <3>1, <3>2, <3>4, <4>2, ZenonT(60)
      <3> QED  BY <3>3, <3>4, ZenonT(60)
    <2>12. Cursors(file)[f] = NoFile
      BY <2>1, Zenon DEF Cursors, CursorOf
    <2>13. Cursors(file') = [Cursors(file) EXCEPT ![f] = Streams!At(n, at)]
      BY <2>5, <2>6, <2>8, ZenonT(60)
    <2>14. Cursors(file')[f] # NoFile
      <3>1. Cursors(file')[f] = CursorOf(r)
        BY <2>1, <2>6, <2>13, ZenonT(60) DEF Cursors
      <3> QED  BY <1>1, <2>6, <3>1, CursorIs, ZenonT(60)
    <2>15. Streams!Open(f, n, mode = "a", mode # "r")
      <3>1. disk[n] # NoFile \/ mode # "r"
        BY <1>3, Zenon
      <3>2. at = IF mode = "a" THEN Len(x) ELSE 0
        BY Zenon
      <3> HIDE DEF at, d
      <3> QED  BY <2>5, <2>10, <2>11, <2>12, <2>13, <3>1, <3>2, Mapping, ZenonT(60) DEF Streams!Open
    <2>16. Streams!StreamsNext
      <3>1. (mode = "a") \in BOOLEAN /\ (mode # "r") \in BOOLEAN
        BY Zenon
      <3>2. \E a \in BOOLEAN, c \in BOOLEAN : Streams!Open(f, n, a, c)
        BY <2>15, <3>1, Zenon
      <3> QED  BY <1>1, <2>1, <2>12, <2>14, <3>2, Mapping, ZenonT(60) DEF Streams!StreamsNext, Names
    <2>17. mode # "a" => at = 0
      BY Zenon
    <2> HIDE DEF at
    <2> QED  BY <2>1, <2>4, <2>5, <2>8, <2>16, <2>17, ZenonT(60) DEF f, r, x, Opens
  <1> QED  BY <1>2, <1>3, Zenon

\* unlink of a file that no stream has.
LEMMA UnlinkMaps ==
    ASSUME Proper(disk, file), NEW n \in Files, \A f \in Table : ~file[f].open,
           disk[n] # NoFile, UnlinkCall(n)
    PROVE  Proper(disk', file') /\ Streams!StreamsNext
  <1>1. n \in Names /\ disk \in [Names -> Text \cup {NoFile}]
    BY Zenon DEF Names, Proper
  <1>2. disk' = [disk EXCEPT ![n] = NoFile] /\ file' = file /\ given' = <<>>
    BY Zenon DEF UnlinkCall
  <1>3. Proper(disk', file')
    BY <1>1, <1>2, ZenonT(60) DEF Proper
  <1>4. \A d, m : SeenIn(d, file, m) = d[m]
    BY SeenClosed, Zenon
  <1>5. Bytes(disk, file)[n] # NoFile /\ Bytes(disk', file') = [Bytes(disk, file) EXCEPT ![n] = NoFile]
    BY <1>1, <1>2, <1>4, Zenon DEF Bytes
  <1>6. Streams!Remove(n)
    BY <1>2, <1>5, Mapping, ZenonT(60) DEF Streams!Remove
  <1> QED  BY <1>1, <1>3, <1>6, ZenonT(60) DEF Streams!StreamsNext, Names

\* exit, with every buffer empty.
LEMMA ExitMaps ==
    ASSUME StreamFlaws = {}, Proper(disk, file), Exit
    PROVE  /\ Proper(disk', file') /\ Streams!StreamsNext
           /\ moving = Idle /\ moving' = moving /\ \A f \in Table : ~file'[f].open
  <1>1. /\ \A f \in Table : file[f].open => file[f].wbuf = <<>>
        /\ file' = [f \in Table |-> Zeroed] /\ given' = <<>> /\ disk' = disk /\ moving' = moving
        /\ moving = Idle
    BY Zenon DEF Exit, Spared, Flawed
  <1>2. \A f \in Table : file'[f] = Zeroed /\ ~file'[f].open
    BY <1>1, ZeroedIs, Zenon
  <1>3. Proper(disk', file')
    <2>1. file' \in [Table -> Entry]
      BY <1>1, ZeroedIs, Zenon
    <2> QED  BY <1>1, <1>2, <2>1, ZenonT(60) DEF Proper
  <1>4. \A m : SeenIn(disk', file', m) = disk[m]
    BY <1>1, <1>2, SeenClosed, ZenonT(60)
  <1>5. \A m : SeenIn(disk, file, m) = disk[m]
    BY <1>1, Zenon DEF SeenIn
  <1>6. Bytes(disk', file') = Bytes(disk, file)
    BY <1>4, <1>5, ZenonT(60) DEF Bytes
  <1>7. Cursors(file') = [s \in Table |-> NoFile]
    BY <1>2, Zenon DEF Cursors, CursorOf
  <1>8. Streams!Exit
    BY <1>1, <1>6, <1>7, Mapping, ZenonT(60) DEF Streams!Exit
  <1> QED  BY <1>1, <1>2, <1>3, <1>8, ZenonT(60) DEF Streams!StreamsNext

\* freopen of a stream with an empty buffer, to a file no other stream has.
LEMMA FreopenMaps ==
    ASSUME StreamFlaws = {}, Proper(disk, file), NEW f \in Table, NEW n \in Files, NEW mode,
           \A g \in Table \ {f} : ~file[g].open, Freopen(f, n, mode)
    PROVE  /\ Proper(disk', file') /\ Streams!StreamsNext
           /\ moving = Idle /\ moving' = moving /\ \A g \in Table \ {f} : ~file'[g].open
  <1> DEFINE m == file[f].name
             r == IF disk[n] = NoFile THEN Zeroed ELSE Opened(n, 0)
             F1 == [file EXCEPT ![f] = Zeroed]
             F2 == [file EXCEPT ![f] = r]
  <1>1. file[f].open /\ moving = Idle /\ moving' = moving /\ file[f].wbuf = <<>>
    BY Zenon DEF Freopen, Calls, Spared, Flawed
  <1>2. /\ file[f] \in Entry /\ Placed(disk, file[f]) /\ m \in Names /\ disk[m] \in Text
        /\ View(disk, file[f]) = disk[m] /\ disk = [disk EXCEPT ![m] = disk[m]]
    BY <1>1, NoBuffer, ZenonT(60)
  <1>3. n \in Names /\ n # Con /\ disk \in [Names -> Text \cup {NoFile}] /\ file \in [Table -> Entry]
        /\ disk = [disk EXCEPT ![n] = disk[n]]
    BY StdioAssumption, Zenon DEF Names, Proper
  <1>4. 0 \in Nat
    BY Zenon
  <1>o. OpenedAt(Opened(n, 0), n, 0)
    BY <1>4, OpenedIs, ZenonT(60)
  <1>5. disk' = disk /\ file' = F2 /\ given' = IF disk[n] = NoFile THEN <<NoFile>> ELSE <<>>
    <2>1. Opened(n, 0) = [Zeroed EXCEPT !.open = TRUE, !.name = n]
      BY <1>o, Zenon DEF OpenedAt
    <2>2. IF disk[n] = NoFile THEN Leave(f, disk, Zeroed, <<NoFile>>) ELSE Leave(f, disk, Opened(n, 0), <<>>)
      BY <2>1, Zenon DEF Freopen
    <2> QED  BY <2>2, Zenon DEF Leave
  <1>6. /\ Proper(disk, F1)
        /\ Cursors(F1) = [Cursors(file) EXCEPT ![f] = NoFile]
        /\ Bytes(disk, F1) = Bytes(disk, file)
    <2>1. /\ Proper(disk, F1)
          /\ Cursors(F1) = [Cursors(file) EXCEPT ![f] = CursorOf(Zeroed)]
          /\ Bytes(disk, F1) = [Bytes(disk, file) EXCEPT ![m] = IF Zeroed.open THEN Over(disk[m], Zeroed.pos, Zeroed.wbuf) ELSE disk[m]]
      <3>1. Stepped(disk, file, f, m, disk[m], Zeroed)
        BY <1>2, ZeroedIs, OneStep, Zenon
      <3> QED  BY <1>2, <3>1, Zenon DEF Stepped
    <2>2. Bytes(disk, file)[m] = disk[m]
      <3>1. SeenIn(disk, file, m) = View(disk, file[f])
        BY <1>1, SeenOpen, ZenonT(60)
      <3> QED  BY <1>2, <3>1, Zenon DEF Bytes
    <2> QED  BY <2>1, <2>2, ZeroedIs, ZenonT(60) DEF Bytes, CursorOf
  <1>7. \A g \in Table : ~F1[g].open
    BY <1>3, ZeroedIs, ZenonT(60)
  <1>8. Bytes(disk, F1)[n] = disk[n]
    <2>1. SeenIn(disk, F1, n) = disk[n]
      <3> HIDE DEF F1
      <3> QED  BY <1>7, SeenClosed, Zenon
    <2> HIDE DEF F1
    <2> QED  BY <1>3, <2>1, Zenon DEF Bytes
  <1>9. /\ Proper(disk, F2)
        /\ Cursors(F2) = [Cursors(file) EXCEPT ![f] = CursorOf(r)]
        /\ Bytes(disk, F2) = Bytes(disk, file)
    <2>1. CASE disk[n] = NoFile
      BY <1>6, <2>1, ZeroedIs, Zenon DEF CursorOf
    <2>2. CASE disk[n] # NoFile
      <3>1. r = Opened(n, 0) /\ disk[n] \in Text /\ [F1 EXCEPT ![f] = r] = F2
        BY <1>3, <2>2, ZenonT(60)
      <3>2. 0 \in Nat /\ 0 \in 0..Len(disk[n])
        BY <3>1, SMTT(30) DEF Text
      <3>3. r \in Entry /\ r.open /\ r.name = n /\ r.pos = 0 /\ ~r.is_console /\ r.wbuf = <<>>
        BY <1>o, <3>1, ZenonT(60) DEF OpenedAt
      <3> HIDE DEF r, F1, F2
      <3>4. Placed(disk, r)
        BY <1>3, <3>1, <3>2, <3>3, SMTT(20) DEF Placed
      <3>5. /\ Proper(disk, F2)
            /\ Cursors(F2) = [Cursors(F1) EXCEPT ![f] = CursorOf(r)]
            /\ Bytes(disk, F2) = [Bytes(disk, F1) EXCEPT ![n] = IF r.open THEN Over(disk[n], r.pos, r.wbuf) ELSE disk[n]]
        <4>1. Stepped(disk, F1, f, n, disk[n], r)
          BY <1>3, <1>6, <1>7, <3>1, <3>3, <3>4, OneStep, ZenonT(60)
        <4> QED  BY <1>3, <3>1, <4>1, ZenonT(60) DEF Stepped
      <3>6. Over(disk[n], r.pos, r.wbuf) = disk[n]
        <4>1. Over(disk[n], 0, <<>>) = disk[n]
          BY <3>1, <3>2, OverNothing, ZenonT(60)
        <4> QED  BY <3>3, <4>1, ZenonT(60)
      <3>7. Bytes(disk, F2) = Bytes(disk, F1)
        BY <1>8, <3>3, <3>5, <3>6, ZenonT(60) DEF Bytes
      <3>8. Cursors(F2) = [Cursors(file) EXCEPT ![f] = CursorOf(r)]
        BY <1>6, <3>5, ZenonT(60) DEF Cursors
      <3> QED  BY <1>6, <3>5, <3>7, <3>8, ZenonT(60)
    <2> QED  BY <2>1, <2>2, Zenon
  <1>10. Cursors(file)[f] # NoFile /\ Bytes(disk, file)[n] = disk[n]
    BY <1>1, <1>2, <1>6, <1>8, CursorIs, ZenonT(60) DEF Cursors
  <1>11. CursorOf(r) = IF disk[n] = NoFile THEN NoFile ELSE Streams!At(n, 0)
    <2>1. 0 \in Nat
      BY Zenon
    <2>2. CursorOf(Zeroed) = NoFile
      BY ZeroedIs, Zenon DEF CursorOf
    <2>3. CursorOf(Opened(n, 0)) = Streams!At(n, 0)
      BY <1>o, Zenon DEF OpenedAt
    <2> QED  BY <2>2, <2>3, ZenonT(60)
  <1> HIDE DEF r, F1, F2
  <1>12. Streams!Reopen(f, n, FALSE)
    BY <1>5, <1>9, <1>10, <1>11, Mapping, ZenonT(60) DEF Streams!Reopen
  <1>13. Streams!StreamsNext
    BY <1>3, <1>10, <1>12, StreamCall, ZenonT(60)
  <1>14. \A g \in Table \ {f} : ~file'[g].open
    BY <1>3, <1>5, Zenon DEF F2
  <1> QED  BY <1>1, <1>5, <1>9, <1>13, <1>14, ZenonT(60)

=============================================================================
