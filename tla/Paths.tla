-------------------------------- MODULE Paths --------------------------------
(***************************************************************************)
(* files/path.rs and prepare_file_path of io/mod.rs: paths as text, against *)
(* paths as the elements between the separators.  A character is a string  *)
(* of length one; the drive DEV is the letter D.  A state is a pair of     *)
(* texts, the second appended to the first.                                *)
(***************************************************************************)
EXTENDS Integers, Sequences, FiniteSets, SequencesExt, FiniteSetsExt

CONSTANTS
    PathLength,   \* bound on the length of the texts
    PathFlaws     \* texts that are handled badly: "drive", "colons"

ASSUME PathsAssumption == PathLength \in Nat /\ PathFlaws \subseteq {"drive", "colons"}

VARIABLE texts

pathVars == <<texts>>

Sep == "\\"
LettersOf == {"D", "x"}
PathChars == LettersOf \cup {Sep, ":", "."}

Indexes(s, c) == {i \in DOMAIN s : s[i] = c}

\* from_str: no separators at the ends, but one behind a drive's colon.
FromStr_Plain(s) ==
    LET kept == {i \in DOMAIN s : s[i] # Sep}
    IN  IF kept = {} THEN <<>> ELSE SubSeq(s, Min(kept), Len(s))

FromStr(s) ==
    LET kept == {i \in DOMAIN s : s[i] # Sep}
        t == IF kept = {} THEN <<>> ELSE SubSeq(s, Min(kept), Max(kept))
    IN  IF t # <<>> /\ Last(t) = ":" THEN Append(t, Sep) ELSE t

\* The loop of is_drive ends at the first character that is no letter.
IsDrive(s) ==
    LET others == {i \in DOMAIN s : s[i] \notin LettersOf}
    IN  others # {} /\ s[Min(others)] = ":" /\ Min(others) = Len(s)

\* That of is_absolute ends at a separator and remembers the last colon before it.
IsAbsolute(s) ==
    LET stops == {i \in DOMAIN s : s[i] \notin LettersOf \cup {":"}}
        colons == {i \in Indexes(s, ":") : i < Min(stops)}
    IN  /\ stops # {} /\ s[Min(stops)] = Sep
        /\ colons # {} /\ Max(colons) + 1 = Min(stops) /\ Max(colons) > 1

PopBack(p) == IF Indexes(p, Sep) = {} THEN <<>> ELSE SubSeq(p, 1, Max(Indexes(p, Sep)) - 1)

\* pop_front: the element it returns and the path it leaves.
PopFront(p) ==
    IF Indexes(p, Sep) = {} THEN [first |-> p, rest |-> <<>>]
    ELSE LET i == Min(Indexes(p, Sep))
         IN  [first |-> SubSeq(p, 1, i - 1), rest |-> SubSeq(p, i + 1, Len(p))]

\* What split('\\') gives: the stretches between separators, empty ones included.
RECURSIVE SplitAt(_)
SplitAt(s) ==
    IF Indexes(s, Sep) = {} THEN <<s>>
    ELSE LET i == Min(Indexes(s, Sep)) IN <<SubSeq(s, 1, i - 1)>> \o SplitAt(SubSeq(s, i + 1, Len(s)))

\* push, element by element.
PushOne(p, e) ==
    CASE e \in {<<>>, <<".">>} -> p
      [] e = <<".", ".">> -> PopBack(p)
      [] OTHER -> IF p = <<>> THEN e ELSE p \o <<Sep>> \o e

RECURSIVE PushAll(_, _)
PushAll(p, elements) ==
    IF elements = <<>> THEN p ELSE PushAll(PushOne(p, Head(elements)), Tail(elements))

Push(p, s) == PushAll(p, SplitAt(s))

\* split_absolute_path: what is before the first colon, and behind it to the second.
SplitAbsolutePath(s) ==
    LET i == Min(Indexes(s, ":"))
        later == {j \in Indexes(s, ":") : j > i}
    IN  [drive |-> SubSeq(s, 1, i - 1),
         path |-> SubSeq(s, i + 1, IF later = {} THEN Len(s) ELSE Min(later) - 1)]

GetFilename(s) ==
    IF Indexes(s, Sep) = {} THEN s ELSE SubSeq(s, Max(Indexes(s, Sep)) + 1, Len(s))

\* get_extension, as a set: none, or the text behind the last dot.
GetExtension(s) ==
    LET f == GetFilename(s)
    IN  IF Indexes(f, ".") = {} THEN {} ELSE {SubSeq(f, Max(Indexes(f, ".")) + 1, Len(f))}

\* prepare_file_path, as a set: none, or the name of the driver and the path.  A name of
\* the drive DEV is that of a device; without one it is the device file system, driver 0.
PrepareFilePath(s) ==
    IF ~IsAbsolute(s) THEN {}
    ELSE LET a == SplitAbsolutePath(s)
             driver == IF a.drive # <<"D">> THEN a.drive
                       ELSE IF Len(a.path) > 1 THEN SubSeq(a.path, 2, Len(a.path)) ELSE <<"0">>
         IN  {[driver |-> driver, path |-> FromStr(a.path)]}

-----------------------------------------------------------------------------
NoTexts == [path |-> <<>>, appended |-> <<>>]

PathTexts(n) == UNION {[1..k -> PathChars] : k \in 0..n}

PathsInit == texts = NoTexts

PathsNext ==
    /\ texts = NoTexts
    /\ \E p \in PathTexts(PathLength), a \in PathTexts(3) :
          /\ p = <<>> \/ a \in {<<>>, <<".", ".">>, <<"x">>, <<"x", Sep, ".">>}
          /\ texts' = [path |-> p, appended |-> a]

PathsSpec == PathsInit /\ [][PathsNext]_pathVars

-----------------------------------------------------------------------------
\* A path as the elements it leads through.
Elements(s) == SelectSeq(SplitAt(s), LAMBDA e : e # <<>>)

\* Going through elements from a place, up at "..".
RECURSIVE Walked(_, _)
Walked(at, elements) ==
    IF elements = <<>> THEN at
    ELSE LET e == Head(elements)
         IN  Walked(CASE e = <<".">> -> at
                      [] e = <<".", ".">> -> IF at = <<>> THEN at ELSE Front(at)
                      [] OTHER -> Append(at, e), Tail(elements))

\* A path that was appended to, or from which the first element was taken, leads where its
\* elements say and never above where it began; an absolute path has a drive and the
\* elements behind it.  Unless asked for, a path holds one colon and no drive stands alone.
PathsAreRight ==
    LET s == texts.path
        p == FromStr(s)
        one == Cardinality(Indexes(s, ":")) <= 1
        lone == Elements(s) # <<>> /\ Last(Last(Elements(s))) = ":" IN
    /\ Elements(p) = Elements(s) /\ (p = <<>> \/ p[1] # Sep)
    /\ (~lone \/ "drive" \in PathFlaws) =>
          /\ Elements(Push(p, texts.appended)) = Walked(Elements(p), Elements(texts.appended))
          /\ Elements(PopBack(p)) = IF Elements(p) = <<>> THEN <<>> ELSE Front(Elements(p))
    /\ Elements(p) # <<>> => PopFront(p).first = Head(Elements(p))
                             /\ Elements(PopFront(p).rest) = Tail(Elements(p))
    /\ IsDrive(s) => ~IsAbsolute(s) /\ IsAbsolute(Append(s, Sep)) = (Len(s) > 1)
    /\ (one \/ "colons" \in PathFlaws) =>
          IsAbsolute(s) = \E k \in 2..Len(s) - 1 :
              s[k] = ":" /\ s[k + 1] = Sep /\ \A i \in 1..k - 1 : s[i] \in LettersOf
    /\ (IsAbsolute(s) /\ one) => \A r \in PrepareFilePath(s) :
          /\ Elements(r.path) = Tail(Elements(s))
          /\ IF Elements(s)[1] # <<"D", ":">> THEN Append(r.driver, ":") = Elements(s)[1]
             ELSE r.driver = <<"0">> \/ SubSeq(s, Len(s) - Len(r.driver) + 1, Len(s)) = r.driver
    /\ \A e \in GetExtension(s) : LET f == GetFilename(s) IN
          f = SubSeq(f, 1, Len(f) - Len(e) - 1) \o <<".">> \o e /\ Indexes(e, ".") = {}
    /\ GetFilename(s) = Last(SplitAt(s))
=============================================================================
