----------------------------- MODULE ByteStreams -----------------------------
(***************************************************************************)
(* What the C library promises of its FILE streams, with no buffer in      *)
(* sight: an open stream is a place in the bytes of a named file, a byte   *)
(* put is in the file at once, a byte read is the next one, and bytes are  *)
(* lost only with the error indicator of the stream set.                   *)
(***************************************************************************)
EXTENDS Integers, Sequences

CONSTANTS
    Names,    \* the files
    Streams,  \* what fopen hands out, and stdout
    Byte,     \* the bytes
    Longest,  \* bound on the bytes of a file and of a call
    Nothing   \* no file, no stream, no byte pushed back

VARIABLES
    bytes,   \* [Names -> the bytes of the file, or Nothing]
    cursor,  \* [Streams -> Nothing or where the stream is]
    answer   \* what the last call gave back

streamVars == <<bytes, cursor, answer>>

At(name, at) == [name |-> name, at |-> at, back |-> Nothing, failed |-> FALSE]

StreamsInit ==
    /\ bytes \in [Names -> {Nothing} \cup Seq(Byte)]
    /\ cursor \in [Streams -> {Nothing} \cup {At(n, 0) : n \in Names}]
    /\ answer = <<>>

Runs == UNION {[1..k -> Byte] : k \in 1..Longest}

\* f with s written over it from place at on.
Over(f, at, s) == SubSeq(f, 1, at) \o s \o SubSeq(f, at + Len(s) + 1, Len(f))

\* What a read still has before it: a byte pushed back comes first.
Ahead(c) == (IF c.back = Nothing THEN <<>> ELSE <<c.back>>)
                \o SubSeq(bytes[c.name], c.at + 1, Len(bytes[c.name]))

Place(c) == IF c.back = Nothing THEN c.at ELSE c.at - 1

\* C has mode "w" empty the file; fopen has no way to (the kernel cuts no file off), and
\* what is promised here is a file written over from its start.
Open(s, n, append, create) ==
    /\ cursor[s] = Nothing
    /\ bytes[n] # Nothing \/ create
    /\ bytes' = IF bytes[n] = Nothing THEN [bytes EXCEPT ![n] = <<>>] ELSE bytes
    /\ cursor' = [cursor EXCEPT ![s] = At(n, IF append THEN Len(bytes'[n]) ELSE 0)]
    /\ answer' = <<>>

\* A file that is not there is not opened for reading, and what is wrong is said.
Refuse == answer' = <<Nothing>> /\ UNCHANGED <<bytes, cursor>>

Close(s) ==
    /\ cursor[s] # Nothing
    /\ cursor' = [cursor EXCEPT ![s] = Nothing]
    /\ answer' = <<>>
    /\ UNCHANGED bytes

\* The stream moves to the file n, which is created for a mode that writes.
Reopen(s, n, create) ==
    /\ cursor[s] # Nothing
    /\ bytes' = IF bytes[n] = Nothing /\ create THEN [bytes EXCEPT ![n] = <<>>] ELSE bytes
    /\ cursor' = [cursor EXCEPT ![s] = IF bytes'[n] = Nothing THEN Nothing ELSE At(n, 0)]
    /\ answer' = IF bytes'[n] = Nothing THEN <<Nothing>> ELSE <<>>

\* got is what comes next; nothing at the end of the file only.
Take(s, got) ==
    LET c == cursor[s] IN
    /\ c # Nothing
    /\ answer' = got
    /\ Len(got) <= Len(Ahead(c))
    /\ got = SubSeq(Ahead(c), 1, Len(got))
    /\ got = <<>> => Ahead(c) = <<>>
    /\ cursor' = [cursor EXCEPT ![s].at = Place(c) + Len(got),
                                ![s].back = IF got = <<>> THEN @ ELSE Nothing]
    /\ UNCHANGED bytes

Put(s, b) ==
    LET c == cursor[s] IN
    /\ c # Nothing
    /\ answer' = b /\ b \in Runs
    /\ c.back = Nothing
    /\ cursor' = [cursor EXCEPT ![s].at = @ + Len(b)]
    /\ bytes' = [bytes EXCEPT ![c.name] = Over(@, c.at, b)]

PushBack(s, b) ==
    /\ cursor[s] # Nothing
    /\ cursor[s].back = Nothing
    /\ answer' = <<b>>
    /\ cursor' = [cursor EXCEPT ![s].back = b]
    /\ UNCHANGED bytes

\* from is "set", "cur" or "end"; the place that ftell shows is what "cur" counts from.
Seek(s, from, by) ==
    LET c == cursor[s]
        base == [set |-> 0, cur |-> Place(c), end |-> Len(bytes[c.name])] IN
    /\ c # Nothing
    /\ cursor' = [cursor EXCEPT ![s].at = base[from] + by, ![s].back = Nothing]
    /\ answer' = <<>>
    /\ UNCHANGED bytes

Rewind(s) ==
    /\ cursor[s] # Nothing
    /\ cursor' = [cursor EXCEPT ![s] = At(@.name, 0)]
    /\ answer' = <<>>
    /\ UNCHANGED bytes

Tell(s) ==
    /\ cursor[s] # Nothing
    /\ answer' = <<Place(cursor[s])>>
    /\ UNCHANGED <<bytes, cursor>>

ClearError(s) ==
    /\ cursor[s] # Nothing
    /\ cursor' = [cursor EXCEPT ![s].failed = FALSE]
    /\ answer' = <<>>
    /\ UNCHANGED bytes

\* The device failed: nothing is said of the file and of the place in it any more, but
\* the stream shows it.
Fail(s) ==
    LET c == cursor[s] IN
    /\ c # Nothing
    /\ cursor'[s] # Nothing
    /\ cursor'[s].name = c.name /\ cursor'[s].failed
    /\ \A t \in Streams \ {s} : cursor'[t] = cursor[t]
    /\ \A n \in Names \ {c.name} : bytes'[n] = bytes[n]

Move(n, m) ==
    /\ answer' = <<>>
    /\ bytes[n] # Nothing /\ bytes[m] = Nothing
    /\ bytes' = [bytes EXCEPT ![m] = bytes[n], ![n] = Nothing]
    /\ UNCHANGED cursor

Remove(n) ==
    /\ answer' = <<>>
    /\ bytes[n] # Nothing
    /\ bytes' = [bytes EXCEPT ![n] = Nothing]
    /\ UNCHANGED cursor

\* The program ends: what was put is in the files.
Exit ==
    /\ answer' = <<>>
    /\ cursor' = [s \in Streams |-> Nothing]
    /\ UNCHANGED bytes

StreamsNext ==
    \/ Refuse \/ Exit
    \/ \E n \in Names : Remove(n) \/ (\E m \in Names : Move(n, m))
    \/ \E s \in Streams :
        IF cursor[s] = Nothing
        THEN cursor'[s] # Nothing /\ \E n \in Names, append, create \in BOOLEAN : Open(s, n, append, create)
        ELSE \/ Take(s, answer') \/ Put(s, answer') \/ Tell(s)
             \/ Close(s) \/ Rewind(s) \/ ClearError(s) \/ Fail(s)
             \/ \E b \in Byte : PushBack(s, b)
             \/ \E from \in {"set", "cur", "end"}, by \in {-1, 1} : Seek(s, from, by)
             \/ \E n \in Names, create \in BOOLEAN : Reopen(s, n, create)

StreamsSpec == StreamsInit /\ [][StreamsNext]_streamVars
=============================================================================
