-------------------------------- MODULE Stdio --------------------------------
(***************************************************************************)
(* The FILE streams of libc/src/stdio.rs: a position, one byte pushed back *)
(* and a write buffer over files that the kernel reads and writes at an    *)
(* offset it is given.  Calls are synchronous and the library has no       *)
(* threads, so a call is a step; rename across drives is a program over    *)
(* the same calls.  The program keeps to the rules of the C language: it   *)
(* positions a stream between writing and reading it, pushes back one byte *)
(* at a time and opens a file once.  StreamFlaws names what the library    *)
(* does not get right; a run that has one shows what comes of it.          *)
(***************************************************************************)
EXTENDS Integers, Sequences, FiniteSets

CONSTANTS
    BufSize,      \* FILE_BUF_SIZE
    MaxFiles,     \* MAX_FILES
    Files,        \* names of files
    Chars,        \* the bytes
    Newline,      \* the byte that ends a line
    NoFile,       \* no file, no byte
    MaxLen,       \* bound on the length of the files the program makes and of a transfer
    StreamFlaws   \* situations the library handles badly and the program may get into

Con == "con"

\* Nothing is told apart from every byte, every file's bytes and every place in a file.
ASSUME StdioAssumption ==
    /\ BufSize \in Nat \ {0} /\ MaxLen \in Nat \ {0} /\ MaxFiles \in Nat
    /\ Newline \in Chars
    /\ StreamFlaws \subseteq {"mix", "pushed", "tell", "reopen", "short", "badread", "badflush",
                              "shared", "onto", "exit"}
    /\ Con \notin Files
    /\ NoFile \notin Chars /\ NoFile \notin Seq(Chars)
    /\ NoFile \notin [name : Files \cup {Con}, at : Nat, back : Chars \cup {NoFile}, failed : BOOLEAN]

VARIABLES
    disk,     \* the files of the kernel's file systems, and what the console was sent
    file,     \* FILE_TABLE
    given,    \* what the last call gave back
    moving    \* where rename_cross_device is

stdioVars == <<disk, file, given, moving>>

Stdout == 1
Table == {Stdout} \cup 3..MaxFiles - 1

\* init: the entry of stdout, the console's handle.
Console == [open |-> TRUE, name |-> Con, pos |-> 0, error |-> FALSE, eof |-> FALSE,
            is_console |-> TRUE, unget |-> NoFile, wbuf |-> <<>>]

\* An entry that is not open: nothing but is_open is read of it, and fopen sets the rest.
Zeroed == [Console EXCEPT !.open = FALSE, !.name = NoFile, !.is_console = FALSE]

Idle == [pc |-> "idle", old |-> NoFile, new |-> NoFile, src |-> 0, dst |-> 0, buf |-> <<>>]

\* A program that prints has no use for the files, and the other way round.
StdioInit ==
    /\ \/ /\ disk \in [Files \cup {Con} -> {NoFile, <<>>} \cup [1..MaxLen -> Chars]]
          /\ disk[Con] = NoFile
          /\ \E n \in Files : \A m \in Files \ {n} : disk[m] = NoFile
          /\ file = [f \in Table |-> Zeroed]
       \/ /\ disk \in [Files \cup {Con} -> {NoFile, <<>>}]
          /\ disk[Con] # NoFile
          /\ file = [f \in Table |-> IF f = Stdout THEN Console ELSE Zeroed]
    /\ given = <<>>
    /\ moving = Idle

Flawed(what) == what \in StreamFlaws

Spared(what, good) == good \/ Flawed(what)

\* The kernel's answers to a transfer of n bytes: all of them, or an error, -1; fewer of
\* them when the disk fills up.
WriteResults(n) == {n} \cup (IF n > 0 THEN {-1} ELSE {}) \cup IF Flawed("short") THEN 0..n - 1 ELSE {}

ReadResults(n) == {n} \cup IF Flawed("badread") THEN {-1} ELSE {}

\* A write at an offset; the console has no offsets, it takes what comes.
WriteAt(d, n, pos, s) ==
    [d EXCEPT ![n] = IF n = Con THEN @ \o s
                     ELSE SubSeq(@, 1, pos) \o s \o SubSeq(@, pos + Len(s) + 1, Len(@))]

\* file_size; the kernel has the size of every file that is open.
FileSize(d, n) == Len(d[n])

\* alloc_file
FreeEntries == {f \in Table \ {Stdout} : ~file[f].open}
AllocFile == CHOOSE f \in FreeEntries : \A g \in FreeEntries : f <= g

\* The call leaves entry r for stream f and the files d, and gives g back.
Leave(f, d, r, g) ==
    /\ disk' = d
    /\ file' = [file EXCEPT ![f] = r]
    /\ given' = g

\* flush_wbuf with the kernel's answer k: what it leaves, and whether it returns 0.
FlushWbuf(d, r, k) ==
    IF r.wbuf = <<>> THEN [d |-> d, r |-> r, ok |-> TRUE]
    ELSE IF k < 0 THEN [d |-> d, r |-> [r EXCEPT !.error = TRUE, !.wbuf = <<>>], ok |-> FALSE]
    ELSE [d |-> WriteAt(d, r.name, r.pos, SubSeq(r.wbuf, 1, k)),
          r |-> [r EXCEPT !.pos = @ + k, !.wbuf = <<>>], ok |-> TRUE]

\* fopen; mode is "r", "w", "a" or "wx".  None of them cuts the file off.
FopenCall(n, mode) ==
    LET found == disk[n] # NoFile
        opens == IF found THEN mode # "wx" ELSE mode # "r"
        d == IF opens /\ ~found THEN [disk EXCEPT ![n] = <<>>] ELSE disk IN
    IF FreeEntries = {} \/ ~opens
    THEN given' = <<NoFile>> /\ UNCHANGED <<disk, file>>
    ELSE Leave(AllocFile, d,
               [Zeroed EXCEPT !.open = TRUE, !.name = n,
                              !.pos = IF mode = "a" THEN FileSize(d, n) ELSE 0], <<>>)

FcloseCall(f) ==
    \E k \in WriteResults(Len(file[f].wbuf)) :
        LET fl == FlushWbuf(disk, file[f], k) IN
        /\ Spared("badflush", fl.ok)
        /\ Leave(f, fl.d, Zeroed, <<>>)

\* fread of n bytes in all; it tells how many whole elements that was.
FreadCall(f, n) ==
    \E k \in WriteResults(Len(file[f].wbuf)) :
        LET fl == FlushWbuf(disk, file[f], k)
            r == fl.r
            rest == SubSeq(fl.d[r.name], r.pos + 1, Len(fl.d[r.name])) IN
        \E got \in ReadResults(IF Len(rest) < n THEN Len(rest) ELSE n) :
            Leave(f, fl.d,
                  IF got < 0 THEN [r EXCEPT !.error = TRUE]
                  ELSE IF got = 0 THEN [r EXCEPT !.eof = TRUE]
                  ELSE [r EXCEPT !.pos = @ + got],
                  IF got < 0 THEN <<NoFile>> ELSE SubSeq(rest, 1, got))

\* A slip: fwrite leaves what the buffer holds for later.
FwriteCall_Direct(f, s) ==
    \E got \in WriteResults(Len(s)) :
        LET r == file[f] IN
        IF got < 0 THEN Leave(f, disk, [r EXCEPT !.error = TRUE], <<NoFile>>)
        ELSE Leave(f, WriteAt(disk, r.name, r.pos, SubSeq(s, 1, got)),
                   [r EXCEPT !.pos = @ + got], SubSeq(s, 1, got))

\* fwrite; what the buffer holds goes first, and if that fails nothing is written.
FwriteCall(f, s) ==
    \E k \in WriteResults(Len(file[f].wbuf)), got \in WriteResults(Len(s)) :
        LET fl == FlushWbuf(disk, file[f], k)
            r == fl.r IN
        IF ~fl.ok THEN Leave(f, fl.d, r, <<NoFile>>)
        ELSE IF got < 0 THEN Leave(f, fl.d, [r EXCEPT !.error = TRUE], <<NoFile>>)
        ELSE Leave(f, WriteAt(fl.d, r.name, r.pos, SubSeq(s, 1, got)),
                   [r EXCEPT !.pos = @ + got], SubSeq(s, 1, got))

UnlinkCall(n) ==
    /\ disk' = [disk EXCEPT ![n] = NoFile]
    /\ given' = <<>>
    /\ UNCHANGED file

(***************************************************************************)
(* The program's calls.                                                    *)
(***************************************************************************)
Calls(f) == moving = Idle /\ file[f].open

\* The program has one stream open at a time; two of them on one file do not see what the
\* other one holds back.
Alone == moving = Idle /\ \A f \in Table : ~file[f].open

Fopen(n, mode) ==
    /\ Spared("shared", Alone) /\ moving = Idle
    /\ FopenCall(n, mode)
    /\ UNCHANGED moving

Fclose(f) == Calls(f) /\ FcloseCall(f) /\ UNCHANGED moving

\* freopen: the old handle is closed, what the buffer holds is dropped, and the file is
\* opened as for reading whatever the mode.
Freopen(f, n, mode) ==
    LET r == file[f] IN
    /\ Calls(f)
    /\ Spared("reopen", r.wbuf = <<>> /\ (disk[n] # NoFile \/ mode = "r"))
    /\ IF disk[n] = NoFile THEN Leave(f, disk, Zeroed, <<NoFile>>)
       ELSE Leave(f, disk, [Zeroed EXCEPT !.open = TRUE, !.name = n], <<>>)
    /\ UNCHANGED moving

Fread(f, n) ==
    /\ Calls(f) /\ ~file[f].is_console
    /\ Spared("pushed", file[f].unget = NoFile)
    /\ FreadCall(f, n)
    /\ UNCHANGED moving

Size(n) == IF disk[n] = NoFile THEN 0 ELSE Len(disk[n])

\* C has a positioning call between a read and a write.
MayPut(f, n) ==
    /\ Calls(f)
    /\ file[f].unget = NoFile
    /\ \A m \in DOMAIN disk \ {file[f].name} :
            Size(m) + file[f].pos + Len(file[f].wbuf) + n <= MaxLen

Fwrite(f, s) == MayPut(f, Len(s)) /\ FwriteCall(f, s) /\ UNCHANGED moving

\* fputc; vfprintf and puts put their bytes one by one through it.
Fputc(f, b) ==
    LET r == [file[f] EXCEPT !.wbuf = Append(@, b)] IN
    /\ MayPut(f, 1)
    /\ IF Len(r.wbuf) >= BufSize \/ (r.is_console /\ b = Newline)
       THEN \E k \in WriteResults(Len(r.wbuf)) :
                LET fl == FlushWbuf(disk, r, k) IN
                Leave(f, fl.d, fl.r, IF fl.ok THEN <<b>> ELSE <<NoFile>>)
       ELSE Leave(f, disk, r, <<b>>)
    /\ UNCHANGED moving

MayGet(f) ==
    /\ Calls(f) /\ ~file[f].is_console
    /\ Spared("mix", file[f].wbuf = <<>>)

\* fgetc: the byte pushed back, or one from the file; the buffer is not looked at.
Fgetc(f) ==
    LET r == file[f]
        rest == SubSeq(disk[r.name], r.pos + 1, Len(disk[r.name])) IN
    /\ MayGet(f)
    /\ IF r.unget # NoFile THEN Leave(f, disk, [r EXCEPT !.unget = NoFile], <<r.unget>>)
       ELSE \E got \in ReadResults(IF rest = <<>> THEN 0 ELSE 1) :
                IF got > 0 THEN Leave(f, disk, [r EXCEPT !.pos = @ + 1], <<rest[1]>>)
                ELSE Leave(f, disk, [r EXCEPT !.eof = TRUE], <<>>)
    /\ UNCHANGED moving

\* fgets: fgetc until a line has ended, n - 1 bytes are there or there are no more.
Fgets(f, n) ==
    LET r == file[f]
        back == IF r.unget = NoFile THEN <<>> ELSE <<r.unget>>
        ahead == back \o SubSeq(disk[r.name], r.pos + 1, Len(disk[r.name]))
        ends == {i \in 1..Len(ahead) : ahead[i] = Newline \/ i = n - 1}
        k == IF ends = {} THEN Len(ahead) ELSE CHOOSE i \in ends : \A j \in ends : i <= j IN
    /\ MayGet(f)
    /\ Leave(f, disk, [r EXCEPT !.pos = @ + k - (IF k > 0 THEN Len(back) ELSE 0),
                                !.unget = IF k > 0 THEN NoFile ELSE @,
                                !.eof = @ \/ ends = {}],
             SubSeq(ahead, 1, k))
    /\ UNCHANGED moving

Ungetc(f, b) ==
    /\ MayGet(f)
    /\ file[f].unget = NoFile /\ file[f].pos > 0
    /\ Leave(f, disk, [file[f] EXCEPT !.unget = b, !.eof = FALSE], <<b>>)
    /\ UNCHANGED moving

\* fseek to a place within the file.
Fseek(f, from, by) ==
    /\ Calls(f) /\ ~file[f].is_console
    /\ Spared("pushed", file[f].unget = NoFile \/ from # "cur")
    /\ \E k \in WriteResults(Len(file[f].wbuf)) :
        LET fl == FlushWbuf(disk, file[f], k)
            size == FileSize(fl.d, fl.r.name)
            pos == by + [set |-> 0, cur |-> fl.r.pos, end |-> size][from] IN
        /\ pos \in 0..size
        /\ Leave(f, fl.d, [fl.r EXCEPT !.eof = FALSE, !.unget = NoFile, !.pos = pos], <<>>)
    /\ UNCHANGED moving

\* rewind: fseek to the start, and the error indicator is cleared.
Rewind(f) ==
    /\ Calls(f) /\ ~file[f].is_console
    /\ \E k \in WriteResults(Len(file[f].wbuf)) :
        LET fl == FlushWbuf(disk, file[f], k) IN
        /\ Spared("badflush", fl.ok)
        /\ Leave(f, fl.d, [fl.r EXCEPT !.eof = FALSE, !.unget = NoFile, !.pos = 0, !.error = FALSE], <<>>)
    /\ UNCHANGED moving

\* ftell: the position in the file, without what is buffered or pushed back.
Ftell(f) ==
    /\ Calls(f)
    /\ Spared("tell", file[f].wbuf = <<>> /\ file[f].unget = NoFile)
    /\ given' = <<file[f].pos>>
    /\ UNCHANGED <<disk, file, moving>>

Clearerr(f) ==
    /\ Calls(f)
    /\ Leave(f, disk, [file[f] EXCEPT !.error = FALSE, !.eof = FALSE], <<>>)
    /\ UNCHANGED moving

Fflush(f) ==
    /\ Calls(f)
    /\ \E k \in WriteResults(Len(file[f].wbuf)) :
        LET fl == FlushWbuf(disk, file[f], k) IN
        Leave(f, fl.d, fl.r, IF fl.ok THEN <<>> ELSE <<NoFile>>)
    /\ UNCHANGED moving

\* exit runs the functions of atexit and ends the task; no stream is flushed.
Exit ==
    /\ moving = Idle
    /\ Spared("exit", \A f \in Table : file[f].open => file[f].wbuf = <<>>)
    /\ file' = [f \in Table |-> Zeroed]
    /\ given' = <<>>
    /\ UNCHANGED <<disk, moving>>

Unlink(n) == Alone /\ disk[n] # NoFile /\ UnlinkCall(n) /\ UNCHANGED moving

(***************************************************************************)
(* rename: the kernel's, or a copy to the other drive and unlink.          *)
(***************************************************************************)
\* The kernel moves a file that is not open within a drive, unless the new name is taken;
\* across says that the two names are on two drives.
Rename(old, new, across) ==
    /\ Alone /\ old # new
    /\ Spared("onto", disk[new] = NoFile)
    /\ IF disk[old] = NoFile \/ (~across /\ disk[new] # NoFile)
       THEN given' = <<NoFile>> /\ UNCHANGED <<disk, file, moving>>
       ELSE IF across
       THEN /\ moving' = [Idle EXCEPT !.pc = "src", !.old = old, !.new = new]
            /\ given' = <<NoFile>>
            /\ UNCHANGED <<disk, file>>
       ELSE /\ disk' = [disk EXCEPT ![new] = disk[old], ![old] = NoFile]
            /\ given' = <<>>
            /\ UNCHANGED <<file, moving>>

Goto(pc) == moving' = [moving EXCEPT !.pc = pc]

\* rename_cross_device, call by call.
MoveOpen ==
    \/ /\ moving.pc = "src"
       /\ FopenCall(moving.old, "r")
       /\ moving' = IF given' = <<>> THEN [moving EXCEPT !.pc = "dst", !.src = AllocFile] ELSE Idle
    \/ /\ moving.pc = "dst"
       /\ FopenCall(moving.new, "w")
       /\ moving' = IF given' = <<>> THEN [moving EXCEPT !.pc = "read", !.dst = AllocFile]
                    ELSE [moving EXCEPT !.pc = "abort"]

\* A read that fails ends the copy as the end of the file does.
\* Its buffer, of 512 bytes in the code, takes one here.
MoveRead ==
    /\ moving.pc = "read"
    /\ FreadCall(moving.src, 1)
    /\ moving' = IF given' \in {<<>>, <<NoFile>>} THEN [moving EXCEPT !.pc = "close"]
                 ELSE [moving EXCEPT !.pc = "write", !.buf = given']

\* A slip: what fwrite returns is not looked at.
MoveWrite_Blind ==
    /\ moving.pc = "write"
    /\ FwriteCall(moving.dst, moving.buf)
    /\ moving' = [moving EXCEPT !.buf = <<>>, !.pc = "read"]

MoveWrite ==
    /\ moving.pc = "write"
    /\ FwriteCall(moving.dst, moving.buf)
    /\ moving' = [moving EXCEPT !.buf = <<>>, !.pc = IF given' = moving.buf THEN "read" ELSE "abort"]

MoveClose ==
    \/ moving.pc = "close" /\ FcloseCall(moving.src) /\ Goto("close dst")
    \/ moving.pc = "close dst" /\ FcloseCall(moving.dst) /\ Goto("unlink")
    \/ moving.pc = "abort" /\ FcloseCall(moving.src)
            /\ IF moving.dst = 0 THEN moving' = Idle ELSE Goto("abort dst")
    \/ moving.pc = "abort dst" /\ FcloseCall(moving.dst) /\ moving' = Idle

MoveUnlink == moving.pc = "unlink" /\ UnlinkCall(moving.old) /\ moving' = Idle

StdioNext ==
    \/ MoveOpen \/ MoveRead \/ MoveWrite \/ MoveClose \/ MoveUnlink
    \/ Exit
    \/ \E n \in Files : Unlink(n) \/ (\E m \in Files, across \in BOOLEAN : Rename(n, m, across))
    \/ \E n \in Files, mode \in {"r", "w", "a", "wx"} : Fopen(n, mode)
    \/ \E n \in Files, mode \in {"r", "w"} : Freopen(Stdout, n, mode)
    \/ \E f \in Table :
        \/ Fclose(f) \/ Fgetc(f) \/ Rewind(f) \/ Ftell(f) \/ Clearerr(f) \/ Fflush(f)
        \/ \E n \in 1..MaxLen : Fread(f, n)
        \/ \E s \in UNION {[1..k -> Chars] : k \in 1..MaxLen} : Fwrite(f, s)
        \/ \E b \in Chars : Fputc(f, b) \/ Ungetc(f, b)
        \/ \E n \in 2..MaxLen + 1 : Fgets(f, n)
        \/ \E from \in {"set", "cur", "end"}, by \in {-1, 1} : Fseek(f, from, by)

StdioSpec == StdioInit /\ [][StdioNext]_stdioVars

(***************************************************************************)
(* Properties.                                                             *)
(***************************************************************************)
\* The bytes of a file as the program sees it: what its stream holds back is in it.
Seen(n) ==
    LET holding == {f \in Table : file[f].open /\ file[f].name = n /\ file[f].wbuf # <<>>} IN
    IF holding = {} THEN disk[n]
    ELSE LET r == file[CHOOSE f \in holding : TRUE] IN WriteAt(disk, n, r.pos, r.wbuf)[n]

\* Where the program takes a stream to be.
Cursor(f) ==
    LET r == file[f] IN
    IF ~r.open THEN NoFile
    ELSE [name |-> r.name, at |-> r.pos + Len(r.wbuf), back |-> r.unget, failed |-> r.error]

\* The streams as ByteStreams has them.
Streams == INSTANCE ByteStreams WITH
    Names <- Files \cup {Con}, Streams <- Table, Byte <- Chars, Longest <- MaxLen,
    Nothing <- NoFile,
    bytes <- [n \in Files \cup {Con} |-> Seen(n)], cursor <- [f \in Table |-> Cursor(f)],
    answer <- given

\* The streams with their buffers behave as places in files without any: every call of
\* stdio.rs is a step of ByteStreams, and what a program put is in the file unless the
\* error indicator tells otherwise.
StreamsAreFiles == Streams!StreamsSpec

\* rename deletes the original only when the other drive has all of it.
MoveKeepsBytes == moving.pc = "unlink" => disk[moving.new] = disk[moving.old]

\* A line printed on the console is shown: no newline waits in its buffer.  The end that
\* feof tells of is the end of the file.  A buffer is never full between two calls.
BuffersAreRight ==
    \A f \in DOMAIN file : LET r == file[f] IN r.open =>
        /\ r.is_console => \A i \in 1..Len(r.wbuf) : r.wbuf[i] # Newline
        /\ r.eof /\ ~r.is_console => r.pos = Len(disk[r.name])
        /\ Len(r.wbuf) < BufSize

StdioTypeOK ==
    /\ \A n \in DOMAIN disk : disk[n] = NoFile \/ \A i \in 1..Len(disk[n]) : disk[n][i] \in Chars
    /\ \A f \in DOMAIN file : file[f].pos \in 0..MaxLen

StdioIsRight == StdioTypeOK /\ MoveKeepsBytes /\ BuffersAreRight
=============================================================================
