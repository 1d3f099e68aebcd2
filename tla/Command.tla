------------------------------- MODULE Command -------------------------------
(***************************************************************************)
(* What COMMAND does with text: the lexer, the current directory and the   *)
(* paths below it, the prompt, the parameters of a batch file, words put   *)
(* together again and the names in a directory's listing.  Texts are       *)
(* sequences of characters as in Paths; a state is one use of one of them. *)
(***************************************************************************)
EXTENDS Paths

CONSTANTS
    LineLength,   \* bound on the length of the texts
    CwdSize,      \* bytes for the current directory
    OutSize,      \* bytes for the prompt, a line and a message
    ShellFlaws    \* what may be typed, "absolute", "colon", "empty", "long", "crlf", "listing",
                  \* and happen in Command, "leak", "tail", "self", "stat", "short", "panic", "large",
                  \* "trail" (a blank behind the label of a GOTO)

ASSUME ShellTextAssumption ==
    /\ LineLength \in Nat /\ CwdSize \in Nat /\ OutSize \in Nat \ {0}
    /\ ShellFlaws \subseteq {"absolute", "colon", "empty", "long", "crlf", "listing",
                             "leak", "tail", "self", "stat", "short", "panic", "large", "trail"}

VARIABLE shellText

-----------------------------------------------------------------------------
(* The lexer. *)

Blank == " "
Null == "nul"
Special == {Blank, "|", "<", ">"}

\* The tokens next_token returns up to the end.
RECURSIVE Lexed(_)
Lexed(s) ==
    IF s = <<>> THEN <<>>
    ELSE LET rest(n) == Lexed(SubSeq(s, n + 1, Len(s)))
             stops == {i \in DOMAIN s : s[i] \in Special} IN
         CASE s[1] = Blank -> rest(1)
           [] s[1] \in {"|", "<"} -> <<<<s[1]>>>> \o rest(1)
           [] s[1] = ">" -> IF Len(s) > 1 /\ s[2] = ">" THEN <<<<">", ">">>>> \o rest(2)
                            ELSE <<<<">">>>> \o rest(1)
           [] OTHER -> LET n == IF stops = {} THEN Len(s) ELSE Min(stops) - 1
                       IN  <<SubSeq(s, 1, n)>> \o rest(n)

-----------------------------------------------------------------------------
(* The current directory: a drive and directories, each with a separator. *)

\* is_drive of exec.rs.
IsDriveName(s) ==
    /\ \A i \in 1..Len(s) - 1 : s[i] \in LettersOf
    /\ Last(s) = ":"

Pushd(cwd, dir) ==
    IF Len(cwd) + Len(dir) + 1 < CwdSize THEN cwd \o Append(dir, Sep) ELSE cwd

\* Down to the separator before the last one.
Popd(cwd) ==
    LET seps == {i \in 1..Len(cwd) - 1 : cwd[i] = Sep}
    IN  IF Len(cwd) < 2 \/ seps = {} THEN cwd ELSE SubSeq(cwd, 1, Max(seps))

PopToRoot(cwd) ==
    IF Indexes(cwd, Sep) = {} THEN cwd ELSE SubSeq(cwd, 1, Min(Indexes(cwd, Sep)))

ResetDrive(drive) == Append(drive, Sep)

RECURSIVE CdThrough(_, _)
CdThrough(cwd, chunks) ==
    IF chunks = <<>> THEN cwd
    ELSE CdThrough(CASE Head(chunks) = <<".">> -> cwd
                     [] Head(chunks) = <<".", ".">> -> Popd(cwd)
                     [] OTHER -> Pushd(cwd, Head(chunks)), Tail(chunks))

\* CD; with no argument it goes to the root, and a path from the root is ignored.
Cd(cwd, arg) ==
    CASE arg = <<>> -> PopToRoot(cwd)
      [] arg # <<>> /\ arg[1] = Sep -> cwd
      [] arg # <<>> /\ arg[1] # Sep /\ IsDriveName(arg) -> ResetDrive(arg)
      [] OTHER -> CdThrough(cwd, SplitAt(arg))

\* The loop of full_file_path over the elements.
UpFrom(p) ==
    LET q == Front(p)
        ends == {i \in DOMAIN q : q[i] \in {Sep, ":"}}
    IN  IF q[Max(ends)] = ":" THEN Append(SubSeq(q, 1, Max(ends)), Sep) ELSE SubSeq(q, 1, Max(ends))

RECURSIVE PathThrough(_, _)
PathThrough(p, chunks) ==
    IF chunks = <<>> THEN p
    ELSE LET c == Head(chunks)
             end == IF Len(chunks) > 1 THEN <<Sep>> ELSE <<>>
         IN  PathThrough(CASE c \in {<<>>, <<".">>} -> p
                           [] c = <<".", ".">> -> IF Len(p) < 2 THEN p ELSE UpFrom(p)
                           [] OTHER -> p \o c \o end, Tail(chunks))

FullFilePath(cwd, file) ==
    LET colons == Indexes(file, ":")
        c == Min(colons)
        absolute == /\ colons # {} /\ c > 1 /\ \A i \in 1..c - 1 : file[i] \in LettersOf
                    /\ c < Len(file) /\ file[c + 1] = Sep
    IN  IF absolute THEN file ELSE PathThrough(cwd, SplitAt(file))

-----------------------------------------------------------------------------
(* Text into a buffer of a given size. *)

Cut(s, size) == SubSeq(s, 1, Min({Len(s), size}))

\* expand_prompt: what a code stands for, as much of it as there is room for; the end of a
\* line is written whole or not at all.
PromptCode(c, cwd, room) ==
    CASE c = "P" -> Cut(cwd, room)
      [] c = "N" -> <<cwd[1]>>
      [] c = "G" -> <<">">>
      [] c = "$" -> <<"$">>
      [] c = "_" -> IF room > 1 THEN <<"\r", "\n">> ELSE <<>>
      [] OTHER -> <<>>

RECURSIVE ExpandPrompt(_, _, _)
ExpandPrompt(fmt, cwd, room) ==
    IF fmt = <<>> \/ room = 0 THEN <<>>
    ELSE LET code == fmt[1] = "$" /\ Len(fmt) > 1
             text == IF code THEN PromptCode(fmt[2], cwd, room) ELSE <<fmt[1]>>
             rest == SubSeq(fmt, IF code THEN 3 ELSE 2, Len(fmt))
         IN  text \o ExpandPrompt(rest, cwd, room - Len(text))

\* substitute_params, with the path of the batch file as parameter 0.
Parameter(d, args, path) ==
    CASE d = "0" -> path
      [] d = "1" /\ Len(args) >= 1 -> args[1]
      [] d = "2" /\ Len(args) >= 2 -> args[2]
      [] OTHER -> <<>>

RECURSIVE SubstituteParams(_, _, _, _)
SubstituteParams(line, args, path, room) ==
    IF line = <<>> \/ room = 0 THEN <<>>
    ELSE LET param == line[1] = "%" /\ Len(line) > 1 /\ line[2] \in {"0", "1", "2"}
             text == IF param THEN Cut(Parameter(line[2], args, path), room) ELSE <<line[1]>>
             rest == SubSeq(line, IF param THEN 3 ELSE 2, Len(line))
         IN  text \o SubstituteParams(rest, args, path, room - Len(text))

\* The loop of ECHO, APPEND and PROMPT that puts a space between the words.
RECURSIVE Rejoined(_, _, _)
Rejoined(words, got, size) ==
    IF words = <<>> THEN got
    ELSE LET g == IF got.n > 0 /\ Len(got.text) < size THEN Append(got.text, Blank) ELSE got.text
         IN  Rejoined(Tail(words),
                      [n |-> got.n + 1, text |-> g \o Cut(Head(words), size - Len(g))], size)

Rejoin(words, size) == Rejoined(words, [n |-> 0, text |-> <<>>], size).text

\* The names DIR finds in the reads of a listing, each of them by itself.
RECURSIVE NamesIn(_)
NamesIn(chunk) ==
    LET ends == Indexes(chunk, Null)
    IN  IF ends = {} THEN <<>>
        ELSE <<SubSeq(chunk, 1, Min(ends) - 1)>> \o NamesIn(SubSeq(chunk, Min(ends) + 1, Len(chunk)))

RECURSIVE DirEntries(_, _)
DirEntries(listing, size) ==
    LET read == Cut(listing, size)
    IN  NamesIn(read) \o (IF Len(read) < size THEN <<>>
                          ELSE DirEntries(SubSeq(listing, size + 1, Len(listing)), size))

-----------------------------------------------------------------------------
NoText == [kind |-> "none"]

TextsOver(chars, n) == UNION {[1..k -> chars] : k \in 0..n}

\* Directories as CD leaves them.
Cwds == {<<"D", ":", Sep>>, <<"D", ":", Sep, "x", Sep>>, <<"D", ":", Sep, "x", Sep, "D", Sep>>}

Listing(names) == FlattenSeq([i \in DOMAIN names |-> Append(names[i], Null)])

ShellTextInit == shellText = NoText

ShellTextNext ==
    /\ shellText = NoText
    /\ \/ \E s \in TextsOver({"x", Blank, "|", ">"}, LineLength) :
             shellText' = [kind |-> "line", s |-> s]
       \/ \E cwd \in Cwds, arg \in TextsOver({"x", Sep, ":", "."}, LineLength), f \in {<<"x">>, <<".", ".", Sep, "D">>} :
             shellText' = [kind |-> "path", cwd |-> cwd, arg |-> arg, file |-> f]
       \/ \E cwd \in Cwds, fmt \in TextsOver({"$", "P", "_", "x"}, 4) :
             shellText' = [kind |-> "prompt", cwd |-> cwd, fmt |-> fmt]
       \/ \E line \in TextsOver({"%", "0", "2", "x"}, 4), args \in TextsOver({<<"x">>, <<"%", "0">>}, 2) :
             shellText' = [kind |-> "params", line |-> line, args |-> args]
       \/ \E words \in TextsOver({<<"x">>, <<"x", "x", "x">>}, 4) :
             shellText' = [kind |-> "words", words |-> words]

ShellTextSpec == ShellTextInit /\ [][ShellTextNext]_shellText

-----------------------------------------------------------------------------
\* The tokens are the line without its blanks, cut where a word or an operator starts.
LexerIsRight ==
    shellText.kind = "line" =>
    LET s == shellText.s
        arrows(i) == CHOOSE n \in 0..i - 1 : /\ \A j \in i - n..i - 1 : s[j] = ">"
                                             /\ n = i - 1 \/ s[i - n - 1] # ">"
        starts == {i \in DOMAIN s :
                     CASE s[i] = Blank -> FALSE
                       [] s[i] = "|" -> TRUE
                       [] s[i] = ">" -> arrows(i) % 2 = 0
                       [] OTHER -> i = 1 \/ s[i - 1] \in Special}
    IN  /\ FlattenSeq(Lexed(s)) = SelectSeq(s, LAMBDA c : c # Blank)
        /\ Len(Lexed(s)) = Cardinality(starts)

\* Up from a directory, but never out of the drive.
From(cwd, elements) ==
    <<Head(Elements(cwd))>> \o Walked(Tail(Elements(cwd)), elements)

\* CD goes where its argument says, the directory keeps its form, and a path is the same
\* from there as it was from here.  Unless asked for, an argument has no separator at its
\* ends or next to another, no colon but that of a drive alone, and it fits.
CdIsRight ==
    shellText.kind = "path" =>
    LET cwd == shellText.cwd  arg == shellText.arg  to == Cd(cwd, arg)
        rooted == arg # <<>> /\ arg[1] = Sep
        drive == arg # <<>> /\ IsDriveName(arg)
        clean == /\ (Indexes(arg, ":") # {} /\ ~(drive /\ Len(arg) > 1)) => "colon" \in ShellFlaws
                 /\ rooted => "absolute" \in ShellFlaws
                 /\ (arg # <<>> /\ <<>> \in Range(SplitAt(arg))) =>
                       ("empty" \in ShellFlaws \/ (rooted /\ "absolute" \in ShellFlaws))
                 /\ Len(cwd) + Len(arg) + 1 >= CwdSize => "long" \in ShellFlaws
        there == IF drive THEN <<arg>>
                 ELSE From(IF rooted \/ arg = <<>> THEN PopToRoot(cwd) ELSE cwd, Elements(arg)) IN
    /\ arg # <<>> => (drive = IsDrive(arg))
    /\ clean => /\ to = FlattenSeq([i \in DOMAIN there |-> Append(there[i], Sep)])
                /\ Elements(FullFilePath(to, shellText.file)) = From(to, Elements(shellText.file))
                /\ ~drive /\ arg # <<>> =>
                      Elements(FullFilePath(cwd, arg \o <<Sep>> \o shellText.file))
                         = Elements(FullFilePath(to, shellText.file))

\* What does not fit is cut off and nothing else is lost: the text in a small buffer begins
\* the text in a large one, which is every code and parameter replaced.
BuffersAreCut ==
    LET begins(f(_)) == f(OutSize) = Cut(f(20 * OutSize), OutSize) IN
    CASE shellText.kind = "prompt" ->
           LET f(n) == ExpandPrompt(shellText.fmt, shellText.cwd, n)
           IN  "_" \notin Range(shellText.fmt) \/ "crlf" \in ShellFlaws => begins(f)
      [] shellText.kind = "params" ->
           LET f(n) == SubstituteParams(shellText.line, shellText.args, <<"D", "D">>, n)
               codes == {i \in 1..Len(shellText.line) - 1 :
                           shellText.line[i] = "%" /\ shellText.line[i + 1] \in {"0", "2"}}
               gain(i) == Len(Parameter(shellText.line[i + 1], shellText.args, <<"D", "D">>)) - 2
           IN  /\ begins(f)
               /\ Len(f(20 * OutSize)) = Len(shellText.line) + MapThenSumSet(gain, codes)
      [] shellText.kind = "words" ->
           LET f(n) == Rejoin(shellText.words, n)
               split == Lexed(f(20 * OutSize))
           IN  /\ begins(f) /\ split = shellText.words
               /\ (Len(Listing(shellText.words)) < OutSize \/ "listing" \in ShellFlaws)
                     => DirEntries(Listing(shellText.words), OutSize) = shellText.words
      [] OTHER -> TRUE

ShellTextIsRight == LexerIsRight /\ CdIsRight /\ BuffersAreCut

-----------------------------------------------------------------------------
(***************************************************************************)
(* COMMAND at work: lines that are typed or read from batch files, and     *)
(* what they do to files.  A line is a sequence of words as the lexer      *)
(* leaves them, a file is a sequence of lines, and the buffer all commands *)
(* share holds a few.  The shell is one task; what can go wrong under it   *)
(* is a request that fails.                                                *)
(***************************************************************************)

CONSTANTS
    FileNames,   \* full paths
    OnSecond,    \* those on the second drive
    StartDisks,  \* what the drives hold at first
    TypedLines,
    BufUnits,    \* lines in the shared buffer
    MaxUnits,    \* lines a file can hold
    MaxTyped,    \* bound on the lines typed
    MaxFaults,   \* bound on the requests that fail
    MaxOpened,   \* bound on the handles left open
    MaxDepth     \* bound on batch files within one another

ASSUME CommandAssumption ==
    /\ OnSecond \subseteq FileNames
    /\ BufUnits \in Nat \ {0} /\ MaxUnits \in Nat /\ MaxTyped \in Nat
    /\ MaxFaults \in Nat /\ MaxOpened \in Nat /\ MaxDepth \in Nat

VARIABLES
    stored,    \* for each path its kind and its lines
    held,      \* handles open besides those for input and output
    iobuf,     \* IO_BUFFER
    frames,    \* the calls of exec_batch under way, the innermost last
    told,      \* the last command, what it said and what the disks held before it
    crashed, typed, faults

commandVars == <<stored, held, iobuf, frames, told, crashed, typed, faults>>

NoFile == [kind |-> "none", data |-> <<>>]
Console == "console"
NoTold == [name |-> "none"]
NoFault == [op |-> "none", at |-> 1]

\* A request that fails: which, and the first or the second of its kind.
Faults ==
    IF faults = MaxFaults THEN {NoFault}
    ELSE {NoFault} \cup [op : {"open", "read", "write"}, at : {1, 2}]
         \cup [op : {"unlink", "load"} \cup (ShellFlaws \cap {"stat", "short"}), at : {1}]

-----------------------------------------------------------------------------
(* The parser. *)

Operators == {"|", "<", ">", ">>"}
Words(line) ==
    LET stops == {i \in DOMAIN line : line[i] \in Operators}
    IN  IF stops = {} THEN Len(line) ELSE Min(stops) - 1

\* parse_segment at the first token, and where it stops.
ParseSegment(line) ==
    LET n == Words(line)
        arrow == n < Len(line) /\ line[n + 1] \in {">", ">>"}
        target == arrow /\ n + 1 < Len(line) /\ line[n + 2] \notin Operators
    IN  [name |-> line[1], args |-> SubSeq(line, 2, n),
         redirect |-> IF target THEN line[n + 1] ELSE "none",
         to |-> IF target THEN line[n + 2] ELSE Console,
         rest |-> SubSeq(line, n + 1 + (IF target THEN 2 ELSE IF arrow THEN 1 ELSE 0), Len(line))]

\* parse_input goes on to the end of the line, and a segment starts with a word or never.
RECURSIVE Unparsable(_)
Unparsable(line) ==
    line # <<>> /\ (line[1] \in Operators \/ Unparsable(ParseSegment(line).rest))

-----------------------------------------------------------------------------
(* Requests, on s: the disks, the handles, the buffer, where output goes and what was said. *)

Cat(old, off, text) ==
    [i \in 1..Max({Len(old), off + Len(text)}) |->
        IF i > off /\ i <= off + Len(text) THEN text[i - off]
        ELSE IF i <= Len(old) THEN old[i] ELSE <<"zero">>]

\* A write takes what the file has room for, and fails when it has none.
WriteLines(s, path, off, text) ==
    LET n == Min({Len(text), MaxUnits - off})
    IN  [s EXCEPT !.disk[path].data = Cat(@, off, SubSeq(text, 1, n))]

TakenLines(off, text) == Min({Len(text), MaxUnits - off})

\* Environment::write; the console does not look at the offset.
EnvWrite(s, text) ==
    IF s.out = Console \/ s.off >= MaxUnits THEN s
    ELSE [WriteLines(s, s.out, s.off, text) EXCEPT !.off = @ + TakenLines(s.off, text)]

Say(s, word) == EnvWrite([s EXCEPT !.said = word], <<<<word>>>>)

Fails(s, op, k) == s.fault = [op |-> op, at |-> k]

Exists(s, path) == path \in FileNames /\ s.disk[path].kind # "none"

\* open_sync on a handle just created; the handle is there whether it works or not.
OpenFile(s, path, create, k) ==
    LET ok == ~Fails(s, "open", k) /\ path \in FileNames /\ (create \/ Exists(s, path))
        t == [s EXCEPT !.opened = @ + 1, !.ok = ok]
    IN  IF ok /\ ~Exists(s, path) THEN [t EXCEPT !.disk[path] = [kind |-> "file", data |-> <<>>]] ELSE t

CloseFile(s) == [s EXCEPT !.opened = @ - 1]

ReadLines(s, path, off) ==
    LET d == s.disk[path].data IN SubSeq(d, off + 1, Min({off + BufUnits, Len(d)}))

Loaded(buf, got) == [i \in 1..Max({Len(buf), Len(got)}) |-> IF i <= Len(got) THEN got[i] ELSE buf[i]]

\* FILE_OP_STAT, whose result is not looked at: a status never filled in has size 0.
StatSize(s, path) == IF Fails(s, "stat", 1) THEN 0 ELSE Len(s.disk[path].data)

-----------------------------------------------------------------------------
(* The commands. *)

Echo(s, args) == EnvWrite(s, <<args>>)

AppendTo(s, args) ==
    IF Len(args) < 2 THEN Say(s, "usage")
    ELSE LET o == OpenFile(s, args[1], TRUE, 1)
             size == StatSize(o, args[1]) IN
         IF ~o.ok THEN Say(o, "failed")
         ELSE CloseFile(IF Fails(o, "write", 1) \/ size >= MaxUnits THEN Say(o, "failed")
                        ELSE Say(WriteLines(o, args[1], size, <<Tail(args)>>), "appended"))

RECURSIVE TypeFrom(_, _, _, _)
TypeFrom(s, path, off, k) ==
    LET got == ReadLines(s, path, off) IN
    IF Fails(s, "read", k) THEN Say(s, "failed")
    ELSE IF got = <<>> THEN CloseFile([s EXCEPT !.said = "typed"])
    ELSE TypeFrom(EnvWrite([s EXCEPT !.buf = Loaded(@, got)], got), path, off + Len(got), k + 1)

\* type_file_inner: a read that fails, as it does when the file was not opened, leaves the
\* handle open.
TypeFileInner(s, path) ==
    LET o == OpenFile(s, path, FALSE, 1) IN IF o.ok THEN TypeFrom(o, path, 0, 1) ELSE Say(o, "failed")

RECURSIVE TypeFile(_, _)
TypeFile(s, args) ==
    IF args = <<>> THEN s ELSE TypeFile(TypeFileInner(s, Head(args)), Tail(args))

\* The loop of copy_file; a write that took less than it was given counts as a whole one.
RECURSIVE CopyFrom(_, _, _, _, _)
CopyFrom(s, src, dst, off, k) ==
    LET got == ReadLines(s, src, off)
        b == [s EXCEPT !.buf = Loaded(@, got)]
        text == IF Fails(s, "short", k) THEN Front(got) ELSE got
        w == WriteLines(b, dst, off, text)
        close(t) == CloseFile(CloseFile(t)) IN
    IF Fails(s, "read", k) THEN [close(Say(s, "failed")) EXCEPT !.ok = FALSE]
    ELSE IF got = <<>> THEN [close(s) EXCEPT !.ok = TRUE]
    ELSE IF Fails(s, "write", k) \/ off >= MaxUnits THEN [close(Say(b, "failed")) EXCEPT !.ok = FALSE]
    ELSE IF Len(got) < BufUnits THEN [close(w) EXCEPT !.ok = TRUE]
    ELSE CopyFrom(w, src, dst, off + Len(got), k + 1)

CopyFile(s, src, dst) ==
    LET a == OpenFile(s, src, FALSE, 1)
        b == OpenFile(a, dst, TRUE, 2) IN
    IF ~a.ok THEN [Say(a, "failed") EXCEPT !.ok = FALSE]
    ELSE IF ~b.ok THEN [Say(CloseFile(b), "failed") EXCEPT !.ok = FALSE]
    ELSE CopyFrom(b, src, dst, 0, 1)

Copy(s, args) ==
    IF Len(args) < 2 THEN Say(s, "usage")
    ELSE LET c == CopyFile(s, args[1], args[2]) IN IF c.ok THEN Say(c, "copied") ELSE c

UnlinkPath(s, path) == [s EXCEPT !.disk[path] = NoFile]

Del(s, args) ==
    IF args = <<>> THEN Say(s, "usage")
    ELSE IF ~Exists(s, args[1]) \/ Fails(s, "unlink", 1) THEN Say(s, "failed")
    ELSE UnlinkPath(s, args[1])

\* do_rename: across drives it is refused before anything is looked at.
DoRename(s, src, dst) ==
    IF (src \in OnSecond) # (dst \in OnSecond) THEN [s EXCEPT !.said = "cross"]
    ELSE IF ~Exists(s, src) \/ Exists(s, dst) THEN [s EXCEPT !.said = "failed"]
    ELSE [s EXCEPT !.said = "renamed", !.disk = [@ EXCEPT ![dst] = s.disk[src], ![src] = NoFile]]

Ren(s, args) ==
    IF Len(args) < 2 THEN Say(s, "usage")
    ELSE LET r == DoRename(s, args[1], args[2])
         IN  IF r.said = "renamed" THEN r ELSE Say(s, "failed")

MoveCmd(s, args) ==
    IF Len(args) < 2 THEN Say(s, "usage")
    ELSE LET r == DoRename(s, args[1], args[2])
             c == CopyFile(s, args[1], args[2]) IN
         CASE r.said = "renamed" -> Say(r, "moved")
           [] r.said = "failed" -> Say(s, "failed")
           [] r.said = "cross" -> IF ~c.ok THEN c
                                  ELSE IF Fails(s, "unlink", 1) THEN Say(c, "failed")
                                  ELSE Say(UnlinkPath(c, args[1]), "moved")

MkdirCmd(s, args) ==
    IF args = <<>> THEN Say(s, "usage")
    ELSE IF args[1] \notin FileNames \/ Exists(s, args[1]) THEN Say(s, "failed")
    ELSE [s EXCEPT !.disk[args[1]] = [kind |-> "dir", data |-> <<>>]]

RmdirCmd(s, args) ==
    IF args = <<>> THEN Say(s, "usage")
    ELSE IF ~Exists(s, args[1]) \/ s.disk[args[1]].kind # "dir" THEN Say(s, "failed")
    ELSE UnlinkPath(s, args[1])

\* DIR: a heading, a line for each entry and the number of them.
DirCmd(s) ==
    LET h == Say(s, "dir")
        names == SetToSeq({n \in FileNames \ OnSecond : Exists(h, n)}) IN
    IF Fails(s, "open", 1) THEN Say([h EXCEPT !.opened = @ + 1], "failed")
    ELSE EnvWrite(EnvWrite(h, [i \in DOMAIN names |-> <<names[i]>>]), <<<<"files">>>>)

-----------------------------------------------------------------------------
(* Programs and batch files. *)

\* try_exec opens the file to see that it is there; one that cannot be loaded leaves no
\* handle.  The program runs to its end.
TryExec(s, path) ==
    LET o == OpenFile(s, path, FALSE, 2) IN
    IF ~o.ok THEN o
    ELSE [CloseFile(o) EXCEPT !.ok = s.disk[path].kind = "elf" /\ ~Fails(s, "load", 1),
                              !.said = IF s.disk[path].kind = "elf" THEN "ran" ELSE "none"]

\* file_exists keeps its handle when the answer is no.
FileExists(s, path) ==
    LET o == OpenFile(s, path, FALSE, 1) IN IF o.ok THEN CloseFile(o) ELSE o

\* exec_batch reads the file into the shared buffer, as much as that holds, and copies it.
\* A file that cannot be read is an empty one; one read gets all there is, so that it makes
\* no difference whether the next, which is to find the end, fails.
ExecBatch(s, path, args) ==
    LET failed == Fails(s, "read", 1)
        got == IF failed THEN <<>> ELSE ReadLines(s, path, 0) IN
    IF Fails(s, "open", 2) THEN Say([s EXCEPT !.opened = @ + 1, !.ok = TRUE], "failed")
    ELSE [s EXCEPT !.buf = Loaded(@, got), !.ok = TRUE,
                   !.call = <<[path |-> path, args |-> args, data |-> got, pos |-> 1, goto |-> {},
                               script |-> IF failed THEN <<>> ELSE s.disk[path].data,
                               ran |-> [at |-> 0, line |-> <<>>]]>>]

HasExtension(name) == name \in {"S.BAT", "T.BAT", "P.ELF"}
IsBatch(name) == name \in {"S.BAT", "T.BAT"}

TryExternal(s, name, args) ==
    IF HasExtension(name)
    THEN IF ~IsBatch(name) THEN TryExec(s, name)
         ELSE LET f == FileExists(s, name) IN IF f.ok THEN ExecBatch(f, name, args) ELSE f
    ELSE LET e == TryExec(s, name \o ".ELF")
             b == FileExists(e, name \o ".BAT")
         IN  IF e.ok THEN e
             ELSE IF b.ok THEN ExecBatch(b, name \o ".BAT", args)
             ELSE TryExec(b, name)

-----------------------------------------------------------------------------
(* A line. *)

Builtins == {"ECHO", "APPEND", "TYPE", "COPY", "DEL", "REN", "MOVE", "MD", "RD", "DIR", "CD"}

Dispatch(s, name, args) ==
    CASE name = "ECHO" -> Echo(s, args)
      [] name = "APPEND" -> AppendTo(s, args)
      [] name = "TYPE" -> IF args = <<>> THEN Say(s, "usage") ELSE TypeFile(s, args)
      [] name = "COPY" -> Copy(s, args)
      [] name = "DEL" -> Del(s, args)
      [] name = "REN" -> Ren(s, args)
      [] name = "MOVE" -> MoveCmd(s, args)
      [] name = "MD" -> MkdirCmd(s, args)
      [] name = "RD" -> RmdirCmd(s, args)
      [] name = "DIR" -> DirCmd(s)
      [] name = "CD" -> s
      [] OTHER -> LET t == TryExternal(s, name, args) IN IF t.ok THEN t ELSE Say(t, "unknown")

SetupRedirect(s, c) ==
    IF c.redirect = "none" THEN s
    ELSE IF c.name \notin Builtins THEN Say(s, "unsupported")
    ELSE LET o == OpenFile(s, c.to, TRUE, 1) IN
         IF ~o.ok THEN Say(o, "failed")
         ELSE [o EXCEPT !.out = c.to, !.off = IF c.redirect = ">>" THEN StatSize(o, c.to) ELSE 0]

TeardownRedirect(s) == IF s.out = Console THEN s ELSE [CloseFile(s) EXCEPT !.out = Console, !.off = 0]

\* exec_command_tree, from what the disks and the buffer hold.
Executed(c, fault) ==
    TeardownRedirect(Dispatch(
        SetupRedirect([disk |-> stored, opened |-> held, buf |-> iobuf, out |-> Console, off |-> 0,
                       said |-> "none", ok |-> TRUE, call |-> <<>>, fault |-> fault], c),
        c.name, c.args))

Panics(line, fault) == Unparsable(line) \/ (line[1] = "DIR" /\ fault = [op |-> "read", at |-> 1])

\* exec_line, with the frames the line finds.
ExecLine(line, fault, calls) ==
    /\ faults' = faults + (IF fault = NoFault THEN 0 ELSE 1)
    /\ IF line = <<>> THEN frames' = calls /\ told' = NoTold /\ UNCHANGED <<stored, held, iobuf, crashed>>
       ELSE IF Panics(line, fault)
       THEN /\ "panic" \in ShellFlaws
            /\ crashed' = TRUE /\ frames' = calls /\ told' = NoTold
            /\ UNCHANGED <<stored, held, iobuf>>
       ELSE \E c \in {ParseSegment(line)} : \E s \in {Executed(c, fault)} :
            /\ Len(calls) + Len(s.call) <= MaxDepth /\ s.opened <= MaxOpened
            /\ stored' = s.disk /\ held' = s.opened /\ iobuf' = s.buf
            /\ frames' = calls \o s.call
            /\ told' = [name |-> c.name, args |-> c.args, redirect |-> c.redirect, to |-> c.to,
                        said |-> s.said, before |-> stored, fault |-> fault.op]
            /\ UNCHANGED crashed

-----------------------------------------------------------------------------
CommandInit ==
    /\ stored \in StartDisks /\ held = 0 /\ iobuf = <<>> /\ frames = <<>>
    /\ told = NoTold /\ crashed = FALSE /\ typed = 0 /\ faults = 0

\* main reads a line and executes it.
TypedLine ==
    /\ frames = <<>> /\ ~crashed /\ typed < MaxTyped
    /\ typed' = typed + 1
    /\ \E line \in TypedLines, fault \in Faults : ExecLine(line, fault, <<>>)

\* The lines a batch file runs: its own copy of the file.
FrameData_Shared(f) == iobuf
FrameData(f) == f.data

\* Parameters are words here; one that was not given is left out.
Substituted(line, f) ==
    LET word(w) == CASE w = "%0" -> <<f.path>>
                     [] w = "%1" -> IF f.args = <<>> THEN <<>> ELSE <<f.args[1]>>
                     [] OTHER -> <<w>>
    IN  FlattenSeq([i \in DOMAIN line |-> word(line[i])])

IsLabel(line) == line[1] = ":"

\* The rest of a GOTO line is the target, its last blank too, which no label has.
Targets(words) ==
    {Tail(words)} \cup (IF "trail" \in ShellFlaws THEN {Append(Tail(words), Blank)} ELSE {})

\* One turn of exec_batch's loop.
BatchLine ==
    LET f == Last(frames)
        line == FrameData(f)[f.pos]
        words == Substituted(line, f)
        on == [f EXCEPT !.pos = @ + 1]
        ran == [on EXCEPT !.ran = [at |-> f.pos, line |-> line]]
        goes(g) == /\ frames' = Append(Front(frames), g) /\ told' = NoTold
                   /\ UNCHANGED <<stored, held, iobuf, crashed, typed, faults>> IN
    /\ frames # <<>> /\ ~crashed
    /\ f.pos <= Len(FrameData(f))
    /\ IF line = <<>> THEN goes(on)
       ELSE IF f.goto # {}
       THEN goes(IF IsLabel(line) /\ Tail(line) \in f.goto THEN [on EXCEPT !.goto = {}] ELSE on)
       ELSE IF IsLabel(line) \/ line[1] = "REM" THEN goes(on)
       ELSE IF words # <<>> /\ words[1] = "GOTO"
       THEN IF Len(words) = 1 THEN goes(ran)
            ELSE \E target \in Targets(words) : goes([ran EXCEPT !.goto = {target}, !.pos = 1])
       ELSE \E fault \in Faults :
              ExecLine(words, fault, Append(Front(frames), ran)) /\ UNCHANGED typed

BatchEnds ==
    /\ frames # <<>> /\ ~crashed
    /\ Last(frames).pos > Len(FrameData(Last(frames)))
    /\ frames' = Front(frames) /\ told' = NoTold
    /\ UNCHANGED <<stored, held, iobuf, crashed, typed, faults>>

CommandNext == TypedLine \/ BatchLine \/ BatchEnds

CommandSpec == CommandInit /\ [][CommandNext]_commandVars

-----------------------------------------------------------------------------
\* The lines a file holds after a text was put into it, in the place of what it held or
\* behind that, as far as there is room.
Holds2(old, redirect, text) == Cut((IF redirect = ">>" THEN old ELSE <<>>) \o text, MaxUnits)

\* A command changes the files it names and no others.  A file said to be copied or moved
\* is in its new place line for line, and whatever fails on the way it is whole in one of
\* the two; output that was redirected is in its file.  Unless asked for, the file that is
\* written over is not the longer one, and a command's output does not go to its argument.
CommandsDoAsSaid ==
    told # NoTold =>
    LET b == told.before  args == told.args  to == told.to
        named == Range(args) \cup {to}
        src == args[1]  dst == args[2]
        two == told.name \in {"COPY", "MOVE", "REN"} /\ Len(args) = 2
        apart == to \notin Range(args) \/ "self" \in ShellFlaws
        covers(old, new) == Len(b[old].data) <= Len(b[new].data) \/ "tail" \in ShellFlaws
        quiet == told.fault = "none" /\ apart /\ told.redirect # "none"
        room(old, text) == told.redirect = ">>" \/ Len(b[old].data) <= Len(text) \/ "tail" \in ShellFlaws IN
    /\ \A n \in FileNames \ named : stored[n] = b[n]
    /\ (two /\ apart /\ b[src].kind = "file") =>
          /\ told.said \in {"copied", "moved"} /\ covers(dst, src) => stored[dst].data = b[src].data
          /\ stored[src] = b[src] \/ stored[dst].data = b[src].data
             \/ (told.said = "moved" /\ ~covers(dst, src))
    /\ quiet /\ told.name = "ECHO" /\ room(to, <<args>>) =>
          stored[to].data = Holds2(b[to].data, told.redirect, <<args>>)
    /\ quiet /\ told.name = "TYPE" /\ Len(args) = 1 /\ b[src].kind = "file" /\ room(to, b[src].data) =>
          stored[to].data = Holds2(b[to].data, told.redirect, b[src].data)
    /\ told.name = "APPEND" /\ told.said = "appended" /\ apart =>
          stored[src].data = Append(b[src].data, Tail(args))

\* What a batch file runs is what it held when it was called, in the order of its lines and
\* jumps, whatever the commands and the batch files it calls do.
BatchFollowsItsFile ==
    \A i \in DOMAIN frames :
    LET f == frames[i]
        n == Len(f.script)
        runs == {k \in 1..n : f.script[k] # <<>> /\ ~IsLabel(f.script[k]) /\ f.script[k][1] # "REM"}
        from(k) == Min({j \in runs : j >= k} \cup {n + 1})
        label(t, k) == Min({j \in k..n : f.script[j] = <<":">> \o t} \cup {n + 1})
        last == Substituted(f.ran.line, f)
        jump == last # <<>> /\ last[1] = "GOTO" /\ Len(last) > 1
        due == IF jump THEN from(label(Tail(last), 1)) ELSE from(f.ran.at + 1)
        next == IF f.goto = {} THEN from(f.pos) ELSE from(label(CHOOSE t \in f.goto : TRUE, f.pos)) IN
    (n <= BufUnits \/ "large" \in ShellFlaws) =>
        /\ f.ran.at # 0 => f.ran.at <= n /\ f.ran.line = f.script[f.ran.at]
        /\ next = due
        /\ f.pos > Len(f.data) => due = n + 1

ShellIsRight ==
    /\ ShellTextIsRight /\ CommandsDoAsSaid /\ BatchFollowsItsFile /\ ~crashed
    /\ "leak" \in ShellFlaws => held = 0
=============================================================================
