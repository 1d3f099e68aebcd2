------------------------------- MODULE DosCalls -------------------------------
(***************************************************************************)
(* INT 21h on files (doslayer dos.rs): the table of DOS handles, the IDOS  *)
(* handle and the cursor behind each of them, and what a program is told.  *)
(* Handles 0 to 3 are devices; the file system is the one of the kernel,   *)
(* asked with a name, a handle and an offset.                              *)
(*                                                                         *)
(* A DOS program and the console it runs in (doslayer main.rs, bios.rs and *)
(* graphics.rs; the console driver's ioctls; the keyboard device).  The    *)
(* layer takes the console's line discipline, its screen and its palette   *)
(* for the program and gives them back, and it answers INT 16h from the    *)
(* keyboard device, whose events come in pairs of bytes.                   *)
(***************************************************************************)
EXTENDS Integers, Sequences, FiniteSets, FiniteSetsExt, SequencesExt

-----------------------------------------------------------------------------
(* Files *)

CONSTANTS
    MaxDosFiles,   \* MAX_DOS_FILES
    UsedHandles,   \* the numbers a program gives as handles
    IdosHandles,   \* handles the kernel may give to the layer
    DosNames,      \* names of files
    DosBytes,      \* what files hold
    MaxDosLen,     \* bound on the length of a file
    DosFaults,     \* whether the file system may fail or answer short
    FileFlaws      \* what the program may do: "missing", open a file that is not there;
                   \* "existing", create one that is there and not empty; "truncate", write
                   \* no bytes, which in DOS ends the file there; and "stat", the file
                   \* system may fail to tell the size of a file

ASSUME DosAssumption ==
    /\ MaxDosFiles \in Nat /\ IdosHandles \subseteq Nat
    /\ FileFlaws \subseteq {"missing", "existing", "truncate", "stat"}

VARIABLES
    fds,        \* DOS_FDS
    idosOpen,   \* the kernel's handles of the layer: a name, or Fresh before it is opened
    dosDisk,    \* the files there are
    belief,     \* what the program knows of the handles it was given: file and position
    misled      \* an answer was not what DOS would have said

dosFileVars == <<fds, idosOpen, dosDisk, belief, misled>>

Slots86 == 0..MaxDosFiles - 1
Closed86 == [open |-> FALSE, device |-> FALSE, handle |-> 0, cursor |-> 0]
Device(h) == [open |-> TRUE, device |-> TRUE, handle |-> h, cursor |-> 0]
Fresh == "fresh"
FirstFree86 == 5

DosFilesInit ==
    /\ fds = [i \in Slots86 |-> CASE i = 0 -> Device(0) [] i \in {1, 2} -> Device(1)
                                  [] i = 3 -> Device(3) [] OTHER -> Closed86]
    /\ idosOpen = <<>>
    /\ dosDisk \in {[n \in names |-> <<>>] : names \in SUBSET DosNames}
    /\ belief = <<>>
    /\ misled = FALSE

With86(f, k, v) == [x \in DOMAIN f \cup {k} |-> IF x = k THEN v ELSE f[x]]
Without86(f, k) == [x \in DOMAIN f \ {k} |-> f[x]]

\* get_dos_fd and get_dos_fd_mut.
Valid86(d) == d \in Slots86 /\ fds[d].open

\* alloc_dos_fd.
FreeSlots86 == {i \in FirstFree86..MaxDosFiles - 1 : ~fds[i].open}

\* create_file_handle.
NewHandle == Min(IdosHandles \ DOMAIN idosOpen)

\* The file behind a DOS handle, as the layer finds it.
FileOf(d) == idosOpen[fds[d].handle]

\* The bytes of a file at an offset, and the file with bytes written there.
ReadAt86(s, at, n) == SubSeq(s, at + 1, IF at + n < Len(s) THEN at + n ELSE Len(s))
WriteAt86(s, at, b) ==
    [i \in 1..(IF Len(s) < at + Len(b) THEN at + Len(b) ELSE Len(s)) |->
        IF i > at /\ i <= at + Len(b) THEN b[i - at] ELSE s[i]]

-----------------------------------------------------------------------------
(* Opening and closing *)

\* The slip of finding a slot by its flags alone and keeping the rest of the entry.
Entry_Kept(d, h) == [fds[d] EXCEPT !.open = TRUE, !.device = FALSE, !.handle = h]

Entry86(d, h) == [open |-> TRUE, device |-> FALSE, handle |-> h, cursor |-> 0]

\* dos_open_common: AH=3Ch creates, AH=3Dh does not.  A handle that could not be opened
\* is not closed, and what a file held before it was created stays in it.
DosOpen ==
    \E n \in DosNames, create \in BOOLEAN :
      /\ FreeSlots86 # {} /\ IdosHandles \ DOMAIN idosOpen # {}
      /\ LET d == Min(FreeSlots86)
             h == NewHandle
             there == n \in DOMAIN dosDisk
             found == create \/ there
             kept == create /\ there /\ dosDisk[n] # <<>>
         IN /\ (~found => "missing" \in FileFlaws)
            /\ (kept => "existing" \in FileFlaws)
            /\ idosOpen' = With86(idosOpen, h, IF found THEN n ELSE Fresh)
            /\ IF found
               THEN /\ fds' = [fds EXCEPT ![d] = Entry86(d, h)]
                    /\ dosDisk' = IF there THEN dosDisk ELSE With86(dosDisk, n, <<>>)
                    /\ belief' = With86(belief, d, [file |-> n, at |-> 0])
                    /\ misled' = (misled \/ kept \/ d \in DOMAIN belief)
               ELSE UNCHANGED <<fds, dosDisk, belief, misled>>

\* AH=3Eh.  The kernel's handle of a device stays open.
DosClose ==
    \E d \in UsedHandles :
      /\ fds' = IF Valid86(d) THEN [fds EXCEPT ![d].open = FALSE, ![d].device = FALSE] ELSE fds
      /\ idosOpen' = IF Valid86(d) /\ ~fds[d].device THEN Without86(idosOpen, fds[d].handle) ELSE idosOpen
      /\ belief' = Without86(belief, d)
      /\ misled' = (misled \/ (d \in DOMAIN belief /\ ~Valid86(d)))
      /\ UNCHANGED dosDisk

-----------------------------------------------------------------------------
(* Reading, writing and moving; what the program is told is checked against DOS *)

\* AH=3Fh: an error of the file system is told as no bytes.
DosRead ==
    \E d \in UsedHandles \ {0}, count \in 1..2 :
      /\ (Valid86(d) => ~fds[d].device)
      /\ IF ~Valid86(d)
         THEN misled' = (misled \/ d \in DOMAIN belief) /\ UNCHANGED <<fds, belief>>
         ELSE LET all == ReadAt86(dosDisk[FileOf(d)], fds[d].cursor, count)
                  b == belief[d]
              IN \E n \in IF DosFaults THEN 0..Len(all) ELSE {Len(all)} :
                   /\ fds' = [fds EXCEPT ![d].cursor = @ + n]
                   /\ belief' = [belief EXCEPT ![d].at = @ + n]
                   /\ misled' = (misled \/ SubSeq(all, 1, n) # ReadAt86(dosDisk[b.file], b.at, n))
      /\ UNCHANGED <<idosOpen, dosDisk>>

\* AH=40h.  Bound: files are written up to their end.
DosWrite ==
    \E d \in UsedHandles, x \in DosBytes, count \in 0..2 :
      /\ (Valid86(d) => ~fds[d].device)
      /\ (count = 0 => "truncate" \in FileFlaws)
      /\ IF ~Valid86(d)
         THEN misled' = (misled \/ d \in DOMAIN belief) /\ UNCHANGED <<fds, belief, dosDisk>>
         ELSE LET b == belief[d]
                  wanted(n) == IF count = 0 THEN SubSeq(dosDisk[b.file], 1, b.at)
                               ELSE WriteAt86(dosDisk[b.file], b.at, [i \in 1..n |-> x])
              IN /\ fds[d].cursor <= Len(dosDisk[FileOf(d)])
                 /\ fds[d].cursor + count <= MaxDosLen
                 /\ \E n \in IF DosFaults THEN 0..count ELSE {count} :
                      /\ dosDisk' = [dosDisk EXCEPT ![FileOf(d)] =
                                        WriteAt86(@, fds[d].cursor, [i \in 1..n |-> x])]
                      /\ fds' = [fds EXCEPT ![d].cursor = @ + n]
                      /\ belief' = [belief EXCEPT ![d].at = @ + n]
                      /\ misled' = (misled \/ b.at > Len(dosDisk[b.file]) \/ dosDisk'[b.file] # wanted(n))
      /\ UNCHANGED idosOpen

\* The place AH=42h goes to from a cursor, and whether that is a place.
SeekFrom(origin, cursor, size, offset) ==
    CASE origin = 0 -> offset [] origin = 1 -> cursor + offset [] OTHER -> size + offset

\* What FILE_OP_STAT leaves in file_status, whose errors nobody looks at.
StatSizes(n) == {Len(dosDisk[n])} \cup (IF "stat" \in FileFlaws THEN {0} ELSE {})

DosSeek ==
    \E d \in {d \in UsedHandles : Valid86(d) /\ ~fds[d].device} :
    \E origin \in 0..2, offset \in -1..1, size \in StatSizes(FileOf(d)) :
      /\ LET to == SeekFrom(origin, fds[d].cursor, size, offset)
             b == belief[d]
             wanted == SeekFrom(origin, b.at, Len(dosDisk[b.file]), offset)
         IN /\ to <= MaxDosLen
            /\ fds' = IF to < 0 THEN fds ELSE [fds EXCEPT ![d].cursor = to]
            /\ belief' = IF to < 0 THEN belief ELSE [belief EXCEPT ![d].at = to]
            /\ misled' = (misled \/ to # wanted)
      /\ UNCHANGED <<idosOpen, dosDisk>>

Unopened(n) == \A d \in DOMAIN belief : belief[d].file # n

\* AH=41h and AH=56h, of files the program has not open; the handle they make is closed.
DosDelete ==
    \E n \in DOMAIN dosDisk :
      /\ Unopened(n) /\ IdosHandles \ DOMAIN idosOpen # {}
      /\ dosDisk' = Without86(dosDisk, n)
      /\ UNCHANGED <<fds, idosOpen, belief, misled>>

DosRename ==
    \E n \in DOMAIN dosDisk, m \in DosNames \ DOMAIN dosDisk :
      /\ Unopened(n) /\ IdosHandles \ DOMAIN idosOpen # {}
      /\ dosDisk' = With86(Without86(dosDisk, n), m, dosDisk[n])
      /\ UNCHANGED <<fds, idosOpen, belief, misled>>

DosFilesNext == DosOpen \/ DosClose \/ DosRead \/ DosWrite \/ DosSeek \/ DosDelete \/ DosRename

DosFilesSpec == DosFilesInit /\ [][DosFilesNext]_dosFileVars

-----------------------------------------------------------------------------

\* Every handle the layer holds in the kernel is behind exactly one open DOS handle that
\* is a file, and no two DOS handles share one: nothing leaks, and closing one closes no other.
HandlesPaired ==
    LET files == {d \in Slots86 : fds[d].open /\ ~fds[d].device} IN
    /\ \A d, e \in files : fds[d].handle = fds[e].handle => d = e
    /\ {fds[d].handle : d \in files} = DOMAIN idosOpen

\* INT 21h serves files as DOS does: each handle keeps its own file and place through any
\* order of calls on the others, a handle given out is one the program does not have, and
\* no handle of the kernel is lost.
DosFilesServe == ~misled /\ HandlesPaired

-----------------------------------------------------------------------------
(* The console, the screen and the keyboard *)

CONSTANTS
    BiosKeys,        \* key codes keycode_to_bios knows
    OtherKeys,       \* key codes it does not know: modifiers
    MaxBuffer,       \* MAX_BUFFER_SIZE of the keyboard device, in bytes
    MaxKeyEvents,    \* bound on presses and releases
    DacValues,       \* 6-bit colours the program sets
    MaxBuffers,      \* bound on the graphics buffers the console makes
    ConsoleFlaws     \* what may happen: "killed" (another task ends the layer), "blocking" (INT 16h
                     \* waits on the console), "dac" (colours before mode 13h), "apart" (the
                     \* frames of a buffer do not follow each other), "bss" (KEY_LOOKAHEAD,
                     \* which compat_start does not reset, is not zero at the start)

ASSUME BufferAssumption ==
    /\ MaxBuffer \in Nat /\ MaxBuffer % 2 = 0
    /\ ConsoleFlaws \subseteq {"killed", "blocking", "dac", "apart", "bss"}

VARIABLES
    dosUse,     \* what the program uses: "screen" or "keys"
    con,        \* the console: canonical mode, graphics buffer (0: text) and whether its
                \* frames are in one piece, palette
    shell,      \* TERMIOS_ORIG: the mode the program found
    gfx,        \* VGA_MODE, GFX_BUFFER_PADDR and VADDR (by buffer), VGA_PALETTE
    screens,    \* graphics buffers the console has made
    running,    \* "program", "reading" (AH=3Fh of handle 0), or "ended"
    shown,      \* the colours the program has set, as it set them
    kbd,        \* buffered_data of the layer's instance of the keyboard device
    lookahead,  \* KEY_LOOKAHEAD
    stdin,      \* what the console has for stdin
    owed,       \* keys pressed that the program has not been given
    dropped,    \* events the device has dropped
    events,     \* presses and releases so far
    wrongKey    \* the program was given a key out of turn, or none when one was due

screenVars == <<con, gfx, screens, running, shown>>
keyVars == <<kbd, lookahead, stdin, owed, dropped, events, wrongKey>>
dosConsoleVars == <<dosUse, shell, screenVars, keyVars>>

Colours == {0, 1}
Unset == 64
Default == 200

DosConsoleInit ==
    /\ dosUse \in {"screen", "keys"}
    /\ shell \in BOOLEAN
    /\ con = [canon |-> FALSE, buffer |-> 0, whole |-> TRUE, palette |-> [i \in Colours |-> Default]]
    /\ gfx = [mode |-> 3, paddr |-> 0, vaddr |-> 0, dac |-> [i \in Colours |-> 0]]
    /\ screens = 0
    /\ running = "program"
    /\ shown = [i \in Colours |-> Unset]
    /\ lookahead \in {<<>>} \cup (IF "bss" \in ConsoleFlaws THEN {<<k>> : k \in BiosKeys} ELSE {})
    /\ kbd = <<>> /\ stdin = <<>> /\ owed = <<>>
    /\ dropped = 0 /\ events = 0 /\ wrongKey = FALSE

Using(u) == dosUse = u /\ running = "program" /\ UNCHANGED <<dosUse, shell>>

-----------------------------------------------------------------------------
(* The screen *)

\* set_graphics_mode, of the console: the buffer it has, or a new one.  Its pages are free
\* memory and get their frames one by one, when they are first looked at.
GraphicsBuffer(c) == IF c.buffer = 0 THEN screens + 1 ELSE c.buffer

InOnePiece(c) ==
    IF c.buffer # 0 THEN {c.whole} ELSE {TRUE} \cup (IF "apart" \in ConsoleFlaws THEN {FALSE} ELSE {})

\* exit_graphics_mode, of the console.
TextConsole(c) == [c EXCEPT !.buffer = 0, !.whole = TRUE]

\* enter_graphics_mode, of the layer: the buffer b, of which it knows the first frame, mapped
\* at v with the frames behind that one, and the console's colours.
EnterGraphics(g, b, v) == [g EXCEPT !.paddr = b, !.vaddr = v, !.dac = con.palette]

\* The slip of keeping the address of the mapping.
LeaveGraphics_Mapped(g) == [g EXCEPT !.paddr = 0]

\* exit_graphics_mode, of the layer.
LeaveGraphics(g) == [g EXCEPT !.paddr = 0, !.vaddr = 0]

\* AH=00h.  Mode 13h asks the console for its buffer and maps it, which may fail; mode 3
\* gives it back; other modes are only remembered.
SetVideoMode ==
    /\ Using("screen")
    /\ \E m \in {3, 18, 19} :
         LET g == [gfx EXCEPT !.mode = m] IN
         CASE m = 19 ->
                LET b == GraphicsBuffer(con) IN
                /\ b <= MaxBuffers
                /\ \E whole \in InOnePiece(con) : con' = [con EXCEPT !.buffer = b, !.whole = whole]
                /\ screens' = Max({screens, b})
                /\ \E v \in {0, b} : gfx' = EnterGraphics(g, b, v)
           [] m = 3 /\ gfx.paddr # 0 ->
                con' = TextConsole(con) /\ gfx' = LeaveGraphics(g) /\ UNCHANGED screens
           [] OTHER -> gfx' = g /\ UNCHANGED <<con, screens>>
    /\ UNCHANGED <<running, shown, keyVars>>

\* Colours of the DAC have six bits, those of the console eight.
ToEight(v) == (v * 255) \div 63
ToSix(v) == (v * 63) \div 255

\* push_idos_palette: the layer's whole palette is the console's from then on.
PushPalette(c, dac) == [c EXCEPT !.palette = dac]

\* AX=1010h and AX=1012h.
SetDac ==
    /\ Using("screen")
    /\ (screens = 0 => "dac" \in ConsoleFlaws)
    /\ \E i \in Colours, v \in DacValues :
         LET dac == [gfx.dac EXCEPT ![i] = ToEight(v)] IN
         /\ gfx' = [gfx EXCEPT !.dac = dac]
         /\ con' = PushPalette(con, dac)
         /\ shown' = [shown EXCEPT ![i] = v]
    /\ UNCHANGED <<screens, running, keyVars>>

-----------------------------------------------------------------------------
(* The mode of the console, and the end of the program *)

\* AH=3Fh of handle 0: canonical mode for as long as the read takes.
ReadStdin ==
    /\ Using("screen")
    /\ con' = [con EXCEPT !.canon = TRUE]
    /\ running' = "reading"
    /\ UNCHANGED <<gfx, screens, shown, keyVars>>

LineIsRead ==
    /\ running = "reading"
    /\ con' = [con EXCEPT !.canon = FALSE]
    /\ running' = "program"
    /\ UNCHANGED <<dosUse, shell, gfx, screens, shown, keyVars>>

\* exit, of the layer.
ExitConsole(c, g) ==
    [(IF g.paddr # 0 THEN TextConsole(c) ELSE c) EXCEPT !.canon = shell]

\* AH=00h and 4Ch, HLT, an instruction the layer does not know, and a client of DPMI;
\* or another task ends the layer, which then gives nothing back.
DosExit ==
    /\ Using("screen")
    /\ \E killed \in {FALSE} \cup {f = "killed" : f \in ConsoleFlaws} :
         /\ con' = IF killed THEN con ELSE ExitConsole(con, gfx)
         /\ gfx' = IF ~killed /\ gfx.paddr # 0 THEN LeaveGraphics(gfx) ELSE gfx
    /\ running' = "ended"
    /\ UNCHANGED <<screens, shown, keyVars>>

-----------------------------------------------------------------------------
(* The keyboard *)

\* push_port_1_data: the oldest bytes make room.
PushData(data) ==
    LET all == kbd \o data
        over == Max({0, Len(all) - MaxBuffer})
    IN SubSeq(all, over + 1, Len(all))

\* A key goes down (1) or up (2): the device has it, and the console the character of a
\* press it knows.
KeyMoves ==
    /\ Using("keys") /\ events < MaxKeyEvents
    /\ \E k \in BiosKeys \cup OtherKeys, move \in {1, 2} :
         LET press == move = 1 /\ k \in BiosKeys IN
         /\ kbd' = PushData(<<move, k>>)
         /\ dropped' = dropped + (Len(kbd) + 2 - Len(kbd')) \div 2
         /\ owed' = IF press THEN Append(owed, k) ELSE owed
         /\ stdin' = IF press /\ "blocking" \in ConsoleFlaws THEN Append(stdin, k) ELSE stdin
    /\ events' = events + 1
    /\ UNCHANGED <<lookahead, wrongKey, screenVars>>

\* keycode_to_bios: modifiers and keys without a code have none.
HasBiosCode(k) == k \in BiosKeys

\* What the device answers to the i-th read of two bytes.
PairRead(bytes, i) == SubSeq(bytes, 2 * i - 1, 2 * i)

\* The reads that answer a press with a code.
Presses(bytes) ==
    {i \in 1..Len(bytes) \div 2 :
        PairRead(bytes, i)[1] = 1 /\ HasBiosCode(PairRead(bytes, i)[2])}

\* read_next_key without a lookahead: what it returns and what it leaves in the device.
NextKey(bytes) ==
    IF Presses(bytes) = {} THEN [key |-> <<>>, rest |-> <<>>]
    ELSE LET i == Min(Presses(bytes)) IN
         [key |-> <<PairRead(bytes, i)[2]>>, rest |-> SubSeq(bytes, 2 * i + 1, Len(bytes))]

\* What the program makes of an answer: the key is the oldest it was not given, but for
\* those the device dropped, and there is no key only when nothing else is owed.
Judge(key, taken) ==
    IF key = <<>> THEN wrongKey' = (wrongKey \/ Len(owed) > dropped) /\ UNCHANGED <<owed, dropped>>
    ELSE LET at == {i \in 1..Len(owed) : owed[i] = key[1] /\ i <= dropped + 1} IN
         IF at = {} THEN wrongKey' = TRUE /\ UNCHANGED <<owed, dropped>>
         ELSE IF taken
         THEN /\ owed' = SubSeq(owed, Min(at) + 1, Len(owed))
              /\ dropped' = dropped - (Min(at) - 1)
              /\ UNCHANGED wrongKey
         ELSE UNCHANGED <<owed, dropped, wrongKey>>

\* AH=01h, peek_next_key.
PeekKey ==
    /\ Using("keys")
    /\ LET next == NextKey(kbd)
           key == IF lookahead # <<>> THEN lookahead ELSE next.key
       IN /\ kbd' = IF lookahead # <<>> THEN kbd ELSE next.rest
          /\ lookahead' = key
          /\ Judge(key, FALSE)
    /\ UNCHANGED <<stdin, events, screenVars>>

\* AH=00h, bios_keyboard: a key peeked at, then the device, then, waiting, stdin.
ReadKey ==
    /\ Using("keys")
    /\ LET next == NextKey(kbd)
           key == IF lookahead # <<>> THEN lookahead ELSE next.key
       IN /\ kbd' = IF lookahead # <<>> THEN kbd ELSE next.rest
          /\ lookahead' = <<>>
          /\ IF key # <<>>
             THEN Judge(key, TRUE) /\ UNCHANGED stdin
             ELSE /\ "blocking" \in ConsoleFlaws /\ stdin # <<>>
                  /\ Judge(<<Head(stdin)>>, TRUE)
                  /\ stdin' = Tail(stdin)
    /\ UNCHANGED <<events, screenVars>>

DosConsoleNext ==
    \/ SetVideoMode \/ SetDac \/ ReadStdin \/ LineIsRead \/ DosExit
    \/ KeyMoves \/ PeekKey \/ ReadKey

DosConsoleSpec == DosConsoleInit /\ [][DosConsoleNext]_dosConsoleVars

-----------------------------------------------------------------------------

\* The layer copies the screen (sync_graphics_buffer) only into the buffer the console
\* shows now, every page of it, never into one it has given back; and the mode AH=0Fh tells
\* is the screen's.
ScreenIsOwn ==
    /\ gfx.vaddr # 0 => gfx.vaddr = con.buffer /\ con.whole
    /\ running # "ended" /\ gfx.mode = 3 => con.buffer = 0
    /\ running # "ended" /\ gfx.mode = 19 => con.buffer # 0

\* A colour of the console is the one the program set, or the one it found; and the DAC
\* reads back what was written.
PaletteIsRight ==
    \A i \in Colours :
      /\ con.palette[i] = IF shown[i] = Unset THEN Default ELSE ToEight(shown[i])
      /\ shown[i] # Unset => ToSix(gfx.dac[i]) = shown[i]

\* The console is raw while the program runs, canonical only while a line is read, and
\* after its end in text mode with the line discipline the shell had set.
ConsoleIsGivenBack ==
    CASE running = "program" -> ~con.canon
      [] running = "reading" -> con.canon
      [] OTHER -> con.canon = shell /\ con.buffer = 0

\* INT 16h gives a program that peeks before it reads every key pressed, once and in
\* order, but for the oldest the keyboard device dropped when it was full.
KeysInOrder == ~wrongKey

DosConsoleServes == ScreenIsOwn /\ PaletteIsRight /\ ConsoleIsGivenBack /\ KeysInOrder
=============================================================================
