----------------------------- MODULE ConsoleInput -----------------------------
(***************************************************************************)
(* A key on its way to a program: the keyboard's interrupt handler, the    *)
(* PS/2 driver task (hardware/ps2), the input buffer it shares with the    *)
(* console manager (conman.rs), the manager's loop (console/mod.rs) and    *)
(* the line discipline and pending reads of the consoles.  A shell and its *)
(* child have the first console open.  The mouse is left out.              *)
(***************************************************************************)
EXTENDS Kernel, SequencesExt

CONSTANTS
    KeyRing,      \* slots of KEYBOARD_BUFFER
    InputRing,    \* slots of the input buffer: INPUT_BUFFER_SIZE
    WordSize,     \* DATA_READY wraps at this
    KeyProfiles,  \* sets of keys, one of which is in use
    MaxUnread,    \* bound on the characters typed and not read
    ReadLengths,  \* lengths of the buffers given to read
    MaxWakes,     \* bound on the wake-ups the manager has before it
    MaxRequests,  \* bound on the requests the manager has before it
    InputFlaws    \* what may happen: "overflow", "readers", "killed"

ASSUME ConsoleAssumption ==
    /\ {KeyRing, InputRing, WordSize} \subseteq Nat \ {0, 1}
    /\ ReadLengths \subseteq Nat \ {0}

VARIABLES
    keys,            \* the keys of this behaviour
    owed,            \* the key actions typed and not yet handled
    prefixed,        \* the keyboard's last byte was 0xe0
    keyRing,         \* KEYBOARD_BUFFER
    dataReady,       \* DATA_READY
    keyPc,           \* where interrupt handler, driver task and manager are
    extended,        \* KeyboardState::receiving_extended_code
    action,          \* the key action the driver task is writing
    wake_manager,
    inputBuffer,
    managerWakes,    \* handles ready in the manager's wake set
    last_action_type,
    misheard,        \* the manager handled an action that was not the next
    held,            \* key_state
    current_console,
    raw,             \* consoles without ICANON
    pending_input,
    flushed_input,
    pending_reads,
    con_readers,    \* of the first console
    con_requests,        \* messages for the manager
    awaiting,         \* programs whose read was not answered
    text,            \* what each console owes its readers: flushed, and the line
    misread          \* a read was given other bytes, none, or came too late

ps2Vars == <<keys, prefixed, keyRing, dataReady, extended, action, wake_manager>>
consoleVars == <<current_console, raw, pending_input, flushed_input, pending_reads, con_readers,
                 awaiting, text, misread>>
managerVars == <<owed, last_action_type, misheard, held, con_requests, consoleVars>>
inputVars == <<ps2Vars, keyPc, inputBuffer, managerWakes, managerVars>>

Consoles == {0, 1}
NoAction == [press |-> FALSE, key |-> "none"]

ConsoleInit ==
    /\ Boot
    /\ keys \in KeyProfiles
    /\ owed = <<>> /\ prefixed = FALSE /\ keyRing = <<>> /\ dataReady = 0
    /\ keyPc = [irq |-> "out", ps2 |-> "blocked", manager |-> "blocked"]
    /\ extended = FALSE /\ action = NoAction /\ wake_manager = FALSE
    /\ inputBuffer = <<>> /\ managerWakes = 0 /\ last_action_type = "0"
    /\ misheard = FALSE /\ held = {}
    /\ current_console = 0 /\ raw = {}
    /\ pending_input = [c \in Consoles |-> <<>>]
    /\ flushed_input = [c \in Consoles |-> <<>>]
    /\ pending_reads = [c \in Consoles |-> <<>>]
    /\ con_readers = <<"shell", "child">>
    /\ con_requests = <<>> /\ awaiting = {}
    /\ text = [c \in Consoles |-> [flushed |-> <<>>, line |-> <<>>]]
    /\ misread = FALSE

KeyAt(t, point) == keyPc[t] = point
KeyGoto(t, point) == keyPc' = [keyPc EXCEPT ![t] = point]
KeyInside == {t \in DOMAIN keyPc : keyPc[t] \notin {"out", "blocked", "woken"}}

-----------------------------------------------------------------------------
(* The interrupt handler.  A byte is 0xe0, or a key and whether it went down. *)

Prefix == [press |-> FALSE, key |-> "e0"]

\* Of the keys modelled only Enter has an extended code.
HasExtended(b) == b.key = "enter"

\* Nobody types faster than the two buffers are emptied and counted.
RoomForKey ==
    /\ dataReady + 1 < WordSize
    /\ Len(keyRing) + 1 < KeyRing
    /\ Len(inputBuffer) + 2 * (Len(keyRing) + 2) < InputRing

Unread == LET n[c \in 0 .. 2] == IF c = 2 THEN Len(owed)
                                 ELSE Len(text[c].flushed) + Len(text[c].line) + n[c + 1]
          IN  n[0]

\* kbd_handler: put the byte into the ring, count it ...
KbdHandler ==
    /\ KeyAt("irq", "out") /\ CpuFree(KeyInside)
    /\ Unread < MaxUnread /\ managerWakes < MaxWakes
    /\ "overflow" \in InputFlaws \/ RoomForKey
    /\ \E b \in keys :
          /\ prefixed' = (b = Prefix)
          /\ owed' = IF b = Prefix \/ (prefixed /\ ~HasExtended(b)) THEN owed ELSE Append(owed, b)
          /\ keyRing' = IF Len(keyRing) < KeyRing - 1 THEN Append(keyRing, b) ELSE keyRing
    /\ dataReady' = (dataReady + 1) % WordSize
    /\ KeyGoto("irq", "wake")
    /\ UNCHANGED <<ncpus, keys, extended, action, wake_manager, inputBuffer, managerWakes,
                   last_action_type, misheard, held, con_requests, consoleVars>>

\* ... and wake the driver task if it is blocked.
KbdWake ==
    /\ KeyAt("irq", "wake")
    /\ keyPc' = [keyPc EXCEPT !.irq = "out", !.ps2 = IF @ = "blocked" THEN "woken" ELSE @]
    /\ UNCHANGED <<ncpus, ps2Vars, inputBuffer, managerWakes, managerVars>>

-----------------------------------------------------------------------------
(* ps2_driver_task. *)

\* handle_scan_byte.
HandleScanByte(b) ==
    IF b = Prefix THEN [extended |-> TRUE, action |-> NoAction]
    ELSE [extended |-> FALSE,
          action |-> IF extended /\ ~HasExtended(b) THEN NoAction ELSE b]

InputWrite(buf, byte) == IF Len(buf) < InputRing - 1 THEN Append(buf, byte) ELSE buf

\* One byte of the ring; the first half of write_key_action.
ReadKeyRing ==
    /\ KeyAt("ps2", "drain")
    /\ keyRing # <<>>
    /\ keyRing' = Tail(keyRing)
    /\ LET r == HandleScanByte(Head(keyRing)) IN
       /\ extended' = r.extended
       /\ action' = r.action
       /\ IF r.action = NoAction THEN UNCHANGED <<keyPc, inputBuffer, wake_manager>>
          ELSE /\ inputBuffer' = InputWrite(inputBuffer, IF r.action.press THEN "1" ELSE "2")
               /\ wake_manager' = TRUE
               /\ KeyGoto("ps2", "second")
    /\ UNCHANGED <<ncpus, keys, prefixed, dataReady, managerWakes, managerVars>>

\* The other half.
WriteKeyCode ==
    /\ KeyAt("ps2", "second")
    /\ inputBuffer' = InputWrite(inputBuffer, action.key)
    /\ action' = NoAction
    /\ managerWakes' = managerWakes + 1
    /\ KeyGoto("ps2", "drain")
    /\ UNCHANGED <<ncpus, keys, prefixed, keyRing, dataReady, extended, wake_manager, managerVars>>

\* The ring is empty.  Nobody has the KEYBOARD device open; the manager is
\* woken once more.
KeyRingDone ==
    /\ KeyAt("ps2", "drain")
    /\ keyRing = <<>>
    /\ managerWakes' = managerWakes + (IF wake_manager THEN 1 ELSE 0)
    /\ wake_manager' = FALSE
    /\ KeyGoto("ps2", "wait")
    /\ UNCHANGED <<ncpus, keys, prefixed, keyRing, dataReady, extended, action, inputBuffer, managerVars>>

\* futex_wait(DATA_READY, 0): block on 0, else go on at once.
WaitForKeys ==
    /\ KeyAt("ps2", "wait")
    /\ KeyGoto("ps2", IF dataReady = 0 THEN "blocked" ELSE "woken")
    /\ UNCHANGED <<ncpus, ps2Vars, inputBuffer, managerWakes, managerVars>>

\* DATA_READY.fetch_sub(1) after the wait.
CountKey ==
    /\ KeyAt("ps2", "woken") /\ CpuFree(KeyInside)
    /\ dataReady' = (dataReady + WordSize - 1) % WordSize
    /\ KeyGoto("ps2", "drain")
    /\ UNCHANGED <<ncpus, keys, prefixed, keyRing, extended, action, wake_manager,
                   inputBuffer, managerWakes, managerVars>>


-----------------------------------------------------------------------------
(* The line discipline: Console::send_input. *)

Shell == "shell"
Attached(task) == task = Shell \/ task \in Range(con_readers)

\* key_code_to_ascii.
CharOf(key) ==
    IF "ctrl" \notin held THEN key
    ELSE IF key = "c" THEN "intr" ELSE IF key = "enter" THEN "cr" ELSE key

\* What is typed but not flushed after a character.
Edited(line, ch) ==
    IF ch = "intr" THEN line
    ELSE IF ch = "back" THEN (IF line = <<>> THEN line ELSE Front(line))
    ELSE Append(line, ch)

\* PendingRead::complete for every read of a queue: what each is given.
RECURSIVE CompleteReads(_, _)
CompleteReads(queue, input) ==
    IF queue = <<>> THEN <<>>
    ELSE LET r == Head(queue)
             n == IF r.len < Len(input) THEN r.len ELSE Len(input)
         IN  <<[by |-> r.by, bytes |-> SubSeq(input, 1, n), live |-> Attached(r.by)]>>
             \o CompleteReads(Tail(queue), SubSeq(input, n + 1, Len(input)))

BytesOf(given) == FlattenSeq([i \in DOMAIN given |-> given[i].bytes])

\* The bytes given are those owed next, and every read gets some while its task
\* lives; what is owed then is what is left.
Settle(c, given, owing) ==
    LET bytes == BytesOf(given) IN
    /\ misread' = (\/ misread \/ ~IsPrefix(bytes, owing.flushed)
                   \/ \E i \in DOMAIN given : given[i].bytes = <<>> \/ ~given[i].live)
    /\ text' = [text EXCEPT ![c] = [owing EXCEPT !.flushed = SubSeq(@, Len(bytes) + 1, Len(@))]]
    /\ awaiting' = awaiting \ {given[i].by : i \in DOMAIN given}

\* Slip: the rest of what was flushed is dropped when a read was served.
AnswerReads_Drop(c, input, owing) ==
    LET given == IF input = <<>> THEN <<>> ELSE CompleteReads(pending_reads[c], input) IN
    /\ Settle(c, given, owing)
    /\ pending_reads' = IF input = <<>> THEN pending_reads ELSE [pending_reads EXCEPT ![c] = <<>>]
    /\ flushed_input' = [flushed_input EXCEPT ![c] = IF given = <<>> THEN input ELSE <<>>]

\* handle_key_action after send_input: with anything flushed, every pending read
\* is answered, the later ones with what is left.
AnswerReads(c, input, owing) ==
    LET given == IF input = <<>> THEN <<>> ELSE CompleteReads(pending_reads[c], input)
    IN  /\ Settle(c, given, owing)
        /\ pending_reads' = IF input = <<>> THEN pending_reads ELSE [pending_reads EXCEPT ![c] = <<>>]
        /\ flushed_input' = [flushed_input EXCEPT ![c] = SubSeq(input, Len(BytesOf(given)) + 1, Len(input))]

SendInput(c, ch) ==
    LET line == Edited(pending_input[c], ch)
        flush == ch = "enter" \/ c \in raw
        owing == [text[c] EXCEPT !.line = Edited(@, ch)]
    IN  /\ con_readers' = IF ch = "intr" /\ c = 0 /\ Len(con_readers) > 1
                           THEN Front(con_readers) ELSE con_readers
        /\ pending_input' = [pending_input EXCEPT ![c] = IF flush THEN <<>> ELSE line]
        /\ AnswerReads(c, flushed_input[c] \o (IF flush THEN line ELSE <<>>),
                       IF flush THEN [flushed |-> owing.flushed \o owing.line, line |-> <<>>] ELSE owing)
        /\ UNCHANGED <<held, current_console, raw>>

\* handle_key_action: of the combinations with Alt, Tab.
HandleKeyAction(press, key) ==
    IF press /\ "alt" \in held /\ key = "tab"
    THEN /\ current_console' = (current_console + 1) % Cardinality(Consoles)
         /\ UNCHANGED <<held, raw, pending_input, flushed_input, pending_reads, con_readers,
                        awaiting, text, misread>>
    ELSE IF key \in {"ctrl", "alt"}
    THEN /\ held' = IF press THEN held \union {key} ELSE held \ {key}
         /\ UNCHANGED consoleVars
    ELSE IF press THEN SendInput(current_console, CharOf(key))
    ELSE UNCHANGED <<held, consoleVars>>

-----------------------------------------------------------------------------
(* The loop of manager_task. *)

ManagerWake ==
    /\ KeyAt("manager", "blocked") /\ managerWakes > 0 /\ CpuFree(KeyInside)
    /\ managerWakes' = managerWakes - 1
    /\ KeyGoto("manager", "keys")
    /\ UNCHANGED <<ncpus, ps2Vars, inputBuffer, managerVars>>

\* One byte of the input buffer; two are a key action.
ReadInput ==
    /\ KeyAt("manager", "keys")
    /\ inputBuffer # <<>>
    /\ inputBuffer' = Tail(inputBuffer)
    /\ LET b == Head(inputBuffer) IN
       IF last_action_type = "0"
       THEN /\ last_action_type' = b
            /\ UNCHANGED <<owed, misheard, held, consoleVars>>
       ELSE /\ last_action_type' = "0"
            /\ IF last_action_type \in {"1", "2"}
               THEN /\ misheard' = (misheard \/ owed = <<>>
                                    \/ Head(owed) # [press |-> last_action_type = "1", key |-> b])
                    /\ owed' = IF owed = <<>> THEN owed ELSE Tail(owed)
                    /\ HandleKeyAction(last_action_type = "1", b)
               ELSE UNCHANGED <<owed, misheard, held, consoleVars>>
    /\ UNCHANGED <<ncpus, ps2Vars, keyPc, managerWakes, con_requests>>

InputDone ==
    /\ KeyAt("manager", "keys")
    /\ inputBuffer = <<>>
    /\ KeyGoto("manager", "message")
    /\ UNCHANGED <<ncpus, ps2Vars, inputBuffer, managerWakes, managerVars>>

\* ConsoleManager::read on the first console.
ConsoleRead(by, len) ==
    /\ UNCHANGED <<current_console, raw, pending_input, con_readers>>
    /\ IF pending_reads[0] = <<>> /\ flushed_input[0] # <<>>
       THEN LET given == CompleteReads(<<[by |-> by, len |-> len]>>, flushed_input[0])
            IN  /\ Settle(0, given, text[0])
                /\ flushed_input' = [flushed_input EXCEPT ![0] = SubSeq(@, Len(BytesOf(given)) + 1, Len(@))]
                /\ UNCHANGED pending_reads
       ELSE /\ pending_reads' = [pending_reads EXCEPT ![0] = Append(@, [by |-> by, len |-> len])]
            /\ UNCHANGED <<flushed_input, awaiting, text, misread>>

\* At most one message in a turn; if another is there, the next read of the
\* queue completes at once and wakes the manager again.
ManagerMessage ==
    /\ KeyAt("manager", "message")
    /\ KeyGoto("manager", "blocked")
    /\ con_requests' = IF con_requests = <<>> THEN <<>> ELSE Tail(con_requests)
    /\ managerWakes' = managerWakes + (IF con_requests' = <<>> THEN 0 ELSE 1)
    /\ IF con_requests = <<>> THEN UNCHANGED consoleVars
       ELSE LET m == Head(con_requests) IN
            IF m.type = "read" THEN ConsoleRead(m.by, m.len)
            ELSE /\ raw' = IF m.type = "raw" THEN raw \union {0} ELSE raw \ {0}
                 /\ UNCHANGED <<current_console, pending_input, flushed_input, pending_reads,
                                con_readers, awaiting, text, misread>>
    /\ UNCHANGED <<ncpus, ps2Vars, inputBuffer, owed, last_action_type, misheard, held>>

\* Programs: a read, or TCSETS with and without ICANON.
AskManager(by, m) ==
    /\ CpuFree(KeyInside)
    /\ Attached(by) /\ by \notin awaiting
    /\ Len(con_requests) < MaxRequests /\ managerWakes < MaxWakes
    /\ con_requests' = Append(con_requests, m)
    /\ managerWakes' = managerWakes + (IF con_requests = <<>> THEN 1 ELSE 0)
    /\ UNCHANGED <<ncpus, ps2Vars, keyPc, inputBuffer, owed, last_action_type, misheard, held,
                   current_console, raw, pending_input, flushed_input, pending_reads,
                   con_readers, text, misread>>

Interrupting == \E k \in keys : k.key = "ctrl"

\* Shell and child take turns, and who is interrupted is not reading.
RequestRead ==
    \E by \in {Shell, "child"}, len \in ReadLengths :
        /\ "readers" \in InputFlaws \/ awaiting = {}
        /\ "killed" \in InputFlaws \/ by = Shell \/ ~Interrupting
        /\ awaiting' = awaiting \union {by}
        /\ AskManager(by, [type |-> "read", by |-> by, len |-> len])

RequestMode ==
    \E mode \in {"raw", "cooked"} :
        /\ AskManager(Shell, [type |-> mode, by |-> Shell, len |-> 0])
        /\ UNCHANGED awaiting

ConsoleNext ==
    \/ KbdHandler \/ KbdWake
    \/ ReadKeyRing \/ WriteKeyCode \/ KeyRingDone \/ WaitForKeys \/ CountKey
    \/ ManagerWake \/ ReadInput \/ InputDone \/ ManagerMessage
    \/ RequestRead \/ RequestMode

ConsoleSpec == ConsoleInit /\ [][ConsoleNext]_<<ncpus, inputVars>>

-----------------------------------------------------------------------------

\* The manager handles the key actions that were typed, in their order, and
\* misses none: on one CPU, with a byte in the ring the driver task is at work
\* or has a count to go on with, with a byte in the input buffer the manager is
\* at work or has a wake-up left, and when all is quiet nothing is owed.
KeysArrive ==
    /\ ~misheard
    /\ Uniprocessor =>
          /\ keyRing # <<>> => \/ KeyAt("ps2", "drain") \/ KeyAt("ps2", "second")
                               \/ dataReady > 0 /\ (KeyAt("irq", "wake") \/ ~KeyAt("ps2", "blocked"))
          /\ Len(inputBuffer) > 1 => managerWakes > 0 \/ KeyAt("manager", "keys")
          /\ KeyInside = {} /\ dataReady = 0 /\ managerWakes = 0 => owed = <<>>

\* Programs read what was typed, edited and in order (Backspace takes back a
\* character of the line under way, never one that was flushed); no read waits
\* while there is something to read, none is answered with nothing or after its
\* task ended.
ReadersGetTheLine ==
    /\ ~misread
    /\ \A c \in Consoles :
          /\ flushed_input[c] = text[c].flushed /\ pending_input[c] = text[c].line
          /\ pending_reads[c] # <<>> => flushed_input[c] = <<>>

\* The way of a key to the program that reads it.
TypedIsRead == KeysArrive /\ ReadersGetTheLine
=============================================================================
