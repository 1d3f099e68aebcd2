------------------------------ MODULE MCStorage ------------------------------
(***************************************************************************)
(* The storage components side by side: the FAT driver's sector cache, the *)
(* volume above it with the checker, the floppy driver and the ATA driver; *)
(* the sound driver; what names and dates files, the paths and the clock;  *)
(* the shell; and the DOS layer.  They meet only through requests that one *)
(* makes of the next, which are the inputs here; the part chosen at the    *)
(* start is the one that moves.                                            *)
(***************************************************************************)
EXTENDS DiskCache, FatVolume, Floppy, Ata, Audio, Clock, Paths, Command,
        DosMachine, DosCalls

CONSTANT StorageParts  \* the components in question

VARIABLE part

shellVars == <<shellText, commandVars>>
dosVars == <<machineVars, dosFileVars, dosConsoleVars>>
storageVars == <<part, cacheVars, fatVars, floppyVars, ataVars, audioVars, clockVars, pathVars, shellVars, dosVars>>

StorageInit ==
    /\ part \in StorageParts
    /\ DiskCacheInit /\ FatInit /\ FloppyInit /\ AtaInit /\ AudioInit
    /\ ClockInit /\ PathsInit /\ ShellTextInit /\ CommandInit
    /\ part = "ata" \/ bus  \* one start for the parts that do not look at it
    /\ part = "shell" \/ stored = CHOOSE d \in StartDisks : TRUE
    /\ MachineInit /\ (part # "machine" => regs.sp = Min(FirstSp))
    /\ DosFilesInit /\ (part # "dosfiles" => DOMAIN dosDisk = {})
    /\ DosConsoleInit /\ (part # "dosconsole" => dosUse = "keys" /\ ~shell)

CachePart ==
    /\ part = "cache" /\ DiskCacheNext
    /\ UNCHANGED <<part, fatVars, floppyVars, ataVars, audioVars, clockVars, pathVars, shellVars, dosVars>>
VolumePart ==
    /\ part = "volume" /\ HandleRequest
    /\ UNCHANGED <<part, cacheVars, floppyVars, ataVars, audioVars, clockVars, pathVars, shellVars, dosVars>>
FloppyPart ==
    /\ part = "floppy" /\ HandleFloppy
    /\ UNCHANGED <<part, cacheVars, fatVars, ataVars, audioVars, clockVars, pathVars, shellVars, dosVars>>
AtaPart ==
    /\ part = "ata" /\ AtaNext
    /\ UNCHANGED <<part, cacheVars, fatVars, floppyVars, audioVars, clockVars, pathVars, shellVars, dosVars>>
AudioPart ==
    /\ part = "audio" /\ AudioNext
    /\ UNCHANGED <<part, cacheVars, fatVars, floppyVars, ataVars, clockVars, pathVars, shellVars, dosVars>>

ClockPart ==
    /\ part = "clock" /\ ClockNext
    /\ UNCHANGED <<part, cacheVars, fatVars, floppyVars, ataVars, audioVars, pathVars, shellVars, dosVars>>
PathPart ==
    /\ part = "paths" /\ PathsNext
    /\ UNCHANGED <<part, cacheVars, fatVars, floppyVars, ataVars, audioVars, clockVars, shellVars, dosVars>>
LinePart ==
    /\ part = "lines" /\ ShellTextNext
    /\ UNCHANGED <<part, cacheVars, fatVars, floppyVars, ataVars, audioVars, clockVars, pathVars, commandVars, dosVars>>
ShellPart ==
    /\ part = "shell" /\ CommandNext
    /\ UNCHANGED <<part, cacheVars, fatVars, floppyVars, ataVars, audioVars, clockVars, pathVars, shellText, dosVars>>

MachinePart ==
    /\ part = "machine" /\ MachineNext
    /\ UNCHANGED <<part, cacheVars, fatVars, floppyVars, ataVars, audioVars, clockVars, pathVars, shellVars,
                   dosFileVars, dosConsoleVars>>
DosFilesPart ==
    /\ part = "dosfiles" /\ DosFilesNext
    /\ UNCHANGED <<part, cacheVars, fatVars, floppyVars, ataVars, audioVars, clockVars, pathVars, shellVars,
                   machineVars, dosConsoleVars>>
DosConsolePart ==
    /\ part = "dosconsole" /\ DosConsoleNext
    /\ UNCHANGED <<part, cacheVars, fatVars, floppyVars, ataVars, audioVars, clockVars, pathVars, shellVars,
                   machineVars, dosFileVars>>

\* The days around leap years and centuries that a timestamp and a file's date reach.
MCDayRanges == {<<0, 1500>>, <<3640, 5200>>, <<10900, 11400>>, <<47300, 47700>>, <<49500, 49709>>}

\* The files the shell finds, and the lines typed: batch files that call one another, jump
\* and write to themselves, and each command with and without what it works on.
Holding(lines) == [kind |-> "file", data |-> lines]
MCDisk(script, inner, b) ==
    [n \in FileNames |-> CASE n = "A" -> Holding(<<<<"1">>, <<"2">>, <<"3">>, <<"4">>, <<"5">>>>)
        [] n = "B" -> b
        [] n = "S.BAT" -> Holding(script) [] n = "T.BAT" -> Holding(inner)
        [] n = "P.ELF" -> [kind |-> "elf", data |-> <<<<"code">>>>]
        [] OTHER -> NoFile]
MCDisks ==
    {MCDisk(s, t, b) :
       s \in {<<<<"TYPE", "%1", ">", "B">>, <<"T", "B">>, <<"REM">>, <<"DEL", "B">>>>,
              <<<<"GOTO", "%1">>, <<"DEL", "A">>, <<":", "A">>, <<"ECHO", "%0", ">>", "S.BAT">>>>,
              <<<<":", "A">>, <<"APPEND", "B", "x">>, <<"MOVE", "B", "D">>, <<"GOTO", "A">>>>},
       t \in {<<<<"COPY", "A", "%1">>, <<>>, <<"P">>>>},
       b \in {NoFile, Holding(<<<<"6">>>>)}}
MCTyped ==
    {<<"S", "A">>, <<"S.BAT">>, <<"COPY", "A", "B">>, <<"COPY", "B", "D">>, <<"MOVE", "A", "D">>,
     <<"MOVE", "B", "A">>, <<"MOVE", "D", "B">>, <<"TYPE", "A", ">", "B">>, <<"TYPE", "A", "B">>,
     <<"TYPE", "B", ">>", "D">>, <<"DEL", "B">>, <<"REN", "A", "E">>, <<"APPEND", "B", "x", "y">>,
     <<"ECHO", "DEL", "A", ">>", "T.BAT">>, <<"ECHO", "x", ">", "B">>, <<"MD", "E">>, <<"RD", "E">>,
     <<"DIR", ">", "B">>, <<"Z">>, <<"P", ">", "B">>, <<"P.ELF">>, <<>>, <<"COPY", "A">>, <<"TYPE">>,
     <<"TYPE", "B", ">>", "B">>, <<"ECHO", "x", "|", "P">>, <<"CD">>, <<"B">>}

StorageNext ==
    \/ CachePart \/ VolumePart \/ FloppyPart \/ AtaPart \/ AudioPart \/ ClockPart \/ PathPart
    \/ LinePart \/ ShellPart \/ MachinePart \/ DosFilesPart \/ DosConsolePart

DosSymmetry == Permutations(DosNames)

StorageSpec == StorageInit /\ [][StorageNext]_storageVars

\* INT 21h serves files (DosFilesServe) and the layer keeps the console, the screen and
\* the keyboard in order (DosConsoleServes), through any order of a program's calls.
DosServes ==
    /\ part = "dosfiles" => DosFilesServe
    /\ part = "dosconsole" => DosConsoleServes
=============================================================================
