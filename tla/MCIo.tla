--------------------------------- MODULE MCIo ---------------------------------
(***************************************************************************)
(* The kernel's sources of I/O completions, each on its own machine:       *)
(* messages, files, a pipe, a child task and interrupts, and the console:  *)
(* its keyboard, its windows and its terminals.  They share no state; a    *)
(* behaviour is one of the component named by part.                        *)
(***************************************************************************)
EXTENDS Messages, Files, Pipe, Providers, ConsoleInput, Windows, Terminal

CONSTANT Parts  \* the components in question

VARIABLE part

consVars == <<inputVars, windowVars, termVars>>
ioVars == <<ncpus, part, msgVars, fileVars, pipeVars, childVars, irqVars, consVars>>

MCLineOf == [kbd |-> 1, mouse |-> 2, log |-> 1]

Down(k) == [press |-> TRUE, key |-> k]
Up(k) == [press |-> FALSE, key |-> k]

MCKeyProfiles == {{Down("c"), Down("enter"), Down("back")},
                  {Down("c"), Down("ctrl"), Up("ctrl"), Down("enter")},
                  {Down("alt"), Up("alt"), Down("tab")},
                  {Prefix, Down("enter"), Down("c")}}

SenderSymmetry == Permutations(Senders)

IoInit ==
    /\ part \in Parts
    /\ MsgInit /\ FilesInit /\ PipeInit /\ ChildInit /\ IrqInit
    /\ ConsoleInit /\ WindowsInit /\ TermInit
    \* what a component does not look at is not varied for it
    /\ part \in {"files", "keyboard", "windows", "terminal"} => Uniprocessor
    /\ part # "keyboard" => keys = CHOOSE k \in KeyProfiles : TRUE
    /\ part # "child" => ~early

MsgPart == part = "messages" /\ MsgNext /\ UNCHANGED <<part, fileVars, pipeVars, childVars, irqVars, consVars>>
FilesPart == part = "files" /\ FilesNext /\ UNCHANGED <<part, msgVars, pipeVars, childVars, irqVars, consVars>>
PipePart == part = "pipe" /\ PipeNext /\ UNCHANGED <<part, msgVars, fileVars, childVars, irqVars, consVars>>
ChildPart == part = "child" /\ ChildNext /\ UNCHANGED <<part, msgVars, fileVars, pipeVars, irqVars, consVars>>
IrqPart == part = "irq" /\ IrqNext /\ UNCHANGED <<part, msgVars, fileVars, pipeVars, childVars, consVars>>

kernelVars == <<msgVars, fileVars, pipeVars, childVars, irqVars>>

KeyboardPart == part = "keyboard" /\ ConsoleNext /\ UNCHANGED <<part, kernelVars, windowVars, termVars>>
WindowsPart == part = "windows" /\ WindowsNext /\ UNCHANGED <<part, ncpus, kernelVars, inputVars, termVars>>
TerminalPart == part = "terminal" /\ TermNext /\ UNCHANGED <<part, ncpus, kernelVars, inputVars, windowVars>>

IoNext ==
    \/ MsgPart \/ FilesPart \/ PipePart \/ ChildPart \/ IrqPart
    \/ KeyboardPart \/ WindowsPart \/ TerminalPart

IoSpec == IoInit /\ [][IoNext]_ioVars
=============================================================================
