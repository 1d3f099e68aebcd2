------------------------------ MODULE DosMachine ------------------------------
(***************************************************************************)
(* A DOS program in virtual 8086 mode: the timer's mark on the task        *)
(* (interrupts/pic.rs), the ways out of the virtual machine                *)
(* (interrupts/exceptions.rs, task/actions/vm.rs), and DOSLAYER's loop,    *)
(* which emulates what faults and delivers interrupts (doslayer main.rs).  *)
(* The layer is not interrupted by what it emulates, so a way out, what    *)
(* the layer does and the way back in are one step.  The program is any    *)
(* sequence of instructions that keeps its own stack in order.             *)
(***************************************************************************)
EXTENDS Naturals, Sequences, SequencesExt

CONSTANTS
    TimerPerTick,    \* TIMER_ACCUM_PER_TICK
    TimerThreshold,  \* TIMER_ACCUM_THRESHOLD
    StackWords,      \* words of the program's stack segment
    FirstSp,         \* initial stack pointers, in words
    MaxNest,         \* bound on the handlers under way
    MachineFlaws     \* what the program may do: "popf" (restore the interrupt flag with POPF),
                     \* "iopl" (load flags with the IOPL bits set), "handler" (CLI and STI in a
                     \* handler), "int8" (hook INT 8)

ASSUME MachineAssumption ==
    /\ TimerPerTick \in 1..TimerThreshold /\ StackWords \in Nat \ {0}
    /\ MachineFlaws \subseteq {"popf", "iopl", "handler", "int8"}

VARIABLES
    regs,     \* where the program is, its carry and trap flags, whether IOPL is 3, and SP
    stack86,  \* the stack segment
    layer,    \* VM86_IF, VM86_IRQ_MASK, TIMER_ACCUM, and the vectors that are hooked
    vmIrqs,   \* vm86_irq_mask and vm86_pending_irqs
    seen      \* what an observer of the program knows, see Observed

machineVars == <<regs, stack86, layer, vmIrqs, seen>>

Vectors == {"int1C", "int09"} \cup (IF "int8" \in MachineFlaws THEN {"int08"} ELSE {})

\* flag: the interrupt flag an 8086 would have at this point; frames: what every
\* handler under way interrupted; late: interrupts since CLI; ticks: timer interrupts
\* counted, modulo the threshold; missed: a tick was due and no hook was
\* called; pushed: the flag at a PUSHF of the program.
Observed == [flag |-> TRUE, frames |-> <<>>, late |-> 0, ticks |-> 0, missed |-> FALSE, pushed |-> <<>>]

Nothing86 == <<"unused">>
FlagsWord(r, s) == <<"flags", r.carry, r.trap, s.flag, r.iopl>>

MachineInit ==
    /\ \E sp \in FirstSp : regs = [at |-> <<"main", 0>>, carry |-> FALSE, trap |-> FALSE, iopl |-> FALSE, sp |-> sp]
    /\ stack86 = [w \in 0..StackWords - 1 |-> Nothing86]
    /\ layer = [enabled |-> TRUE, mask |-> {}, accum |-> 0, hooked |-> {}]
    /\ vmIrqs = [mask |-> {}, pending |-> {}]
    /\ seen = Observed

\* The layer's whole state between two entries.
Machine == [regs |-> regs, stack86 |-> stack86, layer |-> layer, seen |-> seen]

\* SP moves modulo the segment, (esp & 0xffff).wrapping_sub(2).
Down(sp) == (sp + StackWords - 1) % StackWords
Up(sp, n) == (sp + n) % StackWords

PushWord(m, w) ==
    [m EXCEPT !.regs.sp = Down(@), !.stack86[Down(m.regs.sp)] = w]

\* A popped word is not read again.
DropWords(m, n) ==
    [m EXCEPT !.regs.sp = Up(@, n),
              !.stack86 = [a \in DOMAIN @ |->
                  IF \E i \in 0..n - 1 : a = Up(m.regs.sp, i) THEN Nothing86 ELSE @[a]]]

EnterWith(m, mask) ==
    /\ regs' = m.regs /\ stack86' = m.stack86 /\ layer' = m.layer /\ seen' = m.seen
    /\ vmIrqs' = [vmIrqs EXCEPT !.mask = mask]

\* The slip of passing VM86_IRQ_MASK whatever VM86_IF is.
Enter_Unmasked(m) == EnterWith(m, m.layer.mask)

\* enter_8086 with the mask that the loop computes.
Enter(m) == EnterWith(m, IF m.layer.enabled THEN m.layer.mask ELSE {})

-----------------------------------------------------------------------------
(* Interrupts *)

\* handle_pic_interrupt on IRQ 0 while the program runs: the mark and the trap flag.
PitTick ==
    /\ Len(seen.frames) < MaxNest
    /\ "timer" \in vmIrqs.mask
    /\ vmIrqs' = [vmIrqs EXCEPT !.pending = @ \cup {"timer"}]
    /\ regs' = [regs EXCEPT !.trap = TRUE]
    /\ UNCHANGED <<stack86, layer, seen>>

\* FLAGS, CS and IP go on the stack, and the program goes on at the vector.
FrameWith(m, code, cs) ==
    LET f == PushWord(m, FlagsWord(m.regs, m.seen))
        c == PushWord(f, <<"cs", cs>>)
        i == PushWord(c, <<"ip", m.regs.at[2]>>)
    IN [i EXCEPT !.regs.at = <<code, 0>>,
                 !.seen.frames = <<[at |-> m.regs.at, carry |-> m.regs.carry, sp |-> i.regs.sp]>> \o @,
                 !.seen.late = IF m.layer.enabled THEN 0 ELSE @ + 1,
                 !.seen.flag = FALSE]

\* The slip of loading CS before it is pushed.
Interrupt_Late(m, code) == FrameWith(m, code, code)

Interrupt(m, code) == FrameWith(m, code, m.regs.at[1])

\* deliver_pending_irqs: the kernel marks only the timer, whose ticks are divided.
DeliverTimer(m) ==
    LET sum == m.layer.accum + TimerPerTick
        due == sum >= TimerThreshold
        n == [m EXCEPT !.layer.accum = IF due THEN sum - TimerThreshold ELSE sum,
                       !.seen.ticks = (@ + 1) % TimerThreshold,
                       !.seen.missed = @ \/ (due /\ "int08" \in m.layer.hooked /\ "int1C" \notin m.layer.hooked)]
    IN IF due /\ "int1C" \in m.layer.hooked THEN Interrupt(n, "tick") ELSE n

Deliver(m, pending) == IF "timer" \in pending THEN DeliverTimer(m) ELSE m

\* What the processor executes itself.  Under the trap flag it is followed by #DB: the
\* pending interrupts leave the task and the layer delivers them.
Runs(m) ==
    IF ~regs.trap
    THEN regs' = m.regs /\ stack86' = m.stack86 /\ seen' = m.seen /\ UNCHANGED <<layer, vmIrqs>>
    ELSE LET d == Deliver([m EXCEPT !.regs.trap = FALSE], vmIrqs.pending)
         IN /\ regs' = d.regs /\ stack86' = d.stack86 /\ layer' = d.layer /\ seen' = d.seen
            /\ vmIrqs' = [mask |-> IF d.layer.enabled THEN d.layer.mask ELSE {}, pending |-> {}]

Plain == \E carry \in BOOLEAN : Runs([Machine EXCEPT !.regs.at[2] = 1 - @, !.regs.carry = carry])

-----------------------------------------------------------------------------
(* handle_fault: the instructions that fault, emulated; the trap flag stays *)

InHandler == regs.at[1] # "main"
Stepped(m) == [m EXCEPT !.regs.at[2] = 1 - @]

\* With IOPL 3 the instructions on flags do not fault.
Executes(m) == IF regs.iopl THEN Runs(m) ELSE Enter(m)

\* Bound: the program itself pushes flags once, its own or ones it made up.
Pushf ==
    /\ ~InHandler /\ seen.pushed = <<>>
    /\ \E iopl \in {regs.iopl} \cup (IF "iopl" \in MachineFlaws THEN BOOLEAN ELSE {}) :
          Executes(Stepped([PushWord(Machine, [FlagsWord(regs, seen) EXCEPT ![5] = iopl])
                              EXCEPT !.seen.pushed = <<seen.flag>>]))

\* POPF and IRET take the low half of the flags from the stack, the trap flag and the IOPL
\* bits too; without a fault they leave the IOPL bits alone.
WithFlags(m, w) == [m EXCEPT !.regs.carry = w[2], !.regs.trap = w[3], !.seen.flag = w[4],
                             !.regs.iopl = @ \/ w[5]]

Popf ==
    /\ ~InHandler /\ seen.pushed # <<>>
    /\ "popf" \in MachineFlaws \/ seen.pushed[1] = seen.flag
    /\ LET m == DropWords(WithFlags(Machine, stack86[regs.sp]), 1)
       IN Executes(Stepped([m EXCEPT !.seen.pushed = <<>>]))

Iret ==
    /\ InHandler
    /\ LET m == DropWords(WithFlags(Machine, stack86[Up(regs.sp, 2)]), 3)
       IN Executes([m EXCEPT !.regs.at = <<stack86[Up(regs.sp, 1)][2], stack86[regs.sp][2]>>,
                             !.seen.frames = Tail(@)])

Cli ==
    /\ InHandler => "handler" \in MachineFlaws
    /\ Executes(Stepped([Machine EXCEPT !.layer.enabled = @ /\ regs.iopl, !.seen.flag = FALSE,
                                        !.seen.late = IF layer.enabled THEN 0 ELSE @]))

Sti ==
    /\ InHandler => "handler" \in MachineFlaws
    /\ Executes(Stepped([Machine EXCEPT !.layer.enabled = @ \/ ~regs.iopl, !.seen.flag = TRUE, !.seen.late = 0]))

IrqOf(v) == IF v \in {"int08", "int1C"} THEN "timer" ELSE "keyboard"

\* INT 21h AH=25h: the vector, and the line of a hardware interrupt.  A program may
\* put the vector it found back; the mask keeps the line.
SetVector ==
    \E v \in Vectors, hook \in BOOLEAN :
      /\ ~InHandler
      /\ Enter(Stepped([Machine EXCEPT !.layer.hooked = IF hook THEN @ \cup {v} ELSE @ \ {v},
                                     !.layer.mask = @ \cup {IrqOf(v)}]))

MachineNext == PitTick \/ Plain \/ Pushf \/ Popf \/ Iret \/ Cli \/ Sti \/ SetVector

MachineSpec == MachineInit /\ [][MachineNext]_machineVars

-----------------------------------------------------------------------------

\* Every handler under way has its frame on the program's stack as the interrupt found
\* the program, and SP returns to it: IRET goes on where the program was, with its flags.
FramesStand ==
    /\ \A i \in 1..Len(seen.frames) :
         LET f == seen.frames[i] IN
         /\ stack86[f.sp] = <<"ip", f.at[2]>>
         /\ stack86[Up(f.sp, 1)] = <<"cs", f.at[1]>>
         /\ stack86[Up(f.sp, 2)][2] = f.carry
    /\ InHandler => seen.frames # <<>> /\ regs.sp = seen.frames[1].sp

\* While the program holds interrupts off, the timer marks nothing: at most the one
\* interrupt that was marked before CLI is still delivered.
SectionIsHeld == ~layer.enabled => "timer" \notin vmIrqs.mask /\ seen.late <= 1

\* In the program's own code VM86_IF is the interrupt flag an 8086 would have.
FlagIsTrue == ~InHandler => layer.enabled = seen.flag

\* The handler is called at the rate of the DOS timer, and no tick of a hooked timer passes.
TicksAreDivided ==
    /\ layer.accum = (TimerPerTick * seen.ticks) % TimerThreshold
    /\ ~seen.missed

\* Interrupts reach a DOS program as an 8086 would deliver them: the program goes on where
\* it was, its critical sections hold but for one late interrupt, its interrupt flag is the
\* one it set, and its timer hook runs at the divided rate.
MachineIsRight == FramesStand /\ SectionIsHeld /\ FlagIsTrue /\ TicksAreDivided
=============================================================================
