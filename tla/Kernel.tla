-------------------------------- MODULE Kernel --------------------------------
(***************************************************************************)
(* What the models of the kernel's operations share.  Every IDT entry is   *)
(* an interrupt gate and kernel tasks inherit the cleared interrupt flag,  *)
(* so a task inside the kernel keeps its CPU until it yields.  The number  *)
(* of processors is found out at boot: with one, a kernel call is atomic   *)
(* up to the point where it blocks; with more, calls interleave wherever   *)
(* they hold no common lock.                                               *)
(***************************************************************************)
EXTENDS Naturals, Sequences, FiniteSets

CONSTANTS
    CpuCounts,  \* the numbers of processors a machine may have
    None        \* no value

ASSUME CpuAssumption == CpuCounts \subseteq Nat \ {0}

VARIABLE ncpus  \* processors of this machine, fixed at boot

Boot == ncpus \in CpuCounts

\* A task may enter the kernel, or go on after a wait, when a CPU is not taken
\* by one of the tasks already inside.
CpuFree(inside) == Cardinality(inside) < ncpus

Uniprocessor == ncpus = 1
=============================================================================
