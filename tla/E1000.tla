--------------------------------- MODULE E1000 ---------------------------------
(***************************************************************************)
(* The Ethernet driver, components/drivers/e1000 (the kernel's older copy  *)
(* is hardware/ethernet): its receive and transmit rings against the       *)
(* controller, its main loop against interrupts and the network stack.     *)
(* The controller acts between any two steps of the driver; its line stays *)
(* up until the cause register is read.                                    *)
(***************************************************************************)
EXTENDS Integers, Sequences, Functions

CONSTANTS
    RxDescs,   \* RX_DESC_COUNT
    TxDescs,   \* TX_DESC_COUNT
    MaxFrames, \* bound on the frames that arrive, and on those that are written
    EthFlaws   \* what the passing run leaves out: "full": more frames are written
               \* than the transmit ring has descriptors for

ASSUME E1000Assumption == RxDescs \in Nat \ {0, 1} /\ TxDescs \in Nat \ {0, 1}

VARIABLES
    rxRing,    \* frame in each receive descriptor that is done, 0 if not done
    rdh, rdt,  \* head and tail register of the receive ring
    rxIndex,   \* rx_ring_index
    freed,     \* the descriptor the driver is about to give back
    txRing,    \* frame in each transmit buffer
    tdh, tdt,  \* head and tail register of the transmit ring
    txIndex,   \* tx_ring_index
    icr,       \* a cause is set in the controller
    lineMask,  \* the kernel masked the line, until the driver acknowledges
    intDone,   \* interrupt_read is complete
    ethPc,     \* where the main loop is
    mailbox,   \* requests of the stack to the driver
    pendRead,  \* pending_read
    rxCount,   \* frames the controller took in
    got,       \* frames given to the stack
    txCount,   \* frames the stack wrote
    left       \* frames on the wire

ethVars == <<rxRing, rdh, rdt, rxIndex, freed, txRing, tdh, tdt, txIndex, icr, lineMask, intDone,
             ethPc, mailbox, pendRead, rxCount, got, txCount, left>>
rxState == <<rxRing, rdh, rdt, rxIndex, freed, rxCount, got>>
txState == <<txRing, tdh, tdt, txIndex, txCount, left>>

\* EthernetDriver::new
E1000Init ==
    /\ rxRing = [i \in 0..RxDescs - 1 |-> 0] /\ rdh = 0 /\ rdt = RxDescs - 1 /\ rxIndex = 0 /\ freed = 0
    /\ txRing = [i \in 0..TxDescs - 1 |-> 0] /\ tdh = 0 /\ tdt = 0 /\ txIndex = 0
    /\ icr = FALSE /\ lineMask = FALSE /\ intDone = FALSE
    /\ ethPc = "loop" /\ mailbox = <<>> /\ pendRead = FALSE
    /\ rxCount = 0 /\ got = <<>> /\ txCount = 0 /\ left = <<>>

NextRx(i) == (i + 1) % RxDescs
NextTx(i) == (i + 1) % TxDescs

-----------------------------------------------------------------------------
(* The controller and the kernel's interrupt handler *)

\* A frame is stored while the head has not reached the tail.
FrameArrives ==
    /\ rxCount < MaxFrames /\ rdh # rdt
    /\ rxCount' = rxCount + 1
    /\ rxRing' = [rxRing EXCEPT ![rdh] = rxCount']
    /\ rdh' = NextRx(rdh) /\ icr' = TRUE
    /\ UNCHANGED <<rdt, rxIndex, freed, got, txState, lineMask, intDone, ethPc, mailbox, pendRead>>

FrameLeaves ==
    /\ tdh # tdt
    /\ left' = Append(left, txRing[tdh]) /\ tdh' = NextTx(tdh)
    /\ UNCHANGED <<rxState, txRing, tdt, txIndex, txCount, icr, lineMask, intDone, ethPc, mailbox, pendRead>>

InterruptFires ==
    /\ icr /\ ~lineMask
    /\ lineMask' = TRUE /\ intDone' = TRUE
    /\ UNCHANGED <<rxState, txState, icr, ethPc, mailbox, pendRead>>

-----------------------------------------------------------------------------
(* The network stack: one read at a time, writes as they come. *)

StackReads ==
    /\ ~pendRead /\ ethPc = "loop" /\ "read" \notin Range(mailbox)
    /\ mailbox' = Append(mailbox, "read")
    /\ UNCHANGED <<rxState, txState, icr, lineMask, intDone, ethPc, pendRead>>

InFlight == (tdt - tdh) % TxDescs

StackWrites ==
    /\ txCount < MaxFrames /\ "write" \notin Range(mailbox)
    /\ "full" \notin EthFlaws => InFlight < TxDescs - 1
    /\ mailbox' = Append(mailbox, "write")
    /\ UNCHANGED <<rxState, txState, icr, lineMask, intDone, ethPc, pendRead>>

-----------------------------------------------------------------------------
(* EthernetDevice::read: the frame is copied and its descriptor cleared ... *)

\* The slip of leaving the status as it is.
TakeFrame_Uncleared ==
    /\ got' = Append(got, rxRing[rxIndex])
    /\ freed' = rxIndex /\ rxIndex' = NextRx(rxIndex)
    /\ UNCHANGED <<rxRing, rdh, rdt, rxCount>>

TakeFrame ==
    /\ got' = Append(got, rxRing[rxIndex])
    /\ rxRing' = [rxRing EXCEPT ![rxIndex] = 0]
    /\ freed' = rxIndex /\ rxIndex' = NextRx(rxIndex)
    /\ UNCHANGED <<rdh, rdt, rxCount>>

\* ... and given back (the end of mark_current_rx_read).
GiveBack(pc, next) ==
    /\ ethPc = pc /\ ethPc' = next /\ rdt' = freed
    /\ UNCHANGED <<rxRing, rdh, rxIndex, freed, rxCount, got>>

\* The main loop, interrupt_read.is_complete(): the cause is read and cleared.
HandleInterrupt ==
    /\ ethPc = "loop" /\ intDone
    /\ icr' = FALSE /\ ethPc' = IF icr THEN "serve" ELSE "ack"
    /\ UNCHANGED <<rxState, txState, lineMask, intDone, mailbox, pendRead>>

ServePending ==
    /\ ethPc = "serve"
    /\ IF rxRing[rxIndex] # 0 /\ pendRead
       THEN TakeFrame /\ pendRead' = FALSE /\ ethPc' = "give"
       ELSE ethPc' = "ack" /\ UNCHANGED <<rxState, pendRead>>
    /\ UNCHANGED <<txState, icr, lineMask, intDone, mailbox>>

GiveBackServed == GiveBack("give", "ack") /\ UNCHANGED <<txState, icr, lineMask, intDone, mailbox, pendRead>>

\* The write to the interrupt handle, and the next read of it.
Acknowledge ==
    /\ ethPc = "ack"
    /\ lineMask' = FALSE /\ intDone' = FALSE /\ ethPc' = "loop"
    /\ UNCHANGED <<rxState, txState, icr, mailbox, pendRead>>

\* handle_request for a read.
HandleRead ==
    /\ ethPc = "loop" /\ ~intDone /\ mailbox # <<>> /\ Head(mailbox) = "read"
    /\ mailbox' = Tail(mailbox)
    /\ IF rxRing[rxIndex] # 0
       THEN TakeFrame /\ ethPc' = "giveread" /\ UNCHANGED pendRead
       ELSE ethPc' = "pend" /\ UNCHANGED <<rxState, pendRead>>
    /\ UNCHANGED <<txState, icr, lineMask, intDone>>

GiveBackRead == GiveBack("giveread", "loop") /\ UNCHANGED <<txState, icr, lineMask, intDone, mailbox, pendRead>>

Pend ==
    /\ ethPc = "pend" /\ pendRead' = TRUE /\ ethPc' = "loop"
    /\ UNCHANGED <<rxState, txState, icr, lineMask, intDone, mailbox>>

HandleWrite ==
    /\ ethPc = "loop" /\ ~intDone /\ mailbox # <<>> /\ Head(mailbox) = "write"
    /\ mailbox' = Tail(mailbox) /\ txCount' = txCount + 1
    /\ txRing' = [txRing EXCEPT ![txIndex] = txCount']
    /\ txIndex' = NextTx(txIndex) /\ tdt' = NextTx(txIndex)
    /\ UNCHANGED <<tdh, left, rxState, ethPc, icr, lineMask, intDone, pendRead>>

E1000Next ==
    \/ FrameArrives \/ FrameLeaves \/ InterruptFires \/ StackReads \/ StackWrites
    \/ HandleInterrupt \/ ServePending \/ GiveBackServed \/ Acknowledge
    \/ HandleRead \/ GiveBackRead \/ Pend \/ HandleWrite

E1000Spec == E1000Init /\ [][E1000Next]_ethVars

-----------------------------------------------------------------------------
(* Properties. *)

\* The stack gets every frame the controller took in, once and in order: no
\* descriptor is given back before it was read (mark_current_rx_read).  Frames
\* leave in the order of the writes, none lost, none twice (tx).
FramesInOrder ==
    /\ got = [i \in 1..Len(got) |-> i]
    /\ left = [i \in 1..Len(left) |-> i]

\* A read that waits while a frame is there will be served: an interrupt is
\* pending or its cause is still set, whatever came between (the main loop).
ReadIsServed ==
    pendRead /\ ethPc \in {"loop", "ack"} /\ rxRing[rxIndex] # 0 => icr \/ (intDone /\ ethPc = "loop")

\* Frames pass the card in order, and none waits beside a read for it.
FramesArrive == FramesInOrder /\ ReadIsServed
=============================================================================
