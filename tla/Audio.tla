-------------------------------- MODULE Audio --------------------------------
(***************************************************************************)
(* The Sound Blaster driver (components/drivers/sb16): programs write      *)
(* samples into the ring of their stream, every interrupt mixes the rings  *)
(* into one half of the DMA buffer, and the device plays the buffer round  *)
(* and round, interrupting after each half, whether or not the driver has  *)
(* handled the interrupt before.  The half handle_irq fills is the one the *)
(* device has begun to play, so the sound is right only while the driver   *)
(* is done before the next sample; what it mixes, and the writes it        *)
(* answers, are right whatever its delay.  A sample is <<stream, n>>; what *)
(* is mixed into one place of the buffer is a set of them.                 *)
(***************************************************************************)
EXTENDS Naturals, FiniteSets, Sequences, SequencesExt

CONSTANTS
    MaxStreams,   \* MAX_STREAMS
    RingSamples,  \* RING_SAMPLES
    HalfSamples,  \* DMA_HALF_SAMPLES
    WriteLengths, \* samples in a write
    MaxOpens,     \* bound on the streams opened
    MaxSamples,   \* bound on the samples written to a stream
    AudioFlaws    \* what a program may do: "second" (write while a write waits), "close"
                  \* (before the last sample was heard), "odd" (half a sample)

ASSUME AudioAssumption ==
    /\ {MaxStreams, HalfSamples} \subseteq Nat \ {0}
    /\ RingSamples \in Nat \ {0, 1}
    /\ AudioFlaws \subseteq {"second", "close", "odd"}

VARIABLES
    streams,        \* slot -> [id, ring, pending]; id 0 is no stream
    opened,         \* streams opened so far
    given,          \* stream -> samples given to write
    waitingWrites,  \* writes without an answer: [id, upto]
    audioPlaying,   \* playing
    current_half,
    dma,            \* place -> samples mixed into it
    position,       \* the place the device plays next
    dspIrq,         \* the interrupt was raised and not handled
    played,         \* stream -> the sample of it heard last
    inOrder,        \* each sample heard before late was the one after that
    late            \* a sample was played while an interrupt waited for the driver

deviceVars == <<position, played, inOrder, late>>
audioVars == <<streams, opened, given, waitingWrites, audioPlaying, current_half, dma, dspIrq, deviceVars>>

StreamSlots == 0 .. MaxStreams - 1
StreamIds == 1 .. MaxOpens
DmaPlaces == 0 .. 2 * HalfSamples - 1

\* A pending write has samples next .. upto to go; odd: a byte more.
NoWrite == [next |-> 1, upto |-> 0, odd |-> FALSE]
NoStream == [id |-> 0, ring |-> <<>>, pending |-> NoWrite]

AudioInit ==
    /\ streams = [s \in StreamSlots |-> NoStream]
    /\ opened = 0 /\ given = [i \in StreamIds |-> 0] /\ waitingWrites = {}
    /\ audioPlaying = FALSE /\ current_half = FALSE
    /\ dma = [p \in DmaPlaces |-> {}] /\ position = 0 /\ dspIrq = FALSE
    /\ played = [i \in StreamIds |-> 0] /\ inOrder = TRUE /\ late = FALSE

-----------------------------------------------------------------------------
(* A stream. *)

Space(ring) == RingSamples - 1 - Len(ring)

\* write_samples, for what is left of a write: as much as there is space for.
WriteSamples(st, w) ==
    LET left == w.upto + 1 - w.next
        n == IF left < Space(st.ring) THEN left ELSE Space(st.ring)
        rest == [w EXCEPT !.next = @ + n]
    IN  [st EXCEPT !.ring = @ \o [k \in 1 .. n |-> w.next + k - 1],
                   !.pending = IF rest.next > rest.upto /\ ~rest.odd THEN NoWrite ELSE rest]

-----------------------------------------------------------------------------
(* The device. *)

\* It plays on while the driver has not handled the interrupt; the sound is followed until
\* a sample is played that way.
PlaySample ==
    LET heard(i) == {x[2] : x \in {x \in dma[position] : x[1] = i}} IN
    /\ audioPlaying
    /\ late' = (late \/ dspIrq)
    /\ played' = [i \in StreamIds |-> IF late' THEN 0 ELSE IF heard(i) = {} THEN played[i]
                                      ELSE CHOOSE n \in heard(i) : TRUE]
    /\ inOrder' = (late' \/ (inOrder /\ \A i \in StreamIds : heard(i) \subseteq {played[i] + 1}))
    /\ position' = (position + 1) % (2 * HalfSamples)
    /\ dspIrq' = (dspIrq \/ position' % HalfSamples = 0)
    /\ UNCHANGED <<streams, opened, given, waitingWrites, audioPlaying, current_half, dma>>

-----------------------------------------------------------------------------
(* The driver's loop: an interrupt goes before a message. *)

Mixed(k) == {<<streams[s].id, streams[s].ring[k]>> : s \in {s \in StreamSlots : Len(streams[s].ring) >= k}}

AfterMix(st) == [st EXCEPT !.ring = SubSeq(@, HalfSamples + 1, Len(@))]

\* The half that handle_irq fills.
RefilledHalf == IF current_half THEN 0 ELSE HalfSamples

\* The pending writes go on; those without one stay as they are.
Resumed(st) == IF st.pending = NoWrite THEN AfterMix(st) ELSE WriteSamples(AfterMix(st), st.pending)

RefillDma ==
    /\ dspIrq
    /\ dspIrq' = FALSE
    /\ dma' = [p \in DmaPlaces |-> IF p \in RefilledHalf .. RefilledHalf + HalfSamples - 1
                                   THEN Mixed(p - RefilledHalf + 1) ELSE dma[p]]
    /\ streams' = [s \in StreamSlots |-> Resumed(streams[s])]
    /\ waitingWrites' = {w \in waitingWrites :
                            \E s \in StreamSlots : /\ streams'[s].id = w.id /\ streams'[s].pending # NoWrite
                                                   /\ streams'[s].pending.upto = w.upto}
    /\ UNCHANGED <<opened, given, audioPlaying, deviceVars>>

\* Slip: the halves do not take turns.
HandleAudioIrq_Same == RefillDma /\ UNCHANGED current_half

HandleAudioIrq == RefillDma /\ current_half' = ~current_half

OpenStream ==
    /\ ~dspIrq /\ opened < MaxOpens
    /\ \E s \in StreamSlots :
          /\ streams[s].id = 0 /\ \A r \in StreamSlots : r < s => streams[r].id # 0
          /\ streams' = [streams EXCEPT ![s].id = opened + 1]
    /\ opened' = opened + 1
    /\ UNCHANGED <<given, waitingWrites, audioPlaying, current_half, dma, dspIrq, deviceVars>>

\* The first write starts the device at the first place of the buffer.
WriteAudio ==
    \E s \in StreamSlots, n \in WriteLengths, odd \in BOOLEAN :
        LET st == streams[s]
            w == [next |-> given[st.id] + 1, upto |-> given[st.id] + n, odd |-> odd]
        IN  /\ ~dspIrq /\ st.id # 0
            /\ given[st.id] + n <= MaxSamples
            /\ "second" \in AudioFlaws \/ st.pending = NoWrite
            /\ "odd" \in AudioFlaws \/ ~odd
            /\ audioPlaying' = TRUE
            /\ position' = IF audioPlaying THEN position ELSE 0
            /\ streams' = [streams EXCEPT ![s] = WriteSamples(st, w)]
            /\ given' = [given EXCEPT ![st.id] = @ + n]
            /\ waitingWrites' = IF streams'[s].pending = NoWrite THEN waitingWrites
                                ELSE waitingWrites \union {[id |-> st.id, upto |-> w.upto]}
            /\ UNCHANGED <<opened, current_half, dma, dspIrq, played, inOrder, late>>

\* Nothing of the stream is left in its ring, in a write or in the buffer.
Drained(st) ==
    /\ st.ring = <<>> /\ st.pending = NoWrite
    /\ \A p \in DmaPlaces : \A x \in dma[p] : x[1] # st.id

\* With the last stream the device stops.
CloseStream ==
    \E s \in StreamSlots :
        /\ ~dspIrq /\ streams[s].id # 0
        /\ "close" \in AudioFlaws \/ Drained(streams[s])
        /\ streams' = [streams EXCEPT ![s] = NoStream]
        /\ audioPlaying' = (audioPlaying /\ \E r \in StreamSlots \ {s} : streams[r].id # 0)
        /\ UNCHANGED <<opened, given, waitingWrites, current_half, dma, dspIrq, deviceVars>>

AudioNext == PlaySample \/ HandleAudioIrq \/ OpenStream \/ WriteAudio \/ CloseStream

AudioSpec == AudioInit /\ [][AudioNext]_audioVars

-----------------------------------------------------------------------------
\* A driver that is done before the next sample lets every sample be heard once and in its
\* order.  Whatever its delay, the samples it has not mixed are the last ones given, in their
\* order, first in the ring and then in the write that waits; a write without an answer is held
\* by its stream, which is full, and the device is running, so that an interrupt will take it on.
HeardInOrder ==
    /\ inOrder
    /\ \A s \in StreamSlots :
          LET st == streams[s]
              kept == st.ring \o [k \in 1 .. st.pending.upto + 1 - st.pending.next |-> st.pending.next + k - 1]
          IN  st.id # 0 => kept = [k \in 1 .. Len(kept) |-> given[st.id] - Len(kept) + k]
    /\ waitingWrites = {[id |-> streams[s].id, upto |-> streams[s].pending.upto] :
                           s \in {s \in StreamSlots : streams[s].pending # NoWrite}}
    /\ \A s \in StreamSlots : streams[s].pending # NoWrite => Space(streams[s].ring) = 0 /\ audioPlaying
=============================================================================
